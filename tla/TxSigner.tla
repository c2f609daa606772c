------------------------------- MODULE TxSigner -------------------------------
(***************************************************************************)
(* What the application promises its user: it serves one request at a      *)
(* time, and what it gives out for a request is what the user reviewed.    *)
(* It says nothing of APDUs, buffers, screens or globals: AppSession       *)
(* implements it (ImplementsTxSigner).                                     *)
(***************************************************************************)

CONSTANTS
    Paths,         \* derivation paths
    Transactions,  \* the transactions a host may ask to sign, and Unread
    Unread,        \* no transaction: the digest that was never computed
    Whole          \* the transactions that can be read to their end

VARIABLES
    request,   \* what waits for the user
    reviewed,  \* a transaction that waits was on the display, item by item
    response   \* what the host has of the last request

signerVars == <<request, reviewed, response>>

Requests == [kind: {"sign", "key"}, path: Paths, tx: Transactions]

NoRequest == [kind |-> "none", path |-> <<>>, tx |-> Unread]
NoResponse == [kind |-> "none", path |-> <<>>, tx |-> Unread]
Refusal == [kind |-> "other", path |-> <<>>, tx |-> Unread]

KeyOf(path) == [kind |-> "key", path |-> path, tx |-> Unread]
SignatureOf(r) ==
    [kind |-> "signature", path |-> r.path, tx |-> IF r.tx \in Whole THEN r.tx ELSE Unread]

\* A request ends with a response.
Close(r) ==
    /\ request' = NoRequest
    /\ reviewed' = FALSE
    /\ response' = r

Ask ==
    /\ request = NoRequest
    /\ request' \in Requests
    /\ reviewed' = FALSE
    /\ response' = NoResponse

\* The host may get anything at once but a signature.
AnswerAtOnce ==
    /\ request = NoRequest
    /\ \/ response' = Refusal
       \/ response'.path \in Paths /\ response' = KeyOf(response'.path)
    /\ UNCHANGED <<request, reviewed>>

Review ==
    /\ request.kind = "sign"
    /\ reviewed' = TRUE
    /\ UNCHANGED <<request, response>>

Sign ==
    /\ request.kind = "sign"
    /\ reviewed
    /\ Close(SignatureOf(request))

GiveKey ==
    /\ request.kind = "key"
    /\ Close(KeyOf(request.path))

Decline ==
    /\ request # NoRequest
    /\ Close(Refusal)

\* The link or the power is lost.
Lose == Close(NoResponse)

Init ==
    /\ request = NoRequest
    /\ reviewed = FALSE
    /\ response = NoResponse

Next ==
    \/ Ask
    \/ AnswerAtOnce
    \/ Review
    \/ Sign
    \/ GiveKey
    \/ Decline
    \/ Lose

Spec == Init /\ [][Next]_signerVars
=============================================================================
