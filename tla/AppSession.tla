------------------------------ MODULE AppSession ------------------------------
(***************************************************************************)
(* The application around the assembler: app_main's loop, which answers    *)
(* one APDU at a time, handleApdu's dispatch, the two commands that run    *)
(* (src/src/getPubkey.c and src/src/signLegacyTransaction.c) and the       *)
(* screens on which the user reviews and decides.  An answer that waits    *)
(* for the user is sent by the screen's callback, from the globals as they *)
(* are at that moment: G_command, chainID, G_publicKey.                    *)
(*                                                                         *)
(* The parser is a constant here (Parsed; see TxParser): what processTx    *)
(* does with the bytes of each transaction.  A value the parser stores is  *)
(* named by the content of the transaction it was read from, Unknown       *)
(* when it was never stored.                                               *)
(***************************************************************************)
EXTENDS ApduAssembler, TxFields

CONSTANTS
    Parsed,      \* the parser's result for each content
    Exceptions,  \* what the system calls may throw (keys, cryptography)
    MaxBacks     \* bound: steps back the user takes in one review

VARIABLES
    messageHash,  \* G_command.message_hash: the content it is the hash of
    txContent,    \* app_main's txContent: field -> the content it is from
    chainID,      \* the global chainID: the content it is from
    publicKey,    \* G_publicKey: the path whose key it holds, as a set
    summary,      \* G_transaction_summary: the items in use, in order
    screen,       \* the flow on the display, and what it has displayed
    pending,      \* an APDU waits for its answer (IO_ASYNCH_REPLY)
    answer        \* the host's last answer, none while it waits for one

sessionVars == <<assemblerVars, messageHash, txContent, chainID, publicKey,
                 summary, screen, pending, answer>>

-----------------------------------------------------------------------------
(* What a transaction is made of.                                          *)

Unknown == 0
ContentFields == {"to", "value", "nonce", "gasprice", "startgas", "ratio"}
Contents == {a.content : a \in Apdus} \cup {Unknown}

MAX_INT256 == 32  \* bytes that processNonce and its like take at most

\* finished: processTx returned USTREAM_FINISHED; writes: what it stored;
\* size: the bytes of each number it stored; wideValue: the amount has too
\* many digits for the text buffer.
ParseResult == [finished: BOOLEAN, writes: SUBSET (ContentFields \cup {"chainID"}),
                size: [Numbers -> 0 .. MAX_INT256], wideValue: BOOLEAN]

\* getTxType.
TypeOf ==
    [SignLegacyTransaction |-> "Legacy", SignValueTransfer |-> "ValueTransfer",
     SignValueTransferMemo |-> "ValueTransferMemo",
     SignSmartContractDeploy |-> "SmartContractDeploy",
     SignSmartContractExecution |-> "SmartContractExecution", SignCancel |-> "Cancel"]

\* The last conjunct is what TxParser shows of a transaction it finishes.
ASSUME ParsedAssumption ==
    /\ Unknown \notin {a.content : a \in Apdus}
    /\ Parsed \in [Contents -> ParseResult]
    /\ ~Parsed[Unknown].finished /\ Parsed[Unknown].writes = {}
    /\ \A a \in Apdus : (a.ins \in TransactionIns /\ Parsed[a.content].finished)
          => Determined(TypeOf[a.ins]) \subseteq Parsed[a.content].writes

Success == 36864              \* ApduReplySuccess, 0x9000
Rejected == 27013             \* 0x6985
NoApduReceived == 27010       \* ApduReplyNoApduReceived, 0x6982
SdkExceptionIoReset == 26646  \* 0x6816: app_main hands it to main, see IoReset
UnimplementedInstruction == 27904  \* 0x6d00
SummaryUpdateFailed == 28417  \* ApduReplyKlaytnSummaryUpdateFailed, 0x6f01

ErrorCode ==
    [SdkInvalidParameter |-> 26626, InvalidMessage |-> 27264, InvalidMessageHeader |-> 27265,
     InvalidMessageSize |-> 27267, UnimplementedInstruction |-> UnimplementedInstruction]

ASSUME ExceptionsAssumption == Exceptions \subseteq (0 .. UINT16_MAX) \ {Success, SdkExceptionIoReset}
ASSUME MaxBacksAssumption == MaxBacks \in Nat

\* Mutant: an internal error is not cut to the bits the word has for it:
\* 0x6800 | e, which sets the bits 11, 13 and 14 of e.
MutantStatusWord(e) ==
    LET set(power) == IF (e \div power) % 2 = 1 THEN 0 ELSE power
    IN  IF e \div 4096 \in {6, 9} THEN e ELSE e + set(2048) + set(8192) + set(16384)

\* app_main, lines 132-144.
StatusWord(e) == IF e \div 4096 \in {6, 9} THEN e ELSE 26624 + (e % 2048)

\* The bytes of a transaction: one APDU, possibly without any byte.
ContentOf(c) == IF c.message = <<>> THEN Unknown ELSE c.message[1].content

-----------------------------------------------------------------------------
(* The summary of a transaction.  An item is the field it displays, where  *)
(* the value comes from and whether the whole of it is displayed.  The     *)
(* recipient is a pointer into txContent: it is read when the item is      *)
(* displayed.                                                              *)

PartialFeeDelegated == 2

\* print_legacy_transaction_info ... print_cancel_info.
SummaryFields(ins, p1) ==
    LET fees == <<"nonce", "gasprice", "startgas">>
        ratio == IF p1 = PartialFeeDelegated THEN <<"ratio">> ELSE <<>>
    IN  CASE ins = "SignLegacyTransaction" -> <<"method", "value", "to">> \o fees
          [] ins \in {"SignValueTransfer", "SignValueTransferMemo"} ->
                <<"method", "value", "to">> \o fees \o ratio
          [] ins = "SignSmartContractDeploy" -> <<"method", "amount">> \o fees \o ratio
          [] ins = "SignSmartContractExecution" -> <<"method", "amount", "to">> \o fees \o ratio
          [] ins = "SignCancel" -> <<"method">> \o fees \o ratio

ItemFields == ContentFields \cup {"method", "amount"}
Item == [field: ItemFields, source: Contents, whole: BOOLEAN]

\* Mutant: the loop ends a byte early.
MutantConvert(size) == IF size < 7 THEN size ELSE 7

\* How many bytes it keeps of a number of this size: the first eight.  Without
\* the others it is another number.
convertUint256ToUint64(size) == IF size < 8 THEN size ELSE 8

ShownWhole(f, c) == f \in Numbers => convertUint256ToUint64(Parsed[c].size[f]) = Parsed[c].size[f]

\* The method name and the amount of a contract are not read from txContent
\* (info->amount is never assigned): their source is Unknown.
SummaryOf(ins, p1, content) ==
    [i \in DOMAIN SummaryFields(ins, p1) |->
        LET f == SummaryFields(ins, p1)[i]
            c == IF f \in ContentFields THEN content[f] ELSE Unknown
        IN  [field |-> f, source |-> c, whole |-> ShownWhole(f, c)]]

\* Mutant: the summary is made of the transaction before.
MutantAfterParsing(tx) == txContent

\* What processTx leaves in txContent and in chainID.
AfterParsing(tx) ==
    [f \in ContentFields |-> IF f \in Parsed[tx].writes THEN tx ELSE txContent[f]]
ChainAfterParsing(tx) == IF "chainID" \in Parsed[tx].writes THEN tx ELSE chainID

-----------------------------------------------------------------------------
(* Screens.  A review has one step per item, then Approve, then Reject; a  *)
(* public key has the address, then Approve, then Reject.                  *)

Idle == [kind |-> "idle", index |-> 0, backs |-> 0, shown |-> {}, path |-> <<>>, tx |-> Unknown]

Screen == [kind: {"idle", "pubkey", "sign"}, index: Nat, backs: Nat,
           shown: SUBSET [index: Nat, field: ItemFields \cup {"address"}, source: Contents,
                          whole: BOOLEAN],
           path: Seq(Nat), tx: Contents]

ItemSteps == IF screen.kind = "sign" THEN Len(summary) ELSE 1
ApproveStep == ItemSteps + 1
RejectStep == ItemSteps + 2

Nothing == [kind |-> "none", hash |-> Unknown, path |-> <<>>, chain |-> Unknown]
Data == [kind: {"none", "configuration", "key", "signature"},
         hash: Contents, path: Seq(Nat), chain: Contents]

NoAnswer == [sw |-> 0, data |-> Nothing]

Reply(sw, data) == answer' = [sw |-> sw, data |-> data]

\* What the display shows for item i: the recipient is read from txContent.
Displayed(i) ==
    [index |-> i, field |-> summary[i].field, whole |-> summary[i].whole,
     source |-> IF summary[i].field = "to" THEN txContent["to"] ELSE summary[i].source]

IsItem(i) == screen.kind = "sign" /\ i <= ItemSteps

\* The outcomes of printing step i; an amount never stored may be anything.
PrintOutcomes(i) ==
    IF ~IsItem(i) \/ summary[i].field # "value" THEN {"printed"}
    ELSE IF summary[i].source = Unknown THEN {"printed", "failed"}
    ELSE IF Parsed[summary[i].source].wideValue THEN {"failed"} ELSE {"printed"}

-----------------------------------------------------------------------------
(* An APDU arrives and is dispatched (handleApdu).                         *)

\* External: the transport hands over no APDU before the last is answered.
Deliver(a) == ~pending /\ HostSends(a) /\ HandleMessage(a)

\* Clearing G_command clears the hash it holds.
ClearedHash(a) == IF HeaderCheck(a) = "Ok" /\ Replaces(a) THEN Unknown ELSE messageHash

\* The part of the state that an APDU answered at once leaves alone.
ReviewState == <<txContent, chainID, summary, screen, pending>>

Refuse(a) ==
    /\ Deliver(a)
    /\ reply' # "Ok"
    /\ Reply(StatusWord(ErrorCode[reply']), Nothing)
    /\ messageHash' = ClearedHash(a)
    /\ UNCHANGED <<ReviewState, publicKey>>

Completes(a) ==
    /\ Deliver(a)
    /\ reply' = "Ok"
    /\ command'.state = "Complete"

ContinueTransfer(a) ==
    /\ Deliver(a)
    /\ reply' = "Ok"
    /\ command'.state = "InProgress"
    /\ Reply(Success, Nothing)
    /\ messageHash' = ClearedHash(a)
    /\ UNCHANGED <<ReviewState, publicKey>>

GetAppConfiguration(a) ==
    /\ a.ins \in ConfigIns
    /\ Completes(a)
    /\ Reply(Success, [Nothing EXCEPT !.kind = "configuration"])
    /\ messageHash' = ClearedHash(a)
    /\ UNCHANGED <<ReviewState, publicKey>>

\* The message instructions are assembled, and then have no handler.
RefuseMessage(a) ==
    /\ a.ins \in MessageIns
    /\ Completes(a)
    /\ Reply(UnimplementedInstruction, Nothing)
    /\ messageHash' = ClearedHash(a)
    /\ UNCHANGED <<ReviewState, publicKey>>

\* Mutant: the flow is put on the display before the key is derived.
MutantPubkeyFails(a, e) ==
    /\ a.ins \in PubkeyIns
    /\ Completes(a)
    /\ Reply(StatusWord(e), Nothing)
    /\ screen' = [Idle EXCEPT !.kind = "pubkey", !.index = 1, !.path = command'.path]
    /\ messageHash' = ClearedHash(a)
    /\ UNCHANGED <<txContent, chainID, summary, pending, publicKey>>

\* handle_get_pubkey: the key cannot be derived ...
PubkeyFails(a, e) ==
    /\ a.ins \in PubkeyIns
    /\ Completes(a)
    /\ Reply(StatusWord(e), Nothing)
    /\ publicKey' \in {publicKey, {}}
    /\ messageHash' = ClearedHash(a)
    /\ UNCHANGED ReviewState

\* ... or is sent at once ...
SendPubkey(a) ==
    /\ a.ins \in PubkeyIns
    /\ Completes(a)
    /\ command'.nonConfirm
    /\ publicKey' = {command'.path}
    /\ Reply(Success, [Nothing EXCEPT !.kind = "key", !.path = command'.path])
    /\ messageHash' = ClearedHash(a)
    /\ UNCHANGED ReviewState

\* Mutant: a key derived before is shown again as the one asked for.
MutantShowPubkey(a) ==
    /\ a.ins \in PubkeyIns
    /\ Completes(a)
    /\ ~command'.nonConfirm
    /\ publicKey' = IF publicKey = {} THEN {command'.path} ELSE publicKey
    /\ screen' = [Idle EXCEPT !.kind = "pubkey", !.index = 1, !.path = command'.path]
    /\ pending' = TRUE
    /\ messageHash' = ClearedHash(a)
    /\ answer' = NoAnswer
    /\ UNCHANGED <<txContent, chainID, summary>>

\* ... or shown first.
ShowPubkey(a) ==
    /\ a.ins \in PubkeyIns
    /\ Completes(a)
    /\ ~command'.nonConfirm
    /\ publicKey' = {command'.path}
    /\ screen' = [Idle EXCEPT !.kind = "pubkey", !.index = 1, !.path = command'.path,
                              !.shown = {[index |-> 1, field |-> "address", source |-> Unknown,
                                          whole |-> TRUE]}]
    /\ pending' = TRUE
    /\ messageHash' = ClearedHash(a)
    /\ answer' = NoAnswer
    /\ UNCHANGED <<txContent, chainID, summary>>

\* handle_sign_legacy_transaction: the hash is lost to the cryptographic
\* library, before the parser runs or after it is finished.
HashingFails(a, e) ==
    /\ a.ins \in TransactionIns
    /\ Completes(a)
    /\ \/ UNCHANGED <<txContent, chainID>>
       \/ /\ Parsed[ContentOf(command')].finished
          /\ txContent' = AfterParsing(ContentOf(command'))
          /\ chainID' = ChainAfterParsing(ContentOf(command'))
    /\ Reply(StatusWord(e), Nothing)
    /\ messageHash' = ClearedHash(a)
    /\ UNCHANGED <<summary, screen, pending, publicKey>>

\* handle_sign_legacy_transaction and its _ui: the transaction is parsed,
\* summarised and put on the display, whatever the parser returned.
ShowTransaction(a) ==
    LET tx == ContentOf(command') IN
    /\ a.ins \in TransactionIns
    /\ Completes(a)
    /\ txContent' = AfterParsing(tx)
    /\ chainID' = ChainAfterParsing(tx)
    /\ messageHash' = IF Parsed[tx].finished THEN tx ELSE ClearedHash(a)
    /\ summary' = SummaryOf(a.ins, a.p1, txContent')
    /\ screen' = [Idle EXCEPT !.kind = "sign", !.index = 1, !.path = command'.path, !.tx = tx,
                              !.shown = {[index |-> 1, field |-> "method", source |-> Unknown,
                                          whole |-> TRUE]}]
    /\ pending' = TRUE
    /\ answer' = NoAnswer
    /\ UNCHANGED publicKey

HandleApdu(a) ==
    \/ Refuse(a)
    \/ ContinueTransfer(a)
    \/ GetAppConfiguration(a)
    \/ RefuseMessage(a)
    \/ SendPubkey(a)
    \/ ShowPubkey(a)
    \/ ShowTransaction(a)
    \/ \E e \in Exceptions : PubkeyFails(a, e) \/ HashingFails(a, e)

\* io_exchange returns without an APDU.
NoApdu ==
    /\ ~pending
    /\ Reply(NoApduReceived, Nothing)
    /\ UNCHANGED <<assemblerVars, messageHash, publicKey, ReviewState>>

-----------------------------------------------------------------------------
(* The user.                                                               *)

ScreenFrame == <<assemblerVars, messageHash, txContent, chainID, publicKey, summary>>

\* transaction_summary_display_item fails: the exception reaches app_main,
\* which answers the request, if there is one, and leaves the display alone.
PrintFails ==
    IF pending
    THEN pending' = FALSE /\ Reply(StatusWord(SummaryUpdateFailed), Nothing)
    ELSE UNCHANGED <<pending, answer>>

\* Step i comes on the display; the step of an item prints it first.
ShowStep(i, backs) ==
    /\ \/ /\ "printed" \in PrintOutcomes(i)
          /\ screen' = [screen EXCEPT !.index = i, !.backs = backs,
                                      !.shown = IF IsItem(i) THEN @ \cup {Displayed(i)} ELSE @]
          /\ UNCHANGED <<pending, answer>>
       \/ /\ "failed" \in PrintOutcomes(i)
          /\ screen' = [screen EXCEPT !.index = i, !.backs = backs]
          /\ PrintFails
    /\ UNCHANGED ScreenFrame

Forward ==
    /\ screen.kind # "idle"
    /\ screen.index < RejectStep
    /\ ShowStep(screen.index + 1, screen.backs)

Back ==
    /\ screen.kind # "idle"
    /\ screen.index > 1
    /\ screen.backs < MaxBacks
    /\ ShowStep(screen.index - 1, screen.backs + 1)

\* sendResponse.  External: with no APDU to answer, io_exchange may return,
\* and the idle screen follows, or throw; the host receives nothing.
SendResponse(sw, data) ==
    /\ IF pending
       THEN Reply(sw, data) /\ pending' = FALSE /\ screen' = Idle
       ELSE screen' \in {Idle, screen} /\ UNCHANGED <<answer, pending>>
    /\ UNCHANGED ScreenFrame

\* Mutant: the approval comes before the items.
MutantAtApprove(kind) == screen.kind = kind /\ screen.index \in {1, ApproveStep}

AtApprove(kind) == screen.kind = kind /\ screen.index = ApproveStep

\* Mutant: the key signs with the path of the key last shown.
MutantSignature ==
    [kind |-> "signature", hash |-> messageHash, chain |-> chainID,
     path |-> IF publicKey = {} THEN command.path ELSE CHOOSE p \in publicKey : TRUE]

\* set_result_sign_message, from the globals at the time of the approval.
Signature ==
    [kind |-> "signature", hash |-> messageHash, path |-> command.path, chain |-> chainID]

ApproveTransaction ==
    /\ AtApprove("sign")
    /\ SendResponse(Success, Signature)

\* Mutant: the exception is caught, and the idle screen shown, with no answer.
MutantSigningFails(e) ==
    /\ AtApprove("sign")
    /\ pending
    /\ screen' = Idle
    /\ UNCHANGED <<ScreenFrame, pending, answer>>

\* The key cannot be derived or the signature fails: the exception leaves
\* sendResponse and ui_idle behind, and the screen stays.
SigningFails(e) ==
    /\ AtApprove("sign")
    /\ pending
    /\ Reply(StatusWord(e), Nothing)
    /\ pending' = FALSE
    /\ UNCHANGED <<ScreenFrame, screen>>

\* set_result_get_publicKey.
Key == [Nothing EXCEPT !.kind = "key", !.path = CHOOSE p \in publicKey : TRUE]

ApprovePubkey ==
    /\ AtApprove("pubkey")
    /\ SendResponse(Success, Key)

Reject ==
    /\ screen.kind # "idle"
    /\ screen.index = RejectStep
    /\ SendResponse(Rejected, Nothing)

Decide == ApproveTransaction \/ ApprovePubkey \/ Reject \/ \E e \in Exceptions : SigningFails(e)

\* Mutant: the buffer of an interrupted transfer survives the restart.
MutantIoReset ==
    /\ command' = [command EXCEPT !.state = "Uninitialized"]
    /\ reply' = "Ok"
    /\ messageHash' = Unknown /\ chainID' = Unknown /\ publicKey' = {}
    /\ txContent' = [f \in ContentFields |-> Unknown]
    /\ screen' = Idle /\ pending' = FALSE /\ answer' = NoAnswer
    /\ UNCHANGED <<acked, summary>>

\* main starts over with the idle screen and a new app_main, whose txContent
\* is not initialised.
Restart ==
    /\ ResetMainGlobals
    /\ messageHash' = Unknown
    /\ chainID' = Unknown
    /\ publicKey' = {}
    /\ txContent' = [f \in ContentFields |-> Unknown]
    /\ screen' = Idle
    /\ pending' = FALSE
    /\ answer' = NoAnswer

\* The link is lost at any time; the summary stays in memory.
IoReset == Restart /\ UNCHANGED summary

\* The power is lost at any time; a new start finds its memory zeroed.
PowerCycle == Restart /\ summary' = <<>>

-----------------------------------------------------------------------------
SessionInit ==
    /\ Init
    /\ messageHash = Unknown
    /\ txContent = [f \in ContentFields |-> Unknown]
    /\ chainID = Unknown
    /\ publicKey = {}
    /\ summary = <<>>
    /\ screen = Idle
    /\ pending = FALSE
    /\ answer = NoAnswer

SessionNext ==
    \/ \E a \in Apdus : HandleApdu(a)
    \/ NoApdu
    \/ Forward
    \/ Back
    \/ Decide
    \/ IoReset
    \/ PowerCycle

\* The user goes on to the end of a review, and decides there.
Fairness == WF_sessionVars(Forward) /\ WF_sessionVars(Decide)

SafeSpec == SessionInit /\ [][SessionNext]_sessionVars
SessionSpec == SafeSpec /\ Fairness

-----------------------------------------------------------------------------
\* An answer ends with a word of 0x6000 to 0x6fff or 0x9000 to 0x9fff, also
\* for an exception of any other range (main.c:133-144); 0 is no answer.
StatusWordRange == (24576 .. 28671) \cup (36864 .. 40959)
Answers == [sw: StatusWordRange \cup {0}, data: Data]

SessionTypeOK ==
    /\ TypeOK
    /\ messageHash \in Contents
    /\ txContent \in [ContentFields -> Contents]
    /\ chainID \in Contents
    /\ publicKey \subseteq Seq(Nat)
    /\ summary \in Seq(Item)
    /\ screen \in Screen
    /\ pending \in BOOLEAN
    /\ answer \in Answers

\* While an APDU waits for its answer, the display reviews that APDU and the
\* command it left in G_command is still there: what the callbacks read when
\* the user approves is what was put on the display.  A review may outlive
\* its request (a callback throws); a public key never does.
PendingIsOnScreen ==
    /\ pending =>
         /\ command.state = "Complete"
         /\ screen.path = command.path
         /\ \/ screen.kind = "pubkey" /\ command.instruction \in PubkeyIns
            \/ /\ screen.kind = "sign" /\ command.instruction \in TransactionIns
               /\ screen.tx = ContentOf(command)
    /\ screen.kind = "pubkey" => pending /\ publicKey = {screen.path}

\* In a pending review, every value displayed that the transaction defines
\* is the transaction's own, not one left by the transaction before: neither
\* txContent nor the summary is cleared by initTx (ethUstream.c:31).
ReviewShowsTransaction ==
    (pending /\ screen.kind = "sign") =>
        \A s \in screen.shown : s.field \in Parsed[screen.tx].writes => s.source = screen.tx

ReviewComplete == \A i \in DOMAIN summary : \E s \in screen.shown : s.index = i

SignatureSent == pending /\ ~pending' /\ answer'.data.kind = "signature"
KeySent == pending /\ ~pending' /\ answer'.data.kind = "key"

\* No signature leaves before each item of the summary was on the display,
\* whatever the user's way through the review and whatever failed on it.
SignatureAfterReview == [][SignatureSent => ReviewComplete]_sessionVars

\* The signature that answers a review is made with the reviewed path over
\* the hash of the reviewed transaction, with its chain id when it has one:
\* G_command and chainID are read again at the approval
\* (signLegacyTransaction.c:43-57).
SignatureOfReviewed ==
    [][SignatureSent =>
          /\ answer'.data.path = screen.path
          /\ Parsed[screen.tx].finished => answer'.data.hash = screen.tx
          /\ "chainID" \in Parsed[screen.tx].writes => answer'.data.chain = screen.tx]_sessionVars

\* The numbers that the summary of an instruction shows as such.
NumbersShown(ins) ==
    Numbers \cup (IF ins \in {"SignLegacyTransaction", "SignValueTransfer",
                              "SignValueTransferMemo"} THEN {"value"} ELSE {})

\* From the bytes to the signature: of a transaction the parser finished,
\* the nonce, the gas price and the gas, where they have at most eight bytes,
\* and the amount of a transfer were all on the display before it is signed,
\* its own and to their last byte.  Of a longer number the display has the
\* first eight bytes only: it is not whole.  This rests on the parser storing
\* an empty number (ethUstream.c:161-163), on the summary being made after
\* the parsing, on the conversion to 64 bits (instruction.c:41-48) and on the
\* way through the review.
SignedNumbersReviewed ==
    [][(SignatureSent /\ Parsed[screen.tx].finished) =>
          \A f \in NumbersShown(command.instruction) :
             (f \in Numbers => Parsed[screen.tx].size[f] <= 8) =>
                \E s \in screen.shown : s.field = f /\ s.source = screen.tx /\ s.whole]_sessionVars

\* The public key that answers a review is the one on the display.
KeySentIsShown ==
    [][KeySent => screen.kind = "pubkey" /\ answer'.data.path = screen.path]_sessionVars

\* The assembler keeps its behaviour inside the application.
ImplementsAssembler == Spec

\* The application as its user has it: the request is what is on the display
\* while an APDU waits, and it is reviewed when each item was displayed.
SignerRequest ==
    IF pending
    THEN [kind |-> IF screen.kind = "sign" THEN "sign" ELSE "key",
          path |-> screen.path, tx |-> screen.tx]
    ELSE [kind |-> "none", path |-> <<>>, tx |-> Unknown]

SignerReviewed == pending /\ screen.kind = "sign" /\ ReviewComplete

SignerResponse ==
    [kind |-> IF answer = NoAnswer THEN "none"
              ELSE IF answer.data.kind \in {"key", "signature"} THEN answer.data.kind ELSE "other",
     path |-> answer.data.path, tx |-> answer.data.hash]

Signer == INSTANCE TxSigner WITH
    Paths <- Seq(Nat), Transactions <- Contents, Unread <- Unknown,
    Whole <- {c \in Contents : Parsed[c].finished},
    request <- SignerRequest, reviewed <- SignerReviewed, response <- SignerResponse

\* One request at a time; a key or a signature is given out for the request
\* on the display only, a signature only after its whole review and over
\* the hash of the transaction reviewed or, when the parser did not finish
\* it, over no transaction at all; no signature is ever given at once.
ImplementsTxSigner == Signer!Spec

\* Every APDU that waits for the user is answered, or the link is lost.
Answered == pending ~> ~pending

\* "Message not processed, throw if blind signing is not enabled"
\* (signLegacyTransaction.c:189): no signature for a transaction the parser
\* did not finish.  The code drops the parser's result.
UnprocessedNeverSigned == [][SignatureSent => Parsed[screen.tx].finished]_sessionVars

\* The user validates the transaction-specific parameters (doc/api.md:79):
\* the value a transaction transfers is among the items displayed before its
\* signature.  The summary of a contract shows an amount nobody assigns.
ValueReviewed ==
    [][SignatureSent /\ "value" \in Parsed[screen.tx].writes
          => \E s \in screen.shown : s.field = "value" /\ s.source = screen.tx]_sessionVars
=============================================================================
