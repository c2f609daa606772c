----------------------------- MODULE MCAppSession -----------------------------
(* The APDUs and the parser's results of the instances of AppSession.      *)
EXTENDS AppSession, TLC

PathA == <<44, 8217>>
PathB == <<44, 60, 1>>

\* A well-formed first chunk; the content names its payload.
Apdu(i, p, more, path, d, content) ==
    [len |-> 6 + 4 * Len(path) + d, lc |-> 1 + 4 * Len(path) + d, cla |-> TRUE, ins |-> i,
     p1 |-> p, extend |-> FALSE, more |-> more, path |-> path, prefix |-> 0, content |-> content]

\* An extension has no path.
Extension(i, p, more, d, content) ==
    [len |-> 5 + d, lc |-> d, cla |-> TRUE, ins |-> i,
     p1 |-> p, extend |-> TRUE, more |-> more, path |-> <<>>, prefix |-> 0, content |-> content]

ToValue == Apdu("SignValueTransfer", 0, FALSE, PathA, 60, 1)
WideValue == Apdu("SignLegacyTransaction", 0, FALSE, PathB, 90, 2)
Broken == Apdu("SignValueTransfer", 2, FALSE, PathB, 30, 3)
Contract == Apdu("SignSmartContractExecution", 0, FALSE, PathA, 80, 4)
Cancel == Extension("SignCancel", 0, FALSE, 50, 5)

ConfirmedKey == Apdu("GetPubkey", 1, FALSE, PathA, 0, 8)
KeyAtOnce == Apdu("GetPubkey", 0, FALSE, PathB, 0, 8)

MCApdus ==
    {ToValue, WideValue, Broken,
     Apdu("SignMessage", 0, TRUE, PathA, 20, 7), Extension("SignMessage", 0, FALSE, 20, 7),
     ConfirmedKey, KeyAtOnce,
     [Apdu("GetAppConfiguration", 0, FALSE, <<>>, 0, 9) EXCEPT !.lc = 0, !.len = 5]}

ReviewApdus == {ToValue, WideValue, Broken, Cancel, ConfirmedKey, KeyAtOnce}

UnfinishedApdus == {ToValue, Broken}

ContractApdus == {ToValue, Contract}

\* Each has an empty nonce and numbers of at most eight bytes, but for 5.
ShortSizes == [nonce |-> 0, gasprice |-> 8, startgas |-> 3]

\* 1 is complete; 2 has an amount too wide for the display and no chain id
\* (a transaction from before EIP-155); 3 breaks off after the nonce; 4 is a
\* contract execution; 5 has no recipient and no value, and a gas price of
\* nine bytes.
MCParsed ==
    LET all == ContentFields \cup {"chainID"}
        result(finished, writes, wide) ==
            [finished |-> finished, writes |-> writes, size |-> ShortSizes, wideValue |-> wide]
        cancel == result(TRUE, {"nonce", "gasprice", "startgas", "chainID"}, FALSE)
        of == 1 :> result(TRUE, all \ {"ratio"}, FALSE)
              @@ 2 :> result(TRUE, all \ {"ratio", "chainID"}, TRUE)
              @@ 3 :> result(FALSE, {"nonce"}, FALSE)
              @@ 4 :> result(TRUE, all \ {"ratio"}, FALSE)
              @@ 5 :> [cancel EXCEPT !.size["gasprice"] = 9]
    IN  [c \in Contents |-> IF c \in DOMAIN of THEN of[c] ELSE result(FALSE, {}, FALSE)]

\* CX_INTERNAL_ERROR truncated to 16 bits.
MCExceptions == {65413}
=============================================================================
