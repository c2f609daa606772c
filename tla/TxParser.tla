------------------------------- MODULE TxParser -------------------------------
(***************************************************************************)
(* processTx (src/src/ethUstream.c): the RLP parser that reads a           *)
(* transaction once, hashing the bytes as it takes them and storing the    *)
(* fields the user is shown.  The bytes are not known in advance: whenever *)
(* the parser reads a header, the environment picks one.  A step is one    *)
(* turn of the loop of processTxInternal.                                  *)
(*                                                                         *)
(* The headers are those of HeaderForms, which RlpHeader decodes from       *)
(* bytes.                                                                  *)
(***************************************************************************)
EXTENDS Integers, Sequences, TxFields, HeaderForms

CONSTANTS
    Headers,  \* the headers the bytes may hold
    Lengths   \* the lengths a transaction may have (G_command.message_length)

VARIABLES
    txType,       \* the type, from the instruction
    partialFee,   \* G_command.p1 = P1_FEE_DELEGATED_WITH_RATIO
    cursor,       \* where the parser is in the bytes, and what it hashed
    known,        \* the header at the cursor, when it was read before
    outerRLP,     \* the two outer headers are still to be read
    currentField,     \* index in FieldOrder of the field to process
    processingField,  \* its header was read, its content is not complete
    consumed,     \* history: the fields completed, in order
    writes,       \* the fields of txContent this transaction determines
    status

vars == <<txType, partialFee, cursor, known, outerRLP, currentField, processingField,
          consumed, writes, status>>

-----------------------------------------------------------------------------
\* A wide header is taken whole by parseNestedRlp, and one byte more after it:
\* up to eight bytes, rlpBuffer with the padding behind it.  The two longest
\* would end in rlpBufferPos itself and are left out.
WIDEST == 7
ASSUME HeadersAssumption == \A h \in Headers : IsHeader(h) /\ h.size <= WIDEST
ASSUME LengthsAssumption == Lengths \subseteq Nat

\* The rlp...TxField_e enumerations, from CONTENT on; DONE is one past the end.
FieldOrder ==
    [Legacy |-> <<"content", "type", "nonce", "gasprice", "startgas", "to", "value", "data",
                  "chainID", "zero1", "zero2">>,
     ValueTransfer |-> <<"content", "type", "nonce", "gasprice", "startgas", "to", "value",
                  "from", "ratio", "chainID", "zero1", "zero2">>,
     ValueTransferMemo |-> <<"content", "type", "nonce", "gasprice", "startgas", "to", "value",
                  "from", "data", "ratio", "chainID", "zero1", "zero2">>,
     SmartContractDeploy |-> <<"content", "type", "nonce", "gasprice", "startgas", "to", "value",
                  "from", "data", "humanReadable", "ratio", "codeFormat", "chainID",
                  "zero1", "zero2">>,
     SmartContractExecution |-> <<"content", "type", "nonce", "gasprice", "startgas", "to",
                  "value", "from", "data", "ratio", "chainID", "zero1", "zero2">>,
     Cancel |-> <<"content", "type", "nonce", "gasprice", "startgas", "from", "ratio",
                  "chainID", "zero1", "zero2">>]

StoredFields == {"to", "value", "nonce", "gasprice", "startgas", "ratio", "chainID"}

\* The field before the ratio, which decides whether there is one.
BeforeRatio ==
    [ValueTransfer |-> "from", ValueTransferMemo |-> "data", Cancel |-> "from",
     SmartContractDeploy |-> "humanReadable", SmartContractExecution |-> "data"]

Name == FieldOrder[txType][currentField]
Done == currentField = Len(FieldOrder[txType]) + 1

\* Mutant: the ratio is skipped on the way out of the wrong field.
MutantNextField ==
    IF \/ txType = "Legacy" /\ Name = "content"
       \/ txType # "Legacy" /\ ~partialFee /\ Name = "from"
    THEN currentField + 2 ELSE currentField + 1

\* currentField++, once more past the type of a legacy transaction
\* (TX_FLAG_TYPE is never set) and past an absent ratio.
NextField ==
    IF \/ txType = "Legacy" /\ Name = "content"
       \/ txType # "Legacy" /\ ~partialFee /\ Name = BeforeRatio[txType]
    THEN currentField + 2 ELSE currentField + 1

MAX_INT256 == 32
MAX_ADDRESS == 20

\* The recipient of a deployment is discarded as the other fields that are
\* not stored, whatever their length.
Discarded == {"from", "data", "humanReadable", "codeFormat", "zero1", "zero2"}
                \cup (IF txType = "SmartContractDeploy" THEN {"to"} ELSE {})

\* The checks at the head of processContent ... processRatio.
Accepts(name, h) ==
    IF name = "content" THEN h.kind = "list"
    ELSE /\ h.kind # "list"
         /\ \/ name \in Discarded
            \/ h.length <= IF name = "to" THEN MAX_ADDRESS ELSE MAX_INT256

-----------------------------------------------------------------------------
(* The cursor: readTxByte and copyTxData.                                  *)

Min2(a, b) == IF a < b THEN a ELSE b

Take(c, n) == [c EXCEPT !.pos = @ + n, !.left = @ - n]

\* The hash takes n bytes: in order when they are the next ones.
Hash(c, n) ==
    [c EXCEPT !.hashed = @ + n, !.inOrder = @ /\ (n = 0 \/ c.pos = c.hashed)]

\* Mutant: the rewound byte is hashed again.
MutantContent(c, h, n) == Take(Hash(c, n), n)

\* copyTxData of a field: its single byte was hashed with the header.
Content(c, h, n) == Take(IF h.kind = "byte" THEN c ELSE Hash(c, n), n)

\* The bytes of h that rlpBuffer takes before the loop of parseRLP stops:
\* where the length is known, where the buffer is full (only if it gets
\* exactly there), or at the next byte when it is over the size already.
Stop(c, h) ==
    IF h.size <= RLP_BUFFER_SIZE THEN h.size
    ELSE IF c.buffered < RLP_BUFFER_SIZE THEN RLP_BUFFER_SIZE
    ELSE IF c.buffered < h.size THEN h.size ELSE c.buffered + 1

\* Mutant: the loop of parseRLP does not look at commandLength.
MutantReadBytes(c, h) == Stop(c, h) - c.buffered

ReadBytes(c, h) == Min2(c.left, Stop(c, h) - c.buffered)
Buffer(c, h) ==
    [Take(Hash(c, ReadBytes(c, h)), ReadBytes(c, h)) EXCEPT !.buffered = @ + ReadBytes(c, h)]

\* What parseRLP returns: PROCESSING without the whole header, FAULT for a
\* wide one, CONTINUE.
Outcome(c, h) ==
    IF c.buffered + ReadBytes(c, h) < Stop(c, h) THEN "Processing"
    ELSE IF h.kind = "wide" THEN "Fault" ELSE "Continue"

\* The cursor after parseRLP: a byte that is its own content is given back.
ParseRLP(c, h) ==
    LET read == [Buffer(c, h) EXCEPT !.buffered = 0]
    IN  IF Outcome(c, h) # "Continue" THEN Buffer(c, h)
        ELSE IF h.kind = "byte" THEN Take(read, -1) ELSE read

\* The header that the parser meets again after reading h: the byte given
\* back, or what is still in rlpBuffer.
MetAgain(c, h) == IF Outcome(c, h) # "Continue" \/ h.kind = "byte" THEN {h} ELSE {}

NextHeaders == IF known = {} THEN Headers ELSE known

-----------------------------------------------------------------------------
(* The turns of processTxInternal.                                         *)

Parsing == status = "Parsing"
Frame == <<txType, partialFee>>
AtOldStyleEnd == txType = "Legacy" /\ ~Done /\ Name = "chainID" /\ cursor.left = 0

Finish ==
    /\ Parsing /\ Done
    /\ status' = "Finished"
    /\ UNCHANGED <<Frame, cursor, known, outerRLP, currentField, processingField, consumed, writes>>

\* Without a byte left before the chain id: a transaction older than EIP-155.
FinishOldStyle ==
    /\ Parsing /\ AtOldStyleEnd
    /\ status' = "Finished"
    /\ UNCHANGED <<Frame, cursor, known, outerRLP, currentField, processingField, consumed, writes>>

\* Mutant: without the test of commandLength, only parseRLP stops, and a
\* field that broke off is processed again and again.
MutantStopShort ==
    /\ Parsing /\ ~Done /\ ~AtOldStyleEnd
    /\ cursor.left = 0
    /\ status' = IF processingField THEN "Parsing" ELSE "Processing"
    /\ UNCHANGED <<Frame, cursor, known, outerRLP, currentField, processingField, consumed, writes>>

StopShort ==
    /\ Parsing /\ ~Done /\ ~AtOldStyleEnd
    /\ cursor.left = 0
    /\ status' = "Processing"
    /\ UNCHANGED <<Frame, cursor, known, outerRLP, currentField, processingField, consumed, writes>>

GoesOn == Parsing /\ ~Done /\ cursor.left > 0

\* parseNestedRlp: two headers, whatever parseRLP returns for them.
ReadOuterHeaders ==
    /\ GoesOn /\ outerRLP
    /\ \E h1 \in Headers :
         LET c == ParseRLP(cursor, h1) IN
         \E h2 \in (IF MetAgain(cursor, h1) = {} THEN Headers ELSE MetAgain(cursor, h1)) :
            /\ cursor' = ParseRLP(c, h2)
            /\ known' = MetAgain(c, h2)
    /\ outerRLP' = FALSE
    /\ UNCHANGED <<Frame, currentField, processingField, consumed, writes, status>>

\* A field that broke off leaves no byte, so a header is always next here.
ReadsHeader(h) == GoesOn /\ ~outerRLP /\ ~processingField /\ h \in NextHeaders

\* parseRLP finds no whole header, or one it does not decode.
FailHeader(h) ==
    /\ ReadsHeader(h)
    /\ Outcome(cursor, h) # "Continue"
    /\ cursor' = ParseRLP(cursor, h)
    /\ known' = MetAgain(cursor, h)
    /\ status' = Outcome(cursor, h)
    /\ UNCHANGED <<Frame, outerRLP, currentField, processingField, consumed, writes>>

\* The field has the wrong type or length: the exception ends the parser.
FailField(h) ==
    /\ ReadsHeader(h)
    /\ Outcome(cursor, h) = "Continue"
    /\ ~Accepts(Name, h)
    /\ cursor' = ParseRLP(cursor, h)
    /\ known' = MetAgain(cursor, h)
    /\ status' = "Fault"
    /\ UNCHANGED <<Frame, outerRLP, currentField, processingField, consumed, writes>>

\* The fields of a list are read as fields of the transaction.
ContentLength(h) == IF Name = "content" THEN 0 ELSE h.length

\* Mutant: a number is stored with the bytes copied, an empty one is not.
MutantStores(h) == IF Name \in StoredFields /\ h.length > 0 THEN {Name} ELSE {}

Stores(h) ==
    IF \/ Name \in {"nonce", "gasprice", "startgas", "value", "chainID"}
       \/ Name = "to" /\ Name \notin Discarded /\ h.length = MAX_ADDRESS
       \/ Name = "ratio" /\ h.length >= 1
    THEN {Name} ELSE {}

CompleteField(h) ==
    LET c == ParseRLP(cursor, h) IN
    /\ ReadsHeader(h)
    /\ Outcome(cursor, h) = "Continue"
    /\ Accepts(Name, h)
    /\ c.left >= ContentLength(h)
    /\ cursor' = Content(c, h, ContentLength(h))
    /\ known' = {}
    /\ currentField' = NextField
    /\ consumed' = Append(consumed, Name)
    /\ writes' = writes \cup Stores(h)
    /\ UNCHANGED <<Frame, outerRLP, processingField, status>>

\* The bytes end inside the field.  An absent ratio is skipped all the same.
BreakOff(h) ==
    LET c == ParseRLP(cursor, h) IN
    /\ ReadsHeader(h)
    /\ Outcome(cursor, h) = "Continue"
    /\ Accepts(Name, h)
    /\ c.left < ContentLength(h)
    /\ cursor' = Content(c, h, c.left)
    /\ known' = {}
    /\ processingField' = TRUE
    /\ currentField' = NextField - 1
    /\ UNCHANGED <<Frame, outerRLP, consumed, writes, status>>

Stopped == ~Parsing /\ UNCHANGED vars

-----------------------------------------------------------------------------
\* initTx, and the choice of the type by getTxType and
\* handle_sign_legacy_transaction: only a legacy transaction has no outer list.
Init ==
    /\ txType \in Types
    /\ partialFee \in BOOLEAN
    /\ outerRLP = (txType # "Legacy")
    /\ \E n \in Lengths :
         cursor = [pos |-> 0, left |-> n, buffered |-> 0, hashed |-> 0, inOrder |-> TRUE]
    /\ known = {}
    /\ currentField = 1
    /\ processingField = FALSE
    /\ consumed = <<>>
    /\ writes = {}
    /\ status = "Parsing"

Next ==
    \/ Finish
    \/ FinishOldStyle
    \/ StopShort
    \/ ReadOuterHeaders
    \/ \E h \in Headers : FailHeader(h) \/ FailField(h) \/ CompleteField(h) \/ BreakOff(h)
    \/ Stopped

\* A loop without any call that waits: it turns until it returns.
Spec == Init /\ [][Next]_vars /\ WF_vars(Next)

-----------------------------------------------------------------------------
FieldNames == {FieldOrder["SmartContractDeploy"][i] : i \in 1 .. 15}
Cursor == [pos: Nat, left: Nat, buffered: Nat, hashed: Nat, inOrder: BOOLEAN]

TypeOK ==
    /\ txType \in Types
    /\ partialFee \in BOOLEAN
    /\ cursor \in Cursor
    /\ known \subseteq Headers
    /\ outerRLP \in BOOLEAN
    /\ currentField \in 1 .. Len(FieldOrder[txType]) + 1
    /\ processingField \in BOOLEAN
    /\ consumed \in Seq(FieldNames)
    /\ writes \subseteq StoredFields
    /\ status \in {"Parsing", "Finished", "Processing", "Fault"}

\* The hash that is signed is the hash of the bytes read, each once and in
\* order: the bytes given back by parseRLP, in a field or between the outer
\* headers, never enter it twice when the parser finishes
\* (ethUstream.c:53, 67, 750-757).
HashedOnce == status = "Finished" => cursor.inOrder /\ cursor.hashed = cursor.pos

\* Reference: the fields of the encoding for signature, which has no type in a
\* legacy transaction and no ratio unless P1 says so.
Has(type, ratio, f) == (f = "type" => type # "Legacy") /\ (f = "ratio" => ratio)

\* At most one field is absent; those behind it move up.
Encoding(type, ratio) ==
    LET order == FieldOrder[type]
        complete(i) == \A j \in 1 .. i : Has(type, ratio, order[j])
    IN  [i \in 1 .. Len(order) - (IF complete(Len(order)) THEN 0 ELSE 1) |->
            IF complete(i) THEN order[i] ELSE order[i + 1]]

\* A finished transaction was read as all the fields of its encoding, in
\* order, with a ratio just when P1 says so; an old-style one up to its data.
FieldsInOrder ==
    status = "Finished" =>
        \/ consumed = Encoding(txType, partialFee /\ txType # "Legacy")
        \/ txType = "Legacy" /\ consumed = SubSeq(Encoding("Legacy", FALSE), 1, 7)

\* A finished transaction determines every number the summary displays and,
\* unless it is a legacy one, the chain id of the signature: nothing of the
\* transaction before is left in them (txContent is not cleared by initTx).
FinishedDetermines == status = "Finished" => Determined(txType) \subseteq writes

\* The parser returns, whatever the bytes, although it may give bytes back.
Returns == <>(status # "Parsing")

\* "We are in an old style transaction : just return USTREAM_FINISHED"
\* (ethUstream.c:786): one that ends before its chain id, not inside it.
FinishedAtFieldEnd == status = "Finished" => ~processingField

\* "Sanity check" (ethUstream.c:719): rlpBuffer never takes more bytes than
\* it has.  parseNestedRlp goes on after a header parseRLP refused.
RlpBufferBounded == cursor.buffered <= RLP_BUFFER_SIZE
=============================================================================
