------------------------------- MODULE RlpHeader -------------------------------
(***************************************************************************)
(* The reading of one RLP header after the other: the loop of parseRLP     *)
(* (src/src/ethUstream.c) feeds rlpBuffer byte by byte until rlpCanDecode  *)
(* accepts, and rlpDecodeLength decodes (src/src/ethUtils.c).  The buffer  *)
(* keeps the bytes of the header before.                                   *)
(***************************************************************************)
EXTENDS HeaderForms, Sequences

CONSTANTS
    FirstBytes,  \* the first bytes that headers may have
    LengthBytes  \* the bytes that may follow them

VARIABLES
    rlpBuffer,     \* its five bytes
    rlpBufferPos,  \* how many of them are of this header
    outcome,       \* "Reading" while the loop goes on, or what parseRLP returned
    field,         \* currentFieldLength, offset and currentFieldIsList
    received       \* history: the bytes of this header

rlpVars == <<rlpBuffer, rlpBufferPos, outcome, field, received>>

Byte == 0 .. 255
ASSUME BytesAssumption == FirstBytes \subseteq Byte /\ LengthBytes \subseteq Byte

-----------------------------------------------------------------------------
LongString(first) == first \in 184 .. 191
LongList(first) == first \in 248 .. 255

LengthOfLength(first) ==
    IF LongString(first) THEN first - 183 ELSE IF LongList(first) THEN first - 247 ELSE 0

\* Mutant: the first byte is counted as one of the length.
MutantCanDecode(first, length) == length >= LengthOfLength(first)

rlpCanDecode(first, length) == length >= 1 + LengthOfLength(first)

\* The 32 bits limitation.
Valid(first) == LengthOfLength(first) <= 4

Offset(first) == IF first <= 127 THEN 0 ELSE 1 + LengthOfLength(first)

\* Mutant: the fourth byte is shifted like the third.
MutantLongLength(b, n) ==
    LET two == b[2] * 256 + b[3]
        three == two * 256 + b[4]
    IN  IF n = 1 THEN b[2] ELSE IF n = 2 THEN two ELSE IF n = 3 THEN three ELSE three + b[5]

\* The n bytes after the first one; four of them fill the 32 bits.
LongLength(b, n) ==
    LET two == b[2] * 256 + b[3]
        three == two * 256 + b[4]
    IN  IF n = 1 THEN b[2] ELSE IF n = 2 THEN two ELSE IF n = 3 THEN three ELSE three * 256 + b[5]

ShortLength(first) ==
    IF first <= 127 THEN 1 ELSE IF first <= 183 THEN first - 128 ELSE first - 192

FieldLength(b) ==
    IF LengthOfLength(b[1]) > 0 THEN LongLength(b, LengthOfLength(b[1])) ELSE ShortLength(b[1])

rlpDecodeLength(b) == [length |-> FieldLength(b), offset |-> Offset(b[1]), list |-> b[1] >= 192]

-----------------------------------------------------------------------------
NoField == [length |-> 0, offset |-> 0, list |-> FALSE]

\* initTx clears the context, at the start of any transaction.
initTx ==
    /\ rlpBuffer' = [i \in 1 .. RLP_BUFFER_SIZE |-> 0]
    /\ rlpBufferPos' = 0
    /\ outcome' = "Reading"
    /\ field' = NoField
    /\ received' = <<>>

\* Mutant: the buffer counts as full one byte later.
MutantBufferFull(pos) == pos > RLP_BUFFER_SIZE

BufferFull(pos) == pos = RLP_BUFFER_SIZE

\* A turn of the loop of parseRLP.
ReadByte(byte) ==
    /\ outcome = "Reading"
    /\ rlpBuffer' = [rlpBuffer EXCEPT ![rlpBufferPos + 1] = byte]
    /\ received' = Append(received, byte)
    /\ LET pos == rlpBufferPos + 1
           decodes == rlpCanDecode(rlpBuffer'[1], pos)
       IN  IF decodes /\ Valid(rlpBuffer'[1])
           THEN /\ outcome' = "Continue"
                /\ field' = rlpDecodeLength(rlpBuffer')
                /\ rlpBufferPos' = 0
           ELSE /\ outcome' = IF decodes \/ BufferFull(pos) THEN "Fault" ELSE "Reading"
                /\ rlpBufferPos' = pos
                /\ UNCHANGED field

\* parseRLP is called again when the field was processed.
NextHeader ==
    /\ outcome = "Continue"
    /\ outcome' = "Reading"
    /\ received' = <<>>
    /\ UNCHANGED <<rlpBuffer, rlpBufferPos, field>>

Init ==
    /\ rlpBuffer = [i \in 1 .. RLP_BUFFER_SIZE |-> 0]
    /\ rlpBufferPos = 0
    /\ outcome = "Reading"
    /\ field = NoField
    /\ received = <<>>

Next ==
    \/ initTx
    \/ \E byte \in IF rlpBufferPos = 0 THEN FirstBytes ELSE LengthBytes : ReadByte(byte)
    \/ NextHeader

Spec == Init /\ [][Next]_rlpVars

-----------------------------------------------------------------------------
TypeOK ==
    /\ rlpBuffer \in [1 .. RLP_BUFFER_SIZE -> Byte]
    /\ rlpBufferPos \in 0 .. RLP_BUFFER_SIZE
    /\ outcome \in {"Reading", "Continue", "Fault"}
    /\ field \in [length: Nat, offset: 0 .. RLP_BUFFER_SIZE, list: BOOLEAN]
    /\ received \in Seq(Byte)

\* The length without its last byte, its last two, its last three.
Shifts(length) ==
    LET one == length \div 256
        two == one \div 256
    IN  <<length, one, two, two \div 256>>

\* Reference: the header that RLP has for a field, with n bytes of length.
EncodedHeader(list, length, n) ==
    LET base == IF list THEN 192 ELSE 128
    IN  [i \in 1 .. 1 + n |-> IF i = 1 THEN base + (IF n = 0 THEN length ELSE 55 + n)
                              ELSE Shifts(length)[n + 2 - i] % 256]

\* A header that is decoded is the encoding of the field decoded from it,
\* to its last byte: the loop stops neither before the length is there, to
\* read what the header before left in the buffer, nor after, inside the
\* content (ethUtils.c:15, 24, 46, 70).
DecodedIsEncoded ==
    outcome = "Continue" =>
        IF field.offset = 0 THEN field.length = 1 /\ ~field.list /\ Len(received) = 1 /\ received[1] < 128
        ELSE /\ received = EncodedHeader(field.list, field.length, field.offset - 1)
             /\ field.offset = 1 => field.length <= 55

\* The header that the parser meets.
HeaderRead ==
    [kind |-> IF outcome = "Fault" THEN "wide"
              ELSE IF field.list THEN "list" ELSE IF field.offset = 0 THEN "byte" ELSE "string",
     size |-> 1 + LengthOfLength(received[1]),
     length |-> IF outcome = "Fault" THEN 0 ELSE field.length]

\* The parser meets the headers of HeaderForms and no other, each taken to its
\* last byte, and it fails on the wide ones alone, with a full buffer
\* (ethUtils.c:18, 27, ethUstream.c:720).
ReadsHeaderForms ==
    outcome # "Reading" =>
        /\ IsHeader(HeaderRead)
        /\ Len(received) = IF outcome = "Fault" THEN RLP_BUFFER_SIZE ELSE HeaderRead.size
=============================================================================
