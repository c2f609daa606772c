---------------------------- MODULE TxParser_proofs ----------------------------
(***************************************************************************)
(* Proofs about TxParser, for any headers the bytes may hold and any       *)
(* length of the transaction.                                              *)
(***************************************************************************)
EXTENDS TxParser, TLAPS

\* The numbers of a transaction: stored by every field that has one.
StoredNumbers == {"nonce", "gasprice", "startgas", "value", "chainID"}

\* rlpBuffer holds bytes of the header the parser meets again.
BufferInv ==
    /\ cursor.buffered <= cursor.pos
    /\ cursor.buffered > 0 => known # {}
    /\ \A h \in known : h.size <= RLP_BUFFER_SIZE => cursor.buffered <= h.size

\* The outer headers come before anything else is read.
OuterFirst == outerRLP => currentField = 1 /\ known = {}

\* The hash is behind the cursor, except when parseRLP gave back a byte:
\* in a field that is refused, or in place of the list of fields.
Hashed(c) == c.inOrder /\ c.hashed = c.pos
ByteInPlaceOfList == currentField = 1 /\ \E h \in Headers : h.kind = "byte" /\ known = {h}
HashInv ==
    \/ Hashed(cursor)
    \/ status \in {"Processing", "Fault"}
    \/ status = "Parsing" /\ ByteInPlaceOfList

\* Every number before the current field is stored.
DetermineInv ==
    \A i \in 1 .. currentField - 1 : FieldOrder[txType][i] \in StoredNumbers
                                        => FieldOrder[txType][i] \in writes

\* Where the parser finishes.
FinishedAt ==
    status = "Finished" => \/ currentField = Len(FieldOrder[txType]) + 1
                           \/ txType = "Legacy" /\ currentField = 9

ParserInv ==
    /\ TypeOK
    /\ BufferInv
    /\ OuterFirst
    /\ HashInv
    /\ DetermineInv
    /\ FinishedAt

-----------------------------------------------------------------------------
(* The orders of the fields.                                               *)

LEMMA FieldOrderShape ==
    ASSUME NEW t \in Types
    PROVE  /\ FieldOrder[t] \in Seq(FieldNames)
           /\ Len(FieldOrder[t]) \in 10 .. 15
           /\ FieldOrder[t][1] = "content"
           /\ FieldOrder[t][Len(FieldOrder[t])] = "zero2"
  <1>1. FieldOrder["SmartContractDeploy"] =
           <<"content", "type", "nonce", "gasprice", "startgas", "to", "value", "from", "data",
             "humanReadable", "ratio", "codeFormat", "chainID", "zero1", "zero2">>
    BY DEF FieldOrder
  <1>2. FieldNames = {"content", "type", "nonce", "gasprice", "startgas", "to", "value", "from",
                      "data", "humanReadable", "ratio", "codeFormat", "chainID", "zero1", "zero2"}
    BY <1>1 DEF FieldNames
  <1>3. CASE t = "Legacy"                  BY <1>2, <1>3 DEF FieldOrder
  <1>4. CASE t = "ValueTransfer"           BY <1>2, <1>4 DEF FieldOrder
  <1>5. CASE t = "ValueTransferMemo"       BY <1>2, <1>5 DEF FieldOrder
  <1>6. CASE t = "SmartContractDeploy"     BY <1>2, <1>6 DEF FieldOrder
  <1>7. CASE t = "SmartContractExecution"  BY <1>2, <1>7 DEF FieldOrder
  <1>8. CASE t = "Cancel"                  BY <1>2, <1>8 DEF FieldOrder
  <1> QED BY <1>3, <1>4, <1>5, <1>6, <1>7, <1>8 DEF Types

\* What a step may skip is not a number.
LEMMA SkippedFields ==
    /\ FieldOrder["Legacy"][2] = "type"
    /\ \A t \in Types \ {"Legacy"} : \A i \in 1 .. Len(FieldOrder[t]) :
          FieldOrder[t][i] = BeforeRatio[t] => FieldOrder[t][i + 1] = "ratio"
    /\ \A t \in Types \ {"Legacy"} : BeforeRatio[t] \in {"from", "data", "humanReadable"}
  <1>1. FieldOrder["Legacy"][2] = "type"
    BY DEF FieldOrder
  <1>2. ASSUME NEW t \in Types \ {"Legacy"}
        PROVE  /\ \A i \in 1 .. Len(FieldOrder[t]) :
                     FieldOrder[t][i] = BeforeRatio[t] => FieldOrder[t][i + 1] = "ratio"
               /\ BeforeRatio[t] \in {"from", "data", "humanReadable"}
    <2>1. CASE t = "ValueTransfer"           BY <2>1 DEF FieldOrder, BeforeRatio
    <2>2. CASE t = "ValueTransferMemo"       BY <2>2 DEF FieldOrder, BeforeRatio
    <2>3. CASE t = "SmartContractDeploy"     BY <2>3 DEF FieldOrder, BeforeRatio
    <2>4. CASE t = "SmartContractExecution"  BY <2>4 DEF FieldOrder, BeforeRatio
    <2>5. CASE t = "Cancel"                  BY <2>5 DEF FieldOrder, BeforeRatio
    <2> QED BY <2>1, <2>2, <2>3, <2>4, <2>5 DEF Types
  <1> QED BY <1>1, <1>2

\* Where the numbers are; in a legacy transaction, before the chain id.
LEMMA NumbersOrder ==
    ASSUME NEW t \in Types
    PROVE  /\ \A f \in {"nonce", "gasprice", "startgas"} :
                 \E i \in 1 .. Len(FieldOrder[t]) : FieldOrder[t][i] = f
           /\ t # "Cancel" => \E i \in 1 .. Len(FieldOrder[t]) : FieldOrder[t][i] = "value"
           /\ t # "Legacy" => \E i \in 1 .. Len(FieldOrder[t]) : FieldOrder[t][i] = "chainID"
           /\ t = "Legacy" =>
                 /\ FieldOrder[t][3] = "nonce" /\ FieldOrder[t][4] = "gasprice"
                 /\ FieldOrder[t][5] = "startgas" /\ FieldOrder[t][7] = "value"
                 /\ \A i \in 1 .. Len(FieldOrder[t]) : FieldOrder[t][i] = "chainID" => i = 9
  <1>1. t = "Legacy" =>
                 /\ FieldOrder[t][3] = "nonce" /\ FieldOrder[t][4] = "gasprice"
                 /\ FieldOrder[t][5] = "startgas" /\ FieldOrder[t][7] = "value"
                 /\ \A i \in 1 .. Len(FieldOrder[t]) : FieldOrder[t][i] = "chainID" => i = 9
    BY DEF FieldOrder
  <1>2. /\ Len(FieldOrder[t]) \in 10 .. 15
        /\ FieldOrder[t][3] = "nonce" /\ FieldOrder[t][4] = "gasprice"
        /\ FieldOrder[t][5] = "startgas"
        /\ t # "Cancel" => FieldOrder[t][7] = "value"
    BY FieldOrderShape DEF FieldOrder, Types
  <1>3. t # "Legacy" => \E i \in 1 .. Len(FieldOrder[t]) : FieldOrder[t][i] = "chainID"
    <2>1. CASE t = "ValueTransfer"           BY <2>1 DEF FieldOrder
    <2>2. CASE t = "ValueTransferMemo"       BY <2>2 DEF FieldOrder
    <2>3. CASE t = "SmartContractDeploy"     BY <2>3 DEF FieldOrder
    <2>4. CASE t = "SmartContractExecution"  BY <2>4 DEF FieldOrder
    <2>5. CASE t = "Cancel"                  BY <2>5 DEF FieldOrder
    <2> QED BY <2>1, <2>2, <2>3, <2>4, <2>5 DEF Types
  <1> QED BY <1>1, <1>2, <1>3

-----------------------------------------------------------------------------
(* parseRLP and the cursor.                                                *)

LEMMA HeaderFacts ==
    ASSUME NEW h \in Headers
    PROVE  /\ h.size \in 1 .. 7 /\ h.length \in Nat /\ h.kind \in Kinds
           /\ h.kind = "byte" => h.size = 1 /\ h.length = 1
           /\ h.kind = "wide" <=> h.size > RLP_BUFFER_SIZE
  BY HeadersAssumption DEF IsHeader, Header, WIDEST

\* What parseRLP may find in rlpBuffer when it is about to read h.
Ready(c, h) ==
    c \in Cursor /\ c.buffered <= c.pos /\ (h.size <= RLP_BUFFER_SIZE => c.buffered <= h.size)

LEMMA ReadBytesBounded ==
    ASSUME NEW c, NEW h \in Headers, Ready(c, h)
    PROVE  /\ Stop(c, h) \in Nat /\ c.buffered <= Stop(c, h)
           /\ h.size <= RLP_BUFFER_SIZE => Stop(c, h) = h.size
           /\ ReadBytes(c, h) \in Nat /\ ReadBytes(c, h) <= c.left
           /\ ReadBytes(c, h) <= Stop(c, h) - c.buffered
  <1>1. c.buffered \in Nat /\ c.left \in Nat /\ h.size \in 1 .. 7
    BY HeaderFacts DEF Ready, Cursor
  <1>2. Stop(c, h) \in Nat /\ c.buffered <= Stop(c, h)
        /\ (h.size <= RLP_BUFFER_SIZE => Stop(c, h) = h.size)
    BY <1>1 DEF Stop, Ready, RLP_BUFFER_SIZE
  <1>3. Stop(c, h) - c.buffered \in Nat
    BY <1>1, <1>2
  <1> QED BY <1>1, <1>2, <1>3 DEF ReadBytes, Min2

\* The cursor while it moves, before its numbers are known to be natural.
Moving == [pos: Int, left: Int, buffered: Int, hashed: Int, inOrder: BOOLEAN]

LEMMA TakeMoves ==
    ASSUME NEW c \in Moving, NEW n \in Int
    PROVE  LET d == Take(c, n) IN
           /\ d \in Moving /\ d.pos = c.pos + n /\ d.left = c.left - n
           /\ d.buffered = c.buffered /\ d.hashed = c.hashed /\ d.inOrder = c.inOrder
  <1>1. PICK x \in Int, y \in Int : x = c.pos + n /\ y = c.left - n
    BY DEF Moving
  <1>2. PICK d : d = Take(c, n)
    OBVIOUS
  <1>3. d = [c EXCEPT !.pos = x, !.left = y]
    BY <1>1, <1>2, Zenon DEF Take
  <1>4. /\ d \in Moving /\ d.pos = x /\ d.left = y
        /\ d.buffered = c.buffered /\ d.hashed = c.hashed /\ d.inOrder = c.inOrder
    BY <1>3 DEF Moving
  <1> QED BY <1>1, <1>2, <1>4

LEMMA HashMoves ==
    ASSUME NEW c \in Moving, NEW n \in Int
    PROVE  LET d == Hash(c, n) IN
           /\ d \in Moving /\ d.pos = c.pos /\ d.left = c.left
           /\ d.buffered = c.buffered /\ d.hashed = c.hashed + n
           /\ d.inOrder <=> (c.inOrder /\ (n = 0 \/ c.pos = c.hashed))
  <1>1. PICK x \in Int : x = c.hashed + n
    BY DEF Moving
  <1>2. PICK o \in BOOLEAN : o = (c.inOrder /\ (n = 0 \/ c.pos = c.hashed))
    OBVIOUS
  <1>3. PICK d : d = Hash(c, n)
    OBVIOUS
  <1>4. d = [c EXCEPT !.hashed = x, !.inOrder = o]
    BY <1>1, <1>2, <1>3, Zenon DEF Hash
  <1>5. /\ d \in Moving /\ d.pos = c.pos /\ d.left = c.left
        /\ d.buffered = c.buffered /\ d.hashed = x /\ d.inOrder = o
    BY <1>4 DEF Moving
  <1> QED BY <1>1, <1>2, <1>3, <1>5

LEMMA BufferedMoves ==
    ASSUME NEW c \in Moving, NEW x \in Int
    PROVE  LET d == [c EXCEPT !.buffered = x] IN
           /\ d \in Moving /\ d.pos = c.pos /\ d.left = c.left
           /\ d.buffered = x /\ d.hashed = c.hashed /\ d.inOrder = c.inOrder
  BY DEF Moving

\* The bytes read are hashed and kept in rlpBuffer.
LEMMA BufferReads ==
    ASSUME NEW c, NEW h \in Headers, Ready(c, h)
    PROVE  LET n == ReadBytes(c, h)
               d == Buffer(c, h)
           IN  /\ d \in Moving /\ d.pos = c.pos + n /\ d.left = c.left - n
               /\ d.buffered = c.buffered + n /\ d.hashed = c.hashed + n
               /\ d.inOrder <=> (c.inOrder /\ (n = 0 \/ c.pos = c.hashed))
  <1> DEFINE n == ReadBytes(c, h)
             m == Hash(c, n)
             t == Take(m, n)
  <1>1. c \in Moving /\ n \in Int /\ c.buffered \in Int
    BY ReadBytesBounded DEF Ready, Cursor, Moving
  <1>2. /\ m \in Moving /\ m.pos = c.pos /\ m.left = c.left
        /\ m.buffered = c.buffered /\ m.hashed = c.hashed + n
        /\ m.inOrder <=> (c.inOrder /\ (n = 0 \/ c.pos = c.hashed))
    BY <1>1, HashMoves
  <1> HIDE DEF m
  <1>3. /\ t \in Moving /\ t.pos = m.pos + n /\ t.left = m.left - n
        /\ t.buffered = m.buffered /\ t.hashed = m.hashed /\ t.inOrder = m.inOrder
    BY <1>1, <1>2, TakeMoves
  <1>4. Buffer(c, h) = [t EXCEPT !.buffered = t.buffered + n]
    BY Zenon DEF Buffer, t, m, n
  <1> HIDE DEF t, n
  <1>5. t.buffered + n \in Int
    BY <1>1, <1>2, <1>3
  <1>6. /\ Buffer(c, h) \in Moving /\ Buffer(c, h).pos = t.pos /\ Buffer(c, h).left = t.left
        /\ Buffer(c, h).buffered = t.buffered + n /\ Buffer(c, h).hashed = t.hashed
        /\ Buffer(c, h).inOrder = t.inOrder
    BY <1>3, <1>4, <1>5, BufferedMoves
  <1> QED BY <1>2, <1>3, <1>6 DEF n

LEMMA MetAgainHeader ==
    ASSUME NEW c, NEW h
    PROVE  MetAgain(c, h) \in {{}, {h}}
  BY DEF MetAgain

\* Without a byte given back the hash stays at the cursor, and with one it
\* is one byte ahead.
LEMMA ParseRLPMoves ==
    ASSUME NEW c, NEW h \in Headers, Ready(c, h)
    PROVE  LET d == ParseRLP(c, h)
               givenBack == Outcome(c, h) = "Continue" /\ h.kind = "byte"
           IN  /\ d \in Cursor /\ d.buffered <= d.pos
               /\ d.buffered > 0 => Outcome(c, h) # "Continue"
               /\ Outcome(c, h) # "Continue" /\ h.size <= RLP_BUFFER_SIZE
                    => d.buffered <= h.size
               /\ Hashed(c) /\ ~givenBack => Hashed(d)
               /\ givenBack => d.left >= 1
               /\ Hashed(c) /\ givenBack => d.inOrder /\ d.hashed = d.pos + 1
  <1> DEFINE n == ReadBytes(c, h)
             b == Buffer(c, h)
             d == ParseRLP(c, h)
  <1>1. /\ c.pos \in Nat /\ c.left \in Nat /\ c.buffered \in Nat /\ c.hashed \in Nat
        /\ c.buffered <= c.pos
    BY DEF Ready, Cursor
  <1>2. /\ n \in Nat /\ n <= c.left /\ n <= Stop(c, h) - c.buffered
        /\ h.size <= RLP_BUFFER_SIZE => Stop(c, h) = h.size
        /\ Stop(c, h) \in Nat /\ c.buffered <= Stop(c, h)
    BY ReadBytesBounded
  <1>3. /\ b \in Moving /\ b.pos = c.pos + n /\ b.left = c.left - n
        /\ b.buffered = c.buffered + n /\ b.hashed = c.hashed + n
        /\ b.inOrder <=> (c.inOrder /\ (n = 0 \/ c.pos = c.hashed))
    BY BufferReads
  <1>4. Hashed(c) => b.inOrder /\ b.hashed = b.pos
    BY <1>3 DEF Hashed
  <1> HIDE DEF n, b
  <1>5. CASE Outcome(c, h) # "Continue"
    <2>1. d = b
      BY <1>5 DEF ParseRLP, b
    <2>2. d \in Cursor /\ d.buffered <= d.pos
      BY <1>1, <1>2, <1>3, <2>1 DEF Cursor, Moving
    <2>3. h.size <= RLP_BUFFER_SIZE => d.buffered <= h.size
      BY <1>1, <1>2, <1>3, <2>1
    <2> QED BY <1>4, <1>5, <2>1, <2>2, <2>3 DEF Hashed
  <1>6. CASE Outcome(c, h) = "Continue" /\ h.kind # "byte"
    <2> DEFINE r == [b EXCEPT !.buffered = 0]
    <2>1. /\ d = r /\ r \in Moving /\ r.pos = b.pos /\ r.left = b.left
          /\ r.buffered = 0 /\ r.hashed = b.hashed /\ r.inOrder = b.inOrder
      <3>1. d = r
        BY <1>6 DEF ParseRLP, b
      <3>2. /\ r \in Moving /\ r.pos = b.pos /\ r.left = b.left
            /\ r.buffered = 0 /\ r.hashed = b.hashed /\ r.inOrder = b.inOrder
        BY <1>3, BufferedMoves
      <3> QED BY <3>1, <3>2
    <2> HIDE DEF r
    <2>2. /\ d \in Moving /\ d.pos = b.pos /\ d.left = b.left
          /\ d.buffered = 0 /\ d.hashed = b.hashed /\ d.inOrder = b.inOrder
      BY <2>1
    <2>3. d \in Cursor /\ d.buffered <= d.pos
      BY <1>1, <1>2, <1>3, <2>2 DEF Cursor, Moving
    <2> QED BY <1>4, <1>6, <2>2, <2>3 DEF Hashed
  <1>7. CASE Outcome(c, h) = "Continue" /\ h.kind = "byte"
    <2> DEFINE r == [b EXCEPT !.buffered = 0]
    <2>1. d = Take(r, -1)
      BY <1>7 DEF ParseRLP, b
    <2>2. /\ r \in Moving /\ r.pos = b.pos /\ r.left = b.left
          /\ r.buffered = 0 /\ r.hashed = b.hashed /\ r.inOrder = b.inOrder
      BY <1>3, BufferedMoves
    <2> HIDE DEF r
    <2>3. /\ d \in Moving /\ d.pos = r.pos + (-1) /\ d.left = r.left - (-1)
          /\ d.buffered = 0 /\ d.hashed = r.hashed /\ d.inOrder = r.inOrder
      BY <2>1, <2>2, TakeMoves
    <2>4. c.buffered + n >= 1
      <3>1. h.size = 1
        BY <1>7, HeaderFacts
      <3>2. Stop(c, h) = 1
        BY <1>2, <3>1 DEF RLP_BUFFER_SIZE
      <3>3. ~(c.buffered + n < Stop(c, h))
        BY <1>7 DEF Outcome, n
      <3> QED BY <1>1, <1>2, <3>2, <3>3
    <2>5. d.pos = c.pos + n - 1 /\ d.left = c.left - n + 1 /\ d.hashed = c.hashed + n
      BY <1>1, <1>2, <1>3, <2>2, <2>3
    <2>6. d \in Cursor /\ d.buffered <= d.pos /\ d.left >= 1
      BY <1>1, <1>2, <2>3, <2>4, <2>5 DEF Cursor, Moving
    <2>7. Hashed(c) => d.inOrder /\ d.hashed = d.pos + 1
      BY <1>1, <1>2, <1>4, <2>2, <2>3, <2>5 DEF Hashed
    <2> QED BY <1>7, <2>3, <2>6, <2>7
  <1> QED BY <1>5, <1>6, <1>7

\* A field copied: its bytes are hashed once, a byte given back is not again.
LEMMA ContentMoves ==
    ASSUME NEW c \in Cursor, NEW h \in Headers, NEW n \in Nat, n <= c.left, c.buffered <= c.pos
    PROVE  LET d == Content(c, h, n) IN
           /\ d \in Cursor /\ d.buffered = c.buffered /\ d.buffered <= d.pos
           /\ h.kind # "byte" /\ Hashed(c) => Hashed(d)
           /\ h.kind = "byte" /\ n = 1 /\ c.inOrder /\ c.hashed = c.pos + 1 => Hashed(d)
  <1> DEFINE m == IF h.kind = "byte" THEN c ELSE Hash(c, n)
             d == Content(c, h, n)
  <1>1. /\ c \in Moving /\ n \in Int
        /\ c.pos \in Nat /\ c.left \in Nat /\ c.buffered \in Nat /\ c.hashed \in Nat
    BY DEF Cursor, Moving
  <1>2. /\ m \in Moving /\ m.pos = c.pos /\ m.left = c.left /\ m.buffered = c.buffered
        /\ h.kind = "byte" => m.hashed = c.hashed /\ m.inOrder = c.inOrder
        /\ h.kind # "byte" => /\ m.hashed = c.hashed + n
                              /\ m.inOrder <=> (c.inOrder /\ (n = 0 \/ c.pos = c.hashed))
    BY <1>1, HashMoves
  <1>3. d = Take(m, n)
    BY DEF Content
  <1> HIDE DEF m, d
  <1>4. /\ d \in Moving /\ d.pos = m.pos + n /\ d.left = m.left - n
        /\ d.buffered = m.buffered /\ d.hashed = m.hashed /\ d.inOrder = m.inOrder
    BY <1>1, <1>2, <1>3, TakeMoves
  <1>5. m.hashed \in Nat
    BY <1>1, <1>2
  <1>6. d \in Cursor /\ d.buffered = c.buffered /\ d.buffered <= d.pos
    BY <1>1, <1>2, <1>4, <1>5 DEF Cursor, Moving
  <1>7. h.kind # "byte" /\ Hashed(c) => Hashed(d)
    BY <1>1, <1>2, <1>4 DEF Hashed
  <1>8. h.kind = "byte" /\ n = 1 /\ c.inOrder /\ c.hashed = c.pos + 1 => Hashed(d)
    BY <1>1, <1>2, <1>4 DEF Hashed
  <1> QED BY <1>6, <1>7, <1>8 DEF d

-----------------------------------------------------------------------------
(* The field being processed and the next one.                             *)

LEMMA FieldTypes ==
    ASSUME TypeOK, ~Done
    PROVE  /\ currentField \in 1 .. Len(FieldOrder[txType])
           /\ Name \in FieldNames
           /\ currentField = 1 => Name = "content"
  <1>1. Len(FieldOrder[txType]) \in Nat /\ FieldOrder[txType] \in Seq(FieldNames)
        /\ FieldOrder[txType][1] = "content"
    BY FieldOrderShape DEF TypeOK
  <1>2. currentField \in 1 .. Len(FieldOrder[txType])
    BY <1>1 DEF TypeOK, Done
  <1> QED BY <1>1, <1>2 DEF Name

LEMMA NextFieldSkips ==
    ASSUME TypeOK, ~Done
    PROVE  /\ NextField \in 1 .. Len(FieldOrder[txType]) + 1
           /\ \/ NextField = currentField + 1
              \/ /\ NextField = currentField + 2
                 /\ Name \notin StoredNumbers
                 /\ FieldOrder[txType][currentField + 1] \notin StoredNumbers
  <1> DEFINE last == Len(FieldOrder[txType])
  <1>1. txType \in Types /\ last \in 10 .. 15 /\ FieldOrder[txType][last] = "zero2"
    BY FieldOrderShape DEF TypeOK
  <1>2. currentField \in 1 .. last
    BY FieldTypes
  <1>3. CASE txType = "Legacy" /\ Name = "content"
    <2>1. FieldOrder["Legacy"][1] = "content"
          /\ \A i \in 2 .. 11 : FieldOrder["Legacy"][i] # "content"
          /\ Len(FieldOrder["Legacy"]) = 11
      BY DEF FieldOrder
    <2>2. currentField = 1 /\ last = 11
      <3>1. last = 11 /\ FieldOrder["Legacy"][currentField] = "content"
        BY <1>3, <2>1 DEF Name
      <3>2. currentField \in 1 .. 11
        BY <1>2, <3>1
      <3>3. currentField \notin 2 .. 11
        BY <2>1, <3>1
      <3> QED BY <3>1, <3>2, <3>3
    <2>3. NextField = 3
      BY <1>3, <2>2 DEF NextField
    <2> QED BY <1>3, <2>2, <2>3, SkippedFields DEF StoredNumbers
  <1>4. CASE txType # "Legacy" /\ ~partialFee /\ Name = BeforeRatio[txType]
    <2>1. /\ FieldOrder[txType][currentField + 1] = "ratio"
          /\ Name \in {"from", "data", "humanReadable"}
      BY <1>1, <1>2, <1>4, SkippedFields DEF Name
    <2>2. currentField # last
      BY <1>1, <2>1 DEF Name
    <2>3. NextField = currentField + 2
      BY <1>4 DEF NextField
    <2> QED BY <1>1, <1>2, <2>1, <2>2, <2>3 DEF StoredNumbers
  <1>5. CASE /\ ~(txType = "Legacy" /\ Name = "content")
             /\ ~(txType # "Legacy" /\ ~partialFee /\ Name = BeforeRatio[txType])
    <2>1. NextField = currentField + 1
      BY <1>5 DEF NextField
    <2> QED BY <1>1, <1>2, <2>1
  <1> QED BY <1>3, <1>4, <1>5

\* The header about to be read, and what is in rlpBuffer of it.
LEMMA ReadyToRead ==
    ASSUME ParserInv, NEW h, ReadsHeader(h)
    PROVE  h \in Headers /\ Ready(cursor, h)
  <1>1. known \subseteq Headers /\ cursor \in Cursor /\ cursor.buffered \in Nat
    BY DEF ParserInv, TypeOK, Cursor
  <1>2. CASE known = {}
    <2>1. h \in Headers /\ cursor.buffered = 0
      BY <1>1, <1>2 DEF ReadsHeader, NextHeaders, ParserInv, BufferInv
    <2>2. h.size \in 1 .. 7
      BY <2>1, HeaderFacts
    <2> QED BY <1>1, <2>1, <2>2 DEF Ready, ParserInv, BufferInv
  <1>3. CASE known # {}
    BY <1>1, <1>3 DEF ReadsHeader, NextHeaders, Ready, ParserInv, BufferInv
  <1> QED BY <1>2, <1>3

\* After a header the parser meets again, rlpBuffer holds bytes of it.
LEMMA BufferAfter ==
    ASSUME NEW c, NEW h \in Headers, Ready(c, h), cursor' = ParseRLP(c, h),
           known' = MetAgain(c, h)
    PROVE  cursor' \in Cursor /\ known' \subseteq Headers /\ BufferInv'
  <1>1. /\ cursor' \in Cursor /\ cursor'.buffered <= cursor'.pos
        /\ cursor'.buffered > 0 => Outcome(c, h) # "Continue"
        /\ Outcome(c, h) # "Continue" /\ h.size <= RLP_BUFFER_SIZE
             => cursor'.buffered <= h.size
    BY ParseRLPMoves
  <1>2. known' \in {{}, {h}}
    BY MetAgainHeader
  <1>3. Outcome(c, h) # "Continue" => known' = {h}
    BY DEF MetAgain
  <1>4. \A k \in known' : k.size <= RLP_BUFFER_SIZE => cursor'.buffered <= k.size
    <2> SUFFICES ASSUME h.size <= RLP_BUFFER_SIZE PROVE cursor'.buffered <= h.size
      BY <1>2
    <2>1. cursor'.buffered \in Nat /\ h.size \in Nat
      BY <1>1, HeaderFacts DEF Cursor
    <2> QED BY <1>1, <2>1
  <1> QED BY <1>1, <1>2, <1>3, <1>4 DEF BufferInv

-----------------------------------------------------------------------------
(* One lemma per action.                                                   *)

\* The turns that end the parser and leave the rest alone.
LEMMA EndInv ==
    ASSUME ParserInv, Finish \/ FinishOldStyle \/ StopShort
    PROVE  ParserInv'
  <1>1. UNCHANGED <<txType, partialFee, cursor, known, outerRLP, currentField, processingField,
                    consumed, writes>>
    BY DEF Finish, FinishOldStyle, StopShort, Frame
  <1>2. TypeOK'
    BY <1>1 DEF Finish, FinishOldStyle, StopShort, ParserInv, TypeOK
  <1>3. BufferInv' /\ OuterFirst' /\ DetermineInv'
    BY <1>1 DEF ParserInv, BufferInv, OuterFirst, DetermineInv
  <1>4. HashInv' /\ FinishedAt'
    <2>1. CASE StopShort
      BY <2>1 DEF StopShort, HashInv, FinishedAt
    <2>2. CASE Finish
      <3>1. currentField # 1 /\ currentField = Len(FieldOrder[txType]) + 1
        BY <2>2, FieldOrderShape DEF Finish, Done, ParserInv, TypeOK
      <3> QED BY <1>1, <2>2, <3>1
              DEF Finish, Parsing, ParserInv, HashInv, Hashed, ByteInPlaceOfList, FinishedAt
    <2>3. CASE FinishOldStyle
      <3>1. txType = "Legacy" /\ currentField \in 1 .. Len(FieldOrder[txType])
            /\ FieldOrder[txType][currentField] = "chainID"
        BY <2>3, FieldTypes DEF FinishOldStyle, AtOldStyleEnd, Name, ParserInv
      <3>2. currentField = 9
        BY <3>1, NumbersOrder DEF ParserInv, TypeOK
      <3> QED BY <1>1, <2>3, <3>1, <3>2
              DEF FinishOldStyle, Parsing, ParserInv, HashInv, Hashed, ByteInPlaceOfList, FinishedAt
    <2> QED BY <2>1, <2>2, <2>3
  <1> QED BY <1>2, <1>3, <1>4 DEF ParserInv

LEMMA OuterHeadersInv ==
    ASSUME ParserInv, ReadOuterHeaders
    PROVE  ParserInv'
  <1>1. PICK h1 \in Headers :
          \E h2 \in (IF MetAgain(cursor, h1) = {} THEN Headers ELSE MetAgain(cursor, h1)) :
             /\ cursor' = ParseRLP(ParseRLP(cursor, h1), h2)
             /\ known' = MetAgain(ParseRLP(cursor, h1), h2)
    BY DEF ReadOuterHeaders
  <1> DEFINE c == ParseRLP(cursor, h1)
  <1>2. PICK h2 \in Headers : /\ MetAgain(cursor, h1) # {} => h2 = h1
                              /\ cursor' = ParseRLP(c, h2)
                              /\ known' = MetAgain(c, h2)
    BY <1>1, MetAgainHeader
  <1>3. /\ status = "Parsing" /\ status' = "Parsing" /\ outerRLP' = FALSE
        /\ currentField = 1 /\ known = {}
        /\ UNCHANGED <<txType, partialFee, currentField, processingField, consumed, writes>>
    BY DEF ReadOuterHeaders, GoesOn, Parsing, Frame, ParserInv, OuterFirst
  <1>4. cursor \in Cursor /\ cursor.buffered = 0 /\ Ready(cursor, h1) /\ Hashed(cursor)
    <2>1. cursor \in Cursor /\ cursor.buffered = 0
      BY <1>3 DEF ParserInv, TypeOK, BufferInv, Cursor
    <2>2. h1.size \in 1 .. 7
      BY HeaderFacts
    <2>3. Hashed(cursor)
      BY <1>3 DEF ParserInv, HashInv, ByteInPlaceOfList
    <2> QED BY <2>1, <2>2, <2>3 DEF Ready, ParserInv, BufferInv
  <1> DEFINE givenBack == Outcome(cursor, h1) = "Continue" /\ h1.kind = "byte"
  <1>5. /\ c \in Cursor /\ c.buffered <= c.pos
        /\ c.buffered > 0 => Outcome(cursor, h1) # "Continue"
        /\ Outcome(cursor, h1) # "Continue" /\ h1.size <= RLP_BUFFER_SIZE
             => c.buffered <= h1.size
        /\ ~givenBack => Hashed(c)
    BY <1>4, ParseRLPMoves
  <1>6. MetAgain(cursor, h1) = IF Outcome(cursor, h1) # "Continue" \/ h1.kind = "byte"
                               THEN {h1} ELSE {}
    BY DEF MetAgain
  <1> HIDE DEF c
  <1>7. Ready(c, h2)
    <2>1. c.buffered \in Nat /\ h2.size \in 1 .. 7
      BY <1>5, HeaderFacts DEF Cursor
    <2>2. CASE c.buffered > 0
      BY <1>2, <1>5, <1>6, <2>2 DEF Ready
    <2>3. CASE c.buffered = 0
      BY <1>5, <2>1, <2>3 DEF Ready
    <2> QED BY <2>1, <2>2, <2>3
  <1>8. cursor' \in Cursor /\ known' \subseteq Headers /\ BufferInv'
    BY <1>2, <1>7, BufferAfter
  <1>9. Hashed(cursor') \/ \E h \in Headers : h.kind = "byte" /\ known' = {h}
    <2>1. CASE h2.kind = "byte"
      <3>1. known' = {h2}
        BY <1>2, <2>1 DEF MetAgain
      <3> QED BY <2>1, <3>1
    <2>2. CASE h2.kind # "byte"
      <3>1. ~givenBack
        BY <1>2, <1>6, <2>2
      <3>2. Hashed(c)
        BY <1>5, <3>1
      <3> QED BY <1>2, <1>7, <2>2, <3>2, ParseRLPMoves
    <2> QED BY <2>1, <2>2
  <1>10. TypeOK'
    BY <1>3, <1>8 DEF ParserInv, TypeOK
  <1>11. HashInv'
    BY <1>3, <1>9 DEF HashInv, Hashed, ByteInPlaceOfList
  <1>12. OuterFirst' /\ DetermineInv' /\ FinishedAt'
    BY <1>3 DEF ParserInv, OuterFirst, DetermineInv, FinishedAt
  <1> QED BY <1>8, <1>10, <1>11, <1>12 DEF ParserInv

LEMMA FailInv ==
    ASSUME ParserInv, NEW h \in Headers, FailHeader(h) \/ FailField(h)
    PROVE  ParserInv'
  <1>1. /\ ReadsHeader(h)
        /\ cursor' = ParseRLP(cursor, h) /\ known' = MetAgain(cursor, h)
        /\ status' \in {"Processing", "Fault"}
        /\ UNCHANGED <<txType, partialFee, outerRLP, currentField, processingField, consumed, writes>>
    BY DEF FailHeader, FailField, Outcome, Frame
  <1>2. cursor' \in Cursor /\ known' \subseteq Headers /\ BufferInv'
    BY <1>1, ReadyToRead, BufferAfter
  <1>3. TypeOK'
    BY <1>1, <1>2 DEF ParserInv, TypeOK
  <1>4. ~outerRLP'
    BY <1>1 DEF ReadsHeader
  <1>5. HashInv' /\ OuterFirst' /\ DetermineInv' /\ FinishedAt'
    BY <1>1, <1>4 DEF ParserInv, HashInv, OuterFirst, DetermineInv, FinishedAt
  <1> QED BY <1>2, <1>3, <1>5 DEF ParserInv

\* What a field that is accepted does to the cursor.
LEMMA AcceptedField ==
    ASSUME ParserInv, NEW h, ReadsHeader(h), Outcome(cursor, h) = "Continue", Accepts(Name, h),
           NEW n \in Nat, n <= ParseRLP(cursor, h).left, h.kind = "byte" => n = 1
    PROVE  LET d == Content(ParseRLP(cursor, h), h, n) IN
           d \in Cursor /\ d.buffered = 0 /\ Hashed(d)
  <1> DEFINE c == ParseRLP(cursor, h)
  <1>1. h \in Headers /\ Ready(cursor, h)
    BY ReadyToRead
  <1>2. Hashed(cursor)
    <2>1. status = "Parsing" /\ h \in NextHeaders /\ ~Done
      BY DEF ReadsHeader, GoesOn, Parsing
    <2>2. ~ByteInPlaceOfList
      <3> SUFFICES ASSUME ByteInPlaceOfList PROVE FALSE
        OBVIOUS
      <3>1. h.kind = "byte"
        BY <2>1 DEF ByteInPlaceOfList, NextHeaders
      <3>2. Name = "content"
        BY <2>1, FieldTypes DEF ByteInPlaceOfList, ParserInv
      <3> QED BY <3>1, <3>2 DEF Accepts
    <2> QED BY <2>1, <2>2 DEF ParserInv, HashInv
  <1>3. /\ c \in Cursor /\ c.buffered <= c.pos /\ c.buffered \in Nat
        /\ ~(c.buffered > 0)
        /\ h.kind # "byte" => Hashed(c)
        /\ h.kind = "byte" => c.inOrder /\ c.hashed = c.pos + 1
    BY <1>1, <1>2, ParseRLPMoves DEF Cursor
  <1> HIDE DEF c
  <1>4. c.buffered = 0
    BY <1>3
  <1>5. n <= c.left
    BY DEF c
  <1>6. Content(c, h, n) \in Cursor /\ Content(c, h, n).buffered = 0 /\ Hashed(Content(c, h, n))
    BY <1>1, <1>3, <1>4, <1>5, ContentMoves
  <1> QED BY <1>6 DEF c

\* The length the parser copies for a field it accepts.
LEMMA ContentLengthFacts ==
    ASSUME NEW h \in Headers, Accepts(Name, h)
    PROVE  ContentLength(h) \in Nat /\ (h.kind = "byte" => ContentLength(h) = 1)
  BY HeaderFacts DEF ContentLength, Accepts

LEMMA CompleteFieldInv ==
    ASSUME ParserInv, NEW h \in Headers, CompleteField(h)
    PROVE  ParserInv'
  <1>1. /\ ReadsHeader(h) /\ Outcome(cursor, h) = "Continue" /\ Accepts(Name, h)
        /\ ParseRLP(cursor, h).left >= ContentLength(h)
        /\ cursor' = Content(ParseRLP(cursor, h), h, ContentLength(h))
        /\ known' = {} /\ currentField' = NextField
        /\ consumed' = Append(consumed, Name) /\ writes' = writes \cup Stores(h)
        /\ UNCHANGED <<txType, partialFee, outerRLP, processingField, status>>
    BY DEF CompleteField, Frame
  <1>2. /\ TypeOK /\ ~Done /\ ~outerRLP /\ status = "Parsing"
    BY <1>1 DEF ParserInv, ReadsHeader, GoesOn, Parsing
  <1>3. cursor' \in Cursor /\ cursor'.buffered = 0 /\ Hashed(cursor')
    <2>1. ParseRLP(cursor, h).left \in Nat
      BY <1>1, ReadyToRead, ParseRLPMoves DEF Cursor
    <2>2. ContentLength(h) \in Nat /\ ContentLength(h) <= ParseRLP(cursor, h).left
          /\ (h.kind = "byte" => ContentLength(h) = 1)
      BY <1>1, <2>1, ContentLengthFacts
    <2> QED BY <1>1, <2>2, AcceptedField
  <1>4. /\ NextField \in 1 .. Len(FieldOrder[txType]) + 1
        /\ Name \in FieldNames
        /\ currentField \in Nat
    BY <1>2, NextFieldSkips, FieldTypes DEF TypeOK
  <1>5. Stores(h) \subseteq StoredFields
    BY DEF Stores, StoredFields
  <1>6. TypeOK'
    BY <1>1, <1>2, <1>3, <1>4, <1>5 DEF TypeOK
  <1>7. BufferInv'
    <2>1. cursor'.buffered <= cursor'.pos
      BY <1>3 DEF Cursor
    <2> QED BY <1>1, <1>3, <2>1 DEF BufferInv
  <1>8. OuterFirst' /\ HashInv' /\ FinishedAt'
    BY <1>1, <1>2, <1>3 DEF OuterFirst, HashInv, Hashed, FinishedAt
  <1>9. DetermineInv'
    <2> SUFFICES ASSUME NEW i \in 1 .. NextField - 1, FieldOrder[txType][i] \in StoredNumbers
                 PROVE  FieldOrder[txType][i] \in writes \cup Stores(h)
      BY <1>1 DEF DetermineInv
    <2>1. CASE i \in 1 .. currentField - 1
      BY <2>1 DEF ParserInv, DetermineInv
    <2>2. CASE i = currentField
      BY <2>2 DEF Name, StoredNumbers, Stores
    <2>3. i \notin 1 .. currentField - 1 /\ i # currentField
            => i = currentField + 1 /\ NextField = currentField + 2
      BY <1>2, <1>4, NextFieldSkips
    <2> QED BY <1>2, <2>1, <2>2, <2>3, NextFieldSkips
  <1> QED BY <1>6, <1>7, <1>8, <1>9 DEF ParserInv

LEMMA BreakOffInv ==
    ASSUME ParserInv, NEW h \in Headers, BreakOff(h)
    PROVE  ParserInv'
  <1> DEFINE c == ParseRLP(cursor, h)
  <1>1. /\ ReadsHeader(h) /\ Outcome(cursor, h) = "Continue" /\ Accepts(Name, h)
        /\ c.left < ContentLength(h)
        /\ cursor' = Content(c, h, c.left)
        /\ known' = {} /\ processingField' = TRUE /\ currentField' = NextField - 1
        /\ UNCHANGED <<txType, partialFee, outerRLP, consumed, writes, status>>
    BY DEF BreakOff, Frame
  <1>2. /\ TypeOK /\ ~Done /\ ~outerRLP /\ status = "Parsing"
    BY <1>1 DEF ParserInv, ReadsHeader, GoesOn, Parsing
  <1>3. cursor' \in Cursor /\ cursor'.buffered = 0 /\ Hashed(cursor')
    <2>1. c.left \in Nat /\ (h.kind = "byte" => c.left >= 1)
      BY <1>1, ReadyToRead, ParseRLPMoves DEF Cursor
    <2>2. h.kind # "byte"
      BY <1>1, <2>1, ContentLengthFacts
    <2>3. c.left \in Nat /\ c.left <= c.left
      BY <2>1
    <2> QED BY <1>1, <2>2, <2>3, AcceptedField
  <1> HIDE DEF c
  <1>4. /\ NextField \in 1 .. Len(FieldOrder[txType]) + 1
        /\ currentField \in 1 .. Len(FieldOrder[txType])
        /\ NextField - 1 \in 1 .. Len(FieldOrder[txType]) + 1
        /\ \/ NextField - 1 = currentField
           \/ NextField - 1 = currentField + 1 /\ Name \notin StoredNumbers
    <2>1. Len(FieldOrder[txType]) \in Nat
      BY <1>2, FieldOrderShape DEF TypeOK
    <2> QED BY <1>2, <2>1, NextFieldSkips, FieldTypes
  <1>5. TypeOK'
    BY <1>1, <1>2, <1>3, <1>4 DEF TypeOK
  <1>6. BufferInv'
    <2>1. cursor'.buffered <= cursor'.pos
      BY <1>3 DEF Cursor
    <2> QED BY <1>1, <1>3, <2>1 DEF BufferInv
  <1>7. OuterFirst' /\ HashInv' /\ FinishedAt'
    BY <1>1, <1>2, <1>3 DEF OuterFirst, HashInv, Hashed, FinishedAt
  <1>8. DetermineInv'
    <2> SUFFICES ASSUME NEW i \in 1 .. (NextField - 1) - 1, FieldOrder[txType][i] \in StoredNumbers
                 PROVE  FieldOrder[txType][i] \in writes
      BY <1>1 DEF DetermineInv
    <2>1. i \in 1 .. currentField - 1
      BY <1>4 DEF Name
    <2> QED BY <2>1 DEF ParserInv, DetermineInv
  <1> QED BY <1>5, <1>6, <1>7, <1>8 DEF ParserInv

-----------------------------------------------------------------------------
(* The invariant, and the promises that follow from it.                    *)

LEMMA ParserInvInit == Init => ParserInv
  <1> SUFFICES ASSUME Init PROVE ParserInv
    OBVIOUS
  <1>1. PICK n \in Lengths :
          cursor = [pos |-> 0, left |-> n, buffered |-> 0, hashed |-> 0, inOrder |-> TRUE]
    BY DEF Init
  <1>2. cursor \in Cursor /\ cursor.buffered = 0 /\ Hashed(cursor) /\ cursor.pos = 0
    BY <1>1, LengthsAssumption DEF Cursor, Hashed
  <1>3. currentField \in 1 .. Len(FieldOrder[txType]) + 1
    BY FieldOrderShape DEF Init
  <1>4. TypeOK
    <2>1. outerRLP \in BOOLEAN
      BY Zenon DEF Init
    <2>2. <<>> \in Seq(FieldNames)
      OBVIOUS
    <2> QED BY <1>2, <1>3, <2>1, <2>2 DEF Init, TypeOK
  <1>5. BufferInv /\ OuterFirst /\ HashInv /\ FinishedAt
    BY <1>2 DEF Init, BufferInv, OuterFirst, HashInv, FinishedAt
  <1>6. DetermineInv
    BY DEF Init, DetermineInv
  <1> QED BY <1>4, <1>5, <1>6 DEF ParserInv

LEMMA ParserInvNext == ParserInv /\ [Next]_vars => ParserInv'
  <1> SUFFICES ASSUME ParserInv, [Next]_vars PROVE ParserInv'
    OBVIOUS
  <1>1. CASE Finish \/ FinishOldStyle \/ StopShort
    BY <1>1, EndInv
  <1>2. CASE ReadOuterHeaders
    BY <1>2, OuterHeadersInv
  <1>3. ASSUME NEW h \in Headers, FailHeader(h) \/ FailField(h) \/ CompleteField(h) \/ BreakOff(h)
        PROVE  ParserInv'
    BY <1>3, FailInv, CompleteFieldInv, BreakOffInv
  <1>4. CASE UNCHANGED vars
    BY <1>4 DEF vars, ParserInv, TypeOK, BufferInv, OuterFirst, HashInv, Hashed,
                ByteInPlaceOfList, DetermineInv, FinishedAt
  <1> QED BY <1>1, <1>2, <1>3, <1>4 DEF Next, Stopped

LEMMA ParserInvariant == Spec => []ParserInv
  BY ParserInvInit, ParserInvNext, PTL DEF Spec

\* The cursor, the field and what is stored stay well-formed.
THEOREM ParserTypeCorrect == Spec => []TypeOK
  BY ParserInvariant, PTL DEF ParserInv

\* A finished parse hashed every byte it read once and in order, for any
\* headers and any length: the bytes given back are not hashed again.
THEOREM HashIsOfTheBytes == Spec => []HashedOnce
  <1>1. ParserInv => HashedOnce
    BY DEF ParserInv, HashInv, Hashed, HashedOnce
  <1> QED BY <1>1, ParserInvariant, PTL

\* A finished parse has stored every number the summary displays and, but
\* for a legacy transaction, the chain id of the signature.
THEOREM FinishedStoresNumbers == Spec => []FinishedDetermines
  <1>1. ParserInv => FinishedDetermines
    <2> SUFFICES ASSUME ParserInv, status = "Finished"
                 PROVE  /\ {"nonce", "gasprice", "startgas"} \subseteq writes
                        /\ txType # "Cancel" => "value" \in writes
                        /\ txType # "Legacy" => "chainID" \in writes
      BY DEF FinishedDetermines, Determined, Numbers
    <2>1. txType \in Types /\ Len(FieldOrder[txType]) \in 10 .. 15
      BY FieldOrderShape DEF ParserInv, TypeOK
    <2>2. \A i \in 1 .. currentField - 1 : FieldOrder[txType][i] \in StoredNumbers
                                              => FieldOrder[txType][i] \in writes
      BY DEF ParserInv, DetermineInv
    <2>3. CASE currentField = Len(FieldOrder[txType]) + 1
      <3>1. \A i \in 1 .. Len(FieldOrder[txType]) : FieldOrder[txType][i] \in StoredNumbers
                                                       => FieldOrder[txType][i] \in writes
        BY <2>1, <2>2, <2>3, SMTT(30)
      <3> QED BY <2>1, <3>1, NumbersOrder, SMTT(30) DEF StoredNumbers
    <2>4. CASE txType = "Legacy" /\ currentField = 9
      <3>1. FieldOrder[txType][3] \in writes /\ FieldOrder[txType][4] \in writes
            /\ FieldOrder[txType][5] \in writes /\ FieldOrder[txType][7] \in writes
        BY <2>1, <2>2, <2>4, NumbersOrder DEF StoredNumbers
      <3> QED BY <2>1, <2>4, <3>1, NumbersOrder
    <2> QED BY <2>3, <2>4 DEF ParserInv, FinishedAt
  <1> QED BY <1>1, ParserInvariant, PTL

-----------------------------------------------------------------------------
(* The order of the fields.  A type has at most one field that is absent;  *)
(* the fields completed are those before the current one, without it.      *)

\* Past the end of every type: no field is absent.
NoField == 17

AbsentAt(t, ratio) ==
    IF ratio THEN NoField
    ELSE [Legacy |-> 2, ValueTransfer |-> 9, ValueTransferMemo |-> 10, SmartContractDeploy |-> 11,
          SmartContractExecution |-> 10, Cancel |-> 7][t]

HasRatio == partialFee /\ txType # "Legacy"
Absent == AbsentAt(txType, HasRatio)

\* The place in FieldOrder of the i-th field of an encoding.
PlaceOf(i) == IF i < Absent THEN i ELSE i + 1

\* How many fields are completed before a field is.
CompletedBefore(i) == IF i < Absent THEN i - 1 ELSE i - 2

\* Only a field that broke off may leave the parser at an absent one.
OrderInv ==
    /\ currentField = Absent => processingField
    /\ Len(consumed) = CompletedBefore(currentField)
    /\ \A i \in 1 .. Len(consumed) : consumed[i] = FieldOrder[txType][PlaceOf(i)]

LEMMA AbsentFields ==
    ASSUME NEW t \in Types, NEW ratio \in BOOLEAN, ratio => t # "Legacy"
    PROVE  /\ AbsentAt(t, ratio) \in Nat
           /\ ratio => AbsentAt(t, ratio) = NoField
           /\ ~ratio => AbsentAt(t, ratio) \in 2 .. Len(FieldOrder[t]) - 1
           /\ t = "Legacy" => AbsentAt(t, ratio) = 2
           /\ \A i \in 1 .. Len(FieldOrder[t]) :
                 Has(t, ratio, FieldOrder[t][i]) <=> i # AbsentAt(t, ratio)
  <1>1. CASE t = "Legacy"                  BY <1>1 DEF AbsentAt, NoField, FieldOrder, Has
  <1>2. CASE t = "ValueTransfer"           BY <1>2 DEF AbsentAt, NoField, FieldOrder, Has
  <1>3. CASE t = "ValueTransferMemo"       BY <1>3 DEF AbsentAt, NoField, FieldOrder, Has
  <1>4. CASE t = "SmartContractDeploy"     BY <1>4 DEF AbsentAt, NoField, FieldOrder, Has
  <1>5. CASE t = "SmartContractExecution"  BY <1>5 DEF AbsentAt, NoField, FieldOrder, Has
  <1>6. CASE t = "Cancel"                  BY <1>6 DEF AbsentAt, NoField, FieldOrder, Has
  <1> QED BY <1>1, <1>2, <1>3, <1>4, <1>5, <1>6 DEF Types

\* The field after which the parser skips one is the one before the absent.
LEMMA SkipsBefore ==
    ASSUME NEW t \in Types, NEW i \in 1 .. Len(FieldOrder[t])
    PROVE  /\ t = "Legacy" => (FieldOrder[t][i] = "content" <=> i + 1 = AbsentAt(t, FALSE))
           /\ t # "Legacy" => (FieldOrder[t][i] = BeforeRatio[t] <=> i + 1 = AbsentAt(t, FALSE))
  <1>1. CASE t = "Legacy"                  BY <1>1 DEF AbsentAt, FieldOrder
  <1>2. CASE t = "ValueTransfer"           BY <1>2 DEF AbsentAt, FieldOrder, BeforeRatio
  <1>3. CASE t = "ValueTransferMemo"       BY <1>3 DEF AbsentAt, FieldOrder, BeforeRatio
  <1>4. CASE t = "SmartContractDeploy"     BY <1>4 DEF AbsentAt, FieldOrder, BeforeRatio
  <1>5. CASE t = "SmartContractExecution"  BY <1>5 DEF AbsentAt, FieldOrder, BeforeRatio
  <1>6. CASE t = "Cancel"                  BY <1>6 DEF AbsentAt, FieldOrder, BeforeRatio
  <1> QED BY <1>1, <1>2, <1>3, <1>4, <1>5, <1>6 DEF Types

LEMMA AbsentType ==
    ASSUME TypeOK
    PROVE  /\ HasRatio \in BOOLEAN /\ Absent \in Nat /\ Absent # Len(FieldOrder[txType]) + 1
           /\ Absent # 1
           /\ txType = "Legacy" => Absent = 2
           /\ Len(FieldOrder[txType]) \in 10 .. 15
  <1>1. txType \in Types /\ HasRatio \in BOOLEAN /\ (HasRatio => txType # "Legacy")
    BY DEF TypeOK, HasRatio
  <1>2. Len(FieldOrder[txType]) \in 10 .. 15
    BY <1>1, FieldOrderShape
  <1>3. /\ HasRatio => Absent = 17
        /\ ~HasRatio => Absent \in 2 .. Len(FieldOrder[txType]) - 1
        /\ txType = "Legacy" => Absent = 2
    BY <1>1, AbsentFields DEF Absent, NoField
  <1>4. PICK n \in 10 .. 15, a \in Nat : n = Len(FieldOrder[txType]) /\ a = Absent
    BY <1>1, <1>2, AbsentFields DEF Absent
  <1>5. a = 17 \/ a \in 2 .. n - 1
    BY <1>3, <1>4
  <1>6. a \in Nat /\ a # n + 1 /\ a # 1
    BY <1>5
  <1> QED BY <1>1, <1>2, <1>3, <1>4, <1>6

LEMMA NextFieldPassesAbsent ==
    ASSUME TypeOK, ~Done
    PROVE  NextField = IF currentField + 1 = Absent THEN currentField + 2 ELSE currentField + 1
  <1>1. txType \in Types /\ currentField \in 1 .. Len(FieldOrder[txType]) /\ partialFee \in BOOLEAN
    BY FieldTypes DEF TypeOK
  <1>2. CASE txType = "Legacy"
    <2>1. HasRatio = FALSE
      BY <1>2 DEF HasRatio
    <2> QED BY <1>1, <1>2, <2>1, SkipsBefore DEF NextField, Name, Absent
  <1>3. CASE txType # "Legacy" /\ ~partialFee
    <2>1. HasRatio = FALSE
      BY <1>3 DEF HasRatio
    <2> QED BY <1>1, <1>3, <2>1, SkipsBefore DEF NextField, Name, Absent
  <1>4. CASE txType # "Legacy" /\ partialFee
    <2>1. Absent = NoField
      BY <1>4 DEF Absent, AbsentAt, HasRatio
    <2>2. PICK n \in 10 .. 15 : n = Len(FieldOrder[txType])
      BY <1>1, FieldOrderShape
    <2>3. currentField \in 1 .. n
      BY <1>1, <2>2
    <2>4. currentField + 1 # 17
      BY <2>3
    <2>5. currentField + 1 # Absent
      BY <2>1, <2>4 DEF NoField
    <2> QED BY <1>4, <2>5 DEF NextField
  <1> QED BY <1>1, <1>2, <1>3, <1>4

LEMMA OrderInvInit == Init => OrderInv
  <1> SUFFICES ASSUME Init PROVE OrderInv
    OBVIOUS
  <1>1. TypeOK /\ currentField = 1 /\ consumed = <<>>
    BY ParserInvInit DEF ParserInv, Init
  <1>2. Absent \in Nat /\ Absent # 1
    BY <1>1, AbsentType
  <1>3. 1 < Absent
    <2>1. Absent # 0
      <3>1. txType \in Types /\ HasRatio \in BOOLEAN /\ (HasRatio => txType # "Legacy")
        BY <1>1, AbsentType DEF TypeOK, HasRatio
      <3>2. Absent = NoField \/ Absent \in 2 .. Len(FieldOrder[txType]) - 1
        BY <3>1, AbsentFields DEF Absent
      <3> QED BY <3>2, <3>1, FieldOrderShape DEF NoField
    <2> QED BY <1>2, <2>1
  <1> QED BY <1>1, <1>3 DEF OrderInv, CompletedBefore

LEMMA OrderInvComplete ==
    ASSUME TypeOK, OrderInv, NEW h \in Headers, CompleteField(h)
    PROVE  OrderInv'
  <1>1. /\ ~Done /\ ~processingField
        /\ currentField' = NextField /\ consumed' = Append(consumed, Name)
        /\ UNCHANGED <<txType, partialFee, processingField>>
    BY DEF CompleteField, ReadsHeader, GoesOn, Frame
  <1>2. /\ currentField \in Nat /\ currentField # Absent /\ Absent \in Nat
        /\ consumed \in Seq(FieldNames) /\ Name \in FieldNames
        /\ Name = FieldOrder[txType][currentField]
    BY <1>1, AbsentType, FieldTypes DEF TypeOK, OrderInv, Name
  <1>3. Absent' = Absent
    BY <1>1 DEF Absent, HasRatio
  <1>4. currentField' = IF currentField + 1 = Absent THEN currentField + 2 ELSE currentField + 1
    BY <1>1, NextFieldPassesAbsent
  <1>5. Len(consumed) = CompletedBefore(currentField) /\ Len(consumed) \in Nat
    BY <1>2 DEF OrderInv
  <1>6. /\ Len(consumed') = Len(consumed) + 1
        /\ consumed'[Len(consumed) + 1] = Name
        /\ \A i \in 1 .. Len(consumed) : consumed'[i] = consumed[i]
    BY <1>1, <1>2
  <1>7. currentField' # Absent'
    BY <1>2, <1>3, <1>4
  <1>8. Len(consumed') = CompletedBefore(currentField)'
    BY <1>2, <1>3, <1>4, <1>5, <1>6 DEF CompletedBefore
  <1>9. PlaceOf(Len(consumed) + 1) = currentField
    BY <1>2, <1>5 DEF PlaceOf, CompletedBefore
  <1>10. ASSUME NEW i \in 1 .. Len(consumed')
         PROVE  consumed'[i] = FieldOrder[txType][PlaceOf(i)]
    <2>1. CASE i \in 1 .. Len(consumed)
      BY <1>6, <2>1 DEF OrderInv
    <2>2. CASE i = Len(consumed) + 1
      BY <1>2, <1>6, <1>9, <2>2
    <2> QED BY <1>5, <1>6, <2>1, <2>2
  <1>11. \A i \in 1 .. Len(consumed') : PlaceOf(i)' = PlaceOf(i)
    BY <1>3 DEF PlaceOf
  <1> QED BY <1>1, <1>7, <1>8, <1>10, <1>11 DEF OrderInv

LEMMA OrderInvBreakOff ==
    ASSUME TypeOK, OrderInv, NEW h \in Headers, BreakOff(h)
    PROVE  OrderInv'
  <1>1. /\ ~Done /\ ~processingField /\ processingField' = TRUE
        /\ currentField' = NextField - 1
        /\ UNCHANGED <<txType, partialFee, consumed>>
    BY DEF BreakOff, ReadsHeader, GoesOn, Frame
  <1>2. currentField \in Nat /\ currentField # Absent /\ Absent \in Nat
    BY <1>1, AbsentType, FieldTypes DEF TypeOK, OrderInv
  <1>3. Absent' = Absent
    BY <1>1 DEF Absent, HasRatio
  <1>4. currentField' = IF currentField + 1 = Absent THEN currentField + 1 ELSE currentField
    BY <1>1, <1>2, NextFieldPassesAbsent
  <1>5. CompletedBefore(currentField)' = CompletedBefore(currentField)
    BY <1>2, <1>3, <1>4 DEF CompletedBefore
  <1>6. \A i \in 1 .. Len(consumed) : PlaceOf(i)' = PlaceOf(i)
    BY <1>3 DEF PlaceOf
  <1> QED BY <1>1, <1>5, <1>6 DEF OrderInv

LEMMA OrderInvNext == TypeOK /\ OrderInv /\ [Next]_vars => OrderInv'
  <1> SUFFICES ASSUME TypeOK, OrderInv, [Next]_vars PROVE OrderInv'
    OBVIOUS
  <1>1. CASE UNCHANGED <<txType, partialFee, currentField, processingField, consumed>>
    BY <1>1 DEF OrderInv, CompletedBefore, PlaceOf, Absent, HasRatio
  <1>2. ASSUME NEW h \in Headers, CompleteField(h)
        PROVE  OrderInv'
    BY <1>2, OrderInvComplete
  <1>3. ASSUME NEW h \in Headers, BreakOff(h)
        PROVE  OrderInv'
    BY <1>3, OrderInvBreakOff
  <1>4. \/ UNCHANGED <<txType, partialFee, currentField, processingField, consumed>>
        \/ \E h \in Headers : CompleteField(h) \/ BreakOff(h)
    BY DEF Next, Finish, FinishOldStyle, StopShort, ReadOuterHeaders, FailHeader, FailField,
           Stopped, Frame, vars
  <1> QED BY <1>1, <1>2, <1>3, <1>4

LEMMA EncodingPlaces ==
    ASSUME TypeOK
    PROVE  LET e == Encoding(txType, HasRatio) IN
           /\ e \in Seq(FieldNames)
           /\ Len(e) = CompletedBefore(Len(FieldOrder[txType]) + 1)
           /\ \A i \in 1 .. Len(e) : e[i] = FieldOrder[txType][PlaceOf(i)]
  <1> DEFINE order == FieldOrder[txType]
             e == Encoding(txType, HasRatio)
             complete(i) == \A j \in 1 .. i : Has(txType, HasRatio, order[j])
             n == Len(order) - (IF complete(Len(order)) THEN 0 ELSE 1)
  <1>1. /\ HasRatio \in BOOLEAN /\ txType \in Types /\ (HasRatio => txType # "Legacy")
        /\ order \in Seq(FieldNames) /\ Len(order) \in 10 .. 15
    BY AbsentType, FieldOrderShape DEF TypeOK, HasRatio
  <1>2. \A i \in 1 .. Len(order) : Has(txType, HasRatio, order[i]) <=> i # Absent
    BY <1>1, AbsentFields DEF Absent
  <1>3. Absent \in Nat /\ (Absent = NoField \/ Absent \in 2 .. Len(order) - 1)
    BY <1>1, AbsentFields DEF Absent
  <1>4. e = [i \in 1 .. n |-> IF complete(i) THEN order[i] ELSE order[i + 1]]
    BY DEF Encoding
  <1> HIDE DEF order, e
  <1>5. ASSUME NEW i \in 1 .. Len(order)
        PROVE  complete(i) <=> i < Absent
    <2>1. CASE i < Absent
      <3>1. \A j \in 1 .. i : j \in 1 .. Len(order) /\ j # Absent
        BY <1>1, <1>3, <2>1
      <3> QED BY <1>2, <2>1, <3>1
    <2>2. CASE ~(i < Absent)
      <3>1. Absent \in 1 .. i /\ Absent \in 1 .. Len(order)
        BY <1>1, <1>3, <2>2 DEF NoField
      <3> QED BY <1>2, <2>2, <3>1
    <2> QED BY <2>1, <2>2
  <1> HIDE DEF complete
  <1>6. n = CompletedBefore(Len(order) + 1) /\ n \in Nat /\ n <= Len(order)
        /\ (n = Len(order) => Absent = NoField)
    <2>1. PICK l \in 10 .. 15, a \in Nat : l = Len(order) /\ a = Absent
      BY <1>1, <1>3
    <2>2. complete(l) <=> l < a
      BY <1>5, <2>1
    <2>3. n = l - (IF complete(l) THEN 0 ELSE 1)
      BY <2>1
    <2>4. a = 17 \/ a \in 2 .. l - 1
      BY <1>3, <2>1 DEF NoField
    <2>5. CompletedBefore(l + 1) = IF l + 1 < a THEN (l + 1) - 1 ELSE (l + 1) - 2
      BY <2>1 DEF CompletedBefore
    <2>6. CASE a = 17
      <3>1. complete(l) /\ l + 1 < a
        BY <2>2, <2>6
      <3>2. n = l /\ CompletedBefore(l + 1) = l
        BY <2>3, <2>5, <3>1
      <3> HIDE DEF n
      <3> QED BY <2>1, <2>6, <3>2 DEF NoField
    <2>7. CASE a \in 2 .. l - 1
      <3>1. ~complete(l) /\ ~(l + 1 < a)
        BY <2>2, <2>7
      <3>2. n = l - 1 /\ CompletedBefore(l + 1) = l - 1
        BY <2>3, <2>5, <3>1
      <3> HIDE DEF n
      <3> QED BY <2>1, <2>7, <3>2
    <2> QED BY <2>4, <2>6, <2>7
  <1> HIDE DEF n
  <1>7. \A i \in 1 .. n : e[i] = order[PlaceOf(i)] /\ PlaceOf(i) \in 1 .. Len(order)
    <2> SUFFICES ASSUME NEW i \in 1 .. n
                 PROVE  e[i] = order[PlaceOf(i)] /\ PlaceOf(i) \in 1 .. Len(order)
      OBVIOUS
    <2>1. e[i] = IF complete(i) THEN order[i] ELSE order[i + 1]
      BY <1>4
    <2>2. PICK l \in 10 .. 15, a \in Nat, m \in Nat : l = Len(order) /\ a = Absent /\ m = n
      BY <1>1, <1>3, <1>6
    <2>3. i \in 1 .. m /\ m <= l /\ (m = l => a = 17) /\ (a = 17 \/ a \in 2 .. l - 1)
      BY <1>3, <1>6, <2>2 DEF NoField
    <2>4. i \in 1 .. l /\ (i < a => i \in 1 .. l) /\ (~(i < a) => i + 1 \in 1 .. l)
      BY <2>3
    <2>5. complete(i) <=> i < Absent
      BY <1>5, <2>2, <2>4
    <2> QED BY <2>1, <2>2, <2>4, <2>5 DEF PlaceOf
  <1>8. \A i \in 1 .. n : e[i] \in FieldNames
    BY <1>1, <1>7
  <1>9. DOMAIN e = 1 .. n
    BY <1>4
  <1>10. e \in Seq(FieldNames) /\ Len(e) = n
    <2>1. e = [i \in 1 .. n |-> e[i]]
      BY <1>4, <1>9
    <2>2. e \in [1 .. n -> FieldNames]
      BY <1>8, <2>1
    <2> QED BY <1>6, <2>2
  <1> QED BY <1>6, <1>7, <1>10 DEF order, e

\* Whatever the headers and the length, a finished transaction was read as
\* all the fields of its encoding in order: the skips of the type and of the
\* ratio, each in a different field, agree with P1 (ethUstream.c:419, 485, 535).
THEOREM FieldsReadInOrder == Spec => []FieldsInOrder
  <1>1. ParserInv /\ OrderInv => FieldsInOrder
    <2> SUFFICES ASSUME ParserInv, OrderInv, status = "Finished"
                 PROVE  \/ consumed = Encoding(txType, HasRatio)
                        \/ txType = "Legacy" /\ consumed = SubSeq(Encoding("Legacy", FALSE), 1, 7)
      BY DEF FieldsInOrder, HasRatio
    <2> DEFINE e == Encoding(txType, HasRatio)
    <2>1. TypeOK /\ consumed \in Seq(FieldNames) /\ Len(consumed) \in Nat
      BY DEF ParserInv, TypeOK
    <2>2. /\ e \in Seq(FieldNames) /\ Len(e) = CompletedBefore(Len(FieldOrder[txType]) + 1)
          /\ \A i \in 1 .. Len(e) : e[i] = FieldOrder[txType][PlaceOf(i)]
      BY <2>1, EncodingPlaces
    <2>3. /\ Len(consumed) = CompletedBefore(currentField)
          /\ \A i \in 1 .. Len(consumed) : consumed[i] = FieldOrder[txType][PlaceOf(i)]
      BY DEF OrderInv
    <2>4. CASE currentField = Len(FieldOrder[txType]) + 1
      <3>1. Len(consumed) = Len(e) /\ \A i \in 1 .. Len(e) : consumed[i] = e[i]
        BY <2>2, <2>3, <2>4
      <3> HIDE DEF e
      <3>2. consumed = e
        BY <2>1, <2>2, <3>1
      <3> QED BY <3>2 DEF e
    <2>5. CASE txType = "Legacy" /\ currentField = 9
      <3>1. Absent = 2 /\ Len(FieldOrder[txType]) = 11
        BY <2>1, <2>5, AbsentType DEF FieldOrder
      <3>2. Len(consumed) = 7 /\ Len(e) = 10
        BY <2>2, <2>3, <2>5, <3>1 DEF CompletedBefore
      <3>3. e = Encoding("Legacy", FALSE)
        BY <2>5 DEF HasRatio
      <3> HIDE DEF e
      <3>4. ASSUME NEW i \in 1 .. 7  PROVE  consumed[i] = e[i]
        <4>1. i \in 1 .. Len(consumed) /\ i \in 1 .. Len(e)
          BY <3>2
        <4> QED BY <2>2, <2>3, <4>1
      <3>5. consumed = SubSeq(e, 1, 7)
        BY <2>1, <2>2, <3>2, <3>4
      <3> QED BY <2>5, <3>3, <3>5
    <2> QED BY <2>4, <2>5 DEF ParserInv, FinishedAt
  <1>2. Spec => []OrderInv
    <2>1. ParserInv => TypeOK
      BY DEF ParserInv
    <2> QED BY <2>1, OrderInvInit, OrderInvNext, ParserInvariant, PTL DEF Spec
  <1> QED BY <1>1, <1>2, ParserInvariant, PTL
================================================================================
