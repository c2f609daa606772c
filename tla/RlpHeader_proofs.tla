--------------------------- MODULE RlpHeader_proofs ---------------------------
(***************************************************************************)
(* Proofs about RlpHeader, for all the bytes headers may have.  The        *)
(* invariant is that while the loop goes on, the bytes in front of         *)
(* rlpBufferPos are those received and do not yet decode.                  *)
(***************************************************************************)
EXTENDS RlpHeader, SequenceTheorems, TLAPS

Gathers ==
    outcome = "Reading" =>
        /\ rlpBufferPos = Len(received)
        /\ rlpBufferPos < RLP_BUFFER_SIZE
        /\ \A i \in 1 .. rlpBufferPos : rlpBuffer[i] = received[i]
        /\ rlpBufferPos > 0 => ~rlpCanDecode(received[1], rlpBufferPos)

Emptied == outcome = "Continue" => rlpBufferPos = 0

HeaderInv == TypeOK /\ Gathers /\ Emptied /\ DecodedIsEncoded /\ ReadsHeaderForms

-----------------------------------------------------------------------------
(* The decoder.                                                            *)

LEMMA LengthOfLengthBounds ==
    ASSUME NEW first \in Byte
    PROVE  /\ LengthOfLength(first) \in 0 .. 8
           /\ LongString(first) <=> LengthOfLength(first) > 0 /\ first = 183 + LengthOfLength(first)
           /\ LongList(first) <=> LengthOfLength(first) > 0 /\ first = 247 + LengthOfLength(first)
           /\ LengthOfLength(first) > 0 => LongString(first) \/ LongList(first)
  BY DEF LengthOfLength, LongString, LongList, Byte

\* The bytes of a length are its digits to the base of 256.
LEMMA LongLengthDigits ==
    ASSUME NEW b, b[2] \in 0 .. 255, b[3] \in 0 .. 255, b[4] \in 0 .. 255, b[5] \in 0 .. 255,
           NEW n \in 1 .. 4, NEW length, length = LongLength(b, n)
    PROVE  /\ length \in Nat
           /\ \A i \in 2 .. 1 + n : Shifts(length)[n + 2 - i] % 256 = b[i]
  <1> DEFINE two == b[2] * 256 + b[3]
             three == two * 256 + b[4]
             four == three * 256 + b[5]
  <1>1. length = IF n = 1 THEN b[2] ELSE IF n = 2 THEN two ELSE IF n = 3 THEN three ELSE four
    BY DEF LongLength
  <1>2. two = b[2] * 256 + b[3] /\ three = two * 256 + b[4] /\ four = three * 256 + b[5]
    OBVIOUS
  <1> HIDE DEF two, three, four
  <1>3. b[2] \in Nat /\ b[2] % 256 = b[2]
    OBVIOUS
  <1>4. two \in Nat /\ two \div 256 = b[2] /\ two % 256 = b[3]
    <2>1. PICK q, d : q = b[2] /\ d = b[3]
      OBVIOUS
    <2>2. q \in Nat /\ d \in 0 .. 255 /\ two = q * 256 + d
      BY <1>2, <1>3, <2>1
    <2>3. two \in Nat /\ two \div 256 = q /\ two % 256 = d
      BY <2>2
    <2> QED BY <2>1, <2>3
  <1>5. three \in Nat /\ three \div 256 = two /\ three % 256 = b[4]
    <2>1. PICK q, d : q = two /\ d = b[4]
      OBVIOUS
    <2>2. q \in Nat /\ d \in 0 .. 255 /\ three = q * 256 + d
      BY <1>2, <1>4, <2>1
    <2>3. three \in Nat /\ three \div 256 = q /\ three % 256 = d
      BY <2>2
    <2> QED BY <2>1, <2>3
  <1>6. four \in Nat /\ four \div 256 = three /\ four % 256 = b[5]
    <2>1. PICK q, d : q = three /\ d = b[5]
      OBVIOUS
    <2>2. q \in Nat /\ d \in 0 .. 255 /\ four = q * 256 + d
      BY <1>2, <1>5, <2>1
    <2>3. four \in Nat /\ four \div 256 = q /\ four % 256 = d
      BY <2>2
    <2> QED BY <2>1, <2>3
  <1>7. length \in Nat
    BY <1>1, <1>3, <1>4, <1>5, <1>6
  <1>8. /\ Shifts(length)[1] = length
        /\ Shifts(length)[2] = length \div 256
        /\ Shifts(length)[3] = (length \div 256) \div 256
        /\ Shifts(length)[4] = ((length \div 256) \div 256) \div 256
    BY DEF Shifts
  <1>9. ASSUME NEW i \in 2 .. 1 + n  PROVE  Shifts(length)[n + 2 - i] % 256 = b[i]
    <2>1. CASE n = 1
      <3>1. length = b[2] /\ i = 2 /\ n + 2 - i = 1
        BY <1>1, <2>1
      <3> QED BY <1>3, <1>8, <3>1
    <2>2. CASE n = 2
      <3>1. length = two /\ ((i = 2 /\ n + 2 - i = 2) \/ (i = 3 /\ n + 2 - i = 1))
        BY <1>1, <2>2
      <3> QED BY <1>3, <1>4, <1>8, <3>1
    <2>3. CASE n = 3
      <3>1. /\ length = three
            /\ \/ (i = 2 /\ n + 2 - i = 3)
               \/ (i = 3 /\ n + 2 - i = 2)
               \/ (i = 4 /\ n + 2 - i = 1)
        BY <1>1, <2>3
      <3> QED BY <1>3, <1>4, <1>5, <1>8, <3>1
    <2>4. CASE n = 4
      <3>1. /\ length = four
            /\ \/ (i = 2 /\ n + 2 - i = 4)
               \/ (i = 3 /\ n + 2 - i = 3)
               \/ (i = 4 /\ n + 2 - i = 2)
               \/ (i = 5 /\ n + 2 - i = 1)
        BY <1>1, <2>4
      <3>2. /\ Shifts(length)[1] = four /\ Shifts(length)[2] = three
            /\ Shifts(length)[3] = two /\ Shifts(length)[4] = b[2]
        BY <1>4, <1>5, <1>6, <1>8, <3>1
      <3> QED BY <1>3, <1>4, <1>5, <1>6, <3>1, <3>2
    <2> QED BY <2>1, <2>2, <2>3, <2>4
  <1> QED BY <1>7, <1>9

\* A header of one byte.
LEMMA ShortHeader ==
    ASSUME NEW first \in Byte, LengthOfLength(first) = 0
    PROVE  /\ ShortLength(first) \in 0 .. 55
           /\ first <= 127 => ShortLength(first) = 1
           /\ first > 127 => (IF first >= 192 THEN 192 ELSE 128) + ShortLength(first) = first
  BY DEF LengthOfLength, LongString, LongList, ShortLength, Byte

LEMMA OffsetOfHeader ==
    ASSUME NEW first \in Byte, Valid(first)
    PROVE  /\ LengthOfLength(first) \in 0 .. 4
           /\ Offset(first) \in 0 .. RLP_BUFFER_SIZE
           /\ first <= 127 => Offset(first) = 0 /\ LengthOfLength(first) = 0
           /\ first > 127 => Offset(first) = 1 + LengthOfLength(first)
  BY LengthOfLengthBounds DEF Valid, Offset, LongString, LongList, RLP_BUFFER_SIZE, Byte

\* The first byte of a longer header.
LEMMA LongHeader ==
    ASSUME NEW first \in Byte, LengthOfLength(first) > 0
    PROVE  /\ first > 127
           /\ (IF first >= 192 THEN 192 ELSE 128) + (55 + LengthOfLength(first)) = first
  <1>1. LengthOfLength(first) \in 0 .. 8
    BY LengthOfLengthBounds
  <1>2. LongString(first) \/ LongList(first)
    BY LengthOfLengthBounds
  <1>3. CASE LongString(first)
    BY <1>3, LengthOfLengthBounds DEF LongString, Byte
  <1>4. CASE LongList(first)
    BY <1>4, LengthOfLengthBounds DEF LongList, Byte
  <1> QED BY <1>2, <1>3, <1>4

\* The encoding of a header with n bytes of length, byte by byte.
LEMMA EncodedHeaderBytes ==
    ASSUME NEW list, NEW length, NEW n \in Nat
    PROVE  /\ EncodedHeader(list, length, n) =
                 [i \in 1 .. 1 + n |-> EncodedHeader(list, length, n)[i]]
           /\ EncodedHeader(list, length, n)[1] =
                 (IF list THEN 192 ELSE 128) + (IF n = 0 THEN length ELSE 55 + n)
           /\ \A i \in 2 .. 1 + n :
                 EncodedHeader(list, length, n)[i] = Shifts(length)[n + 2 - i] % 256
  BY DEF EncodedHeader

\* rlpDecodeLength inverts the encoding of the header.
LEMMA DecodeInverts ==
    ASSUME NEW b, b[2] \in 0 .. 255, b[3] \in 0 .. 255, b[4] \in 0 .. 255, b[5] \in 0 .. 255,
           NEW first \in Byte, first = b[1], Valid(first),
           NEW n, n = LengthOfLength(first), NEW list \in BOOLEAN, list <=> first >= 192,
           NEW length, length = FieldLength(b)
    PROVE  /\ length \in Nat
           /\ n = 0 => length = ShortLength(first)
           /\ first > 127 => \A i \in 1 .. 1 + n : EncodedHeader(list, length, n)[i] = b[i]
  <1>1. n \in 0 .. 4 /\ n \in Nat
    BY OffsetOfHeader
  <1>2. length = IF n > 0 THEN LongLength(b, n) ELSE ShortLength(first)
    BY DEF FieldLength
  <1>3. EncodedHeader(list, length, n)[1] =
            (IF list THEN 192 ELSE 128) + (IF n = 0 THEN length ELSE 55 + n)
    BY <1>1, EncodedHeaderBytes
  <1>4. \A i \in 2 .. 1 + n : EncodedHeader(list, length, n)[i] = Shifts(length)[n + 2 - i] % 256
    BY <1>1 DEF EncodedHeader
  <1> DEFINE encoded == EncodedHeader(list, length, n)
  <1> HIDE DEF encoded
  <1>5. CASE n > 0
    <2>1. n \in 1 .. 4 /\ length = LongLength(b, n)
      BY <1>1, <1>2, <1>5
    <2>2. /\ length \in Nat
          /\ \A i \in 2 .. 1 + n : Shifts(length)[n + 2 - i] % 256 = b[i]
      BY <2>1, LongLengthDigits
    <2>3. (IF first >= 192 THEN 192 ELSE 128) + (55 + n) = first
      BY <1>5, LongHeader
    <2>4. encoded[1] = b[1]
      BY <1>1, <1>3, <1>5, <2>3 DEF encoded
    <2>5. \A i \in 2 .. 1 + n : encoded[i] = b[i]
      BY <1>4, <2>2 DEF encoded
    <2>6. \A i \in 1 .. 1 + n : i = 1 \/ i \in 2 .. 1 + n
      BY <1>1
    <2>7. \A i \in 1 .. 1 + n : encoded[i] = b[i]
      BY <2>4, <2>5, <2>6
    <2> QED BY <1>5, <2>7, <2>2 DEF encoded
  <1>6. CASE n = 0
    <2>1. length = ShortLength(first)
      BY <1>2, <1>6
    <2>2. /\ ShortLength(first) \in 0 .. 55
          /\ first > 127 => (IF first >= 192 THEN 192 ELSE 128) + ShortLength(first) = first
      BY <1>6, ShortHeader
    <2>3. first > 127 => encoded[1] = b[1]
      BY <1>3, <1>6, <2>1, <2>2 DEF encoded
    <2>4. \A i \in 1 .. 1 + n : i = 1
      BY <1>6
    <2>5. ShortLength(first) \in Nat
      BY <2>2
    <2> QED BY <2>1, <2>3, <2>4, <2>5 DEF encoded
  <1> QED BY <1>1, <1>5, <1>6

-----------------------------------------------------------------------------
(* The loop.                                                               *)

\* The buffer and the history after one more byte.
LEMMA OneMoreByte ==
    ASSUME TypeOK, Gathers, NEW byte \in Byte, ReadByte(byte)
    PROVE  /\ rlpBuffer' \in [1 .. RLP_BUFFER_SIZE -> Byte]
           /\ received' \in Seq(Byte)
           /\ Len(received') = rlpBufferPos + 1
           /\ rlpBufferPos \in 0 .. 4
           /\ \A i \in 1 .. rlpBufferPos + 1 : rlpBuffer'[i] = received'[i]
           /\ rlpBuffer'[1] = received'[1] /\ received'[1] \in Byte
           /\ rlpBufferPos > 0 => received'[1] = received[1]
  <1>1. /\ rlpBuffer' = [rlpBuffer EXCEPT ![rlpBufferPos + 1] = byte]
        /\ received' = Append(received, byte)
        /\ rlpBufferPos = Len(received) /\ rlpBufferPos \in 0 .. 4
    BY DEF TypeOK, Gathers, ReadByte, RLP_BUFFER_SIZE
  <1>2. /\ received' \in Seq(Byte) /\ Len(received') = rlpBufferPos + 1
        /\ \A i \in 1 .. rlpBufferPos : received'[i] = received[i]
        /\ received'[rlpBufferPos + 1] = byte
    BY <1>1, AppendProperties DEF TypeOK
  <1>3. /\ rlpBuffer' \in [1 .. RLP_BUFFER_SIZE -> Byte]
        /\ \A i \in 1 .. rlpBufferPos : rlpBuffer'[i] = rlpBuffer[i]
        /\ rlpBuffer'[rlpBufferPos + 1] = byte
    <2>1. /\ rlpBuffer \in [1 .. RLP_BUFFER_SIZE -> Byte]
          /\ rlpBufferPos + 1 \in 1 .. RLP_BUFFER_SIZE
      <3>1. rlpBuffer \in [1 .. RLP_BUFFER_SIZE -> Byte]
        BY DEF TypeOK
      <3>2. rlpBufferPos + 1 \in 1 .. RLP_BUFFER_SIZE
        BY <1>1 DEF RLP_BUFFER_SIZE
      <3> QED BY <3>1, <3>2
    <2>2. \A i \in 1 .. rlpBufferPos : i # rlpBufferPos + 1 /\ i \in 1 .. RLP_BUFFER_SIZE
      BY <1>1 DEF RLP_BUFFER_SIZE
    <2> QED BY <1>1, <2>1, <2>2
  <1>4. \A i \in 1 .. rlpBufferPos : rlpBuffer[i] = received[i]
    BY <1>1 DEF Gathers, ReadByte
  <1>5. \A i \in 1 .. rlpBufferPos + 1 : rlpBuffer'[i] = received'[i]
    <2> TAKE i \in 1 .. rlpBufferPos + 1
    <2>1. i \in 1 .. rlpBufferPos \/ i = rlpBufferPos + 1
      BY <1>1
    <2> QED BY <1>2, <1>3, <1>4, <2>1
  <1>6. rlpBuffer'[1] = received'[1] /\ received'[1] \in Byte
    BY <1>1, <1>2, <1>3, <1>5 DEF RLP_BUFFER_SIZE
  <1>7. rlpBufferPos > 0 => received'[1] = received[1]
    BY <1>1, <1>2
  <1> QED BY <1>1, <1>2, <1>3, <1>5, <1>6, <1>7

\* The byte that completes a header.
LEMMA LastByte ==
    ASSUME TypeOK, Gathers, NEW byte \in Byte, ReadByte(byte),
           NEW first, first = received'[1], rlpCanDecode(first, rlpBufferPos + 1), Valid(first)
    PROVE  /\ outcome' = "Continue" /\ rlpBufferPos' = 0
           /\ Len(received') = 1 + LengthOfLength(first)
           /\ first \in Byte
           /\ field' = rlpDecodeLength(rlpBuffer')
           /\ field'.length = FieldLength(rlpBuffer')
           /\ field'.offset = Offset(first)
           /\ field'.list <=> first >= 192
  <1>1. LengthOfLength(first) \in 0 .. 4
    BY OneMoreByte, OffsetOfHeader
  <1>2. /\ outcome' = "Continue" /\ rlpBufferPos' = 0
        /\ field' = rlpDecodeLength(rlpBuffer')
    BY OneMoreByte DEF ReadByte
  <1>3. Len(received') = 1 + LengthOfLength(first)
    <2>1. rlpBufferPos + 1 >= 1 + LengthOfLength(first)
      BY DEF rlpCanDecode
    <2>2. rlpBufferPos > 0 => ~(rlpBufferPos >= 1 + LengthOfLength(first))
      BY OneMoreByte DEF Gathers, rlpCanDecode, ReadByte
    <2> QED BY <1>1, <2>1, <2>2, OneMoreByte
  <1>4. rlpBuffer'[1] = first /\ first \in Byte
    BY OneMoreByte
  <1> QED BY <1>2, <1>3, <1>4 DEF rlpDecodeLength

LEMMA LastByteDecodes ==
    ASSUME TypeOK, Gathers, NEW byte \in Byte, ReadByte(byte),
           rlpCanDecode(received'[1], rlpBufferPos + 1), Valid(received'[1])
    PROVE  HeaderInv'
  <1> DEFINE first == received'[1]
             n == LengthOfLength(first)
             length == FieldLength(rlpBuffer')
  <1>1. /\ outcome' = "Continue" /\ rlpBufferPos' = 0
        /\ Len(received') = 1 + n
        /\ field' = rlpDecodeLength(rlpBuffer')
        /\ field'.length = length
        /\ field'.offset = Offset(first)
        /\ field'.list <=> first >= 192
    BY LastByte
  <1>2. field' = [length |-> length, offset |-> Offset(first), list |-> first >= 192]
    BY <1>1, OneMoreByte DEF rlpDecodeLength
  <1> HIDE DEF first
  <1>3. /\ first \in Byte /\ first = rlpBuffer'[1] /\ first = received'[1]
        /\ n \in 0 .. 4 /\ Offset(first) \in 0 .. RLP_BUFFER_SIZE
        /\ first <= 127 => Offset(first) = 0 /\ n = 0
        /\ first > 127 => Offset(first) = 1 + n
    BY OneMoreByte, OffsetOfHeader DEF first
  <1> HIDE DEF n, length
  <1>4. PICK list \in BOOLEAN : list <=> first >= 192
    OBVIOUS
  <1>5. field'.list = list
    BY <1>1, <1>4, <1>2
  <1>6. /\ length \in Nat
        /\ n = 0 => length = ShortLength(first)
        /\ first > 127 => \A i \in 1 .. 1 + n : EncodedHeader(list, length, n)[i] = rlpBuffer'[i]
    <2>1. PICK b : b = rlpBuffer'
      OBVIOUS
    <2>2. b[2] \in 0 .. 255 /\ b[3] \in 0 .. 255 /\ b[4] \in 0 .. 255 /\ b[5] \in 0 .. 255
      <3>1. \A i \in 1 .. RLP_BUFFER_SIZE : b[i] \in Byte
        BY <2>1, OneMoreByte
      <3> QED BY <3>1 DEF RLP_BUFFER_SIZE, Byte
    <2>3. first = b[1] /\ n = LengthOfLength(first) /\ length = FieldLength(b) /\ Valid(first)
      BY <1>3, <2>1 DEF n, length, first
    <2>4. /\ length \in Nat
          /\ n = 0 => length = ShortLength(first)
          /\ first > 127 => \A i \in 1 .. 1 + n : EncodedHeader(list, length, n)[i] = b[i]
      BY <1>3, <1>4, <2>2, <2>3, DecodeInverts
    <2> QED BY <2>1, <2>4
  <1>7. TypeOK'
    <2>1. field' \in [length: Nat, offset: 0 .. RLP_BUFFER_SIZE, list: BOOLEAN]
      BY <1>2, <1>3, <1>6
    <2> QED BY <1>1, <2>1, OneMoreByte DEF TypeOK, RLP_BUFFER_SIZE
  <1>8. Gathers' /\ Emptied'
    BY <1>1 DEF Gathers, Emptied
  <1>9. n = 0 => ShortLength(first) \in 0 .. 55 /\ (first <= 127 => ShortLength(first) = 1)
    BY <1>3, ShortHeader DEF n
  <1>10. first > 127 => received' = EncodedHeader(list, length, n)
    <2> SUFFICES ASSUME first > 127  PROVE  received' = EncodedHeader(list, length, n)
      OBVIOUS
    <2>1. \A i \in 1 .. 1 + n : received'[i] = EncodedHeader(list, length, n)[i]
      BY <1>1, <1>3, <1>6, OneMoreByte
    <2>2. received' = [i \in 1 .. 1 + n |-> received'[i]]
      BY <1>1, OneMoreByte
    <2>3. EncodedHeader(list, length, n) = [i \in 1 .. 1 + n |-> EncodedHeader(list, length, n)[i]]
      BY <1>3, EncodedHeaderBytes
    <2> QED BY <2>1, <2>2, <2>3
  <1>11. DecodedIsEncoded'
    <2>1. CASE first <= 127
      <3>1. /\ field'.offset = 0 /\ field'.length = 1 /\ ~field'.list
            /\ Len(received') = 1 /\ received'[1] < 128
        BY <1>1, <1>3, <1>6, <1>9, <2>1 DEF Byte
      <3> QED BY <3>1 DEF DecodedIsEncoded
    <2>2. CASE first > 127
      <3>1. field'.offset # 0 /\ field'.offset - 1 = n
        BY <1>1, <1>3, <2>2
      <3>2. field'.offset = 1 => field'.length <= 55
        <4>1. n = 0 => length = ShortLength(first) /\ ShortLength(first) \in 0 .. 55
          BY <1>6, <1>9
        <4>2. field'.offset = 1 => n = 0
          BY <1>1, <1>3, <2>2
        <4>3. n = 0 => length <= 55
          BY <4>1
        <4>4. field'.length = length
          BY <1>1
        <4> QED BY <4>2, <4>3, <4>4
      <3>3. received' = EncodedHeader(field'.list, field'.length, field'.offset - 1)
        <4>1. EncodedHeader(field'.list, length, n) = EncodedHeader(list, length, n)
          BY <1>5 DEF EncodedHeader
        <4> QED BY <1>1, <1>10, <2>2, <3>1, <4>1
      <3> QED BY <3>1, <3>2, <3>3 DEF DecodedIsEncoded
    <2> QED BY <1>3, <2>1, <2>2 DEF Byte
  <1>12. ReadsHeaderForms'
    <2> DEFINE h == HeaderRead'
    <2>0. h = [kind |-> IF field'.list THEN "list" ELSE IF field'.offset = 0 THEN "byte" ELSE "string",
               size |-> 1 + n, length |-> length]
      BY <1>1 DEF HeaderRead, n, first
    <2>1. /\ h.kind = (IF first >= 192 THEN "list" ELSE IF first <= 127 THEN "byte" ELSE "string")
          /\ h.size = 1 + n /\ h.length = length /\ h \in [kind: Kinds, size: 1 .. 9, length: Nat]
      <3> HIDE DEF h
      <3>1. field'.offset = 0 <=> first <= 127
        BY <1>1, <1>3 DEF Byte
      <3> QED BY <1>1, <1>3, <1>6, <2>0, <3>1 DEF Kinds
    <2> HIDE DEF h
    <2>2. h.kind = "byte" => h.size = 1 /\ h.length = 1
      BY <1>3, <1>6, <1>9, <2>1
    <2>3. h.kind # "wide" /\ ~(h.size > RLP_BUFFER_SIZE)
      BY <1>3, <2>1 DEF RLP_BUFFER_SIZE
    <2>4. h.size = 1 => h.length <= 55
      BY <1>3, <1>6, <1>9, <2>1
    <2>5. IsHeader(h)
      BY <2>1, <2>2, <2>3, <2>4 DEF IsHeader, Header
    <2> QED BY <1>1, <2>1, <2>5 DEF ReadsHeaderForms, h
  <1> QED BY <1>7, <1>8, <1>11, <1>12 DEF HeaderInv

\* A byte that does not.
LEMMA MoreBytes ==
    ASSUME TypeOK, Gathers, NEW byte \in Byte, ReadByte(byte),
           ~(rlpCanDecode(received'[1], rlpBufferPos + 1) /\ Valid(received'[1]))
    PROVE  HeaderInv'
  <1> DEFINE first == received'[1]
             n == LengthOfLength(first)
  <1>1. /\ first \in Byte /\ first = rlpBuffer'[1] /\ n \in 0 .. 8
        /\ rlpBufferPos \in 0 .. 4
    BY OneMoreByte, LengthOfLengthBounds
  <1>2. /\ rlpBufferPos' = rlpBufferPos + 1
        /\ UNCHANGED field
        /\ outcome' = IF rlpCanDecode(first, rlpBufferPos + 1) \/ BufferFull(rlpBufferPos + 1)
                      THEN "Fault" ELSE "Reading"
    BY <1>1 DEF ReadByte
  <1>3. outcome' = "Fault" => rlpBufferPos = 4 /\ n > 4
    BY <1>1, <1>2 DEF rlpCanDecode, BufferFull, Valid, RLP_BUFFER_SIZE
  <1>4. outcome' = "Reading" => rlpBufferPos' < 5 /\ ~rlpCanDecode(first, rlpBufferPos')
    BY <1>1, <1>2 DEF BufferFull, RLP_BUFFER_SIZE
  <1>5. outcome' \in {"Fault", "Reading"}
    BY <1>2
  <1>6. TypeOK'
    BY <1>1, <1>2, <1>5, OneMoreByte DEF TypeOK, RLP_BUFFER_SIZE
  <1>7. Gathers'
    BY <1>1, <1>2, <1>4, OneMoreByte DEF Gathers, RLP_BUFFER_SIZE
  <1>8. Emptied' /\ DecodedIsEncoded'
    BY <1>5 DEF Emptied, DecodedIsEncoded
  <1>9. ReadsHeaderForms'
    <2> SUFFICES ASSUME outcome' = "Fault"
                 PROVE  IsHeader(HeaderRead') /\ Len(received') = RLP_BUFFER_SIZE
      BY <1>5 DEF ReadsHeaderForms
    <2>1. HeaderRead' = [kind |-> "wide", size |-> 1 + n, length |-> 0]
      BY DEF HeaderRead
    <2> HIDE DEF n
    <2>2. IsHeader(HeaderRead')
      BY <1>1, <1>3, <2>1 DEF IsHeader, Header, Kinds, RLP_BUFFER_SIZE
    <2> QED BY <1>3, <2>2, OneMoreByte DEF RLP_BUFFER_SIZE
  <1> QED BY <1>6, <1>7, <1>8, <1>9 DEF HeaderInv

LEMMA HeaderInvInductive ==
    /\ Init => HeaderInv
    /\ HeaderInv /\ [Next]_rlpVars => HeaderInv'
  <1>1. Init => HeaderInv
    <2> SUFFICES ASSUME Init  PROVE  HeaderInv
      OBVIOUS
    <2>1. TypeOK
      BY DEF Init, NoField, TypeOK, RLP_BUFFER_SIZE, Byte
    <2> QED BY <2>1 DEF Init, HeaderInv, Gathers, Emptied, DecodedIsEncoded, ReadsHeaderForms,
                        RLP_BUFFER_SIZE
  <1>2. ASSUME HeaderInv, [Next]_rlpVars
        PROVE  HeaderInv'
    <2>1. CASE initTx
      <3>1. TypeOK'
        BY <2>1 DEF initTx, NoField, TypeOK, RLP_BUFFER_SIZE, Byte
      <3> QED BY <2>1, <3>1 DEF initTx, HeaderInv, Gathers, Emptied, DecodedIsEncoded,
                                ReadsHeaderForms, RLP_BUFFER_SIZE
    <2>2. ASSUME NEW byte \in IF rlpBufferPos = 0 THEN FirstBytes ELSE LengthBytes, ReadByte(byte)
          PROVE  HeaderInv'
      <3>1. byte \in Byte
        BY BytesAssumption
      <3> QED BY <1>2, <2>2, <3>1, LastByteDecodes, MoreBytes DEF HeaderInv
    <2>3. CASE NextHeader
      <3>1. TypeOK'
        BY <1>2, <2>3 DEF NextHeader, HeaderInv, TypeOK
      <3> QED BY <1>2, <2>3, <3>1 DEF NextHeader, HeaderInv, Gathers, Emptied, DecodedIsEncoded,
                                      ReadsHeaderForms, RLP_BUFFER_SIZE
    <2>4. CASE UNCHANGED rlpVars
      BY <1>2, <2>4 DEF rlpVars, HeaderInv, TypeOK, Gathers, Emptied, DecodedIsEncoded,
                        ReadsHeaderForms, HeaderRead
    <2> QED BY <1>2, <2>1, <2>2, <2>3, <2>4 DEF Next
  <1>3. HeaderInv /\ [Next]_rlpVars => HeaderInv'
    BY <1>2
  <1> QED BY <1>1, <1>3

LEMMA HeaderInvHolds == Spec => []HeaderInv
  BY HeaderInvInductive, PTL DEF Spec

\* The buffer, the position in it and the decoded field keep their types.
THEOREM HeaderTypeCorrect == Spec => []TypeOK
  BY HeaderInvHolds, PTL DEF HeaderInv

\* A decoded header is the encoding of its field, for all the bytes that a
\* header of 32 bits may have.
THEOREM HeadersDecodeToTheirFields == Spec => []DecodedIsEncoded
  BY HeaderInvHolds, PTL DEF HeaderInv

\* The parser meets headers of the forms of HeaderForms alone.
THEOREM HeadersHaveTheirForm == Spec => []ReadsHeaderForms
  BY HeaderInvHolds, PTL DEF HeaderInv
=============================================================================
