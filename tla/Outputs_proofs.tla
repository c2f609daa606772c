----------------------------- MODULE Outputs_proofs -----------------------------
(***************************************************************************)
(* Proofs about Outputs, for any items, requests and signatures: what a    *)
(* text on the display says, and what the answer holds.                    *)
(***************************************************************************)
EXTENDS Outputs, Numerals_proofs

-----------------------------------------------------------------------------
(* The answer (SignatureOut).                                              *)

\* A number of a signature, and its bytes in DER.
Scalar(n) == n \in Seq(Byte) /\ Len(n) \in 1 .. 32 /\ n[1] # 0
Content(n) == IF n[1] >= 128 THEN <<0>> \o n ELSE n

LEMMA ContentType ==
    ASSUME NEW n, Scalar(n)
    PROVE  /\ Content(n) \in Seq(Nat)
           /\ Len(Content(n)) = IF n[1] >= 128 THEN Len(n) + 1 ELSE Len(n)
           /\ \A i \in 1 .. Len(n) : Content(n)[Len(Content(n)) - Len(n) + i] = n[i]
           /\ n[1] >= 128 => Content(n)[1] = 0
  <1>1. n \in Seq(Nat) /\ Len(n) \in Nat
    BY BytesType DEF Scalar
  <1>2. CASE n[1] >= 128
    <2>1. <<0>> \in Seq(Nat) /\ Len(<<0>>) = 1 /\ <<0>>[1] = 0
      OBVIOUS
    <2>2. <<0>> \o n \in Seq(Nat) /\ Joined(<<0>> \o n, <<0>>, n)
      BY <1>1, <2>1, ConcatJoins
    <2>3. Content(n) = <<0>> \o n
      BY <1>2 DEF Content
    <2> QED BY <1>1, <1>2, <2>1, <2>2, <2>3 DEF Joined
  <1>3. CASE ~(n[1] >= 128)
    <2>1. Content(n) = n
      BY <1>3 DEF Content
    <2> QED BY <1>1, <1>3, <2>1
  <1> QED BY <1>2, <1>3

\* A number stands in an encoding at an offset: its length, then its bytes.
StandsAt(signature, xoffset, n) ==
    /\ signature[xoffset] = Len(Content(n))
    /\ \A j \in 1 .. Len(Content(n)) : signature[xoffset + j] = Content(n)[j]

LEMMA DerIntegerHolds ==
    ASSUME NEW n, Scalar(n)
    PROVE  /\ DerInteger(n) \in Seq(Nat)
           /\ Len(DerInteger(n)) = 2 + Len(Content(n))
           /\ DerInteger(n)[2] = Len(Content(n))
           /\ \A j \in 1 .. Len(Content(n)) : DerInteger(n)[2 + j] = Content(n)[j]
  <1>1. Content(n) \in Seq(Nat) /\ Len(Content(n)) \in Nat
    BY ContentType
  <1>2. PICK h : h = <<2, Len(Content(n))>>
    OBVIOUS
  <1>3. h \in Seq(Nat) /\ Len(h) = 2 /\ h[2] = Len(Content(n))
    BY <1>1, <1>2
  <1>4. DerInteger(n) = h \o Content(n)
    BY <1>2 DEF DerInteger, Content
  <1>5. h \o Content(n) \in Seq(Nat) /\ Joined(h \o Content(n), h, Content(n))
    BY <1>1, <1>3, ConcatJoins
  <1> QED BY <1>1, <1>3, <1>4, <1>5 DEF Joined

LEMMA DerHolds ==
    ASSUME NEW r, NEW s, Scalar(r), Scalar(s)
    PROVE  /\ StandsAt(Der(r, s), 4, r)
           /\ StandsAt(Der(r, s), 6 + Len(Content(r)), s)
  <1> DEFINE rs == DerInteger(r) \o DerInteger(s)
             R == DerInteger(r)
             T == DerInteger(s)
  <1>1. Len(Content(r)) \in Nat /\ Len(Content(s)) \in Nat
    BY ContentType
  <1>10. /\ R \in Seq(Nat) /\ Len(R) = 2 + Len(Content(r)) /\ R[2] = Len(Content(r))
         /\ \A j \in 1 .. Len(Content(r)) : R[2 + j] = Content(r)[j]
    BY DerIntegerHolds
  <1>11. /\ T \in Seq(Nat) /\ Len(T) = 2 + Len(Content(s)) /\ T[2] = Len(Content(s))
         /\ \A j \in 1 .. Len(Content(s)) : T[2 + j] = Content(s)[j]
    BY DerIntegerHolds
  <1>6. rs \in Seq(Nat) /\ Joined(rs, R, T)
    BY <1>10, <1>11, ConcatJoins
  <1> HIDE DEF rs, R, T
  <1>7. PICK h : h = <<48, Len(rs)>>
    OBVIOUS
  <1>2. h \in Seq(Nat) /\ Len(h) = 2
    <2>1. Len(rs) \in Nat
      BY <1>6
    <2> QED BY <1>7, <2>1
  <1>8. Der(r, s) = h \o rs
    BY <1>7 DEF Der, rs, R, T
  <1>9. Joined(Der(r, s), h, rs)
    BY <1>2, <1>6, <1>8, ConcatJoins
  <1>12. \A k \in 1 .. Len(rs) : Der(r, s)[2 + k] = rs[k]
    BY <1>2, <1>9 DEF Joined
  <1>13. /\ Len(rs) = Len(R) + Len(T)
         /\ \A k \in 1 .. Len(R) : rs[k] = R[k]
         /\ \A k \in 1 .. Len(T) : rs[Len(R) + k] = T[k]
    BY <1>6 DEF Joined
  <1>14. \A k \in 1 .. Len(R) : Der(r, s)[2 + k] = R[k]
    BY <1>10, <1>11, <1>12, <1>13
  <1>15. \A k \in 1 .. Len(T) : Der(r, s)[2 + Len(R) + k] = T[k]
    <2> SUFFICES ASSUME NEW k \in 1 .. Len(T)
                 PROVE  Der(r, s)[2 + Len(R) + k] = T[k]
      OBVIOUS
    <2>1. PICK m : m = Len(R) + k
      OBVIOUS
    <2>2. m \in 1 .. Len(rs) /\ 2 + Len(R) + k = 2 + m
      BY <1>10, <1>11, <1>13, <2>1
    <2> QED BY <1>12, <1>13, <2>1, <2>2
  <1>16. StandsAt(Der(r, s), 4, r)
    <2>1. Der(r, s)[4] = Len(Content(r))
      <3>1. 2 \in 1 .. Len(R) /\ 2 + 2 = 4
        BY <1>1, <1>10
      <3> QED BY <1>10, <1>14, <3>1
    <2>2. ASSUME NEW j \in 1 .. Len(Content(r))
          PROVE  Der(r, s)[4 + j] = Content(r)[j]
      <3>1. PICK k : k = 2 + j
        OBVIOUS
      <3>2. k \in 1 .. Len(R) /\ 4 + j = 2 + k
        BY <1>1, <1>10, <3>1
      <3> QED BY <1>10, <1>14, <3>1, <3>2
    <2> QED BY <2>1, <2>2 DEF StandsAt
  <1>17. StandsAt(Der(r, s), 6 + Len(Content(r)), s)
    <2>1. Der(r, s)[6 + Len(Content(r))] = Len(Content(s))
      <3>1. 2 \in 1 .. Len(T) /\ 2 + Len(R) + 2 = 6 + Len(Content(r))
        BY <1>1, <1>10, <1>11
      <3> QED BY <1>11, <1>15, <3>1
    <2>2. ASSUME NEW j \in 1 .. Len(Content(s))
          PROVE  Der(r, s)[6 + Len(Content(r)) + j] = Content(s)[j]
      <3>1. PICK k : k = 2 + j
        OBVIOUS
      <3>2. k \in 1 .. Len(T) /\ 6 + Len(Content(r)) + j = 2 + Len(R) + k
        BY <1>1, <1>10, <1>11, <3>1
      <3> QED BY <1>11, <1>15, <3>1, <3>2
    <2> QED BY <2>1, <2>2 DEF StandsAt
  <1> QED BY <1>16, <1>17

\* What Component finds is the end of the number's 32 bytes.
Reads(c, signature, xoffset, n) ==
    /\ c.at \in Nat /\ c.length \in 1 .. 32
    /\ c.at + c.length = xoffset + Len(Content(n))
    /\ \A i \in 1 .. 32 :
          IF i > 32 - c.length THEN signature[c.at + i - (32 - c.length)] = Padded(n)[i]
          ELSE Padded(n)[i] = 0

LEMMA ComponentReads ==
    ASSUME NEW n, Scalar(n), NEW signature, NEW xoffset \in Nat, StandsAt(signature, xoffset, n)
    PROVE  Reads(Component(signature, xoffset), signature, xoffset, n)
  <1>1. PICK L, K : L = Len(Content(n)) /\ K = Len(n)
    OBVIOUS
  <1>2. K \in 1 .. 32 /\ L = (IF n[1] >= 128 THEN K + 1 ELSE K) /\ L \in 1 .. 33
    <2>1. Len(n) \in 1 .. 32
      BY DEF Scalar
    <2>2. Len(Content(n)) = IF n[1] >= 128 THEN Len(n) + 1 ELSE Len(n)
      BY ContentType
    <2>3. n[1] >= 128 => L = K + 1
      BY <1>1, <2>2
    <2>4. ~(n[1] >= 128) => L = K
      BY <1>1, <2>2
    <2>5. K \in 1 .. 32
      BY <1>1, <2>1
    <2>6. L \in 1 .. 33
      BY <2>3, <2>4, <2>5
    <2> QED BY <2>3, <2>4, <2>5, <2>6
  <1>3. /\ signature[xoffset] = L
        /\ \A j \in 1 .. L : signature[xoffset + j] = Content(n)[j]
        /\ \A i \in 1 .. K : Content(n)[L - K + i] = n[i]
        /\ n[1] >= 128 => Content(n)[1] = 0
    BY <1>1, ContentType DEF StandsAt
  <1>4. \A i \in 1 .. 32 : Padded(n)[i] = IF i <= 32 - K THEN 0 ELSE n[i - (32 - K)]
    BY <1>1 DEF Padded
  <1>5. CASE L = 33
    <2>1. K = 32 /\ n[1] >= 128
      BY <1>2, <1>5
    <2>2. Component(signature, xoffset) = [at |-> xoffset + 1, length |-> 32]
      BY <1>3, <1>5 DEF Component
    <2>3. ASSUME NEW i \in 1 .. 32
          PROVE  signature[(xoffset + 1) + i - (32 - 32)] = Padded(n)[i]
      <3>1. signature[xoffset + (i + 1)] = Content(n)[i + 1]
        BY <1>3, <1>5
      <3>2. (xoffset + 1) + i - (32 - 32) = xoffset + (i + 1) /\ L - K + i = i + 1
        BY <1>5, <2>1
      <3>3. Content(n)[i + 1] = n[i]
        BY <1>3, <2>1, <3>2
      <3>4. Padded(n)[i] = n[i]
        BY <1>4, <2>1
      <3> QED BY <3>1, <3>2, <3>3, <3>4
    <2> QED BY <1>1, <1>5, <2>2, <2>3 DEF Reads
  <1>6. CASE L # 33
    <2>1. Component(signature, xoffset) = [at |-> xoffset, length |-> L]
      BY <1>3, <1>6 DEF Component
    <2>2. L \in 1 .. 32
      BY <1>2, <1>6
    <2>3. ASSUME NEW i \in 1 .. 32, i > 32 - L
          PROVE  signature[xoffset + i - (32 - L)] = Padded(n)[i]
      <3>1. PICK j : j = i - (32 - L)
        OBVIOUS
      <3>2. j \in 1 .. L /\ xoffset + i - (32 - L) = xoffset + j
        BY <2>2, <2>3, <3>1
      <3>3. signature[xoffset + j] = Content(n)[j]
        BY <1>3, <3>2
      <3>4. CASE i <= 32 - K
        <4>1. n[1] >= 128 /\ j = 1
          BY <1>2, <2>2, <3>1, <3>2, <3>4
        <4> QED BY <1>3, <1>4, <3>2, <3>3, <3>4, <4>1
      <3>5. CASE ~(i <= 32 - K)
        <4>1. PICK k : k = i - (32 - K)
          OBVIOUS
        <4>2. k \in 1 .. K /\ L - K + k = j
          BY <1>2, <2>2, <3>1, <3>5, <4>1
        <4>3. Content(n)[j] = n[k]
          BY <1>3, <4>2
        <4> QED BY <1>4, <3>2, <3>3, <3>5, <4>1, <4>3
      <3> QED BY <3>4, <3>5
    <2>4. ASSUME NEW i \in 1 .. 32, ~(i > 32 - L)
          PROVE  Padded(n)[i] = 0
      BY <1>2, <1>4, <2>2, <2>4
    <2>5. PICK c : c = Component(signature, xoffset)
      OBVIOUS
    <2>6. c.at = xoffset /\ c.length = L
      BY <2>1, <2>5
    <2> QED BY <1>1, <2>2, <2>3, <2>4, <2>5, <2>6 DEF Reads
  <1> QED BY <1>5, <1>6

Zeroed(buffer, offset) ==
    DOMAIN buffer = 1 .. 65 /\ \A i \in 1 .. 32 : buffer[offset + i] = 0
Holds(placed, buffer, offset, n) ==
    /\ DOMAIN placed = 1 .. 65 /\ placed = [i \in 1 .. 65 |-> placed[i]]
    /\ \A i \in 1 .. 32 : placed[offset + i] = Padded(n)[i]
    /\ \A i \in 1 .. 65 : i \notin offset + 1 .. offset + 32 => placed[i] = buffer[i]

\* Place puts the 32 bytes of the number at the offset, and leaves the rest.
LEMMA PlacedAt ==
    ASSUME NEW n, Scalar(n), NEW signature, NEW xoffset \in Nat, StandsAt(signature, xoffset, n),
           NEW buffer, NEW offset \in {1, 33}, Zeroed(buffer, offset)
    PROVE  Holds(Place(buffer, offset, signature, Component(signature, xoffset)), buffer, offset, n)
  <1>1. PICK c : c = Component(signature, xoffset)
    OBVIOUS
  <1>2. /\ c.at \in Nat /\ c.length \in 1 .. 32
        /\ \A i \in 1 .. 32 :
              IF i > 32 - c.length THEN signature[c.at + i - (32 - c.length)] = Padded(n)[i]
              ELSE Padded(n)[i] = 0
    BY <1>1, ComponentReads DEF Reads
  <1>3. PICK a, l : a = c.at /\ l = c.length
    OBVIOUS
  <1>4. Place(buffer, offset, signature, c) =
            [i \in 1 .. 65 |-> IF i - 1 \in offset + 32 - l .. offset + 31
                               THEN signature[a + i - (offset + 32 - l)] ELSE buffer[i]]
    BY <1>3 DEF Place, Zeroed
  <1>5. PICK placed : placed = Place(buffer, offset, signature, c)
    OBVIOUS
  <1>6. DOMAIN placed = 1 .. 65 /\ placed = [i \in 1 .. 65 |-> placed[i]]
    BY <1>4, <1>5
  <1>7. ASSUME NEW i \in 1 .. 32
        PROVE  placed[offset + i] = Padded(n)[i]
    <2>1. offset + i \in 1 .. 65 /\ a \in Nat /\ l \in 1 .. 32
      BY <1>2, <1>3
    <2>2. CASE i > 32 - l
      <3>1. (offset + i) - 1 \in offset + 32 - l .. offset + 31
        BY <2>1, <2>2
      <3>2. a + (offset + i) - (offset + 32 - l) = a + i - (32 - l)
        BY <2>1
      <3>3. placed[offset + i] = signature[a + (offset + i) - (offset + 32 - l)]
        BY <1>4, <1>5, <2>1, <3>1
      <3>4. signature[a + i - (32 - l)] = Padded(n)[i]
        BY <1>2, <1>3, <2>2
      <3> QED BY <3>2, <3>3, <3>4
    <2>3. CASE ~(i > 32 - l)
      <3>1. (offset + i) - 1 \notin offset + 32 - l .. offset + 31
        BY <2>1, <2>3
      <3>2. placed[offset + i] = buffer[offset + i]
        BY <1>4, <1>5, <2>1, <3>1
      <3>3. buffer[offset + i] = 0
        BY DEF Zeroed
      <3>4. Padded(n)[i] = 0
        BY <1>2, <1>3, <2>3
      <3> QED BY <3>2, <3>3, <3>4
    <2> QED BY <2>2, <2>3
  <1>8. ASSUME NEW i \in 1 .. 65, i \notin offset + 1 .. offset + 32
        PROVE  placed[i] = buffer[i]
    <2>1. i - 1 \notin offset + 32 - l .. offset + 31
      BY <1>2, <1>3, <1>8
    <2> QED BY <1>4, <1>5, <2>1
  <1> QED BY <1>1, <1>5, <1>6, <1>7, <1>8 DEF Holds

LEMMA AnswerFormat ==
    ASSUME NEW r, NEW s, Scalar(r), Scalar(s), NEW buffer, DOMAIN buffer = 1 .. 65
    PROVE  LET answer == format_signature_out(buffer, Der(r, s))
           IN  /\ DOMAIN answer = 1 .. 65 /\ answer = [i \in 1 .. 65 |-> answer[i]]
               /\ answer[1] = buffer[1]
               /\ \A i \in 1 .. 32 : answer[1 + i] = Padded(r)[i]
               /\ \A i \in 1 .. 32 : answer[33 + i] = Padded(s)[i]
  <1>1. PICK signature : signature = Der(r, s)
    OBVIOUS
  <1>2. PICK C : C = Cleared(buffer)
    OBVIOUS
  <1>3. DOMAIN C = 1 .. 65 /\ C[1] = buffer[1] /\ \A i \in 2 .. 65 : C[i] = 0
    BY <1>2 DEF Cleared, SIGNATURE_LENGTH
  <1>4. StandsAt(signature, 4, r) /\ StandsAt(signature, 6 + Len(Content(r)), s)
    BY <1>1, DerHolds
  <1>5. PICK cr : cr = Component(signature, 4)
    OBVIOUS
  <1>6. Len(Content(r)) \in Nat
    BY ContentType
  <1>7. cr.at + cr.length + 2 = 6 + Len(Content(r)) /\ 6 + Len(Content(r)) \in Nat
    <2>1. cr.at \in Nat /\ cr.length \in 1 .. 32 /\ cr.at + cr.length = 4 + Len(Content(r))
      BY <1>4, <1>5, ComponentReads DEF Reads
    <2> QED BY <1>6, <2>1
  <1>8. PICK P : P = Place(C, 1, signature, cr)
    OBVIOUS
  <1>9. /\ DOMAIN P = 1 .. 65
        /\ \A i \in 1 .. 32 : P[1 + i] = Padded(r)[i]
        /\ \A i \in 1 .. 65 : i \notin 2 .. 33 => P[i] = C[i]
    <2>1. \A i \in 1 .. 32 : C[1 + i] = 0
      BY <1>3
    <2>2. Zeroed(C, 1)
      BY <1>3, <2>1 DEF Zeroed
    <2>3. Holds(P, C, 1, r)
      BY <1>4, <1>5, <1>8, <2>2, PlacedAt
    <2> QED BY <2>3 DEF Holds
  <1>10. PICK answer : answer = Place(P, 33, signature, Component(signature, 6 + Len(Content(r))))
    OBVIOUS
  <1>11. Zeroed(P, 33)
    BY <1>3, <1>9 DEF Zeroed
  <1>12. /\ DOMAIN answer = 1 .. 65 /\ answer = [i \in 1 .. 65 |-> answer[i]]
         /\ \A i \in 1 .. 32 : answer[33 + i] = Padded(s)[i]
         /\ \A i \in 1 .. 65 : i \notin 33 + 1 .. 33 + 32 => answer[i] = P[i]
    <2>1. Holds(answer, P, 33, s)
      BY <1>4, <1>7, <1>10, <1>11, PlacedAt
    <2> QED BY <2>1 DEF Holds
  <1>13. answer = format_signature_out(buffer, Der(r, s))
    BY <1>1, <1>2, <1>5, <1>7, <1>8, <1>10 DEF format_signature_out
  <1>14. answer[1] = buffer[1]
    BY <1>3, <1>9, <1>12
  <1>15. \A i \in 1 .. 32 : answer[1 + i] = Padded(r)[i]
    BY <1>9, <1>12
  <1> QED BY <1>12, <1>13, <1>14, <1>15

\* The answer while it lies in the buffer.
AnswerInv ==
    /\ DOMAIN apduBuffer = 1 .. 65
    /\ signed # NotSigned =>
          /\ signed \in Signatures
          /\ apduBuffer = [i \in 1 .. 65 |-> apduBuffer[i]]
          /\ apduBuffer[1] = V(signed)
          /\ \A i \in 1 .. 32 : apduBuffer[1 + i] = Padded(signed.r)[i]
          /\ \A i \in 1 .. 32 : apduBuffer[33 + i] = Padded(signed.s)[i]

LEMMA AnswerInvariant == OutputSpec => []AnswerInv
  <1>1. OutputInit => AnswerInv
    BY ApdusAssumption DEF OutputInit, SignatureInit, AnswerInv, SIGNATURE_LENGTH
  <1>2. AnswerInv /\ [OutputNext]_outputVars => AnswerInv'
    <2> SUFFICES ASSUME AnswerInv, [OutputNext]_outputVars
                 PROVE  AnswerInv'
      OBVIOUS
    <2>1. ASSUME NEW item \in Items, Show(item)
          PROVE  AnswerInv'
      BY <2>1 DEF Show, signatureVars, AnswerInv
    <2>2. ASSUME NEW x \in Signatures, Approve(x)
          PROVE  AnswerInv'
      <3>1. Scalar(x.r) /\ Scalar(x.s)
        BY SignaturesAssumption DEF Scalar
      <3>2. PICK buffer : buffer = [apduBuffer EXCEPT ![1] = V(x)]
        OBVIOUS
      <3>3. DOMAIN buffer = 1 .. 65 /\ buffer[1] = V(x)
        BY <3>2 DEF AnswerInv
      <3>4. apduBuffer' = format_signature_out(buffer, Der(x.r, x.s)) /\ signed' = x
        BY <2>2, <3>2 DEF Approve, set_result_sign_message
      <3>5. /\ DOMAIN apduBuffer' = 1 .. 65 /\ apduBuffer' = [i \in 1 .. 65 |-> apduBuffer'[i]]
            /\ apduBuffer'[1] = V(x)
            /\ \A i \in 1 .. 32 : apduBuffer'[1 + i] = Padded(x.r)[i]
            /\ \A i \in 1 .. 32 : apduBuffer'[33 + i] = Padded(x.s)[i]
        BY <3>1, <3>3, <3>4, AnswerFormat
      <3> QED BY <3>4, <3>5 DEF AnswerInv
    <2>3. ASSUME NextRequest
          PROVE  AnswerInv'
      BY <2>3, ApdusAssumption DEF NextRequest, ReceiveRequest, AnswerInv, SIGNATURE_LENGTH
    <2>4. ASSUME UNCHANGED outputVars
          PROVE  AnswerInv'
      BY <2>4 DEF outputVars, signatureVars, AnswerInv
    <2> QED BY <2>1, <2>2, <2>3, <2>4 DEF OutputNext
  <1> QED BY <1>1, <1>2, PTL DEF OutputSpec

LEMMA PaddedIs ==
    ASSUME NEW n, Scalar(n)
    PROVE  Padded(n) \in [1 .. 32 -> Nat]
  <1>1. n \in Seq(Nat) /\ Len(n) \in 1 .. 32
    BY BytesType DEF Scalar
  <1>2. ASSUME NEW i \in 1 .. 32
        PROVE  (IF i <= 32 - Len(n) THEN 0 ELSE n[i - (32 - Len(n))]) \in Nat
    <2>1. CASE i <= 32 - Len(n)
      BY <2>1
    <2>2. CASE ~(i <= 32 - Len(n))
      <3>1. i - (32 - Len(n)) \in 1 .. Len(n)
        BY <1>1, <2>2
      <3> QED BY <1>1, <2>2, <3>1
    <2> QED BY <2>1, <2>2
  <1> QED BY <1>2 DEF Padded

\* AnswerIsSignature, for any request in the buffer and any signature: r and s
\* stand in the answer right-aligned in 32 bytes each, whatever their lengths
\* in DER, and nothing of the request is left (signLegacyTransaction.c:15).
THEOREM AnswerCorrect == OutputSpec => []AnswerIsSignature
  <1>1. AnswerInv => AnswerIsSignature
    <2> SUFFICES ASSUME AnswerInv, signed # NotSigned
                 PROVE  /\ SubSeq(apduBuffer, 2, 33) = Padded(signed.r)
                        /\ SubSeq(apduBuffer, 34, 65) = Padded(signed.s)
      BY DEF AnswerIsSignature
    <2>1. PICK r, s : r = signed.r /\ s = signed.s
      OBVIOUS
    <2>2. signed \in Signatures
      BY DEF AnswerInv
    <2>3. Scalar(r) /\ Scalar(s)
      BY <2>1, <2>2, SignaturesAssumption DEF Scalar
    <2>4. Padded(r) \in [1 .. 32 -> Nat] /\ Padded(s) \in [1 .. 32 -> Nat]
      BY <2>3, PaddedIs
    <2>5. /\ \A i \in 1 .. 32 : apduBuffer[1 + i] = Padded(r)[i]
          /\ \A i \in 1 .. 32 : apduBuffer[33 + i] = Padded(s)[i]
          /\ apduBuffer[1] \in Nat
          /\ apduBuffer = [i \in 1 .. 65 |-> apduBuffer[i]]
      <3>1. apduBuffer[1] = V(signed)
        BY DEF AnswerInv
      <3>2. V(signed) \in Nat
        <4>1. ChainByte(signed.chainID) \in Nat
          <5>1. signed.chainID \in Seq(Nat)
            BY <2>2, SignaturesAssumption, BytesType
          <5> QED BY <5>1 DEF ChainByte
        <4> QED BY <4>1 DEF V
      <3> QED BY <2>1, <3>1, <3>2 DEF AnswerInv
    <2>6. \A i \in 1 .. 65 : apduBuffer[i] \in Nat
      <3> SUFFICES ASSUME NEW i \in 1 .. 65
                   PROVE  apduBuffer[i] \in Nat
        OBVIOUS
      <3>1. CASE i = 1
        BY <2>5, <3>1
      <3>2. CASE i \in 2 .. 33
        <4>1. i - 1 \in 1 .. 32 /\ 1 + (i - 1) = i
          BY <3>2
        <4> QED BY <2>4, <2>5, <4>1
      <3>3. CASE i \in 34 .. 65
        <4>1. i - 33 \in 1 .. 32 /\ 33 + (i - 33) = i
          BY <3>3
        <4> QED BY <2>4, <2>5, <4>1
      <3> QED BY <3>1, <3>2, <3>3
    <2>7. apduBuffer \in Seq(Nat) /\ Len(apduBuffer) = 65
      BY <2>5, <2>6
    <2>8. SubSeq(apduBuffer, 2, 33) = [i \in 1 .. 32 |-> apduBuffer[1 + i]]
      BY <2>7
    <2>9. SubSeq(apduBuffer, 34, 65) = [i \in 1 .. 32 |-> apduBuffer[33 + i]]
      BY <2>7
    <2>10. SubSeq(apduBuffer, 2, 33) = Padded(r)
      BY <2>4, <2>5, <2>8
    <2>11. SubSeq(apduBuffer, 34, 65) = Padded(s)
      BY <2>4, <2>5, <2>9
    <2> QED BY <2>1, <2>10, <2>11
  <1> QED BY <1>1, AnswerInvariant, PTL

\* A number and its last byte.
LEMMA LastByte ==
    ASSUME NEW t \in Seq(Byte), t # <<>>
    PROVE  \E q \in Nat : Value(t, 256) = 256 * q + t[Len(t)]
  <1>1. t \in Seq(Nat) /\ Len(t) \in Nat /\ Len(t) >= 1 /\ 256 \in Nat /\ 0 \in Nat
    BY BytesType
  <1>2. PICK P : P = Prefixes(0, t, 256)
    OBVIOUS
  <1>3. PrefixesOf(P, 0, t, 256)
    BY <1>1, <1>2, PrefixValues
  <1>4. P[Len(t)] = Shifted(256, P[Len(t) - 1], t[Len(t)]) /\ P[Len(t) - 1] \in Nat
    <2>1. Len(t) \in 1 .. Len(t) /\ Len(t) - 1 \in 0 .. Len(t)
      BY <1>1
    <2> QED BY <1>3, <2>1 DEF PrefixesOf
  <1> QED BY <1>2, <1>4 DEF Value, Shifted

\* The byte of an id that v is made of is its last, when there are four at most.
LEMMA ChainByteIsLast ==
    ASSUME NEW id \in Seq(Byte), Len(id) <= 4
    PROVE  /\ ChainByte(id) \in Byte
           /\ \E q \in Nat : Value(id, 256) = 256 * q + ChainByte(id)
  <1>1. CASE id = <<>>
    <2>1. ChainByte(id) = 0
      BY <1>1 DEF ChainByte
    <2>2. Value(id, 256) = 0
      <3>1. <<>> \in Seq(Nat) /\ 256 \in Nat /\ 0 \in Nat
        OBVIOUS
      <3>2. Value(<<>>, 256) = Val(0, <<>>, 256)
        BY <3>1, ValueType
      <3>3. Val(0, <<>>, 256) = 0
        BY <3>1, ValEmpty
      <3> QED BY <1>1, <3>2, <3>3
    <2>3. 0 = 256 * 0 + 0 /\ 0 \in Nat /\ 0 \in Byte
      BY DEF Byte
    <2> QED BY <2>1, <2>2, <2>3
  <1>2. CASE id # <<>>
    <2>1. Len(id) \in 1 .. 4
      <3>1. Len(id) >= 1
        BY <1>2
      <3>2. PICK m \in Nat : m = Len(id)
        OBVIOUS
      <3>3. m \in 1 .. 4
        BY <3>1, <3>2
      <3> QED BY <3>2, <3>3
    <2>2. ChainByte(id) = id[Len(id)]
      <3>1. ChainByte(id) = id[IF Len(id) < 4 THEN Len(id) ELSE 4]
        BY <1>2 DEF ChainByte
      <3> QED BY <2>1, <3>1
    <2>3. id[Len(id)] \in Byte
      BY <2>1
    <2>4. PICK q \in Nat : Value(id, 256) = 256 * q + id[Len(id)]
      BY <1>2, LastByte
    <2> QED BY <2>2, <2>3, <2>4
  <1> QED BY <1>1, <1>2

\* Of a longer id it is the one of its four highest bytes.
LEMMA ChainByteOfFour ==
    ASSUME NEW id \in Seq(Byte), ~(Len(id) <= 4)
    PROVE  /\ SubSeq(id, 1, 4) \in Seq(Byte) /\ Len(SubSeq(id, 1, 4)) = 4
           /\ ChainByte(id) = ChainByte(SubSeq(id, 1, 4))
  <1>1. PICK four : four = SubSeq(id, 1, 4)
    OBVIOUS
  <1>2. Len(id) \in Nat /\ Len(id) > 4 /\ id # <<>>
    OBVIOUS
  <1>3. four \in Seq(Byte) /\ Len(four) = 4 /\ four[4] = id[4]
    BY <1>1, <1>2
  <1>4. ChainByte(id) = id[4]
    BY <1>2 DEF ChainByte
  <1>5. ChainByte(four) = four[4]
    BY <1>3 DEF ChainByte
  <1> QED BY <1>1, <1>3, <1>4, <1>5

\* What 256 times a number adds to an id adds nothing to the byte.
VByte(n, c) == (2 * n + 35 + c) % 256

LEMMA ByteOfV ==
    ASSUME NEW cb \in Byte, NEW q \in Nat, NEW c \in 0 .. 3, NEW n, n = 256 * q + cb
    PROVE  VByte(n, c) = VByte(cb, c)
  BY DEF Byte, VByte

\* VIsOfChain, for any signature and any chain id: v is the one of EIP-155 when
\* the id has at most four bytes, and otherwise the one of the id's four highest
\* bytes (signLegacyTransaction.c:56).
THEOREM VCorrect == OutputSpec => []VIsOfChain
  <1>1. AnswerInv => VIsOfChain
    <2> SUFFICES ASSUME AnswerInv, signed # NotSigned
                 PROVE  VIsOfChain
      BY DEF VIsOfChain
    <2>1. signed \in Signatures /\ apduBuffer[1] = V(signed)
      BY DEF AnswerInv
    <2>2. signed.chainID \in Seq(Byte) /\ signed.odd \in BOOLEAN /\ signed.xGTn \in BOOLEAN
      BY <2>1, SignaturesAssumption
    <2>3. PICK id : id = IF Len(signed.chainID) <= 4 THEN signed.chainID
                         ELSE SubSeq(signed.chainID, 1, 4)
      OBVIOUS
    <2>4. id \in Seq(Byte) /\ Len(id) <= 4 /\ ChainByte(id) = ChainByte(signed.chainID)
      <3>1. CASE Len(signed.chainID) <= 4
        <4>1. id = signed.chainID
          BY <2>3, <3>1
        <4> QED BY <2>2, <3>1, <4>1
      <3>2. CASE ~(Len(signed.chainID) <= 4)
        <4>1. id = SubSeq(signed.chainID, 1, 4)
          BY <2>3, <3>2
        <4>2. /\ SubSeq(signed.chainID, 1, 4) \in Seq(Byte) /\ Len(SubSeq(signed.chainID, 1, 4)) = 4
              /\ ChainByte(signed.chainID) = ChainByte(SubSeq(signed.chainID, 1, 4))
          BY <2>2, <3>2, ChainByteOfFour
        <4>3. Len(id) = 4
          BY <4>1, <4>2
        <4> QED BY <4>1, <4>2, <4>3
      <3> QED BY <3>1, <3>2
    <2>5. PICK cb \in Byte, q \in Nat : cb = ChainByte(id) /\ Value(id, 256) = 256 * q + cb
      BY <2>4, ChainByteIsLast
    <2>6. PICK c : c = (IF signed.odd THEN 1 ELSE 0) + (IF signed.xGTn THEN 2 ELSE 0)
      OBVIOUS
    <2>7. c \in 0 .. 3
      BY <2>2, <2>6
    <2>8. apduBuffer[1] = VByte(cb, c)
      <3>1. cb \in Nat
        BY DEF Byte
      <3>2. V(signed) = (2 * cb + 35 + (IF signed.odd THEN 1 ELSE 0)
                            + (IF signed.xGTn THEN 2 ELSE 0)) % 256
        BY <2>4, <2>5 DEF V
      <3> QED BY <2>1, <2>2, <2>6, <3>1, <3>2 DEF VByte
    <2>9. PICK n \in Nat : n = Value(id, 256) /\ n = 256 * q + cb
      <3>1. 256 * q + cb \in Nat
        BY DEF Byte
      <3> QED BY <2>5, <3>1
    <2>10. apduBuffer[1] = VByte(n, c)
      BY <2>7, <2>8, <2>9, ByteOfV
    <2>11. EIP155(apduBuffer[1], id, signed)
      <3>1. 2 * n + 35 + c = 2 * n + 35 + (IF signed.odd THEN 1 ELSE 0)
                                 + (IF signed.xGTn THEN 2 ELSE 0)
        BY <2>2, <2>6
      <3> QED BY <2>9, <2>10, <3>1 DEF EIP155, VByte
    <2> QED BY <2>3, <2>11 DEF VIsOfChain
  <1> QED BY <1>1, AnswerInvariant, PTL

-----------------------------------------------------------------------------
(* Texts (Printing).                                                       *)

IsText(t) == Len(t) \in Nat /\ t = [i \in 1 .. Len(t) |-> t[i]]
Plain(t) == IsText(t) /\ \A i \in 1 .. Len(t) : t[i] # Nul

LEMMA TextIs ==
    ASSUME NEW n \in Nat, NEW t, t = [i \in 1 .. n |-> t[i]]
    PROVE  IsText(t) /\ Len(t) = n
  BY DEF IsText

LEMMA TextOfElements ==
    ASSUME NEW t, IsText(t), NEW S, \A i \in 1 .. Len(t) : t[i] \in S
    PROVE  t \in Seq(S)
  <1>1. PICK n : n = Len(t)
    OBVIOUS
  <1>2. n \in Nat /\ t = [i \in 1 .. n |-> t[i]]
    BY <1>1 DEF IsText
  <1>3. \A i \in 1 .. n : t[i] \in S
    BY <1>1
  <1> QED BY <1>2, <1>3

LEMMA SeqIsText ==
    ASSUME NEW S, NEW t \in Seq(S)
    PROVE  IsText(t)
  BY DEF IsText

LEMMA TextsJoin ==
    ASSUME NEW r, NEW s, IsText(r), IsText(s)
    PROVE  IsText(r \o s) /\ Joined(r \o s, r, s)
  <1> DEFINE A == {r[i] : i \in 1 .. Len(r)}
             B == {s[i] : i \in 1 .. Len(s)}
             S == A \cup B
  <1>1. \A i \in 1 .. Len(r) : r[i] \in S
    OBVIOUS
  <1>2. \A i \in 1 .. Len(s) : s[i] \in S
    OBVIOUS
  <1> HIDE DEF S
  <1>3. r \in Seq(S) /\ s \in Seq(S)
    BY <1>1, <1>2, TextOfElements
  <1>4. r \o s \in Seq(S) /\ Joined(r \o s, r, s)
    BY <1>3, ConcatJoins
  <1> QED BY <1>4, SeqIsText

LEMMA SameText ==
    ASSUME NEW t, NEW u, IsText(t), IsText(u), Len(t) = Len(u),
           \A i \in 1 .. Len(t) : t[i] = u[i]
    PROVE  t = u
  BY DEF IsText

\* s is what stands in t after the place m, up to the place n.
Part(s, t, m, n) ==
    /\ IsText(s) /\ Len(s) = n - m
    /\ \A i \in 1 .. n - m : s[i] = t[m + i]

LEMMA PartOfText ==
    ASSUME NEW t, IsText(t), NEW m \in Nat, NEW n \in Nat, m <= n, n <= Len(t)
    PROVE  Part(SubSeq(t, m + 1, n), t, m, n)
  <1> DEFINE S == {t[i] : i \in 1 .. Len(t)}
  <1>1. \A i \in 1 .. Len(t) : t[i] \in S
    OBVIOUS
  <1> HIDE DEF S
  <1>2. t \in Seq(S)
    BY <1>1, TextOfElements
  <1>3. m = n \/ m + 1 <= n
    OBVIOUS
  <1>4. SubSeq(t, m + 1, n) \in Seq(S)
    BY <1>2, <1>3
  <1>5. /\ Len(SubSeq(t, m + 1, n)) = n - m
        /\ \A i \in 1 .. n - m : SubSeq(t, m + 1, n)[i] = t[m + i]
    BY <1>2, <1>3
  <1> QED BY <1>4, <1>5, SeqIsText DEF Part

\* In front.
LEMMA FrontOfText ==
    ASSUME NEW t, IsText(t), NEW n \in Nat, n <= Len(t)
    PROVE  /\ IsText(SubSeq(t, 1, n)) /\ Len(SubSeq(t, 1, n)) = n
           /\ \A i \in 1 .. n : SubSeq(t, 1, n)[i] = t[i]
  <1>1. PICK m : m = 0
    OBVIOUS
  <1>2. m \in Nat /\ m <= n /\ m + 1 = 1
    BY <1>1
  <1>3. Part(SubSeq(t, m + 1, n), t, m, n)
    BY <1>2, PartOfText
  <1>4. Part(SubSeq(t, 1, n), t, 0, n)
    BY <1>1, <1>2, <1>3
  <1>5. n - 0 = n /\ \A i \in 1 .. n : 0 + i = i
    OBVIOUS
  <1> QED BY <1>4, <1>5 DEF Part

\* The least of some numbers.
LEMMA LeastOf ==
    ASSUME NEW T, NEW n \in T, \A i \in T : i \in Int /\ n <= i
    PROVE  (CHOOSE i \in T : \A j \in T : i <= j) = n
  <1>1. PICK e : e = CHOOSE i \in T : \A j \in T : i <= j
    OBVIOUS
  <1>2. e \in T /\ \A j \in T : e <= j
    BY <1>1
  <1> QED BY <1>1, <1>2

\* The buffer holds a text and its terminator.
TextOf(buffer, s) ==
    /\ IsText(buffer) /\ Len(buffer) = TEXT_BUFFER_LENGTH
    /\ Plain(s) /\ Len(s) < TEXT_BUFFER_LENGTH
    /\ \A i \in 1 .. Len(s) : buffer[i] = s[i]
    /\ buffer[Len(s) + 1] = Nul

LEMMA CStringOf ==
    ASSUME NEW buffer, NEW s, TextOf(buffer, s)
    PROVE  CString(buffer) = s
  <1>1. PICK n : n = Len(s)
    OBVIOUS
  <1>2. n \in Nat /\ n < 50 /\ n + 1 \in 1 .. 50 /\ (n + 1) - 1 = n
    <2>1. Len(s) \in Nat /\ Len(s) < 50
      BY DEF TextOf, Plain, IsText, TEXT_BUFFER_LENGTH
    <2>2. n \in Nat /\ n < 50
      BY <1>1, <2>1
    <2> QED BY <2>2
  <1>3. DOMAIN buffer = 1 .. 50
    BY DEF TextOf, IsText, TEXT_BUFFER_LENGTH
  <1>4. buffer[n + 1] = Nul /\ \A i \in 1 .. n : buffer[i] # Nul
    BY <1>1 DEF TextOf, Plain
  <1>5. PICK stops : stops = {i \in DOMAIN buffer : buffer[i] = Nul}
    OBVIOUS
  <1>6. n + 1 \in stops /\ \A i \in stops : i \in 1 .. 50 /\ buffer[i] = Nul
    BY <1>2, <1>3, <1>4, <1>5
  <1>10. \A i \in stops : i \in Int /\ n + 1 <= i
    <2> SUFFICES ASSUME NEW i \in stops
                 PROVE  i \in Int /\ n + 1 <= i
      OBVIOUS
    <2>1. i \in 1 .. 50 /\ i \notin 1 .. n
      BY <1>4, <1>6
    <2> QED BY <1>2, <2>1
  <1>11. (CHOOSE i \in stops : \A j \in stops : i <= j) = n + 1
    BY <1>6, <1>10, LeastOf
  <1>12. CString(buffer) = SubSeq(buffer, 1, n)
    <2>1. stops # {}
      BY <1>6
    <2> QED BY <1>2, <1>5, <1>11, <2>1 DEF CString
  <1>7. IsText(buffer) /\ n <= Len(buffer) /\ IsText(s)
    BY <1>2 DEF TextOf, Plain, TEXT_BUFFER_LENGTH
  <1>8. /\ IsText(SubSeq(buffer, 1, n)) /\ Len(SubSeq(buffer, 1, n)) = n
        /\ \A i \in 1 .. n : SubSeq(buffer, 1, n)[i] = buffer[i]
    BY <1>2, <1>7, FrontOfText
  <1>9. \A i \in 1 .. n : buffer[i] = s[i]
    BY <1>1 DEF TextOf
  <1>13. PICK u : u = SubSeq(buffer, 1, n)
    OBVIOUS
  <1>14. IsText(u) /\ Len(u) = Len(s) /\ \A i \in 1 .. Len(u) : u[i] = s[i]
    BY <1>1, <1>8, <1>9, <1>13
  <1> QED BY <1>7, <1>12, <1>13, <1>14, SameText

\* What a printer that writes a text and a terminator leaves.
LEMMA Overwritten ==
    ASSUME NEW buffer, IsText(buffer), Len(buffer) = TEXT_BUFFER_LENGTH,
           NEW s, Plain(s), Len(s) < TEXT_BUFFER_LENGTH
    PROVE  TextOf(Overwrite(buffer, s \o <<Nul>>), s)
  <1>1. PICK n : n = Len(s) /\ n \in Nat /\ n < 50
    BY DEF Plain, IsText, TEXT_BUFFER_LENGTH
  <1>2. IsText(<<Nul>>) /\ Len(<<Nul>>) = 1 /\ <<Nul>>[1] = Nul
    BY DEF IsText
  <1>3. PICK t : t = s \o <<Nul>>
    OBVIOUS
  <1>4. Joined(t, s, <<Nul>>)
    BY <1>2, <1>3, TextsJoin DEF Plain
  <1>5. Len(t) = n + 1 /\ (\A i \in 1 .. n : t[i] = s[i]) /\ t[n + 1] = Nul
    BY <1>1, <1>2, <1>4 DEF Joined
  <1>6. PICK b : b = Overwrite(buffer, t)
    OBVIOUS
  <1>7. b = [i \in 1 .. 50 |-> IF i <= n + 1 THEN t[i] ELSE buffer[i]]
    BY <1>5, <1>6 DEF Overwrite, IsText, TEXT_BUFFER_LENGTH
  <1>8. IsText(b) /\ Len(b) = 50
    BY <1>7 DEF IsText
  <1>9. (\A i \in 1 .. n : b[i] = s[i]) /\ b[n + 1] = Nul
    <2>1. n \in Nat /\ n < 50
      BY <1>1
    <2>2. ASSUME NEW i \in 1 .. n PROVE b[i] = s[i]
      <3>1. i \in 1 .. 50 /\ i <= n + 1
        BY <2>1
      <3>2. b[i] = t[i]
        BY <1>7, <3>1
      <3> QED BY <1>5, <3>2
    <2>3. b[n + 1] = t[n + 1]
      <3>1. n + 1 \in 1 .. 50 /\ n + 1 <= n + 1
        BY <2>1
      <3> QED BY <1>7, <3>1
    <2> QED BY <1>5, <2>2, <2>3
  <1> QED BY <1>1, <1>3, <1>6, <1>8, <1>9 DEF TextOf, TEXT_BUFFER_LENGTH

-----------------------------------------------------------------------------
(* The digits of a number.                                                 *)

\* The base of a limb of 16 bits.
LimbBase == 65536

LEMMA PairIsLimb ==
    ASSUME NEW a \in Nat, NEW b \in Nat, a < 256, b < 256,
           NEW limb, limb = a * 256 + b
    PROVE  limb \in Nat /\ limb < LimbBase
  BY DEF LimbBase

LEMMA PairArithmetic ==
    ASSUME NEW x \in Nat, NEW a \in Nat, NEW b \in Nat, a < 256, b < 256
    PROVE  Shifted(LimbBase, x, a * 256 + b) = Shifted(256, Shifted(256, x, a), b)
  BY DEF Shifted, LimbBase

LEMMA LimbsKeepValue ==
    ASSUME NEW value \in Seq(Byte), Len(value) <= 32
    PROVE  /\ Limbs(value) \in Seq(0 .. LimbBase - 1)
           /\ Value(Limbs(value), LimbBase) = Value(value, 256)
  <1> DEFINE zeros == 32 - Len(value)
             n == Repeat(0, zeros) \o value
             L == Limbs(value)
  <1>1. zeros \in Nat /\ value \in Seq(Nat) /\ Len(value) \in Nat
    BY BytesType
  <1>2. n \in Seq(Nat) /\ Value(n, 256) = Value(value, 256)
    BY <1>1, ZerosInFront
  <1>3. Len(n) = 32 /\ \A i \in 1 .. 32 : n[i] \in Nat /\ n[i] < 256
    <2>1. 0 \in Byte /\ Byte \subseteq Nat /\ \A b \in Byte : b < 256
      BY DEF Byte
    <2>2. Repeat(0, zeros) \in Seq(Byte) /\ Len(Repeat(0, zeros)) = zeros
      BY <1>1, <2>1, RepeatType
    <2>3. n \in Seq(Byte) /\ Joined(n, Repeat(0, zeros), value)
      BY <2>2, ConcatJoins
    <2>4. Len(n) = 32
      BY <1>1, <2>2, <2>3 DEF Joined
    <2> HIDE DEF n
    <2>6. n \in Seq(Byte)
      BY <2>3
    <2>5. \A i \in 1 .. 32 : n[i] \in Byte
      BY <2>4, <2>6, ElementOf
    <2> QED BY <2>1, <2>4, <2>5
  <1>4. L = [i \in 1 .. 16 |-> n[2 * i - 1] * 256 + n[2 * i]]
    BY DEF Limbs, INT256_LENGTH
  <1> HIDE DEF n, zeros, L
  <1>5. ASSUME NEW i \in 1 .. 16
        PROVE  L[i] \in Nat /\ L[i] < LimbBase
    <2>1. 2 * i - 1 \in 1 .. 32 /\ 2 * i \in 1 .. 32
      OBVIOUS
    <2>2. PICK a, b : a = n[2 * i - 1] /\ b = n[2 * i]
      OBVIOUS
    <2>3. a \in Nat /\ a < 256 /\ b \in Nat /\ b < 256
      BY <1>3, <2>1, <2>2
    <2>4. L[i] = a * 256 + b
      BY <1>4, <2>2
    <2> QED BY <2>3, <2>4, PairIsLimb
  <1>6. PICK base \in Nat : base = LimbBase
    BY DEF LimbBase
  <1>7. L \in Seq(0 .. base - 1) /\ Len(L) = 16
    <2>1. \A i \in 1 .. 16 : L[i] \in 0 .. base - 1
      BY <1>5, <1>6, BelowIsDigit
    <2>2. L = [i \in 1 .. 16 |-> L[i]]
      BY <1>4
    <2> QED BY <2>1, <2>2
  <1>8. L \in Seq(Nat)
    BY <1>7, BytesAreNumbers
  <1> DEFINE P == Prefixes(0, n, 256)
             Q == Prefixes(0, L, base)
             T == {i \in 0 .. 16 : Q[i] = P[2 * i]}
  <1>9. PrefixesOf(P, 0, n, 256)
    BY <1>2, PrefixValues
  <1>10. PrefixesOf(Q, 0, L, base)
    BY <1>8, PrefixValues
  <1> HIDE DEF P, Q
  <1>11. 0 \in T
    BY <1>9, <1>10 DEF PrefixesOf
  <1>12. ASSUME NEW m \in 0 .. 16 - 1, m \in T
         PROVE  m + 1 \in T
    <2>1. PICK i : i = m + 1
      OBVIOUS
    <2>2. /\ i \in 1 .. 16 /\ i \in 0 .. 16 /\ i - 1 = m
          /\ 2 * i - 1 \in 1 .. 32 /\ 2 * i \in 1 .. 32 /\ 2 * m \in 0 .. 32
          /\ (2 * i - 1) - 1 = 2 * m /\ (2 * i) - 1 = 2 * i - 1
      BY <2>1
    <2>3. PICK a, b, x : a = n[2 * i - 1] /\ b = n[2 * i] /\ x = P[2 * m]
      OBVIOUS
    <2>4. a \in Nat /\ a < 256 /\ b \in Nat /\ b < 256
      BY <1>3, <2>2, <2>3
    <2>5. x \in Nat /\ Q[m] = x
      <3>1. x \in Nat
        BY <1>3, <1>9, <2>2, <2>3 DEF PrefixesOf
      <3>2. Q[m] = x
        BY <1>12, <2>3
      <3> QED BY <3>1, <3>2
    <2>6. P[2 * i - 1] = Shifted(256, x, a)
      BY <1>3, <1>9, <2>2, <2>3 DEF PrefixesOf
    <2>7. P[2 * i] = Shifted(256, P[2 * i - 1], b)
      BY <1>3, <1>9, <2>2, <2>3 DEF PrefixesOf
    <2>8. Q[i] = Shifted(base, x, L[i])
      BY <1>7, <1>10, <2>2, <2>5 DEF PrefixesOf
    <2>9. L[i] = a * 256 + b
      BY <1>4, <2>2, <2>3
    <2>10. Shifted(base, x, a * 256 + b) = Shifted(256, Shifted(256, x, a), b)
      BY <1>6, <2>4, <2>5, PairArithmetic
    <2>11. Q[i] = P[2 * i]
      BY <2>6, <2>7, <2>8, <2>9, <2>10
    <2> QED BY <2>1, <2>2, <2>11
  <1> HIDE DEF T
  <1>13. \A m \in 0 .. 16 : m \in T
    <2>1. 16 \in Nat
      OBVIOUS
    <2> QED BY <1>11, <1>12, <2>1, Induction
  <1>14. Q[16] = P[32]
    BY <1>13 DEF T
  <1>15. Value(L, base) = Value(n, 256)
    BY <1>3, <1>7, <1>14 DEF Value, P, Q
  <1>16. L = Limbs(value)
    BY DEF L
  <1> QED BY <1>2, <1>6, <1>7, <1>15, <1>16

\* The digits of a number as they are written: at least one, and no zero in
\* front of another.
Numeral(digits, v) ==
    /\ digits \in Seq(0 .. 10 - 1) /\ digits # <<>>
    /\ Value(digits, 10) = v
    /\ digits = <<0>> \/ digits[1] # 0

LEMMA ZeroNumeral == Numeral(<<0>>, 0)
  <1>1. PICK z : z = <<0>>
    OBVIOUS
  <1>2. z \in Seq(0 .. 10 - 1) /\ z # <<>> /\ Len(z) = 1 /\ \A i \in 1 .. 1 : z[i] = 0
    BY <1>1
  <1>3. AllZeroes(z)
    BY <1>2 DEF AllZeroes
  <1>4. PICK base \in AllBases : base = 10
    BY DEF AllBases
  <1>5. Value(z, base) = 0
    BY <1>2, <1>3, <1>4, ZeroValue
  <1> QED BY <1>1, <1>2, <1>4, <1>5 DEF Numeral

LEMMA NumeralOfDigits ==
    ASSUME NEW base \in Bases, NEW n \in Seq(0 .. base - 1), ~AllZeroes(n)
    PROVE  Numeral(Digits(n, base, 10), Value(n, base))
  <1>1. PICK radix : radix = 10
    OBVIOUS
  <1>2. PICK ds : ds = Digits(n, base, radix)
    OBVIOUS
  <1>3. /\ ds \in Seq(0 .. radix - 1)
        /\ Value(ds, radix) = Value(n, base)
        /\ ds # <<>> => ds[1] # 0
    <2>1. radix \in Radixes
      BY <1>1 DEF Radixes
    <2> QED BY <1>2, <2>1, DigitsKeepValue
  <1>4. Value(n, base) # 0
    BY BaseAndRadix, ZeroValue DEF Radixes
  <1>5. ds # <<>>
    <2> SUFFICES ASSUME ds = <<>>
                 PROVE  FALSE
      OBVIOUS
    <2>1. <<>> \in Seq(Nat) /\ radix \in Nat /\ 0 \in Nat
      BY <1>1
    <2>2. Value(<<>>, radix) = Val(0, <<>>, radix)
      BY <2>1, ValueType
    <2>3. Val(0, <<>>, radix) = 0
      BY <2>1, ValEmpty
    <2> QED BY <1>3, <1>4, <2>2, <2>3
  <1> QED BY <1>1, <1>2, <1>3, <1>5 DEF Numeral

\* The ten digits, as text.
LEMMA DecimalsAre ==
    /\ Alphabet(Decimals, 10)
    /\ \A i \in 1 .. 10 : Decimals[i] # Nul /\ Decimals[i] # "."
    /\ \A i \in 1 .. 10 : Decimals[i] = "0" <=> i = 1
  BY DEF Alphabet, Decimals, Nul

\* Digits as text.
LEMMA WrittenText ==
    ASSUME NEW radix \in Radixes, NEW alphabet, Alphabet(alphabet, radix),
           \A i \in 1 .. radix : alphabet[i] # Nul,
           NEW digits \in Seq(0 .. radix - 1)
    PROVE  /\ Plain(Written(digits, alphabet))
           /\ Len(Written(digits, alphabet)) = Len(digits)
           /\ \A i \in 1 .. Len(digits) : /\ digits[i] + 1 \in 1 .. radix
                                          /\ Written(digits, alphabet)[i] = alphabet[digits[i] + 1]
  <1>1. PICK t : t = Written(digits, alphabet)
    OBVIOUS
  <1>2. t = [i \in 1 .. Len(digits) |-> alphabet[digits[i] + 1]] /\ Len(digits) \in Nat
    BY <1>1 DEF Written
  <1>3. IsText(t) /\ Len(t) = Len(digits)
    BY <1>2 DEF IsText
  <1>4. ASSUME NEW i \in 1 .. Len(digits)
        PROVE  /\ digits[i] + 1 \in 1 .. radix
               /\ t[i] = alphabet[digits[i] + 1]
               /\ t[i] # Nul
    <2>1. digits[i] \in 0 .. radix - 1
      BY ElementOf
    <2>2. PICK d : d = digits[i]
      OBVIOUS
    <2>3. d + 1 \in 1 .. radix
      BY <2>1, <2>2 DEF Radixes
    <2>4. t[i] = alphabet[d + 1]
      BY <1>2, <2>2
    <2>5. t[i] # Nul
      BY <2>3, <2>4
    <2> QED BY <2>2, <2>3, <2>4, <2>5
  <1> QED BY <1>1, <1>3, <1>4 DEF Plain

-----------------------------------------------------------------------------
(* Amounts: the point, and the zeros that are stripped.                    *)

\* The last place from a to N that is kept when the zeros after it go.
KeptAt(t, a, N, i) ==
    /\ \A j \in i + 1 .. N : t[j] = "0"
    /\ i = a \/ t[i] # "0"

LEMMA LastKept ==
    ASSUME NEW t, NEW a \in Nat, NEW N \in Nat, a <= N
    PROVE  \E i \in a .. N : KeptAt(t, a, N, i)
  <1> DEFINE T == {i \in 0 .. N : i >= a /\ \A j \in i + 1 .. N : t[j] = "0"}
  <1>1. N \in T /\ N \in 0 .. N
    OBVIOUS
  <1>2. \A i \in 0 .. N : i \in T <=> i >= a /\ \A j \in i + 1 .. N : t[j] = "0"
    OBVIOUS
  <1> HIDE DEF T
  <1>3. PICK i \in 0 .. N : i \in T /\ \A m \in 0 .. i - 1 : m \notin T
    BY <1>1, LeastElement
  <1>4. i >= a /\ \A j \in i + 1 .. N : t[j] = "0"
    BY <1>2, <1>3
  <1>5. ASSUME i # a, t[i] = "0"
        PROVE  FALSE
    <2>1. PICK m : m = i - 1
      OBVIOUS
    <2>2. m \in 0 .. i - 1 /\ m \in 0 .. N /\ m >= a /\ m + 1 = i
      BY <1>3, <1>4, <1>5, <2>1
    <2>3. \A j \in m + 1 .. N : t[j] = "0"
      BY <1>3, <1>4, <1>5, <2>2
    <2> QED BY <1>2, <1>3, <2>2, <2>3
  <1> QED BY <1>3, <1>4, <1>5 DEF KeptAt

\* Digits with eighteen decimals, and the place of the point among them.
Splitting(digits, p) ==
    digits \in Seq(0 .. 10 - 1) /\ p \in Nat /\ p >= 2 /\ Len(digits) = p + 17

PointedAt(full, digits, p) ==
    /\ IsText(full) /\ Len(full) = p + 18
    /\ full[p] = "."
    /\ \A i \in 1 .. p - 1 : full[i] = Decimals[digits[i] + 1]
    /\ \A i \in 1 .. 18 : full[p + i] = Decimals[digits[p - 1 + i] + 1]

\* What is left of them when nothing but zeros goes, and the point with the
\* last of the decimals.
KeptOf(full, p, e) ==
    /\ e \in p - 1 .. p + 18
    /\ \A j \in e + 1 .. p + 18 : j # p => full[j] = "0"

LEMMA EmptyPart ==
    ASSUME NEW t, IsText(t), NEW m \in Nat, NEW n \in Nat, n < m
    PROVE  IsText(SubSeq(t, m, n)) /\ Len(SubSeq(t, m, n)) = 0
  <1> DEFINE S == {t[i] : i \in 1 .. Len(t)}
  <1>1. \A i \in 1 .. Len(t) : t[i] \in S
    OBVIOUS
  <1> HIDE DEF S
  <1>2. t \in Seq(S)
    BY <1>1, TextOfElements
  <1>3. SubSeq(t, m, n) \in Seq(S) /\ Len(SubSeq(t, m, n)) = 0
    BY <1>2
  <1> QED BY <1>3, SeqIsText

LEMMA RepeatText ==
    ASSUME NEW x, NEW k \in Nat
    PROVE  IsText(Repeat(x, k)) /\ Len(Repeat(x, k)) = k /\ \A i \in 1 .. k : Repeat(x, k)[i] = x
  BY DEF IsText, Repeat

LEMMA PointPlace ==
    ASSUME NEW s, IsText(s), NEW p \in Nat, NEW e \in Nat, Len(s) = e, p >= 1, e >= p - 1,
           \A i \in 1 .. e : s[i] = "." <=> i = p
    PROVE  LET points == {i \in DOMAIN s : s[i] = "."}
           IN  (IF points = {} THEN Len(s) + 1 ELSE CHOOSE i \in points : TRUE) = p
  <1>1. PICK points : points = {i \in DOMAIN s : s[i] = "."}
    OBVIOUS
  <1>2. DOMAIN s = 1 .. e
    BY DEF IsText
  <1>3. \A i \in points : i = p /\ p \in 1 .. e
    BY <1>1, <1>2
  <1>4. p \in 1 .. e => p \in points
    BY <1>1, <1>2
  <1>5. CASE p \in 1 .. e
    <2>1. points = {p}
      BY <1>3, <1>4, <1>5
    <2>2. (CHOOSE i \in points : TRUE) = p /\ points # {}
      BY <2>1
    <2> QED BY <1>1, <2>2
  <1>6. CASE p \notin 1 .. e
    <2>1. points = {}
      BY <1>3, <1>6
    <2>2. e + 1 = p
      BY <1>6
    <2> QED BY <1>1, <2>1, <2>2
  <1> QED BY <1>5, <1>6

ScaledTo(s, e, digits) == Plain(s) /\ Len(s) = e /\ Scaled(s) = Written(digits, Decimals)

LEMMA ScaledKept ==
    ASSUME NEW digits, NEW p, Splitting(digits, p),
           NEW full, PointedAt(full, digits, p), NEW e, KeptOf(full, p, e)
    PROVE  ScaledTo(SubSeq(full, 1, e), e, digits)
  <1>0. digits \in Seq(0 .. 10 - 1) /\ p \in Nat /\ p >= 2 /\ Len(digits) = p + 17
    BY DEF Splitting
  <1> USE <1>0
  <1>1. PICK d : d = Written(digits, Decimals)
    OBVIOUS
  <1>2. /\ Plain(d) /\ Len(d) = p + 17
        /\ \A i \in 1 .. p + 17 : d[i] = Decimals[digits[i] + 1] /\ d[i] # "." /\ d[i] # Nul
    <2>1. PICK radix \in Radixes : radix = 10
      BY DEF Radixes
    <2>2. Alphabet(Decimals, radix) /\ \A i \in 1 .. radix : Decimals[i] # Nul /\ Decimals[i] # "."
      BY <2>1, DecimalsAre
    <2>3. digits \in Seq(0 .. radix - 1)
      BY <2>1
    <2>4. /\ Plain(d) /\ Len(d) = Len(digits)
          /\ \A i \in 1 .. Len(digits) : digits[i] + 1 \in 1 .. radix /\ d[i] = Decimals[digits[i] + 1]
      BY <1>1, <2>2, <2>3, WrittenText
    <2> QED BY <2>2, <2>4
  <1>3. /\ IsText(full) /\ Len(full) = p + 18 /\ full[p] = "."
        /\ \A i \in 1 .. p - 1 : full[i] = d[i]
        /\ \A i \in 1 .. 18 : full[p + i] = d[p - 1 + i]
    <2>1. \A i \in 1 .. p - 1 : i \in 1 .. p + 17
      OBVIOUS
    <2>2. \A i \in 1 .. 18 : p - 1 + i \in 1 .. p + 17
      OBVIOUS
    <2> QED BY <1>2, <2>1, <2>2 DEF PointedAt
  <1>4. e \in Nat /\ e \in p - 1 .. p + 18 /\ e <= Len(full)
    BY <1>3 DEF KeptOf
  <1>5. PICK s : s = SubSeq(full, 1, e)
    OBVIOUS
  <1>6. IsText(s) /\ Len(s) = e /\ \A i \in 1 .. e : s[i] = full[i]
    BY <1>3, <1>4, <1>5, FrontOfText
  <1>7. ASSUME NEW i \in 1 .. e
        PROVE  s[i] # Nul /\ (s[i] = "." <=> i = p)
    <2>1. CASE i < p
      <3>1. i \in 1 .. p - 1 /\ i \in 1 .. p + 17 /\ i # p
        BY <2>1
      <3> QED BY <1>2, <1>3, <1>6, <3>1
    <2>2. CASE i = p
      BY <1>3, <1>6, <2>2 DEF Nul
    <2>3. CASE i > p
      <3>1. PICK k : k = i - p
        OBVIOUS
      <3>2. k \in 1 .. 18 /\ p + k = i /\ p - 1 + k \in 1 .. p + 17 /\ i # p
        BY <1>4, <2>3, <3>1
      <3>3. s[i] = d[p - 1 + k]
        BY <1>3, <1>6, <3>2
      <3> QED BY <1>2, <3>2, <3>3
    <2> QED BY <1>4, <2>1, <2>2, <2>3
  <1>8. Plain(s)
    BY <1>6, <1>7 DEF Plain
  <1> DEFINE points == {i \in DOMAIN s : s[i] = "."}
  <1>9. (IF points = {} THEN Len(s) + 1 ELSE CHOOSE i \in points : TRUE) = p
    <2>1. p >= 1 /\ e >= p - 1
      BY <1>4
    <2> QED BY <1>4, <1>6, <1>7, <2>1, PointPlace
  <1>10. PICK w, f : w = SubSeq(s, 1, p - 1) /\ f = SubSeq(s, p + 1, Len(s))
    OBVIOUS
  <1>11. PICK z : z = Repeat("0", 18 - Len(f))
    OBVIOUS
  <1>12. Scaled(s) = (w \o f) \o z
    <2> HIDE DEF points
    <2>1. Scaled(s) = LET point == IF points = {} THEN Len(s) + 1 ELSE CHOOSE i \in points : TRUE
                          decimals == SubSeq(s, point + 1, Len(s))
                      IN  SubSeq(s, 1, point - 1) \o decimals \o Repeat("0", 18 - Len(decimals))
      BY DEF Scaled, points, DECIMALS
    <2> QED BY <1>9, <1>10, <1>11, <2>1
  <1>13. IsText(w) /\ Len(w) = p - 1 /\ \A i \in 1 .. p - 1 : w[i] = d[i]
    <2>1. p - 1 \in Nat /\ p - 1 <= Len(s)
      BY <1>4, <1>6
    <2>2. IsText(w) /\ Len(w) = p - 1 /\ \A i \in 1 .. p - 1 : w[i] = s[i]
      BY <1>6, <1>10, <2>1, FrontOfText
    <2>3. \A i \in 1 .. p - 1 : i \in 1 .. e
      BY <1>4
    <2> QED BY <1>3, <1>6, <2>2, <2>3
  <1>14. PICK l : l = IF e < p THEN 0 ELSE e - p
    OBVIOUS
  <1>15. l \in 0 .. 18 /\ IsText(f) /\ Len(f) = l /\ \A i \in 1 .. l : f[i] = d[p - 1 + i]
    <2>1. CASE e < p
      <3>1. l = 0 /\ p + 1 \in Nat /\ e < p + 1
        BY <1>4, <1>14, <2>1
      <3>2. IsText(f) /\ Len(f) = 0
        BY <1>4, <1>6, <1>10, <3>1, EmptyPart
      <3> QED BY <3>1, <3>2
    <2>2. CASE ~(e < p)
      <3>1. l = e - p /\ p <= e /\ e <= Len(s) /\ l \in 0 .. 18
        BY <1>4, <1>6, <1>14, <2>2
      <3>2. Part(f, s, p, e)
        BY <1>4, <1>6, <1>10, <3>1, PartOfText
      <3>3. IsText(f) /\ Len(f) = l /\ \A i \in 1 .. l : f[i] = s[p + i]
        BY <3>1, <3>2 DEF Part
      <3>4. ASSUME NEW i \in 1 .. l
            PROVE  f[i] = d[p - 1 + i]
        <4>1. p + i \in 1 .. e /\ i \in 1 .. 18
          BY <1>4, <3>1
        <4> QED BY <1>3, <1>6, <3>3, <4>1
      <3> QED BY <3>1, <3>3, <3>4
    <2> QED BY <2>1, <2>2
  <1>16. IsText(z) /\ Len(z) = 18 - l /\ \A i \in 1 .. 18 - l : z[i] = "0"
    <2>1. 18 - l \in Nat
      BY <1>15
    <2> QED BY <1>11, <1>15, <2>1, RepeatText
  <1>17. ASSUME NEW i \in 1 .. 18 - l
         PROVE  d[p - 1 + l + i] = "0"
    <2>1. PICK k : k = l + i
      OBVIOUS
    <2>2. k \in 1 .. 18 /\ p + k \in e + 1 .. p + 18 /\ p + k # p
      <3>1. l \in 0 .. 18
        BY <1>15
      <3>2. k \in 1 .. 18 /\ k > l
        BY <2>1, <3>1
      <3>3. e <= p + l
        BY <1>4, <1>14
      <3> QED BY <1>4, <3>1, <3>2, <3>3
    <2>3. full[p + k] = "0"
      BY <2>2 DEF KeptOf
    <2>4. p - 1 + l + i = p - 1 + k
      BY <1>15, <2>1
    <2> QED BY <1>3, <2>2, <2>3, <2>4
  <1>18. PICK wf : wf = w \o f
    OBVIOUS
  <1>19. /\ IsText(wf) /\ Len(wf) = p - 1 + l
         /\ \A i \in 1 .. p - 1 : wf[i] = d[i]
         /\ \A i \in 1 .. l : wf[p - 1 + i] = d[p - 1 + i]
    <2>1. IsText(wf) /\ Joined(wf, w, f)
      BY <1>13, <1>15, <1>18, TextsJoin
    <2> QED BY <1>13, <1>15, <2>1 DEF Joined
  <1>20. PICK r : r = wf \o z
    OBVIOUS
  <1>21. IsText(r) /\ Joined(r, wf, z)
    BY <1>16, <1>19, <1>20, TextsJoin
  <1>22. Len(r) = p + 17
    BY <1>15, <1>16, <1>19, <1>21 DEF Joined
  <1>23. ASSUME NEW i \in 1 .. p + 17
         PROVE  r[i] = d[i]
    <2>1. CASE i <= p - 1
      <3>1. i \in 1 .. p - 1 /\ i \in 1 .. Len(wf)
        BY <1>15, <1>19, <2>1
      <3> QED BY <1>19, <1>21, <3>1 DEF Joined
    <2>2. CASE ~(i <= p - 1) /\ i <= p - 1 + l
      <3>1. PICK k : k = i - (p - 1)
        OBVIOUS
      <3>2. k \in 1 .. l /\ p - 1 + k = i /\ i \in 1 .. Len(wf)
        BY <1>15, <1>19, <2>2, <3>1
      <3> QED BY <1>19, <1>21, <3>2 DEF Joined
    <2>3. CASE i > p - 1 + l
      <3>1. PICK k : k = i - (p - 1 + l)
        OBVIOUS
      <3>2. k \in 1 .. 18 - l /\ Len(wf) + k = i /\ p - 1 + l + k = i /\ k \in 1 .. Len(z)
        BY <1>15, <1>16, <1>19, <2>3, <3>1
      <3>3. r[i] = z[k]
        BY <1>21, <3>2 DEF Joined
      <3> QED BY <1>16, <1>17, <3>2, <3>3
    <2> QED BY <1>15, <2>1, <2>2, <2>3
  <1>24. r = d
    BY <1>2, <1>21, <1>22, <1>23, SameText DEF Plain
  <1> QED BY <1>1, <1>5, <1>6, <1>8, <1>12, <1>18, <1>20, <1>24 DEF ScaledTo

\* The last place kept leaves the zeros after it, or the point with them.
LEMMA KeptWithoutPoint ==
    ASSUME NEW full, NEW p \in Nat, p >= 2, IsText(full), Len(full) = p + 18, full[p] = ".",
           NEW a \in Nat, a <= p + 18, NEW last \in a .. p + 18,
           \A j \in last + 1 .. p + 18 : full[j] = "0",
           last >= p, NEW e, e = IF full[last] = "." THEN last - 1 ELSE last,
           full[last] = "." => last = p
    PROVE  KeptOf(full, p, e)
  <1>1. CASE full[last] = "."
    <2>1. last = p /\ e = p - 1
      BY <1>1
    <2>2. \A j \in e + 1 .. p + 18 : j # p => j \in last + 1 .. p + 18
      BY <2>1
    <2> QED BY <2>1, <2>2 DEF KeptOf
  <1>2. CASE full[last] # "."
    <2>1. e = last
      BY <1>2
    <2> QED BY <2>1 DEF KeptOf
  <1> QED BY <1>1, <1>2

LEMMA OnlyPoint ==
    ASSUME NEW digits, NEW p, Splitting(digits, p),
           NEW full, PointedAt(full, digits, p), NEW i \in 1 .. p + 18, full[i] = "."
    PROVE  i = p
  <1>0. digits \in Seq(0 .. 10 - 1) /\ p \in Nat /\ p >= 2 /\ Len(digits) = p + 17
    BY DEF Splitting
  <1> USE <1>0
  <1>1. \A k \in 1 .. p + 17 : Decimals[digits[k] + 1] # "."
    <2> SUFFICES ASSUME NEW k \in 1 .. p + 17
                 PROVE  Decimals[digits[k] + 1] # "."
      OBVIOUS
    <2>1. digits[k] \in 0 .. 10 - 1
      BY ElementOf
    <2>2. digits[k] + 1 \in 1 .. 10
      BY <2>1
    <2> QED BY <2>2, DecimalsAre
  <1>2. CASE i < p
    <2>1. i \in 1 .. p - 1 /\ i \in 1 .. p + 17
      BY <1>2
    <2> QED BY <1>1, <2>1 DEF PointedAt
  <1>3. CASE i > p
    <2>1. PICK k : k = i - p
      OBVIOUS
    <2>2. k \in 1 .. 18 /\ p + k = i /\ p - 1 + k \in 1 .. p + 17
      BY <1>3, <2>1
    <2>3. full[i] = Decimals[digits[p - 1 + k] + 1]
      BY <2>2 DEF PointedAt
    <2> QED BY <1>1, <2>2, <2>3
  <1> QED BY <1>2, <1>3

\* Strip and the loop of print_amount keep what KeptOf says.
LEMMA StripKeeps ==
    ASSUME NEW digits, NEW p, Splitting(digits, p),
           NEW full, PointedAt(full, digits, p),
           NEW start \in Nat, p + 1 <= start, start <= p + 19
    PROVE  \E e : KeptOf(full, p, e) /\ Strip(full, start) = SubSeq(full, 1, e)
  <1>0. digits \in Seq(0 .. 10 - 1) /\ p \in Nat /\ p >= 2 /\ Len(digits) = p + 17
    BY DEF Splitting
  <1> USE <1>0
  <1>1. PICK a, N : a = start - 1 /\ N = Len(full)
    OBVIOUS
  <1>2. a \in Nat /\ N = p + 18 /\ N \in Nat /\ a <= N /\ a >= p
    BY <1>1 DEF PointedAt
  <1>3. PICK last : last = CHOOSE i \in a .. N : KeptAt(full, a, N, i)
    OBVIOUS
  <1>4. /\ last \in a .. N /\ \A j \in last + 1 .. N : full[j] = "0"
    <2>1. \E i \in a .. N : KeptAt(full, a, N, i)
      BY <1>2, LastKept
    <2>2. last \in a .. N /\ KeptAt(full, a, N, last)
      BY <1>3, <2>1
    <2> QED BY <2>2 DEF KeptAt
  <1>5. PICK e : e = IF last < N /\ full[last] = "." THEN last - 1 ELSE last
    OBVIOUS
  <1>6. Strip(full, start) = SubSeq(full, 1, e)
    BY <1>1, <1>3, <1>5 DEF Strip, KeptAt
  <1>7. full[last] = "." => last = p
    BY <1>2, <1>4, OnlyPoint
  <1>8. e = IF full[last] = "." THEN last - 1 ELSE last
    <2>1. full[last] = "." => last < N
      BY <1>2, <1>7
    <2> QED BY <1>5, <2>1
  <1>9. KeptOf(full, p, e)
    <2>1. last \in a .. p + 18 /\ last >= p /\ \A j \in last + 1 .. p + 18 : full[j] = "0"
      BY <1>2, <1>4
    <2>2. IsText(full) /\ Len(full) = p + 18 /\ full[p] = "."
      BY DEF PointedAt
    <2> QED BY <1>2, <1>7, <1>8, <2>1, <2>2, KeptWithoutPoint
  <1> QED BY <1>6, <1>9

\* Zeros in front, as digits and as text.
LEMMA ZerosWritten ==
    ASSUME NEW digits \in Seq(0 .. 10 - 1), NEW k \in Nat
    PROVE  LET all == Repeat(0, k) \o digits
           IN  /\ all \in Seq(0 .. 10 - 1) /\ Len(all) = k + Len(digits)
               /\ Value(all, 10) = Value(digits, 10)
               /\ \A i \in 1 .. k : Decimals[all[i] + 1] = "0"
               /\ \A i \in 1 .. Len(digits) : all[k + i] = digits[i]
  <1>1. PICK all : all = Repeat(0, k) \o digits
    OBVIOUS
  <1>2. 0 \in 0 .. 10 - 1 /\ 10 \in Nat
    OBVIOUS
  <1>3. /\ Repeat(0, k) \in Seq(0 .. 10 - 1) /\ Len(Repeat(0, k)) = k
        /\ \A i \in 1 .. k : Repeat(0, k)[i] = 0
    BY <1>2, RepeatType, RepeatText
  <1>4. all \in Seq(0 .. 10 - 1) /\ Joined(all, Repeat(0, k), digits)
    BY <1>1, <1>3, ConcatJoins
  <1>5. Value(all, 10) = Value(digits, 10)
    <2>1. digits \in Seq(Nat)
      BY <1>2, BytesAreNumbers
    <2> QED BY <1>1, <1>2, <2>1, ZerosInFront
  <1>6. Decimals[0 + 1] = "0"
    BY DecimalsAre
  <1> QED BY <1>1, <1>3, <1>4, <1>5, <1>6 DEF Joined

\* The digits as they are written.
LEMMA DecimalText ==
    ASSUME NEW digits \in Seq(0 .. 10 - 1)
    PROVE  LET t == Written(digits, Decimals)
           IN  /\ Plain(t) /\ IsText(t) /\ Len(t) = Len(digits) /\ Len(digits) \in Nat
               /\ \A i \in 1 .. Len(digits) : t[i] = Decimals[digits[i] + 1]
  <1>1. PICK radix \in Radixes : radix = 10
    BY DEF Radixes
  <1>2. Alphabet(Decimals, radix) /\ \A i \in 1 .. radix : Decimals[i] # Nul
    BY <1>1, DecimalsAre
  <1>3. digits \in Seq(0 .. radix - 1) /\ Len(digits) \in Nat
    BY <1>1
  <1>4. /\ Plain(Written(digits, Decimals)) /\ Len(Written(digits, Decimals)) = Len(digits)
        /\ \A i \in 1 .. Len(digits) : Written(digits, Decimals)[i] = Decimals[digits[i] + 1]
    BY <1>2, <1>3, WrittenText
  <1> QED BY <1>3, <1>4 DEF Plain

\* A text, a point and a text.
Pointed(full, w, f) ==
    /\ IsText(full) /\ Len(full) = Len(w) + 1 + Len(f)
    /\ \A i \in 1 .. Len(w) : full[i] = w[i]
    /\ full[Len(w) + 1] = "."
    /\ \A i \in 1 .. Len(f) : full[Len(w) + 1 + i] = f[i]

LEMMA PointBetween ==
    ASSUME NEW w, NEW f, IsText(w), IsText(f)
    PROVE  Pointed(w \o <<".">> \o f, w, f)
  <1>1. PICK point : point = <<".">>
    OBVIOUS
  <1>2. IsText(point) /\ Len(point) = 1 /\ point[1] = "."
    BY <1>1 DEF IsText
  <1>3. PICK wp : wp = w \o point
    OBVIOUS
  <1>4. IsText(wp) /\ Joined(wp, w, point)
    BY <1>2, <1>3, TextsJoin
  <1>5. PICK full : full = wp \o f
    OBVIOUS
  <1>6. IsText(full) /\ Joined(full, wp, f)
    BY <1>4, <1>5, TextsJoin
  <1>7. Len(w) \in Nat /\ Len(f) \in Nat
    BY DEF IsText
  <1>8. /\ Len(wp) = Len(w) + 1 /\ wp[Len(w) + 1] = "."
        /\ \A i \in 1 .. Len(w) : wp[i] = w[i]
    BY <1>2, <1>4, <1>7 DEF Joined
  <1>9. /\ Len(full) = Len(w) + 1 + Len(f)
        /\ \A i \in 1 .. Len(w) + 1 : full[i] = wp[i]
        /\ \A i \in 1 .. Len(f) : full[Len(w) + 1 + i] = f[i]
    BY <1>6, <1>8 DEF Joined
  <1>10. full[Len(w) + 1] = "." /\ \A i \in 1 .. Len(w) : full[i] = w[i]
    BY <1>7, <1>8, <1>9
  <1> QED BY <1>1, <1>3, <1>5, <1>6, <1>9, <1>10 DEF Pointed

LEMMA PointedWritten ==
    ASSUME NEW digits, NEW p, Splitting(digits, p),
           NEW t, t = Written(digits, Decimals)
    PROVE  PointedAt(SubSeq(t, 1, p - 1) \o <<".">> \o SubSeq(t, p, p + 17), digits, p)
  <1>0. digits \in Seq(0 .. 10 - 1) /\ p \in Nat /\ p >= 2 /\ Len(digits) = p + 17
    BY DEF Splitting
  <1> USE <1>0
  <1>1. PICK w, f, q : w = SubSeq(t, 1, p - 1) /\ f = SubSeq(t, p, p + 17) /\ q = p - 1
    OBVIOUS
  <1>2. /\ IsText(t) /\ Len(t) = p + 17
        /\ \A i \in 1 .. p + 17 : t[i] = Decimals[digits[i] + 1]
    BY DecimalText
  <1>3. q \in Nat /\ q + 1 = p /\ q <= Len(t) /\ q <= p + 17 /\ p + 17 - q = 18
    BY <1>1, <1>2
  <1>4. IsText(w) /\ Len(w) = q /\ \A i \in 1 .. q : w[i] = t[i]
    BY <1>1, <1>2, <1>3, FrontOfText
  <1>5. Part(SubSeq(t, q + 1, p + 17), t, q, p + 17)
    <2>1. p + 17 \in Nat /\ p + 17 <= Len(t)
      BY <1>2
    <2> QED BY <1>2, <1>3, <2>1, PartOfText
  <1>6. IsText(f) /\ Len(f) = 18 /\ \A i \in 1 .. 18 : f[i] = t[q + i]
    BY <1>1, <1>3, <1>5 DEF Part
  <1>7. PICK full : full = w \o <<".">> \o f
    OBVIOUS
  <1>8. /\ IsText(full) /\ Len(full) = q + 1 + 18
        /\ \A i \in 1 .. q : full[i] = w[i]
        /\ full[q + 1] = "."
        /\ \A i \in 1 .. 18 : full[q + 1 + i] = f[i]
    <2>1. Pointed(full, w, f)
      BY <1>4, <1>6, <1>7, PointBetween
    <2> QED BY <1>4, <1>6, <2>1 DEF Pointed
  <1>9. IsText(full) /\ Len(full) = p + 18 /\ full[p] = "."
    BY <1>3, <1>8
  <1>10. ASSUME NEW i \in 1 .. p - 1
         PROVE  full[i] = Decimals[digits[i] + 1]
    <2>1. i \in 1 .. q /\ i \in 1 .. p + 17
      BY <1>1
    <2> QED BY <1>2, <1>4, <1>8, <2>1
  <1>11. ASSUME NEW i \in 1 .. 18
         PROVE  full[p + i] = Decimals[digits[p - 1 + i] + 1]
    <2>1. PICK k : k = q + i
      OBVIOUS
    <2>2. q + 1 + i = p + i /\ k \in 1 .. p + 17 /\ p - 1 + i = k
      BY <1>1, <1>3, <2>1
    <2>4. full[q + 1 + i] = f[i] /\ f[i] = t[q + i]
      BY <1>6, <1>8
    <2>3. full[p + i] = t[k]
      BY <2>1, <2>2, <2>4
    <2> QED BY <1>2, <2>2, <2>3
  <1> QED BY <1>1, <1>7, <1>9, <1>10, <1>11 DEF PointedAt

LEMMA PointedSmall ==
    ASSUME NEW digits \in Seq(0 .. 10 - 1), Len(digits) <= 18, Len(digits) >= 1,
           NEW src, src = Written(digits, Decimals),
           NEW zeros, zeros = Repeat("0", 18 - Len(digits))
    PROVE  PointedAt(<<"0", ".">> \o zeros \o src, Repeat(0, 19 - Len(digits)) \o digits, 2)
  <1>1. PICK L, k : L = Len(digits) /\ k = 18 - L
    OBVIOUS
  <1>2. /\ IsText(src) /\ Len(src) = L /\ L \in Nat
        /\ \A i \in 1 .. L : src[i] = Decimals[digits[i] + 1]
    BY <1>1, DecimalText
  <1>3. k \in Nat /\ L \in 1 .. 18 /\ k + L = 18 /\ k + 1 \in Nat /\ 19 - L = k + 1
    <2>1. L \in Nat /\ L <= 18 /\ L >= 1 /\ k = 18 - L
      BY <1>1, <1>2
    <2> QED BY <2>1
  <1>4. IsText(zeros) /\ Len(zeros) = k /\ \A i \in 1 .. k : zeros[i] = "0"
    BY <1>1, <1>3, RepeatText
  <1>5. PICK all : all = Repeat(0, k + 1) \o digits
    OBVIOUS
  <1>6. /\ Len(all) = k + 1 + L
        /\ \A i \in 1 .. k + 1 : Decimals[all[i] + 1] = "0"
        /\ \A i \in 1 .. L : all[k + 1 + i] = digits[i]
    BY <1>1, <1>3, <1>5, ZerosWritten
  <1>7. PICK h : h = <<"0", ".">>
    OBVIOUS
  <1>8. IsText(h) /\ Len(h) = 2 /\ h[1] = "0" /\ h[2] = "."
    BY <1>7 DEF IsText
  <1>9. PICK hz : hz = h \o zeros
    OBVIOUS
  <1>10. IsText(hz) /\ Joined(hz, h, zeros)
    BY <1>4, <1>8, <1>9, TextsJoin
  <1>11. /\ Len(hz) = 2 + k /\ hz[1] = "0" /\ hz[2] = "."
         /\ \A i \in 1 .. k : hz[2 + i] = "0"
    BY <1>4, <1>8, <1>10 DEF Joined
  <1>12. PICK full : full = hz \o src
    OBVIOUS
  <1>13. IsText(full) /\ Joined(full, hz, src)
    BY <1>2, <1>10, <1>12, TextsJoin
  <1>14. /\ Len(full) = 20
         /\ \A i \in 1 .. 2 + k : full[i] = hz[i]
         /\ \A i \in 1 .. L : full[2 + k + i] = src[i]
    BY <1>2, <1>3, <1>11, <1>13 DEF Joined
  <1>15. full[1] = "0" /\ full[2] = "." /\ \A i \in 1 .. k : full[2 + i] = "0"
    <2>1. 1 \in 1 .. 2 + k /\ 2 \in 1 .. 2 + k /\ \A i \in 1 .. k : 2 + i \in 1 .. 2 + k
      BY <1>3
    <2> QED BY <1>11, <1>14, <2>1
  <1>16. \A i \in 1 .. 2 - 1 : full[i] = Decimals[all[i] + 1]
    <2>1. 1 \in 1 .. k + 1
      BY <1>3
    <2>2. Decimals[all[1] + 1] = "0"
      BY <1>6, <2>1
    <2>3. \A i \in 1 .. 2 - 1 : i = 1
      OBVIOUS
    <2> QED BY <1>15, <2>2, <2>3
  <1>17. ASSUME NEW i \in 1 .. 18
         PROVE  full[2 + i] = Decimals[all[2 - 1 + i] + 1]
    <2>1. CASE i <= k
      <3>1. i \in 1 .. k /\ 2 - 1 + i \in 1 .. k + 1
        BY <1>3, <2>1
      <3> QED BY <1>6, <1>15, <3>1
    <2>2. CASE ~(i <= k)
      <3>1. PICK j : j = i - k
        OBVIOUS
      <3>2. j \in 1 .. L /\ 2 + i = 2 + k + j /\ 2 - 1 + i = k + 1 + j
        BY <1>3, <2>2, <3>1
      <3>3. full[2 + i] = src[j]
        BY <1>14, <3>2
      <3>4. all[2 - 1 + i] = digits[j]
        BY <1>6, <3>2
      <3> QED BY <1>2, <3>2, <3>3, <3>4
    <2> QED BY <2>1, <2>2
  <1>18. PointedAt(full, all, 2)
    <2>1. Len(full) = 2 + 18
      BY <1>14
    <2> QED BY <1>13, <1>15, <1>16, <1>17, <2>1 DEF PointedAt
  <1>19. all = Repeat(0, 19 - Len(digits)) \o digits
    BY <1>1, <1>3, <1>5
  <1> QED BY <1>7, <1>9, <1>12, <1>18, <1>19

\* A text is an amount of v: scaled, it has the digits of v.
Amounts(t, v) ==
    /\ Plain(t)
    /\ \E digits \in Seq(0 .. 10 - 1) : /\ Scaled(t) = Written(digits, Decimals)
                                        /\ Value(digits, 10) = v

AmountUpTo(t, v, n) == Amounts(t, v) /\ Len(t) <= n

LEMMA AmountKept ==
    ASSUME NEW digits, NEW p, Splitting(digits, p),
           NEW full, PointedAt(full, digits, p), NEW e, KeptOf(full, p, e)
    PROVE  AmountUpTo(SubSeq(full, 1, e), Value(digits, 10), p + 18)
  <1>0. digits \in Seq(0 .. 10 - 1) /\ p \in Nat /\ p >= 2 /\ Len(digits) = p + 17
    BY DEF Splitting
  <1> USE <1>0
  <1>1. PICK s : s = SubSeq(full, 1, e)
    OBVIOUS
  <1>2. ScaledTo(s, e, digits)
    BY <1>1, ScaledKept
  <1>3. e <= p + 18
    BY DEF KeptOf
  <1> QED BY <1>1, <1>2, <1>3 DEF AmountUpTo, Amounts, ScaledTo

\* The text of a number of up to eighteen digits.
LEMMA SmallAmount ==
    ASSUME NEW digits \in Seq(0 .. 10 - 1), Len(digits) <= 18, Len(digits) >= 1,
           NEW src, src = Written(digits, Decimals), NEW t, t = adjustDecimals(src)
    PROVE  AmountUpTo(t, Value(digits, 10), 20)
  <1>1. PICK zeros, all, full : /\ zeros = Repeat("0", 18 - Len(digits))
                                /\ all = Repeat(0, 19 - Len(digits)) \o digits
                                /\ full = <<"0", ".">> \o zeros \o src
    OBVIOUS
  <1>2. IsText(src) /\ Len(src) = Len(digits) /\ Len(digits) \in 1 .. 18
    <2>1. IsText(src) /\ Len(src) = Len(digits) /\ Len(digits) \in Nat
      BY DecimalText
    <2>2. PICK n : n = Len(digits)
      OBVIOUS
    <2>3. n \in Nat /\ n <= 18 /\ n >= 1
      BY <2>1, <2>2
    <2>4. n \in 1 .. 18
      BY <2>3
    <2> QED BY <2>1, <2>2, <2>4
  <1>3. 18 - Len(digits) \in Nat /\ 19 - Len(digits) \in Nat /\ 2 \in Nat /\ 2 >= 2
    BY <1>2
  <1>4. /\ all \in Seq(0 .. 10 - 1) /\ Len(all) = 19 - Len(digits) + Len(digits)
        /\ Value(all, 10) = Value(digits, 10)
        /\ \A i \in 1 .. 19 - Len(digits) : Decimals[all[i] + 1] = "0"
        /\ \A i \in 1 .. Len(digits) : all[19 - Len(digits) + i] = digits[i]
    BY <1>1, <1>3, ZerosWritten
  <1>5. Len(all) = 2 + 17
    BY <1>2, <1>4
  <1>9. Splitting(all, 2)
    BY <1>3, <1>4, <1>5 DEF Splitting
  <1>10. Value(all, 10) = Value(digits, 10) /\ 2 + 18 = 20
    BY <1>4
  <1>6. PointedAt(full, all, 2)
    BY <1>1, PointedSmall
  <1>7. CASE src = <<"0">>
    <2>1. t = src
      BY <1>7 DEF adjustDecimals
    <2>2. Len(digits) = 1
      <3>1. Len(src) = 1
        BY <1>7
      <3> QED BY <1>2, <3>1
    <2>3. src[1] = "0"
      BY <1>7
    <2>4. \A i \in 1 .. 19 : Decimals[all[i] + 1] = "0"
      <3>1. \A i \in 1 .. 18 : Decimals[all[i] + 1] = "0"
        BY <1>4, <2>2
      <3>2. all[19] = digits[1]
        <4>1. 1 \in 1 .. Len(digits) /\ 19 - Len(digits) + 1 = 19
          BY <2>2
        <4> QED BY <1>4, <4>1
      <3>3. Decimals[digits[1] + 1] = "0"
        <4>1. 1 \in 1 .. Len(digits)
          BY <2>2
        <4>2. src[1] = Decimals[digits[1] + 1]
          BY <4>1, DecimalText
        <4> QED BY <2>3, <4>2
      <3>4. \A i \in 1 .. 19 : i \in 1 .. 18 \/ i = 19
        OBVIOUS
      <3> QED BY <3>1, <3>2, <3>3, <3>4
    <2>5. /\ IsText(full) /\ Len(full) = 20
          /\ full[1] = "0"
          /\ \A i \in 1 .. 18 : full[2 + i] = "0"
      <3>1. 1 \in 1 .. 2 - 1 /\ 1 \in 1 .. 19
        OBVIOUS
      <3>2. \A i \in 1 .. 18 : 2 - 1 + i \in 1 .. 19
        OBVIOUS
      <3>3. 2 + 18 = 20
        OBVIOUS
      <3> QED BY <1>6, <2>4, <3>1, <3>2, <3>3 DEF PointedAt
    <2>6. KeptOf(full, 2, 1)
      <3>1. 1 \in 2 - 1 .. 2 + 18
        OBVIOUS
      <3>2. ASSUME NEW j \in 1 + 1 .. 2 + 18, j # 2
            PROVE  full[j] = "0"
        <4>1. j - 2 \in 1 .. 18 /\ 2 + (j - 2) = j
          BY <3>2
        <4> QED BY <2>5, <4>1
      <3> QED BY <3>1, <3>2 DEF KeptOf
    <2>7. SubSeq(full, 1, 1) = t
      <3>1. PICK u, one : u = SubSeq(full, 1, one) /\ one = 1
        OBVIOUS
      <3>2. one \in Nat /\ one <= Len(full)
        BY <2>5, <3>1
      <3>3. IsText(u) /\ Len(u) = one /\ \A i \in 1 .. one : u[i] = full[i]
        BY <2>5, <3>1, <3>2, FrontOfText
      <3>4. Len(u) = 1 /\ u[1] = "0"
        BY <2>5, <3>1, <3>3
      <3>5. Len(src) = 1
        BY <1>2, <2>2
      <3>6. \A i \in 1 .. Len(u) : u[i] = src[i]
        BY <2>3, <3>4
      <3>7. u = src
        BY <1>2, <3>3, <3>4, <3>5, <3>6, SameText
      <3> QED BY <2>1, <3>1, <3>7
    <2>8. AmountUpTo(SubSeq(full, 1, 1), Value(all, 10), 2 + 18)
      BY <1>6, <1>9, <2>6, AmountKept
    <2> QED BY <1>10, <2>7, <2>8
  <1>8. CASE src # <<"0">>
    <2>1. PICK start : start = 3 + Len(zeros)
      OBVIOUS
    <2>2. t = Strip(full, start)
      <3>1. Len(src) <= 18
        BY <1>2
      <3> QED BY <1>1, <1>2, <1>8, <2>1, <3>1 DEF adjustDecimals, DECIMALS
    <2>3. start \in Nat /\ 2 + 1 <= start /\ start <= 2 + 19
      <3>1. Len(zeros) = 18 - Len(digits)
        BY <1>1, <1>3, RepeatText
      <3> QED BY <1>2, <2>1, <3>1
    <2>4. PICK e : KeptOf(full, 2, e) /\ Strip(full, start) = SubSeq(full, 1, e)
      BY <1>6, <1>9, <2>3, StripKeeps
    <2>5. AmountUpTo(SubSeq(full, 1, e), Value(all, 10), 2 + 18)
      BY <1>6, <1>9, <2>4, AmountKept
    <2> QED BY <1>10, <2>2, <2>4, <2>5
  <1> QED BY <1>7, <1>8

\* The text of a longer one.
LEMMA WideAmount ==
    ASSUME NEW digits \in Seq(0 .. 10 - 1), Len(digits) > 18,
           NEW src, src = Written(digits, Decimals), NEW t, t = adjustDecimals(src)
    PROVE  AmountUpTo(t, Value(digits, 10), Len(digits) + 1)
  <1>1. /\ IsText(src) /\ Len(src) = Len(digits) /\ Len(digits) \in Nat
    BY DecimalText
  <1>2. PICK p : p = Len(digits) - 17
    OBVIOUS
  <1>3. p \in Nat /\ p >= 2 /\ Len(digits) = p + 17 /\ p - 1 = Len(digits) - 18 /\ (p - 1) + 1 = p
    BY <1>1, <1>2
  <1>13. Splitting(digits, p)
    BY <1>3 DEF Splitting
  <1>4. PICK full : full = SubSeq(src, 1, p - 1) \o <<".">> \o SubSeq(src, p, p + 17)
    OBVIOUS
  <1>5. PointedAt(full, digits, p)
    BY <1>4, <1>13, PointedWritten
  <1>6. PICK start : start = p + 1
    OBVIOUS
  <1>7. src # <<"0">> /\ ~(Len(src) <= 18)
    <2>1. Len(<<"0">>) = 1
      OBVIOUS
    <2>2. ~(Len(src) <= 18) /\ Len(src) # 1
      BY <1>1
    <2> QED BY <2>1, <2>2
  <1>8. t = Strip(full, start)
    <2>1. PICK delta : delta = Len(src) - 18
      OBVIOUS
    <2>2. delta = p - 1 /\ delta + 1 = p /\ delta + 2 = start /\ Len(src) = p + 17
      BY <1>1, <1>3, <1>6, <2>1
    <2>3. t = Strip(SubSeq(src, 1, delta) \o <<".">> \o SubSeq(src, delta + 1, Len(src)), delta + 2)
      BY <1>7, <2>1 DEF adjustDecimals, DECIMALS
    <2> QED BY <1>4, <2>2, <2>3
  <1>9. start \in Nat /\ p + 1 <= start /\ start <= p + 19
    BY <1>3, <1>6
  <1>10. PICK e : KeptOf(full, p, e) /\ Strip(full, start) = SubSeq(full, 1, e)
    BY <1>5, <1>9, <1>13, StripKeeps
  <1>11. AmountUpTo(SubSeq(full, 1, e), Value(digits, 10), p + 18)
    BY <1>5, <1>10, <1>13, AmountKept
  <1>12. p + 18 = Len(digits) + 1
    BY <1>3
  <1> QED BY <1>8, <1>10, <1>11, <1>12

-----------------------------------------------------------------------------
(* Which amounts fit the buffer.                                           *)

LEMMA ZeroWritten == <<"0">> = Written(<<0>>, Decimals)
  <1>1. PICK z, t : z = <<0>> /\ t = <<"0">>
    OBVIOUS
  <1>2. Len(z) = 1 /\ z[1] = 0 /\ Len(t) = 1 /\ t[1] = "0" /\ IsText(t)
    BY <1>1 DEF IsText
  <1>3. PICK w : w = Written(z, Decimals)
    OBVIOUS
  <1>4. w = [i \in 1 .. 1 |-> Decimals[z[i] + 1]]
    BY <1>2, <1>3 DEF Written
  <1>5. IsText(w) /\ Len(w) = 1
    BY <1>4 DEF IsText
  <1>6. w[1] = "0"
    <2>1. w[1] = Decimals[0 + 1]
      BY <1>2, <1>4
    <2> QED BY <2>1, DecimalsAre
  <1>7. \A i \in 1 .. Len(t) : t[i] = w[i]
    <2>1. \A i \in 1 .. Len(t) : i = 1
      BY <1>2
    <2> QED BY <1>2, <1>6, <2>1
  <1>8. t = w
    BY <1>2, <1>5, <1>7, SameText
  <1> QED BY <1>1, <1>3, <1>8

LEMMA ZeroBytes ==
    ASSUME NEW value \in Seq(Byte)
    PROVE  AllZeroes(value) <=> Value(value, 256) = 0
  <1>1. PICK b \in AllBases : b = 256
    BY ByteBase
  <1>2. value \in Seq(0 .. b - 1)
    BY <1>1, BytesType
  <1>3. AllZeroes(value) <=> Value(value, b) = 0
    BY <1>2, ZeroValue
  <1> QED BY <1>1, <1>3

\* A number of up to 32 bytes in decimals.
LEMMA DecimalsOf ==
    ASSUME NEW value \in Seq(Byte), Len(value) <= 32
    PROVE  \E digits : /\ Numeral(digits, Value(value, 256))
                       /\ uint256_to_decimal(value) = Written(digits, Decimals)
  <1>1. CASE AllZeroes(value)
    <2>1. uint256_to_decimal(value) = Written(<<0>>, Decimals)
      BY <1>1, ZeroWritten DEF uint256_to_decimal
    <2>2. Value(value, 256) = 0
      BY <1>1, ZeroBytes
    <2> QED BY <2>1, <2>2, ZeroNumeral
  <1>2. CASE ~AllZeroes(value)
    <2>1. PICK L : L = Limbs(value)
      OBVIOUS
    <2>2. L \in Seq(0 .. LimbBase - 1) /\ Value(L, LimbBase) = Value(value, 256)
      BY <2>1, LimbsKeepValue
    <2>3. LimbBase \in Bases /\ LimbBase \in AllBases
      BY DEF LimbBase, Bases, AllBases
    <2>4. ~AllZeroes(L)
      <3>1. Value(value, 256) # 0
        BY <1>2, ZeroBytes
      <3>2. AllZeroes(L) <=> Value(L, LimbBase) = 0
        BY <2>2, <2>3, ZeroValue
      <3> QED BY <2>2, <3>1, <3>2
    <2>5. Numeral(Digits(L, LimbBase, 10), Value(L, LimbBase))
      BY <2>2, <2>3, <2>4, NumeralOfDigits
    <2>6. uint256_to_decimal(value) = Written(Digits(L, LimbBase, 10), Decimals)
      BY <1>2, <2>1 DEF uint256_to_decimal, LimbBase
    <2> QED BY <2>2, <2>5, <2>6
  <1> QED BY <1>1, <1>2

\* The least number of 43 digits.
WideDigits == <<1>> \o Repeat(0, 42)

LEMMA WideDigitsAre ==
    /\ Canonical(WideDigits, 10) /\ Len(WideDigits) = 43 /\ WideDigits # <<>>
    /\ WideDigits[1] = 1 /\ \A i \in 2 .. 43 : WideDigits[i] = 0
  <1>1. PICK one, zs, ds : one = <<1>> /\ zs = Repeat(0, 42) /\ ds = Seq(0 .. 10 - 1)
    OBVIOUS
  <1>2. one \in ds /\ Len(one) = 1 /\ one[1] = 1
    BY <1>1
  <1>3. IsText(zs) /\ Len(zs) = 42 /\ \A i \in 1 .. 42 : zs[i] = 0
    <2>1. PICK k \in Nat : k = 42
      OBVIOUS
    <2>2. IsText(Repeat(0, k)) /\ Len(Repeat(0, k)) = k /\ \A i \in 1 .. k : Repeat(0, k)[i] = 0
      BY RepeatText
    <2> QED BY <1>1, <2>1, <2>2
  <1>4. zs \in Seq(0 .. 10 - 1)
    <2>1. \A i \in 1 .. Len(zs) : zs[i] \in 0 .. 10 - 1
      BY <1>3
    <2> QED BY <1>3, <2>1, TextOfElements
  <1>5. PICK w : w = one \o zs
    OBVIOUS
  <1>6. w \in Seq(0 .. 10 - 1) /\ Joined(w, one, zs)
    BY <1>1, <1>2, <1>4, <1>5, ConcatJoins
  <1>7. Len(w) = 43 /\ w[1] = 1
    BY <1>2, <1>3, <1>6 DEF Joined
  <1>8. ASSUME NEW i \in 2 .. 43
        PROVE  w[i] = 0
    <2>1. PICK k : k = i - 1
      OBVIOUS
    <2>2. k \in 1 .. 42 /\ 1 + k = i
      BY <2>1
    <2>3. w[1 + k] = zs[k]
      BY <1>2, <1>3, <1>6, <2>2 DEF Joined
    <2> QED BY <1>3, <2>2, <2>3
  <1>9. w # <<>>
    BY <1>7
  <1>10. w = WideDigits
    BY <1>1, <1>5 DEF WideDigits
  <1> QED BY <1>6, <1>7, <1>8, <1>9, <1>10 DEF Canonical

LEMMA WidestIs ==
    Canonical(Widest, 256) /\ Value(Widest, 256) = Value(WideDigits, 10)
  <1>1. PICK radix \in Radixes : radix = 10
    BY DEF Radixes
  <1>2. WideDigits \in Seq(0 .. radix - 1) /\ Alphabet(Decimals, radix)
    BY <1>1, WideDigitsAre, DecimalsAre DEF Canonical
  <1>3. PICK t : t = <<"1">> \o Repeat("0", 42)
    OBVIOUS
  <1>4. PICK one, zs : one = <<"1">> /\ zs = Repeat("0", 42)
    OBVIOUS
  <1>5. IsText(one) /\ Len(one) = 1 /\ one[1] = "1"
    BY <1>4 DEF IsText
  <1>6. IsText(zs) /\ Len(zs) = 42 /\ \A i \in 1 .. 42 : zs[i] = "0"
    <2>1. PICK k \in Nat : k = 42
      OBVIOUS
    <2>2. IsText(Repeat("0", k)) /\ Len(Repeat("0", k)) = k /\ \A i \in 1 .. k : Repeat("0", k)[i] = "0"
      BY RepeatText
    <2> QED BY <1>4, <2>1, <2>2
  <1>7. IsText(t) /\ Joined(t, one, zs)
    BY <1>3, <1>4, <1>5, <1>6, TextsJoin
  <1>8. Len(t) = 43 /\ t[1] = "1" /\ \A i \in 1 .. 42 : t[1 + i] = "0"
    BY <1>5, <1>6, <1>7 DEF Joined
  <1>9. PICK u : u = Written(WideDigits, Decimals)
    OBVIOUS
  <1>10. IsText(u) /\ Len(u) = 43 /\ \A i \in 1 .. 43 : u[i] = Decimals[WideDigits[i] + 1]
    BY <1>1, <1>2, <1>9, WideDigitsAre, DecimalText
  <1>11. Decimals[1 + 1] = "1" /\ Decimals[0 + 1] = "0"
    BY DEF Decimals
  <1>12. ASSUME NEW i \in 1 .. 43
         PROVE  t[i] = u[i]
    <2>1. CASE i = 1
      BY <1>8, <1>10, <1>11, <2>1, WideDigitsAre
    <2>2. CASE i \in 2 .. 43
      <3>1. i - 1 \in 1 .. 42 /\ 1 + (i - 1) = i
        BY <2>2
      <3>2. t[i] = "0"
        BY <1>8, <3>1
      <3>3. u[i] = Decimals[0 + 1]
        BY <1>10, <2>2, WideDigitsAre
      <3> QED BY <1>11, <3>2, <3>3
    <2> QED BY <2>1, <2>2
  <1>13. t = u
    BY <1>7, <1>8, <1>10, <1>12, SameText
  <1>14. PICK bytes : bytes = NumberRead(Written(WideDigits, Decimals), Decimals)
    OBVIOUS
  <1>15. Canonical(bytes, 256) /\ Value(bytes, 256) = Value(WideDigits, radix)
    BY <1>2, <1>14, ReadsWhatIsWritten
  <1>16. Widest = bytes
    BY <1>3, <1>9, <1>13, <1>14 DEF Widest
  <1> QED BY <1>1, <1>15, <1>16

\* A number has at most 42 digits when it is less than that.
LEMMA NumeralBelow ==
    ASSUME NEW digits, NEW v, Numeral(digits, v)
    PROVE  Len(digits) <= 42 <=> v < Value(WideDigits, 10)
  <1>1. PICK base \in AllBases : base = 10
    BY DEF AllBases
  <1>2. digits \in Seq(0 .. base - 1) /\ digits # <<>> /\ Value(digits, base) = v
    BY <1>1 DEF Numeral
  <1>3. PICK w : w = WideDigits
    OBVIOUS
  <1>4. /\ Canonical(w, base) /\ Len(w) = 43
        /\ w[1] = 1 /\ \A i \in 2 .. 43 : w[i] = 0
    BY <1>1, <1>3, WideDigitsAre
  <1>5. Len(digits) \in Nat /\ Len(digits) >= 1 /\ \A i \in 1 .. Len(digits) : digits[i] \in Nat
    <2>1. \A i \in 1 .. Len(digits) : digits[i] \in 0 .. base - 1
      BY <1>2, ElementOf
    <2> QED BY <1>1, <1>2, <2>1
  <1>6. CASE digits[1] # 0
    <2>1. Canonical(digits, base)
      BY <1>2, <1>6 DEF Canonical
    <2>2. Below(digits, w) <=> Len(digits) <= 42
      <3>1. Len(digits) <= 42 => Below(digits, w)
        BY <1>4, <1>5 DEF Below
      <3>2. ASSUME Below(digits, w), ~(Len(digits) <= 42)
            PROVE  FALSE
        <4>1. Len(digits) = 43
          BY <1>4, <1>5, <3>2 DEF Below
        <4>2. PICK i \in DOMAIN digits : digits[i] < w[i] /\ \A j \in 1 .. i - 1 : digits[j] = w[j]
          BY <1>4, <3>2, <4>1 DEF Below
        <4>3. DOMAIN digits = 1 .. 43
          BY <1>2, <4>1
        <4>4. CASE i = 1
          BY <1>4, <1>5, <1>6, <4>1, <4>2, <4>4
        <4>5. CASE i \in 2 .. 43
          <5>1. w[i] = 0 /\ digits[i] \in Nat
            BY <1>4, <1>5, <4>1, <4>5
          <5> QED BY <4>2, <5>1
        <4> QED BY <4>3, <4>4, <4>5
      <3> QED BY <3>1, <3>2
    <2>3. Below(digits, w) <=> Value(digits, base) < Value(w, base)
      BY <1>4, <2>1, BelowIsLess
    <2> QED BY <1>1, <1>2, <1>3, <2>2, <2>3
  <1>7. CASE digits[1] = 0
    <2>1. PICK z : z = <<0>>
      OBVIOUS
    <2>2. digits = z /\ Len(z) = 1
      BY <1>7, <2>1 DEF Numeral
    <2>3. Numeral(z, 0)
      BY <2>1, ZeroNumeral
    <2>4. v = 0
      BY <1>1, <1>2, <2>2, <2>3 DEF Numeral
    <2>5. Value(w, base) # 0 /\ Value(w, base) \in Nat
      <3>1. w \in Seq(0 .. base - 1) /\ base \in Nat
        BY <1>1, <1>4 DEF Canonical
      <3>2. ~AllZeroes(w)
        <4>1. 1 \in DOMAIN w
          BY <1>4, <3>1
        <4> QED BY <1>4, <4>1 DEF AllZeroes
      <3>3. w \in Seq(Nat)
        BY <3>1, BytesAreNumbers
      <3>4. Value(w, base) \in Nat
        BY <3>1, <3>3, ValueType
      <3> QED BY <3>1, <3>2, <3>4, ZeroValue
    <2> QED BY <1>1, <1>3, <2>2, <2>4, <2>5
  <1> QED BY <1>6, <1>7

\* TokenFits says no from 10^42 on.
\* The space that is asked for is that of 42 digits.
LEMMA FitsDigits ==
    ASSUME NEW value, NEW digits \in Seq(0 .. 10 - 1),
           uint256_to_decimal(value) = Written(digits, Decimals)
    PROVE  TokenFits(value) <=> Len(digits) <= 42
  <1>2. PICK src : src = Written(digits, Decimals)
    OBVIOUS
  <1>4. Len(src) = Len(digits) /\ Len(digits) \in Nat
    BY <1>2, DecimalText
  <1>5. Len(SYMBOL) = 4
    BY DEF SYMBOL
  <1>6. TokenFits(value) <=> Fits(src, 44)
    <2>1. TEXT_BUFFER_LENGTH - (Len(SYMBOL) + 1) - 1 = 44
      BY <1>5 DEF TEXT_BUFFER_LENGTH
    <2> QED BY <1>2, <2>1 DEF TokenFits
  <1>7. CASE src = <<"0">>
    <2>1. Len(src) = 1
      BY <1>7
    <2>2. Fits(src, 44)
      BY <1>7 DEF Fits
    <2> QED BY <1>4, <1>6, <2>1, <2>2
  <1>8. CASE src # <<"0">> /\ Len(src) <= 18
    <2>1. Fits(src, 44)
      BY <1>8 DEF Fits, DECIMALS
    <2> QED BY <1>4, <1>6, <1>8, <2>1
  <1>9. CASE src # <<"0">> /\ ~(Len(src) <= 18)
    <2>1. Fits(src, 44) <=> 44 >= Len(src) + 2
      BY <1>9 DEF Fits, DECIMALS
    <2> QED BY <1>4, <1>6, <1>9, <2>1
  <1> QED BY <1>7, <1>8, <1>9

LEMMA FitsBelow ==
    ASSUME NEW value \in Seq(Byte), Len(value) <= 32
    PROVE  TokenFits(value) <=> Below(Significant(value), Widest)
  <1>1. PICK digits : /\ Numeral(digits, Value(value, 256))
                      /\ uint256_to_decimal(value) = Written(digits, Decimals)
    BY DecimalsOf
  <1>3. digits \in Seq(0 .. 10 - 1)
    BY <1>1 DEF Numeral
  <1>5. TokenFits(value) <=> Len(digits) <= 42
    BY <1>1, <1>3, FitsDigits
  <1>6. Len(digits) <= 42 <=> Value(value, 256) < Value(WideDigits, 10)
    BY <1>1, NumeralBelow
  <1>7. PICK base \in AllBases : base = 256
    BY ByteBase
  <1>8. Canonical(Significant(value), base) /\ Value(Significant(value), base) = Value(value, base)
    <2>1. value \in Seq(0 .. base - 1) /\ base \in Nat
      BY <1>7, BytesType
    <2> QED BY <2>1, SignificantBytes
  <1>9. Canonical(Widest, base) /\ Value(Widest, base) = Value(WideDigits, 10)
    BY <1>7, WidestIs
  <1>10. Below(Significant(value), Widest) <=> Value(Significant(value), base) < Value(Widest, base)
    BY <1>8, <1>9, BelowIsLess
  <1> QED BY <1>5, <1>6, <1>7, <1>8, <1>9, <1>10

-----------------------------------------------------------------------------
(* What fails.                                                             *)

LEMMA FailsBelow ==
    ASSUME NEW item \in Items
    PROVE  Fails(item) <=> item.kind = "token" /\ ~Below(Significant(item.value), Widest)
  <1>1. CASE item.kind = "token"
    <2>1. item.value \in Seq(Byte) /\ Len(item.value) <= 32
      BY <1>1, ItemsAssumption DEF INT256_LENGTH
    <2>2. TokenFits(item.value) <=> Below(Significant(item.value), Widest)
      BY <2>1, FitsBelow
    <2> QED BY <1>1, <2>2 DEF Fails
  <1>2. CASE item.kind # "token"
    BY <1>2 DEF Fails
  <1> QED BY <1>1, <1>2

\* An amount fails from 10^42 on and nothing else does, for any items: what
\* print_token_amount_256 refuses for want of space is a matter of the value
\* alone (printer.c, transaction_summary.c).
THEOREM NothingElseFails == OutputSpec => []OnlyWideAmountsFail
  <1>1. OutputInit => OnlyWideAmountsFail
    BY DEF OutputInit, Init, OnlyWideAmountsFail, NoTitle
  <1>2. OnlyWideAmountsFail /\ [OutputNext]_outputVars => OnlyWideAmountsFail'
    <2> SUFFICES ASSUME OnlyWideAmountsFail, [OutputNext]_outputVars
                 PROVE  OnlyWideAmountsFail'
      OBVIOUS
    <2>1. ASSUME NEW item \in Items, Show(item)
          PROVE  OnlyWideAmountsFail'
      <3>1. asked' = item /\ (rc' = 1 <=> Fails(item))
        BY <2>1 DEF Show, DisplayItem
      <3>2. Fails(item) <=> item.kind = "token" /\ ~Below(Significant(item.value), Widest)
        BY FailsBelow
      <3>3. OnlyWideAmountsFail' <=>
                (rc' = 1 <=> asked'.kind = "token" /\ ~Below(Significant(asked'.value), Widest))
        BY DEF OnlyWideAmountsFail
      <3> QED BY <3>1, <3>2, <3>3
    <2>2. ASSUME NEW x \in Signatures, Approve(x)
          PROVE  OnlyWideAmountsFail'
      <3>1. rc' = rc /\ asked' = asked
        BY <2>2 DEF Approve
      <3> QED BY <3>1 DEF OnlyWideAmountsFail
    <2>3. CASE NextRequest
      BY <2>3 DEF NextRequest, transaction_summary_reset, OnlyWideAmountsFail, NoTitle
    <2>4. CASE UNCHANGED outputVars
      <3>1. rc' = rc /\ asked' = asked
        BY <2>4 DEF outputVars, printingVars
      <3> QED BY <3>1 DEF OnlyWideAmountsFail
    <2> QED BY <2>1, <2>2, <2>3, <2>4 DEF OutputNext
  <1> QED BY <1>1, <1>2, PTL DEF OutputSpec

-----------------------------------------------------------------------------
(* The text that each printer leaves.                                      *)

\* The digits of a value read as that value.
LEMMA ReadsTheSame ==
    ASSUME NEW radix \in Radixes, NEW alphabet, Alphabet(alphabet, radix),
           NEW digits \in Seq(0 .. radix - 1), NEW value \in Seq(Byte),
           Value(digits, radix) = Value(value, 256)
    PROVE  NumberRead(Written(digits, alphabet), alphabet) = Significant(value)
  <1>1. PICK bytes : bytes = NumberRead(Written(digits, alphabet), alphabet)
    OBVIOUS
  <1>2. PICK base \in AllBases : base = 256
    BY ByteBase
  <1>3. Canonical(bytes, base) /\ Value(bytes, base) = Value(digits, radix)
    BY <1>1, <1>2, ReadsWhatIsWritten
  <1>4. Canonical(Significant(value), base) /\ Value(Significant(value), base) = Value(value, base)
    <2>1. value \in Seq(0 .. base - 1) /\ base \in Nat
      BY <1>2, BytesType
    <2> QED BY <2>1, SignificantBytes
  <1>5. Value(bytes, base) = Value(Significant(value), base)
    BY <1>2, <1>3, <1>4
  <1> QED BY <1>1, <1>3, <1>4, <1>5, BelowIsLess

\* A string as it is shown, marked when it is cut off.
Cut(string) ==
    IF Len(string) < TEXT_BUFFER_LENGTH THEN string
    ELSE Append(SubSeq(string, 1, TEXT_BUFFER_LENGTH - 2), "~")

LEMMA MarkedText ==
    ASSUME NEW string, Plain(string), Len(string) >= TEXT_BUFFER_LENGTH
    PROVE  /\ TextOf(SubSeq(string, 1, TEXT_BUFFER_LENGTH - 2) \o <<"~", Nul>>, Cut(string))
           /\ Plain(Cut(string)) /\ Len(Cut(string)) = 49
  <1>1. IsText(string) /\ Len(string) \in Nat /\ Len(string) >= 50
    BY DEF Plain, IsText, TEXT_BUFFER_LENGTH
  <1>2. PICK n \in Nat : n = 48
    OBVIOUS
  <1>3. n <= Len(string) /\ TEXT_BUFFER_LENGTH - 2 = n /\ n + 1 = 49 /\ n + 2 = 50
    BY <1>1, <1>2 DEF TEXT_BUFFER_LENGTH
  <1>4. PICK f : f = SubSeq(string, 1, n)
    OBVIOUS
  <1>5. IsText(f) /\ Len(f) = n /\ \A i \in 1 .. n : f[i] = string[i]
    BY <1>1, <1>3, <1>4, FrontOfText
  <1>6. \A i \in 1 .. n : f[i] # Nul
    BY <1>1, <1>3, <1>5 DEF Plain
  <1>8. PICK mark : mark = "~"
    OBVIOUS
  <1>7. PICK S : f \in Seq(S) /\ mark \in S
    <2>1. PICK S : S = {f[i] : i \in 1 .. n} \cup {mark}
      OBVIOUS
    <2>2. \A i \in 1 .. Len(f) : f[i] \in S
      BY <1>5, <2>1
    <2>3. f \in Seq(S)
      BY <1>5, <2>2, TextOfElements
    <2> QED BY <2>1, <2>3
  <1>9. mark # Nul
    BY <1>8 DEF Nul
  <1>10. PICK s : s = Append(f, mark)
    OBVIOUS
  <1>11. s = Cut(string)
    <2>1. ~(Len(string) < TEXT_BUFFER_LENGTH)
      BY <1>1 DEF TEXT_BUFFER_LENGTH
    <2>2. Cut(string) = Append(SubSeq(string, 1, TEXT_BUFFER_LENGTH - 2), "~")
      BY <2>1 DEF Cut
    <2> QED BY <1>3, <1>4, <1>8, <1>10, <2>2
  <1>12. /\ IsText(s) /\ Len(s) = 49 /\ s[49] = mark
         /\ \A i \in 1 .. n : s[i] = f[i]
    <2>1. s \in Seq(S)
      BY <1>7, <1>10
    <2>2. IsText(s)
      BY <2>1, SeqIsText
    <2>3. Len(s) = Len(f) + 1 /\ s[Len(f) + 1] = mark /\ \A i \in 1 .. Len(f) : s[i] = f[i]
      BY <1>7, <1>10
    <2> QED BY <1>3, <1>5, <2>2, <2>3
  <1>13. Plain(s)
    <2> SUFFICES ASSUME NEW i \in 1 .. 49
                 PROVE  s[i] # Nul
      BY <1>12 DEF Plain
    <2>1. i \in 1 .. n \/ i = 49
      BY <1>2
    <2> QED BY <1>6, <1>9, <1>12, <2>1
  <1>14. PICK end : end = <<mark, Nul>>
    OBVIOUS
  <1>15. IsText(end) /\ Len(end) = 2 /\ end[1] = mark /\ end[2] = Nul
    BY <1>14 DEF IsText
  <1>16. PICK buffer : buffer = f \o end
    OBVIOUS
  <1>17. IsText(buffer) /\ Joined(buffer, f, end)
    BY <1>5, <1>15, <1>16, TextsJoin
  <1>18. /\ Len(buffer) = 50 /\ buffer[49] = mark /\ buffer[50] = Nul
         /\ \A i \in 1 .. n : buffer[i] = f[i]
    <2>1. Len(buffer) = n + 2 /\ 1 \in 1 .. 2 /\ 2 \in 1 .. 2
      BY <1>5, <1>15, <1>17 DEF Joined
    <2>2. buffer[n + 1] = end[1] /\ buffer[n + 2] = end[2]
      BY <1>5, <1>15, <1>17, <2>1 DEF Joined
    <2>3. \A i \in 1 .. n : buffer[i] = f[i]
      BY <1>5, <1>17 DEF Joined
    <2> QED BY <1>3, <1>15, <2>1, <2>2, <2>3
  <1>19. \A i \in 1 .. 49 : buffer[i] = s[i]
    <2> SUFFICES ASSUME NEW i \in 1 .. 49
                 PROVE  buffer[i] = s[i]
      OBVIOUS
    <2>1. i \in 1 .. n \/ i = 49
      BY <1>2
    <2> QED BY <1>12, <1>18, <2>1
  <1>20. TextOf(buffer, s)
    BY <1>12, <1>13, <1>17, <1>18, <1>19 DEF TextOf, TEXT_BUFFER_LENGTH
  <1> QED BY <1>3, <1>4, <1>8, <1>11, <1>12, <1>13, <1>14, <1>16, <1>20

LEMMA SizedStringShown ==
    ASSUME NEW string, Plain(string), NEW out, IsText(out), Len(out) = TEXT_BUFFER_LENGTH
    PROVE  TextOf(print_sized_string(string, out), Cut(string))
  <1>1. Len(string) \in Nat
    BY DEF Plain, IsText
  <1>2. CASE Len(string) < TEXT_BUFFER_LENGTH
    <2>1. TextOf(Overwrite(out, string \o <<Nul>>), string)
      BY <1>2, Overwritten
    <2> QED BY <1>2, <2>1 DEF print_sized_string, Cut
  <1>3. CASE ~(Len(string) < TEXT_BUFFER_LENGTH)
    <2>1. Len(string) >= TEXT_BUFFER_LENGTH
      BY <1>1, <1>3 DEF TEXT_BUFFER_LENGTH
    <2>2. TextOf(SubSeq(string, 1, TEXT_BUFFER_LENGTH - 2) \o <<"~", Nul>>, Cut(string))
      BY <2>1, MarkedText
    <2> QED BY <1>3, <2>2 DEF print_sized_string
  <1> QED BY <1>2, <1>3

LEMMA PlainJoin ==
    ASSUME NEW r, NEW s, Plain(r), Plain(s)
    PROVE  /\ Plain(r \o s) /\ Len(r \o s) = Len(r) + Len(s)
           /\ Len(r) \in Nat /\ Len(s) \in Nat
  <1>1. IsText(r) /\ IsText(s) /\ Len(r) \in Nat /\ Len(s) \in Nat
    BY DEF Plain, IsText
  <1>2. PICK t : t = r \o s
    OBVIOUS
  <1>3. IsText(t) /\ Joined(t, r, s)
    BY <1>1, <1>2, TextsJoin
  <1>4. Len(t) = Len(r) + Len(s)
    BY <1>3 DEF Joined
  <1>5. ASSUME NEW i \in 1 .. Len(t)
        PROVE  t[i] # Nul
    <2>1. CASE i \in 1 .. Len(r)
      <3>1. t[i] = r[i]
        BY <1>3, <2>1 DEF Joined
      <3> QED BY <2>1, <3>1 DEF Plain
    <2>2. CASE i \notin 1 .. Len(r)
      <3>1. PICK k : k = i - Len(r)
        OBVIOUS
      <3>2. k \in 1 .. Len(s) /\ i = Len(r) + k
        BY <1>1, <1>4, <2>2, <3>1
      <3>3. t[Len(r) + k] = s[k]
        BY <1>3, <3>2 DEF Joined
      <3> QED BY <3>2, <3>3 DEF Plain
    <2> QED BY <2>1, <2>2
  <1> QED BY <1>1, <1>2, <1>3, <1>4, <1>5 DEF Plain

\* The two parts of a joined text.
TwoParts(t, r, s, m, n) == SubSeq(t, 1, m) = r /\ SubSeq(t, m + 1, n) = s /\ Len(t) = n

LEMMA PartsOfJoined ==
    ASSUME NEW r, NEW s, IsText(r), IsText(s), NEW m \in Nat, m = Len(r),
           NEW n \in Nat, n = Len(r) + Len(s)
    PROVE  TwoParts(r \o s, r, s, m, n)
  <1>1. PICK t : t = r \o s
    OBVIOUS
  <1>2. IsText(t) /\ Joined(t, r, s)
    BY <1>1, TextsJoin
  <1>3. Len(t) = n /\ Len(s) \in Nat /\ m <= n /\ n <= Len(t)
    BY <1>2 DEF Joined, IsText
  <1>4. SubSeq(t, 1, m) = r
    <2>1. PICK f : f = SubSeq(t, 1, m)
      OBVIOUS
    <2>2. IsText(f) /\ Len(f) = m /\ \A i \in 1 .. m : f[i] = t[i]
      BY <1>2, <1>3, <2>1, FrontOfText
    <2>3. \A i \in 1 .. m : f[i] = r[i]
      BY <1>2, <2>2 DEF Joined
    <2> QED BY <2>1, <2>2, <2>3, SameText
  <1>5. SubSeq(t, m + 1, n) = s
    <2>1. PICK f : f = SubSeq(t, m + 1, n)
      OBVIOUS
    <2>2. Part(f, t, m, n)
      BY <1>2, <1>3, <2>1, PartOfText
    <2>3. IsText(f) /\ Len(f) = Len(s)
      BY <1>3, <2>2 DEF Part
    <2>4. \A i \in 1 .. Len(s) : f[i] = s[i]
      <3> SUFFICES ASSUME NEW i \in 1 .. Len(s)
                   PROVE  f[i] = s[i]
        OBVIOUS
      <3>1. f[i] = t[m + i]
        BY <1>3, <2>2 DEF Part
      <3>2. t[m + i] = s[i]
        BY <1>2 DEF Joined
      <3> QED BY <3>1, <3>2
    <2> QED BY <2>1, <2>3, <2>4, SameText
  <1> QED BY <1>1, <1>3, <1>4, <1>5 DEF TwoParts

\* The ticker and the space, in either order.
LEMMA TickerText ==
    /\ Plain(SYMBOL \o <<" ">>) /\ Len(SYMBOL \o <<" ">>) = 5
    /\ Plain(<<" ">> \o SYMBOL) /\ Len(<<" ">> \o SYMBOL) = 5
  <1>1. Plain(SYMBOL) /\ Len(SYMBOL) = 4
    <2>1. Len(SYMBOL) = 4 /\ SYMBOL = [i \in 1 .. 4 |-> SYMBOL[i]]
      BY DEF SYMBOL
    <2>2. \A i \in 1 .. 4 : SYMBOL[i] # Nul
      BY DEF SYMBOL, Nul
    <2> QED BY <2>1, <2>2 DEF Plain, IsText
  <1>2. PICK space : space = " "
    BY Zenon
  <1>3. space # Nul
    BY <1>2, Zenon DEF Nul
  <1>4. Plain(<<space>>) /\ Len(<<space>>) = 1
    <2>1. Len(<<space>>) = 1 /\ <<space>> = [i \in 1 .. 1 |-> <<space>>[i]]
      OBVIOUS
    <2>2. \A i \in 1 .. 1 : <<space>>[i] # Nul
      BY <1>3
    <2> QED BY <2>1, <2>2 DEF Plain, IsText
  <1>5. /\ Plain(SYMBOL \o <<space>>) /\ Len(SYMBOL \o <<space>>) = 4 + 1
        /\ Plain(<<space>> \o SYMBOL) /\ Len(<<space>> \o SYMBOL) = 1 + 4
    BY <1>1, <1>4, PlainJoin
  <1>6. 4 + 1 = 5 /\ 1 + 4 = 5
    OBVIOUS
  <1> QED BY <1>2, <1>5, <1>6, Zenon

LEMMA AmountRead ==
    ASSUME NEW value \in Seq(Byte), NEW t, Amounts(t, Value(value, 256))
    PROVE  NumberRead(Scaled(t), Decimals) = Significant(value)
  <1>1. PICK digits \in Seq(0 .. 10 - 1) : /\ Scaled(t) = Written(digits, Decimals)
                                           /\ Value(digits, 10) = Value(value, 256)
    BY DEF Amounts
  <1>2. PICK radix \in Radixes : radix = 10
    BY DEF Radixes
  <1>3. Alphabet(Decimals, radix)
    BY <1>2, DecimalsAre
  <1>4. NumberRead(Written(digits, Decimals), Decimals) = Significant(value)
    BY <1>1, <1>2, <1>3, ReadsTheSame
  <1> QED BY <1>1, <1>4

\* The ticker in front of an amount.
LEMMA TickerInFront ==
    ASSUME NEW value \in Seq(Byte), NEW t, AmountUpTo(t, Value(value, 256), 43)
    PROVE  LET s == SYMBOL \o <<" ">> \o t
           IN  Plain(s) /\ Len(s) < TEXT_BUFFER_LENGTH /\ DenotesToken(s, value)
  <1>1. Amounts(t, Value(value, 256)) /\ Len(t) <= 43 /\ Plain(t) /\ IsText(t) /\ Len(t) \in Nat
    BY DEF AmountUpTo, Amounts, Plain, IsText
  <1>2. PICK front : front = SYMBOL \o <<" ">>
    BY Zenon
  <1>3. Plain(front) /\ Len(front) = 5 /\ IsText(front)
    BY <1>2, TickerText, Zenon DEF Plain
  <1>4. PICK s : s = front \o t
    OBVIOUS
  <1>5. Plain(s) /\ Len(s) = 5 + Len(t)
    BY <1>1, <1>3, <1>4, PlainJoin
  <1>6. PICK m \in Nat, n \in Nat : m = 5 /\ n = 5 + Len(t)
    BY <1>1
  <1>7. m = Len(front) /\ n = Len(front) + Len(t) /\ Len(s) = n /\ m + 1 = 6
    BY <1>3, <1>5, <1>6
  <1>8. TwoParts(s, front, t, m, n)
    BY <1>1, <1>3, <1>4, <1>7, PartsOfJoined
  <1>9. SubSeq(s, 1, 5) = front /\ SubSeq(s, 6, Len(s)) = t
    BY <1>6, <1>7, <1>8 DEF TwoParts
  <1>10. NumberRead(Scaled(t), Decimals) = Significant(value)
    BY <1>1, AmountRead
  <1>11. DenotesToken(s, value)
    BY <1>2, <1>9, <1>10, Zenon DEF DenotesToken
  <1>12. Len(s) < TEXT_BUFFER_LENGTH
    BY <1>1, <1>5 DEF TEXT_BUFFER_LENGTH
  <1> QED BY <1>2, <1>4, <1>5, <1>11, <1>12, Zenon

\* What an item leaves in the buffer.
Shows(buffer, item) ==
    \E s : /\ TextOf(buffer, s)
           /\ Denotes(s, item)
           /\ item.kind = "amount" => Len(s) < BASE58_PUBKEY_LENGTH

LEMMA TokenShown ==
    ASSUME NEW value \in Seq(Byte), Len(value) <= 32, TokenFits(value),
           NEW out, IsText(out), Len(out) = TEXT_BUFFER_LENGTH
    PROVE  \E s : TextOf(print_sized_string(TokenText(value), out), s) /\ DenotesToken(s, value)
  <1>1. PICK digits : /\ Numeral(digits, Value(value, 256))
                      /\ uint256_to_decimal(value) = Written(digits, Decimals)
    BY DecimalsOf
  <1>2. digits \in Seq(0 .. 10 - 1) /\ digits # <<>> /\ Value(digits, 10) = Value(value, 256)
    BY <1>1 DEF Numeral
  <1>3. Len(digits) <= 42
    BY <1>1, <1>2, FitsDigits
  <1>4. Len(digits) \in Nat /\ Len(digits) >= 1
    BY <1>2
  <1>5. PICK src, t : src = Written(digits, Decimals) /\ t = adjustDecimals(src)
    OBVIOUS
  <1>6. AmountUpTo(t, Value(value, 256), 43)
    <2>1. CASE Len(digits) <= 18
      <3>1. AmountUpTo(t, Value(digits, 10), 20)
        BY <1>2, <1>4, <1>5, <2>1, SmallAmount
      <3>2. Len(t) \in Nat
        BY <3>1 DEF AmountUpTo, Amounts, Plain, IsText
      <3> QED BY <1>2, <3>1, <3>2 DEF AmountUpTo
    <2>2. CASE ~(Len(digits) <= 18)
      <3>1. AmountUpTo(t, Value(digits, 10), Len(digits) + 1)
        BY <1>2, <1>4, <1>5, <2>2, WideAmount
      <3>2. Len(t) \in Nat
        BY <3>1 DEF AmountUpTo, Amounts, Plain, IsText
      <3> QED BY <1>2, <1>3, <1>4, <3>1, <3>2 DEF AmountUpTo
    <2> QED BY <2>1, <2>2
  <1>7. PICK s : s = TokenText(value)
    OBVIOUS
  <1>8. s = SYMBOL \o <<" ">> \o t
    BY <1>1, <1>5, <1>7, Zenon DEF TokenText
  <1>9. Plain(s) /\ Len(s) < TEXT_BUFFER_LENGTH /\ DenotesToken(s, value)
    BY <1>6, <1>8, TickerInFront, Zenon
  <1>10. TextOf(print_sized_string(s, out), Cut(s))
    BY <1>9, SizedStringShown
  <1>11. Cut(s) = s
    BY <1>9 DEF Cut
  <1> QED BY <1>7, <1>9, <1>10, <1>11

LEMMA ThreeDigitsAByte ==
    ASSUME NEW value \in Seq(Byte)
    PROVE  Len(Digits(value, 256, 10)) <= 3 * Len(value) /\ Len(value) \in Nat
  <1>0. PICK c : c = Len(value)
    OBVIOUS
  <1>1. PICK base \in Bases, radix \in Radixes : base = 256 /\ radix = 10 /\ c = Len(value)
    BY <1>0 DEF Bases, Radixes
  <1>2. value \in Seq(0 .. base - 1) /\ c \in Nat /\ base \in Nat
    BY <1>1, BytesType
  <1>3. PICK left, N : left = Rest(value, base, radix) /\ N = 5 * c
    OBVIOUS
  <1>4. Clears(base, radix, 3)
    BY <1>1 DEF Clears
  <1>5. Shrinks(left, N, radix)
    BY <1>1, <1>2, <1>3, RestShrinks
  <1>6. left[0] < Power(base, c)
    <2>1. left[0] < Power(base, Len(value))
      BY <1>2, <1>3, RestAtFirst
    <2> QED BY <1>1, <2>1
  <1>7. N \in Nat /\ 3 * c <= N /\ 3 * c \in 0 .. N
    BY <1>2, <1>3
  <1>8. left[3 * c] < Power(base, 0)
    BY <1>2, <1>4, <1>5, <1>6, <1>7, LimbsCleared
  <1>9. left[3 * c] = 0
    <2>1. left[3 * c] \in Nat
      BY <1>5, <1>7 DEF Shrinks
    <2>2. Power(base, 0) = 1
      BY <1>2, PowerStep
    <2> QED BY <1>8, <2>1, <2>2
  <1>10. PICK k : k = 3 * c
    OBVIOUS
  <1>11. k \in 0 .. 5 * Len(value) /\ Rest(value, base, radix)[k] = 0
    BY <1>1, <1>3, <1>7, <1>9, <1>10
  <1>12. Len(Digits(value, base, radix)) <= k
    BY <1>2, <1>11, DigitsBound
  <1> QED BY <1>1, <1>2, <1>10, <1>12

\* The digits of eight bytes.
LEMMA U64DigitsAre ==
    ASSUME NEW value \in Seq(Byte), Len(value) <= 8
    PROVE  \E digits : /\ Numeral(digits, Value(value, 256))
                       /\ U64Digits(value) = Written(digits, Decimals)
                       /\ Len(digits) <= 24
  <1>1. CASE AllZeroes(value)
    <2>1. U64Digits(value) = Written(<<0>>, Decimals)
      BY <1>1, ZeroWritten DEF U64Digits
    <2>2. Value(value, 256) = 0
      BY <1>1, ZeroBytes
    <2>3. Len(<<0>>) <= 24
      OBVIOUS
    <2> QED BY <2>1, <2>2, <2>3, ZeroNumeral
  <1>2. CASE ~AllZeroes(value)
    <2>1. PICK base \in Bases : base = 256
      BY DEF Bases
    <2>2. value \in Seq(0 .. base - 1)
      BY <2>1, BytesType
    <2>3. PICK digits : digits = Digits(value, base, 10)
      OBVIOUS
    <2>4. Numeral(digits, Value(value, base))
      BY <1>2, <2>2, <2>3, NumeralOfDigits
    <2>5. Len(digits) \in Nat
      BY <2>4 DEF Numeral
    <2>6. Len(digits) <= 24
      BY <2>1, <2>3, <2>5, ThreeDigitsAByte
    <2>7. U64Digits(value) = Written(digits, Decimals)
      BY <1>2, <2>1, <2>3 DEF U64Digits
    <2> QED BY <2>1, <2>4, <2>6, <2>7
  <1> QED BY <1>1, <1>2

LEMMA U64Shown ==
    ASSUME NEW value \in Seq(Byte), Len(value) <= 8,
           NEW out, IsText(out), Len(out) = TEXT_BUFFER_LENGTH
    PROVE  \E s : TextOf(print_u64(value, out), s) /\ DenotesU64(s, value)
  <1>1. PICK digits : /\ Numeral(digits, Value(value, 256))
                      /\ U64Digits(value) = Written(digits, Decimals)
                      /\ Len(digits) <= 24
    BY U64DigitsAre
  <1>2. digits \in Seq(0 .. 10 - 1) /\ Value(digits, 10) = Value(value, 256)
    BY <1>1 DEF Numeral
  <1>3. PICK s : s = Written(digits, Decimals)
    OBVIOUS
  <1>4. Plain(s) /\ Len(s) = Len(digits)
    BY <1>2, <1>3, DecimalText
  <1>5. TextOf(Overwrite(out, s \o <<Nul>>), s)
    BY <1>1, <1>4, Overwritten DEF TEXT_BUFFER_LENGTH
  <1>6. TextOf(print_u64(value, out), s)
    BY <1>1, <1>3, <1>5 DEF print_u64
  <1>7. DenotesU64(s, value)
    <2>1. PICK radix \in Radixes : radix = 10
      BY DEF Radixes
    <2>2. Alphabet(Decimals, radix)
      BY <2>1, DecimalsAre
    <2>3. NumberRead(s, Decimals) = Significant(value)
      BY <1>2, <1>3, <2>1, <2>2, ReadsTheSame
    <2> QED BY <2>3 DEF DenotesU64
  <1> QED BY <1>6, <1>7

\* Zeros in front of the digits are so many of the alphabet's first character.
LEMMA ZerosText ==
    ASSUME NEW radix \in Radixes, NEW alphabet, Alphabet(alphabet, radix),
           \A i \in 1 .. radix : alphabet[i] # Nul,
           NEW digits \in Seq(0 .. radix - 1), NEW k \in Nat
    PROVE  Repeat(alphabet[1], k) \o Written(digits, alphabet)
               = Written(Repeat(0, k) \o digits, alphabet)
  <1>1. PICK zero, r, w, t : /\ zero = alphabet[1] /\ r = Repeat(zero, k)
                             /\ w = Written(digits, alphabet) /\ t = r \o w
    OBVIOUS
  <1>2. IsText(r) /\ Len(r) = k /\ \A i \in 1 .. k : r[i] = zero
    BY <1>1, RepeatText
  <1>3. /\ IsText(w) /\ Len(w) = Len(digits) /\ Len(digits) \in Nat
        /\ \A i \in 1 .. Len(digits) : w[i] = alphabet[digits[i] + 1]
    BY <1>1, WrittenText DEF Plain
  <1>4. IsText(t) /\ Joined(t, r, w)
    BY <1>1, <1>2, <1>3, TextsJoin
  <1>5. PICK zeros, all, u : /\ zeros = Repeat(0, k) /\ all = zeros \o digits
                             /\ u = Written(all, alphabet)
    OBVIOUS
  <1>6. zeros \in Seq(0 .. radix - 1) /\ Len(zeros) = k /\ \A i \in 1 .. k : zeros[i] = 0
    <2>1. 0 \in 0 .. radix - 1
      BY DEF Radixes
    <2> QED BY <1>5, <2>1, RepeatType, RepeatText
  <1>7. all \in Seq(0 .. radix - 1) /\ Joined(all, zeros, digits)
    BY <1>5, <1>6, ConcatJoins
  <1>8. /\ IsText(u) /\ Len(u) = Len(all)
        /\ \A i \in 1 .. Len(all) : u[i] = alphabet[all[i] + 1]
    <2>1. all \in Seq(0 .. radix - 1)
      BY <1>7
    <2>2. /\ Plain(Written(all, alphabet)) /\ Len(Written(all, alphabet)) = Len(all)
          /\ \A i \in 1 .. Len(all) : Written(all, alphabet)[i] = alphabet[all[i] + 1]
      BY <2>1, WrittenText
    <2> QED BY <1>5, <2>2 DEF Plain
  <1>9. Len(t) = k + Len(digits) /\ Len(u) = k + Len(digits) /\ Len(all) = k + Len(digits)
    BY <1>2, <1>3, <1>4, <1>6, <1>7, <1>8 DEF Joined
  <1>10. ASSUME NEW i \in 1 .. Len(t)
         PROVE  t[i] = u[i]
    <2>1. u[i] = alphabet[all[i] + 1]
      BY <1>8, <1>9
    <2>2. CASE i \in 1 .. k
      <3>1. t[i] = r[i] /\ all[i] = zeros[i]
        BY <1>2, <1>4, <1>6, <1>7, <2>2 DEF Joined
      <3>2. t[i] = zero /\ all[i] = 0
        BY <1>2, <1>6, <2>2, <3>1
      <3>3. 0 + 1 = 1
        OBVIOUS
      <3> QED BY <1>1, <2>1, <3>2, <3>3
    <2>3. CASE i \notin 1 .. k
      <3>1. PICK j : j = i - k
        OBVIOUS
      <3>2. j \in 1 .. Len(digits) /\ i = k + j
        BY <1>3, <1>9, <2>3, <3>1
      <3>3. t[k + j] = w[j] /\ all[k + j] = digits[j]
        BY <1>2, <1>3, <1>4, <1>6, <1>7, <3>2 DEF Joined
      <3> QED BY <1>3, <2>1, <3>2, <3>3
    <2> QED BY <2>2, <2>3
  <1> QED BY <1>1, <1>4, <1>5, <1>8, <1>9, <1>10, SameText

\* As print_token_amount has the digits: at least one before the point.
Padding(t, digits, all) ==
    /\ all \in Seq(0 .. 10 - 1) /\ Value(all, 10) = Value(digits, 10)
    /\ Len(all) >= 19 /\ Len(all) <= 24
    /\ t = Written(all, Decimals)

LEMMA PaddedDigits ==
    ASSUME NEW digits \in Seq(0 .. 10 - 1), Len(digits) <= 24
    PROVE  \E all : Padding(Repeat("0", 19 - Len(digits)) \o Written(digits, Decimals), digits, all)
  <1>1. PICK k, less : /\ less = 19 - Len(digits)
                       /\ k = IF Len(digits) < 19 THEN less ELSE 0
    OBVIOUS
  <1>2. /\ k \in Nat /\ k + Len(digits) >= 19 /\ k + Len(digits) <= 24 /\ Len(digits) \in Nat
        /\ 1 .. less = 1 .. k
    <2>1. Len(digits) \in Nat
      OBVIOUS
    <2>2. CASE Len(digits) < 19
      BY <1>1, <2>1, <2>2
    <2>3. CASE ~(Len(digits) < 19)
      <3>1. less \in Int /\ less <= 0 /\ k = 0
        BY <1>1, <2>1, <2>3
      <3>2. \A i \in Int : i \notin 1 .. less /\ i \notin 1 .. k
        BY <3>1
      <3>3. 1 .. less = 1 .. k
        BY <3>1, <3>2
      <3>4. k \in Nat /\ k + Len(digits) >= 19 /\ k + Len(digits) <= 24
        <4>1. PICK n \in Nat : n = Len(digits)
          BY <2>1
        <4>2. n <= 24 /\ ~(n < 19)
          BY <2>3, <4>1
        <4> QED BY <3>1, <4>1, <4>2
      <3> QED BY <2>1, <3>3, <3>4
    <2> QED BY <2>2, <2>3
  <1>3. Repeat("0", less) = Repeat("0", k)
    BY <1>2 DEF Repeat
  <1>4. PICK all : all = Repeat(0, k) \o digits
    OBVIOUS
  <1>5. /\ all \in Seq(0 .. 10 - 1) /\ Len(all) = k + Len(digits)
        /\ Value(all, 10) = Value(digits, 10)
    BY <1>2, <1>4, ZerosWritten
  <1>6. Repeat("0", k) \o Written(digits, Decimals) = Written(all, Decimals)
    <2>1. PICK radix \in Radixes : radix = 10
      BY DEF Radixes
    <2>2. Alphabet(Decimals, radix) /\ \A i \in 1 .. radix : Decimals[i] # Nul
      BY <2>1, DecimalsAre
    <2>3. Decimals[1] = "0"
      BY DecimalsAre
    <2>4. Repeat(Decimals[1], k) \o Written(digits, Decimals)
              = Written(Repeat(0, k) \o digits, Decimals)
      BY <1>2, <2>1, <2>2, ZerosText
    <2> QED BY <1>4, <2>3, <2>4
  <1> QED BY <1>1, <1>2, <1>3, <1>5, <1>6 DEF Padding

\* The point in its place.
LEMMA PointedDigitsAre ==
    ASSUME NEW value \in Seq(Byte), Len(value) <= 8
    PROVE  \E all, p : /\ Splitting(all, p) /\ p <= 7
                       /\ PointedAt(PointedDigits(value), all, p)
                       /\ Value(all, 10) = Value(value, 256)
  <1>1. PICK digits : /\ Numeral(digits, Value(value, 256))
                      /\ U64Digits(value) = Written(digits, Decimals)
                      /\ Len(digits) <= 24
    BY U64DigitsAre
  <1>2. digits \in Seq(0 .. 10 - 1) /\ Value(digits, 10) = Value(value, 256)
    BY <1>1 DEF Numeral
  <1>3. PICK src, padded : /\ src = Written(digits, Decimals)
                           /\ padded = Repeat("0", 19 - Len(digits)) \o src
    OBVIOUS
  <1>4. Len(src) = Len(digits) /\ Len(digits) \in Nat
    BY <1>2, <1>3, DecimalText
  <1>5. PICK all : Padding(padded, digits, all)
    BY <1>1, <1>2, <1>3, PaddedDigits
  <1>6. all \in Seq(0 .. 10 - 1) /\ Len(all) >= 19 /\ Len(all) <= 24 /\ padded = Written(all, Decimals)
    BY <1>5 DEF Padding
  <1>7. Len(padded) = Len(all)
    BY <1>6, DecimalText
  <1>8. PICK p : p = Len(all) - 17
    OBVIOUS
  <1>9. p \in Nat /\ p >= 2 /\ p <= 7 /\ Len(all) = p + 17 /\ p - 1 = Len(padded) - 18 /\ p - 1 + 1 = p
    <2>1. PICK n \in Nat : n = Len(all) /\ n >= 19 /\ n <= 24
      BY <1>6
    <2>2. p = n - 17 /\ Len(padded) = n
      BY <1>7, <1>8, <2>1
    <2> QED BY <2>1, <2>2
  <1>10. Splitting(all, p)
    BY <1>6, <1>9 DEF Splitting
  <1>11. PICK full : full = SubSeq(padded, 1, p - 1) \o <<".">> \o SubSeq(padded, p, p + 17)
    OBVIOUS
  <1>12. PointedAt(full, all, p)
    BY <1>6, <1>10, <1>11, PointedWritten
  <1>13. PointedDigits(value) = full
    <2>1. 18 + 1 - Len(src) = 19 - Len(digits)
      BY <1>4
    <2>2. padded = Repeat("0", 18 + 1 - Len(U64Digits(value))) \o U64Digits(value)
      BY <1>1, <1>3, <2>1
    <2>3. PICK whole : whole = Len(padded) - 18
      OBVIOUS
    <2>4. PointedDigits(value) =
              SubSeq(padded, 1, whole) \o <<".">> \o SubSeq(padded, whole + 1, Len(padded))
      BY <2>2, <2>3 DEF PointedDigits, DECIMALS
    <2>5. whole = p - 1 /\ whole + 1 = p /\ Len(padded) = p + 17
      BY <1>7, <1>9, <2>3
    <2> QED BY <1>11, <2>4, <2>5
  <1> QED BY <1>2, <1>5, <1>9, <1>10, <1>12, <1>13 DEF Padding

LEMMA CommonSet ==
    ASSUME NEW t, NEW u, NEW v, IsText(t), IsText(u), IsText(v)
    PROVE  \E S : t \in Seq(S) /\ u \in Seq(S) /\ v \in Seq(S)
  <1>1. PICK S : S = {t[i] : i \in 1 .. Len(t)} \cup {u[i] : i \in 1 .. Len(u)}
                        \cup {v[i] : i \in 1 .. Len(v)}
    OBVIOUS
  <1>2. /\ \A i \in 1 .. Len(t) : t[i] \in S
        /\ \A i \in 1 .. Len(u) : u[i] \in S
        /\ \A i \in 1 .. Len(v) : v[i] \in S
    BY <1>1
  <1>3. t \in Seq(S) /\ u \in Seq(S) /\ v \in Seq(S)
    BY <1>2, TextOfElements
  <1> QED BY <1>3

\* What print_amount keeps of the number.
LEMMA WithoutZerosIs ==
    ASSUME NEW digits, NEW p, Splitting(digits, p), p <= 7,
           NEW full, PointedAt(full, digits, p)
    PROVE  AmountUpTo(WithoutZeros(full), Value(digits, 10), 25)
  <1>1. p \in Nat /\ p >= 2
    BY DEF Splitting
  <1>2. IsText(full) /\ Len(full) = p + 18 /\ full[p] = "."
    BY DEF PointedAt
  <1>3. PICK N \in Nat : N = p + 18
    BY <1>1
  <1>4. PICK last : last = CHOOSE i \in 1 .. N : KeptAt(full, 1, N, i)
    OBVIOUS
  <1>5. last \in 1 .. N /\ KeptAt(full, 1, N, last)
    <2>1. 1 <= N
      BY <1>1, <1>3
    <2>2. \E i \in 1 .. N : KeptAt(full, 1, N, i)
      BY <2>1, LastKept
    <2> QED BY <1>4, <2>2
  <1>6. \A j \in last + 1 .. N : full[j] = "0"
    BY <1>5 DEF KeptAt
  <1>7. last >= p
    <2> SUFFICES ASSUME ~(last >= p)
                 PROVE  FALSE
      OBVIOUS
    <2>1. p \in last + 1 .. N
      BY <1>1, <1>3, <1>5
    <2>2. full[p] = "0"
      BY <1>6, <2>1
    <2>3. Decimals[1] = "0" /\ Decimals[1] # "."
      BY DecimalsAre
    <2> QED BY <1>2, <2>2, <2>3
  <1>8. full[last] = "." => last = p
    BY <1>3, <1>5, OnlyPoint
  <1>9. PICK e : e = IF full[last] = "." THEN last - 1 ELSE last
    OBVIOUS
  <1>10. KeptOf(full, p, e)
    <2>1. PICK a \in Nat : a = 1
      OBVIOUS
    <2>2. last \in a .. p + 18 /\ a <= p + 18 /\ \A j \in last + 1 .. p + 18 : full[j] = "0"
      BY <1>1, <1>3, <1>5, <1>6, <2>1
    <2> QED BY <1>1, <1>2, <1>7, <1>8, <1>9, <2>2, KeptWithoutPoint
  <1>11. AmountUpTo(SubSeq(full, 1, e), Value(digits, 10), p + 18)
    BY <1>10, AmountKept
  <1>12. WithoutZeros(full) = SubSeq(full, 1, e)
    BY <1>2, <1>3, <1>4, <1>9 DEF WithoutZeros, KeptAt
  <1>13. PICK part : part = WithoutZeros(full)
    OBVIOUS
  <1>14. AmountUpTo(part, Value(digits, 10), p + 18)
    BY <1>11, <1>12, <1>13
  <1>15. PICK l \in Nat : l = Len(part)
    BY <1>14 DEF AmountUpTo, Amounts, Plain, IsText
  <1>16. l <= p + 18
    BY <1>14, <1>15 DEF AmountUpTo
  <1>17. l <= 25
    BY <1>1, <1>16
  <1> QED BY <1>13, <1>14, <1>15, <1>17 DEF AmountUpTo

\* The ticker after an amount.
LEMMA TickerBehind ==
    ASSUME NEW value \in Seq(Byte), NEW t, AmountUpTo(t, Value(value, 256), 25)
    PROVE  LET s == t \o <<" ">> \o SYMBOL
           IN  Plain(s) /\ Len(s) <= 30 /\ DenotesAmount(s, value)
  <1>1. Amounts(t, Value(value, 256)) /\ Len(t) <= 25 /\ Plain(t) /\ IsText(t) /\ Len(t) \in Nat
    BY DEF AmountUpTo, Amounts, Plain, IsText
  <1>2. PICK end : end = <<" ">> \o SYMBOL
    BY Zenon
  <1>3. Plain(end) /\ Len(end) = 5 /\ IsText(end)
    BY <1>2, TickerText, Zenon DEF Plain
  <1>4. PICK s : s = t \o end
    OBVIOUS
  <1>5. Plain(s) /\ Len(s) = Len(t) + 5
    BY <1>1, <1>3, <1>4, PlainJoin
  <1>6. PICK m \in Nat, n \in Nat : m = Len(t) /\ n = Len(t) + 5
    BY <1>1
  <1>7. m = Len(t) /\ n = Len(t) + Len(end) /\ Len(s) = n /\ m + 1 = n - 4 /\ m = n - 5
    BY <1>3, <1>5, <1>6
  <1>8. TwoParts(s, t, end, m, n)
    BY <1>1, <1>3, <1>4, <1>7, PartsOfJoined
  <1>9. SubSeq(s, 1, Len(s) - 5) = t /\ SubSeq(s, Len(s) - 4, Len(s)) = end
    BY <1>7, <1>8 DEF TwoParts
  <1>10. NumberRead(Scaled(t), Decimals) = Significant(value)
    BY <1>1, AmountRead
  <1>11. DenotesAmount(s, value)
    BY <1>2, <1>9, <1>10, Zenon DEF DenotesAmount
  <1>12. Len(s) <= 30
    BY <1>1, <1>5
  <1>13. t \o <<" ">> \o SYMBOL = s
    <2>1. PICK space : space = <<" ">>
      BY Zenon
    <2>2. IsText(space) /\ IsText(SYMBOL)
      <3>1. PICK c : c = " "
        BY Zenon
      <3>2. <<c>> \in Seq({c})
        OBVIOUS
      <3>3. IsText(<<c>>)
        BY <3>2, SeqIsText
      <3>4. IsText(SYMBOL)
        BY DEF SYMBOL, IsText
      <3> QED BY <2>1, <3>1, <3>3, <3>4, Zenon
    <2>3. (t \o space) \o SYMBOL = t \o (space \o SYMBOL)
      <3>1. PICK S : t \in Seq(S) /\ space \in Seq(S) /\ SYMBOL \in Seq(S)
        BY <1>1, <2>2, CommonSet
      <3> QED BY <3>1
    <2> QED BY <1>2, <1>4, <2>1, <2>3, Zenon
  <1> QED BY <1>5, <1>11, <1>12, <1>13, Zenon

LEMMA HexDigitsAre == \A h \in 0 .. 15 : hexDigits[h + 1] # Nul
  <1>1. PICK letters : letters = <<"A", "B", "C", "D", "E", "F">>
    OBVIOUS
  <1>2. IsText(letters) /\ Len(letters) = 6 /\ \A i \in 1 .. 6 : letters[i] # Nul
    BY <1>1 DEF IsText, Nul
  <1>3. IsText(Decimals) /\ Len(Decimals) = 10
    BY DEF Decimals, IsText
  <1>4. \A i \in 1 .. 10 : Decimals[i] # Nul
    BY DecimalsAre
  <1>5. Plain(hexDigits) /\ Len(hexDigits) = 16
    <2>1. Plain(letters) /\ Plain(Decimals)
      BY <1>2, <1>3, <1>4 DEF Plain
    <2>2. hexDigits = Decimals \o letters
      BY <1>1 DEF hexDigits
    <2>3. Plain(hexDigits) /\ Len(hexDigits) = Len(Decimals) + Len(letters)
      BY <2>1, <2>2, PlainJoin
    <2> QED BY <1>2, <1>3, <2>3
  <1>6. \A h \in 0 .. 15 : h + 1 \in 1 .. 16
    OBVIOUS
  <1> QED BY <1>5, <1>6 DEF Plain

LEMMA AmountShown ==
    ASSUME NEW value \in Seq(Byte), Len(value) <= 8,
           NEW out, IsText(out), Len(out) = TEXT_BUFFER_LENGTH
    PROVE  \E s : /\ TextOf(print_amount(value, out), s)
                  /\ DenotesAmount(s, value) /\ Len(s) < BASE58_PUBKEY_LENGTH
  <1>1. PICK all, p : /\ Splitting(all, p) /\ p <= 7
                      /\ PointedAt(PointedDigits(value), all, p)
                      /\ Value(all, 10) = Value(value, 256)
    BY PointedDigitsAre
  <1>2. PICK full, t : full = PointedDigits(value) /\ t = WithoutZeros(full)
    OBVIOUS
  <1>3. AmountUpTo(t, Value(value, 256), 25)
    BY <1>1, <1>2, WithoutZerosIs
  <1>4. PICK s : s = t \o <<" ">> \o SYMBOL
    BY Zenon
  <1>5. Plain(s) /\ Len(s) <= 30 /\ DenotesAmount(s, value)
    BY <1>3, <1>4, TickerBehind, Zenon
  <1>6. PICK buffer : buffer = Overwrite(out, full)
    OBVIOUS
  <1>7. IsText(buffer) /\ Len(buffer) = TEXT_BUFFER_LENGTH
    <2>1. DOMAIN out = 1 .. TEXT_BUFFER_LENGTH /\ TEXT_BUFFER_LENGTH \in Nat
      BY DEF IsText, TEXT_BUFFER_LENGTH
    <2>2. buffer = [i \in 1 .. TEXT_BUFFER_LENGTH |-> buffer[i]]
      BY <1>6, <2>1 DEF Overwrite
    <2> QED BY <2>1, <2>2, TextIs
  <1>8. print_amount(value, out) = Overwrite(buffer, s \o <<Nul>>)
    BY <1>2, <1>4, <1>6, Zenon DEF print_amount
  <1>9. Len(s) \in Nat
    BY <1>5 DEF Plain, IsText
  <1>10. Len(s) < TEXT_BUFFER_LENGTH /\ Len(s) < BASE58_PUBKEY_LENGTH
    BY <1>5, <1>9 DEF TEXT_BUFFER_LENGTH, BASE58_PUBKEY_LENGTH
  <1>11. TextOf(Overwrite(buffer, s \o <<Nul>>), s)
    BY <1>5, <1>7, <1>10, Overwritten
  <1> QED BY <1>5, <1>8, <1>10, <1>11

\* Two characters for each byte: the k-th is of this byte.
HexOf(byte, k) == hexDigits[1 + (IF k % 2 = 1 THEN byte \div 16 ELSE byte % 16)]

LEMMA PubkeyShown ==
    ASSUME NEW value \in Seq(Byte), Len(value) = 20,
           NEW out, IsText(out), Len(out) = TEXT_BUFFER_LENGTH
    PROVE  \E s : TextOf(print_pubkey(value, out), s) /\ DenotesPubkey(s, value)
  <1>1. PICK s : s = [i \in 1 .. 2 * Len(value) |->
                         LET byte == value[(i + 1) \div 2]
                         IN  hexDigits[1 + (IF i % 2 = 1 THEN byte \div 16 ELSE byte % 16)]]
    OBVIOUS
  <1>2. IsText(s) /\ Len(s) = 40 /\ \A k \in 1 .. 40 : s[k] = HexOf(value[(k + 1) \div 2], k)
    BY <1>1 DEF IsText, HexOf
  <1>3. \A h \in 0 .. 15 : hexDigits[h + 1] # Nul
    BY HexDigitsAre
  <1>4. ASSUME NEW i \in 1 .. 20
        PROVE  \E hi, lo \in 0 .. 15 : /\ value[i] = 16 * hi + lo
                                       /\ s[2 * i - 1] = hexDigits[hi + 1]
                                       /\ s[2 * i] = hexDigits[lo + 1]
    <2>1. PICK byte \in 0 .. 255 : byte = value[i]
      BY ElementOf DEF Byte
    <2>2. PICK hi, lo : hi = byte \div 16 /\ lo = byte % 16
      OBVIOUS
    <2>3. hi \in 0 .. 15 /\ lo \in 0 .. 15 /\ byte = 16 * hi + lo
      BY <2>2
    <2>4. s[2 * i - 1] = hexDigits[hi + 1]
      <3>1. PICK k : k = 2 * i - 1
        OBVIOUS
      <3>2. k \in 1 .. 40 /\ (k + 1) \div 2 = i /\ k % 2 = 1
        BY <3>1
      <3>3. s[k] = hexDigits[1 + hi]
        <4>1. s[k] = HexOf(byte, k)
          BY <1>2, <2>1, <3>2
        <4> QED BY <2>2, <3>2, <4>1 DEF HexOf
      <3>4. 1 + hi = hi + 1
        BY <2>3
      <3> QED BY <3>1, <3>3, <3>4
    <2>5. s[2 * i] = hexDigits[lo + 1]
      <3>1. PICK k : k = 2 * i
        OBVIOUS
      <3>2. k \in 1 .. 40 /\ (k + 1) \div 2 = i /\ k % 2 # 1
        BY <3>1
      <3>3. s[k] = hexDigits[1 + lo]
        <4>1. s[k] = HexOf(byte, k)
          BY <1>2, <2>1, <3>2
        <4> QED BY <2>2, <3>2, <4>1 DEF HexOf
      <3>4. 1 + lo = lo + 1
        BY <2>3
      <3> QED BY <3>1, <3>3, <3>4
    <2> QED BY <2>1, <2>3, <2>4, <2>5
  <1>5. ASSUME NEW k \in 1 .. 40
        PROVE  s[k] # Nul
    <2>1. PICK i \in 1 .. 20 : k = 2 * i - 1 \/ k = 2 * i
      OBVIOUS
    <2>2. PICK hi \in 0 .. 15, lo \in 0 .. 15 : /\ s[2 * i - 1] = hexDigits[hi + 1]
                                                /\ s[2 * i] = hexDigits[lo + 1]
      BY <1>4, Zenon
    <2>3. hexDigits[hi + 1] # Nul /\ hexDigits[lo + 1] # Nul
      BY <1>3
    <2> QED BY <2>1, <2>2, <2>3
  <1>6. Plain(s)
    BY <1>2, <1>5 DEF Plain
  <1>7. TextOf(Overwrite(out, s \o <<Nul>>), s)
    <2>1. Len(s) < TEXT_BUFFER_LENGTH
      BY <1>2 DEF TEXT_BUFFER_LENGTH
    <2> QED BY <1>6, <2>1, Overwritten
  <1>8. print_pubkey(value, out) = Overwrite(out, s \o <<Nul>>)
    <2>1. s = [i \in 1 .. 2 * Len(value) |-> HexOf(value[(i + 1) \div 2], i)]
      BY <1>1 DEF HexOf
    <2> QED BY <2>1 DEF print_pubkey, HexOf
  <1>9. DenotesPubkey(s, value)
    <2>1. Len(s) = 2 * Len(value) /\ DOMAIN value = 1 .. 20
      BY <1>2
    <2> QED BY <1>4, <2>1, Zenon DEF DenotesPubkey
  <1> QED BY <1>7, <1>8, <1>9

-----------------------------------------------------------------------------
(* The text under the title.                                               *)

LEMMA StringDenoted ==
    ASSUME NEW string, Len(string) \in Nat
    PROVE  DenotesString(Cut(string), string)
  <1>1. CASE Len(string) < TEXT_BUFFER_LENGTH
    BY <1>1 DEF Cut, DenotesString
  <1>2. CASE ~(Len(string) < TEXT_BUFFER_LENGTH)
    <2>1. Len(string) >= TEXT_BUFFER_LENGTH
      BY <1>2 DEF TEXT_BUFFER_LENGTH
    <2>2. Cut(string) = Append(SubSeq(string, 1, TEXT_BUFFER_LENGTH - 2), "~")
      BY <1>2, Zenon DEF Cut
    <2> QED BY <2>1, <2>2, Zenon DEF DenotesString
  <1> QED BY <1>1, <1>2

\* What an item that does not fail leaves in the buffer, whatever was there.
LEMMA ItemShown ==
    ASSUME NEW item \in Items, ~Fails(item),
           NEW out, IsText(out), Len(out) = TEXT_BUFFER_LENGTH
    PROVE  Shows(Printed(item, out), item)
  <1> DEFINE value == item.value
  <1>1. CASE item.kind = "token"
    <2>1. value \in Seq(Byte) /\ Len(value) <= 32
      BY <1>1, ItemsAssumption DEF INT256_LENGTH
    <2>2. TokenFits(value)
      BY <1>1 DEF Fails
    <2>3. PICK s : TextOf(print_sized_string(TokenText(value), out), s) /\ DenotesToken(s, value)
      BY <2>1, <2>2, TokenShown
    <2>4. Printed(item, out) = print_sized_string(TokenText(value), out)
      BY <1>1 DEF Printed
    <2>5. Denotes(s, item) /\ item.kind # "amount"
      BY <1>1, <2>3 DEF Denotes
    <2> QED BY <2>3, <2>4, <2>5 DEF Shows
  <1>2. CASE item.kind = "u64"
    <2>1. value \in Seq(Byte) /\ Len(value) <= 8
      BY <1>2, ItemsAssumption
    <2>2. PICK s : TextOf(print_u64(value, out), s) /\ DenotesU64(s, value)
      BY <2>1, U64Shown
    <2>3. Printed(item, out) = print_u64(value, out)
      BY <1>2 DEF Printed
    <2>4. Denotes(s, item) /\ item.kind # "amount"
      BY <1>2, <2>2 DEF Denotes
    <2> QED BY <2>2, <2>3, <2>4 DEF Shows
  <1>3. CASE item.kind = "amount"
    <2>1. value \in Seq(Byte) /\ Len(value) <= 8
      BY <1>3, ItemsAssumption
    <2>2. PICK s : /\ TextOf(print_amount(value, out), s)
                   /\ DenotesAmount(s, value) /\ Len(s) < BASE58_PUBKEY_LENGTH
      BY <2>1, AmountShown
    <2>3. Printed(item, out) = print_amount(value, out)
      BY <1>3 DEF Printed
    <2>4. Denotes(s, item)
      BY <1>3, <2>2 DEF Denotes
    <2> QED BY <2>2, <2>3, <2>4 DEF Shows
  <1>4. CASE item.kind = "pubkey"
    <2>1. value \in Seq(Byte) /\ Len(value) = 20
      BY <1>4, ItemsAssumption
    <2>2. PICK s : TextOf(print_pubkey(value, out), s) /\ DenotesPubkey(s, value)
      BY <2>1, PubkeyShown
    <2>3. Printed(item, out) = print_pubkey(value, out)
      BY <1>4 DEF Printed
    <2>4. Denotes(s, item) /\ item.kind # "amount"
      BY <1>4, <2>2 DEF Denotes
    <2> QED BY <2>2, <2>3, <2>4 DEF Shows
  <1>5. CASE item.kind = "sized"
    <2>1. value \in Seq(STRING) /\ \A i \in DOMAIN value : value[i] # Nul
      BY <1>5, ItemsAssumption
    <2>2. IsText(value) /\ DOMAIN value = 1 .. Len(value) /\ Len(value) \in Nat
      BY <2>1, SeqIsText
    <2>3. Plain(value)
      BY <2>1, <2>2 DEF Plain
    <2>4. TextOf(print_sized_string(value, out), Cut(value))
      BY <2>3, SizedStringShown
    <2>5. Printed(item, out) = print_sized_string(value, out)
      BY <1>5 DEF Printed
    <2>6. DenotesString(Cut(value), value)
      BY <2>2, StringDenoted
    <2>7. Denotes(Cut(value), item) /\ item.kind # "amount"
      BY <1>5, <2>6 DEF Denotes
    <2> QED BY <2>4, <2>5, <2>7 DEF Shows
  <1> QED BY <1>1, <1>2, <1>3, <1>4, <1>5, ItemsAssumption

\* The buffer as a reset leaves it.
LEMMA ClearBuffer == Shows(Repeat(Nul, TEXT_BUFFER_LENGTH), NoTitle)
  <1>0. PICK k \in Nat : k = TEXT_BUFFER_LENGTH
    BY DEF TEXT_BUFFER_LENGTH
  <1>1. PICK buffer, s : /\ k = TEXT_BUFFER_LENGTH /\ buffer = Repeat(Nul, k)
                         /\ s = <<>>
    BY <1>0
  <1>2. IsText(buffer) /\ Len(buffer) = k /\ \A i \in 1 .. k : buffer[i] = Nul
    BY <1>1, RepeatText
  <1>3. Plain(s) /\ Len(s) = 0
    BY <1>1 DEF Plain, IsText
  <1>4. TextOf(buffer, s)
    <2>1. k = 50 /\ Len(s) + 1 \in 1 .. k
      BY <1>1, <1>3 DEF TEXT_BUFFER_LENGTH
    <2>2. Len(s) < TEXT_BUFFER_LENGTH
      BY <1>1, <1>3, <2>1
    <2> QED BY <1>1, <1>2, <1>3, <2>1, <2>2 DEF TextOf
  <1>5. Denotes(s, NoTitle) /\ NoTitle.kind # "amount"
    BY <1>1 DEF Denotes, NoTitle
  <1> QED BY <1>1, <1>4, <1>5 DEF Shows

TextInv == Shows(text, title)

LEMMA TextInvariant == OutputSpec => []TextInv
  <1>1. OutputInit => TextInv
    BY ClearBuffer DEF OutputInit, Init, TextInv
  <1>2. TextInv /\ [OutputNext]_outputVars => TextInv'
    <2> SUFFICES ASSUME TextInv, [OutputNext]_outputVars
                 PROVE  TextInv'
      OBVIOUS
    <2>1. ASSUME text' = text, title' = title
          PROVE  TextInv'
      <3>1. Shows(text, title)
        BY DEF TextInv
      <3>2. TextInv' <=> Shows(text', title')
        BY DEF TextInv
      <3> QED BY <2>1, <3>1, <3>2
    <2>2. ASSUME NEW item \in Items, Show(item)
          PROVE  TextInv'
      <3>1. CASE Fails(item)
        <4>1. text' = text /\ title' = title
          BY <2>2, <3>1 DEF Show, DisplayItem
        <4> QED BY <2>1, <4>1
      <3>2. CASE ~Fails(item)
        <4>1. text' = Printed(item, text) /\ title' = item
          BY <2>2, <3>2 DEF Show, DisplayItem
        <4>2. IsText(text) /\ Len(text) = TEXT_BUFFER_LENGTH
          BY DEF TextInv, Shows, TextOf
        <4>3. Shows(Printed(item, text), item)
          BY <3>2, <4>2, ItemShown
        <4>4. TextInv' <=> Shows(text', title')
          BY DEF TextInv
        <4> QED BY <4>1, <4>3, <4>4
      <3> QED BY <3>1, <3>2
    <2>3. ASSUME NEW x \in Signatures, Approve(x)
          PROVE  TextInv'
      BY <2>1, <2>3 DEF Approve
    <2>4. CASE NextRequest
      <3>1. text' = Repeat(Nul, TEXT_BUFFER_LENGTH) /\ title' = NoTitle
        BY <2>4 DEF NextRequest, transaction_summary_reset
      <3>2. TextInv' <=> Shows(text', title')
        BY DEF TextInv
      <3> QED BY <3>1, <3>2, ClearBuffer
    <2>5. CASE UNCHANGED outputVars
      BY <2>1, <2>5 DEF outputVars, printingVars
    <2> QED BY <2>2, <2>3, <2>4, <2>5 DEF OutputNext
  <1> QED BY <1>1, <1>2, PTL DEF OutputSpec

\* For any items, displayed in any order over what the ones before left: the
\* text under a title is the value of that title's item, and all of it
\* (transaction_summary.c, printer.c, util.h:104).
THEOREM TextIsItsItems == OutputSpec => []TextIsOfTitle
  <1>1. TextInv => TextIsOfTitle
    <2> SUFFICES ASSUME TextInv
                 PROVE  TextIsOfTitle
      OBVIOUS
    <2>1. PICK s : TextOf(text, s) /\ Denotes(s, title)
      BY DEF TextInv, Shows
    <2>2. CString(text) = s
      BY <2>1, CStringOf
    <2> QED BY <2>1, <2>2 DEF TextIsOfTitle
  <1> QED BY <1>1, TextInvariant, PTL

\* The terminator always stands within the buffer, and within the narrower one
\* that print_amount is told of (printer.c, transaction_summary.h).
THEOREM TextEndsInBuffer == OutputSpec => []TextEnds
  <1>1. TextInv => TextEnds
    <2> SUFFICES ASSUME TextInv
                 PROVE  TextEnds
      OBVIOUS
    <2>1. PICK s : /\ TextOf(text, s)
                   /\ title.kind = "amount" => Len(s) < BASE58_PUBKEY_LENGTH
      BY DEF TextInv, Shows
    <2>2. CString(text) = s
      BY <2>1, CStringOf
    <2>3. Len(text) = TEXT_BUFFER_LENGTH /\ Len(s) < TEXT_BUFFER_LENGTH
      BY <2>1 DEF TextOf
    <2> QED BY <2>1, <2>2, <2>3 DEF TextEnds
  <1> QED BY <1>1, TextInvariant, PTL
=============================================================================
