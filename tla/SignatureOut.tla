------------------------------ MODULE SignatureOut ------------------------------
(***************************************************************************)
(* The answer to an approved transaction: set_result_sign_message writes v *)
(* and format_signature_out writes r and s over the APDU in                *)
(* G_io_apdu_buffer (src/src/signLegacyTransaction.c).  A number is the    *)
(* sequence of its bytes, most significant first; the buffer is modelled   *)
(* as far as the answer goes.                                              *)
(***************************************************************************)
EXTENDS Integers, Sequences, Numerals

CONSTANTS
    Apdus,      \* what a request may have left in G_io_apdu_buffer
    Signatures  \* [r, s, chainID, odd, xGTn]: what may be signed, and under
                \* which chain id

VARIABLES
    apduBuffer,  \* G_io_apdu_buffer
    signed       \* history: the member of Signatures answered, or NotSigned

signatureVars == <<apduBuffer, signed>>

SIGNATURE_LENGTH == 64
NotSigned == [r |-> <<>>, s |-> <<>>, chainID |-> <<>>, odd |-> FALSE, xGTn |-> FALSE]

\* A DER integer is never empty, has no needless zero in front, and a scalar
\* is below the order of the curve.
ASSUME ApdusAssumption == Apdus \subseteq [1 .. SIGNATURE_LENGTH + 1 -> Byte]
ASSUME SignaturesAssumption ==
    \A x \in Signatures :
        /\ x.r \in Seq(Byte) /\ Len(x.r) \in 1 .. 32 /\ x.r[1] # 0
        /\ x.s \in Seq(Byte) /\ Len(x.s) \in 1 .. 32 /\ x.s[1] # 0
        /\ x.chainID \in Seq(Byte) /\ Len(x.chainID) <= 32
        /\ x.odd \in BOOLEAN /\ x.xGTn \in BOOLEAN

-----------------------------------------------------------------------------
\* cx_ecdsa_sign_no_throw: the DER encoding, where a number whose first bit
\* is set gets a zero in front.
DerInteger(n) ==
    LET content == IF n[1] >= 128 THEN <<0>> \o n ELSE n
    IN  <<2, Len(content)>> \o content
Der(r, s) ==
    LET content == DerInteger(r) \o DerInteger(s)
    IN  <<48, Len(content)>> \o content

\* The number at xoffset (from 0) of the encoding: the zero in front of 32
\* bytes is passed over, a shorter number keeps it.
Component(signature, xoffset) ==
    LET xlength == signature[xoffset]
    IN  IF xlength = 33 THEN [at |-> xoffset + 1, length |-> 32]
        ELSE [at |-> xoffset, length |-> xlength]

\* memmove to the right end of the 32 bytes at offset (from 0).
Place(buffer, offset, signature, c) ==
    LET from == offset + 32 - c.length
    IN  [i \in DOMAIN buffer |->
            IF i - 1 \in from .. offset + 31 THEN signature[c.at + i - from] ELSE buffer[i]]

\* Mutant: what the APDU left there is not cleared.
MutantCleared(buffer) == buffer

Cleared(buffer) ==
    [i \in DOMAIN buffer |-> IF i \in 2 .. SIGNATURE_LENGTH + 1 THEN 0 ELSE buffer[i]]

format_signature_out(buffer, signature) ==
    LET r == Component(signature, 4)
        s == Component(signature, r.at + r.length + 2)
    IN  Place(Place(Cleared(buffer), 1, signature, r), 33, signature, s)

\* Mutant: the id is read from its other end.
MutantChainByte(chainID) == IF chainID = <<>> THEN 0 ELSE chainID[1]

\* u64_from_BE of at most four bytes, of which the byte of v keeps the last.
ChainByte(chainID) ==
    IF chainID = <<>> THEN 0 ELSE chainID[IF Len(chainID) < 4 THEN Len(chainID) ELSE 4]

V(x) ==
    (2 * ChainByte(x.chainID) + 35 + (IF x.odd THEN 1 ELSE 0) + (IF x.xGTn THEN 2 ELSE 0)) % 256

set_result_sign_message(x) ==
    /\ apduBuffer' = format_signature_out([apduBuffer EXCEPT ![1] = V(x)], Der(x.r, x.s))
    /\ signed' = x

\* io_exchange receives the next request over the answer.
ReceiveRequest ==
    /\ apduBuffer' \in Apdus
    /\ signed' = NotSigned

SignatureInit ==
    /\ apduBuffer \in Apdus
    /\ signed = NotSigned

-----------------------------------------------------------------------------
\* The 32 bytes of a number.
Padded(n) == [i \in 1 .. 32 |-> IF i <= 32 - Len(n) THEN 0 ELSE n[i - (32 - Len(n))]]

\* The answer holds the numbers r and s of the signature, each in 32 bytes,
\* whatever their lengths in DER, and nothing of the request that lay in the
\* buffer (signLegacyTransaction.c:15, 20, 24, 30).
AnswerIsSignature ==
    signed # NotSigned =>
        /\ SubSeq(apduBuffer, 2, 33) = Padded(signed.r)
        /\ SubSeq(apduBuffer, 34, 65) = Padded(signed.s)

\* The v of EIP-155 in one byte, for the id: x says whether the y of the
\* signature is odd and whether its x went beyond the order of the curve.
EIP155(v, id, x) ==
    v = (2 * Value(id, 256) + 35 + (IF x.odd THEN 1 ELSE 0) + (IF x.xGTn THEN 2 ELSE 0)) % 256

\* The first byte of the answer is the v of EIP-155 for the chain id of the
\* transaction: of the whole number, with or without zeros in front, when the
\* id has at most four bytes.  Of a longer id it is the v of its four highest
\* bytes, as the comment at signLegacyTransaction.c:56 has it, which is not the
\* v of that id.
VIsOfChain ==
    signed # NotSigned =>
        EIP155(apduBuffer[1],
               IF Len(signed.chainID) <= 4 THEN signed.chainID ELSE SubSeq(signed.chainID, 1, 4),
               signed)
=============================================================================
