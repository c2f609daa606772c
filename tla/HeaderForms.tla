------------------------------ MODULE HeaderForms ------------------------------
(***************************************************************************)
(* The form of an RLP header as the parser meets it: its kind, its size in *)
(* bytes and the length it announces.  A "byte" is its own content; a      *)
(* "wide" header announces a length of more than 32 bits (first byte 0xbc  *)
(* to 0xbf, 0xfc to 0xff), which the parser does not decode.  RlpHeader    *)
(* shows of rlpCanDecode and rlpDecodeLength that they make these headers; *)
(* TxParser assumes it.                                                    *)
(***************************************************************************)
EXTENDS Integers

RLP_BUFFER_SIZE == 5

Kinds == {"byte", "string", "list", "wide"}
Header == [kind: Kinds, size: 1 .. 9, length: Nat]

\* A byte is a field of length one; a short header announces at most 55
\* bytes; sizeof(rlpBuffer) bounds the size of the others.
IsHeader(h) ==
    /\ h \in Header
    /\ h.kind = "byte" => h.size = 1 /\ h.length = 1
    /\ h.kind = "wide" <=> h.size > RLP_BUFFER_SIZE
    /\ h.size = 1 => h.length <= 55
=============================================================================
