------------------------------ MODULE MCTxParser ------------------------------
(* The headers and lengths of the instances of TxParser.                   *)
EXTENDS TxParser

H(kind, size, length) == [kind |-> kind, size |-> size, length |-> length]

\* A byte, the empty string, short strings up to an address, one longer than
\* an address and one longer than an integer, a string with a long header,
\* lists with a short and a long header, and a header that is not decoded.
MCHeaders ==
    {H("byte", 1, 1), H("string", 1, 0), H("string", 1, 2), H("string", 1, 20),
     H("string", 1, 21), H("string", 1, 33), H("string", 3, 2),
     H("list", 1, 10), H("list", 2, 60), H("wide", 6, 0), H("wide", 7, 0)}

\* 16 bytes are the shortest deployment; 36 and more leave room for an
\* address in it.
MCLengths == {0, 1, 2, 3, 7, 8, 9, 10, 12, 14, 15, 16, 17, 20, 36, 37, 38}
=============================================================================
