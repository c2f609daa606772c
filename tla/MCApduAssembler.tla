--------------------------- MODULE MCApduAssembler ---------------------------
(* The APDUs of the model-checked instances of ApduAssembler.              *)
EXTENDS ApduAssembler

Path1 == <<44>>
Path5 == <<44, 8217, 0, 0, 7>>
Path6 == <<44, 8217, 0, 0, 7, 7>>

\* A well-formed APDU with d bytes of payload after the path (and the
\* prefix of the deprecated sign command).
Apdu(i, p, ext, more, path, d) ==
    LET pathBytes == IF ext THEN 0 ELSE 1 + 4 * Len(path)
        prefixBytes == IF i = "DeprecatedSignMessage" THEN 2 ELSE 0
        lc == pathBytes + prefixBytes + d
    IN  [len |-> lc + HeaderLength(i), lc |-> lc, cla |-> TRUE, ins |-> i, p1 |-> p,
         extend |-> ext, more |-> more, path |-> path, prefix |-> d, content |-> d]

Good(ins, p1s, sizes) ==
    {Apdu(i, p, ext, more, Path1, d) :
        i \in ins, p \in p1s, ext \in BOOLEAN, more \in BOOLEAN, d \in sizes}

Malformed(a) ==
    {[a EXCEPT !.len = 1], [a EXCEPT !.cla = FALSE], [a EXCEPT !.ins = None],
     [a EXCEPT !.len = 4], [a EXCEPT !.len = a.len + 1], [a EXCEPT !.lc = a.lc + 1],
     [a EXCEPT !.lc = 256, !.len = 261], [a EXCEPT !.path = <<>>],
     [a EXCEPT !.path = Path6], [a EXCEPT !.path = Path5],
     [a EXCEPT !.lc = 0, !.len = HeaderLength(a.ins)],
     [a EXCEPT !.prefix = a.prefix + 1]}

\* Eight chunks of 160 bytes fill the 1280 bytes exactly; 250 is the most a
\* first chunk with a one-word path can carry, 255 the most an extension can.
Messages ==
    Good({"SignMessage"}, {0}, {0, 160}) \cup Good({"DeprecatedSignMessage"}, {1}, {160})
    \cup {Apdu("SignMessage", 1, TRUE, FALSE, Path1, 160),
          Apdu("DeprecatedSignMessage", 1, TRUE, TRUE, Path1, 0)}
    \cup {Apdu("SignMessage", 0, TRUE, TRUE, Path1, 255)}
Others ==
    Good({"SignLegacyTransaction"}, {0}, {160})
    \cup {Apdu("SignLegacyTransaction", 0, FALSE, FALSE, Path1, 250),
          Apdu("SignCancel", 2, TRUE, FALSE, Path1, 255),
          Apdu("SignCancel", 2, FALSE, FALSE, Path5, 234),
          Apdu("GetPubkey", 1, FALSE, FALSE, Path5, 0),
          Apdu("GetPubkey", 0, TRUE, FALSE, Path1, 0),
          Apdu("DeprecatedGetPubkey", 0, FALSE, FALSE, Path1, 0),
          [Apdu("GetAppConfiguration", 0, TRUE, FALSE, Path1, 0) EXCEPT !.lc = 0]}
MCApdus ==
    Messages \cup Others
    \cup Malformed(Apdu("SignMessage", 0, FALSE, TRUE, Path1, 160))
    \cup Malformed(Apdu("DeprecatedSignMessage", 1, FALSE, TRUE, Path1, 160))
    \cup Malformed(Apdu("GetPubkey", 1, FALSE, FALSE, Path1, 0))

\* A transaction in three chunks, the flags as in tests/apps/klaytn.py:134-149.
ChunkedTransaction ==
    Good({"SignLegacyTransaction", "SignSmartContractDeploy"}, {0}, {160})
=============================================================================
