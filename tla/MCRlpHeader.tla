------------------------------ MODULE MCRlpHeader ------------------------------
(* The first bytes at every boundary of the decoder, and bytes of a length.  *)
EXTENDS RlpHeader

MCFirstBytes ==
    {0, 1, 127, 128, 129, 183, 184, 185, 186, 187, 188, 191, 192, 193, 247, 248, 249, 250, 251,
     252, 255}

\* Not above 127, so that a length of four bytes is an integer of TLC.
MCLengthBytes == {0, 1, 55, 127}
=============================================================================
