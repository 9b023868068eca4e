------------------------------ MODULE MCCodec ------------------------------
(* CodecCases over the edges of every width. *)
EXTENDS CodecCases

MCOperands  == {-32768, -32767, -256, -129, -1, 0, 1, 2, 15, 16, 17, 30, 31, 32, 127, 128,
                255, 256, 32767}
MCIDs       == {0, 255}
MCSomeBytes == {0, 1, 127, 128, 254, 255}
MCFiller    == [i \in 1 .. 62 |-> 65]
MCGarbage   == {-2147483647, 2147483647}
=============================================================================
