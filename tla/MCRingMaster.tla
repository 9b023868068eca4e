---------------------------- MODULE MCRingMaster ----------------------------
(***************************************************************************)
(* A small instance of RingMaster on its own: a slave program on the       *)
(* master's machine and a stranger that connects to the join port.         *)
(***************************************************************************)
EXTENDS RingMaster

CONSTANTS s1, x, hM, h2

MCSlaves    == {s1, x}
MCStrangers == {x}
MCHosts     == {hM, h2}
MCHostOf    == [s \in MCSlaves |-> IF s = s1 THEN hM ELSE h2]
=============================================================================
