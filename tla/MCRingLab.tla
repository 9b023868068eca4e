------------------------------ MODULE MCRingLab ------------------------------
(***************************************************************************)
(* Small instances of RingLab: slave.py on the master's own machine, two   *)
(* slave.c and a Lab3slave.c on another one.                               *)
(***************************************************************************)
EXTENDS RingLab, TLC

CONSTANTS s1, s2, s3, x, hM, h2

MCSlaves    == {s1, s2, s3, x}
MCStrangers == {x}
MCHosts     == {hM, h2}
MCHostOf    == [s \in MCSlaves |-> IF s = s1 THEN hM ELSE h2]
MCProgram   == (s1 :> "slave.py") @@ (s2 :> "slave.c") @@ (s3 :> "slave.c") @@ (x :> "Lab3slave.c")
MCSymmetry  == Permutations({s2, s3})
MCLeftovers == {[mastGID |-> 0, rID |-> 0, nextSlave |-> None]}
MCEphemeral == {32768}

\* One slave.c, on the master's machine this time, and the Lab3slave.c.
MCTwoSlaves  == {s2, x}
MCTwoHostOf  == [s \in MCTwoSlaves |-> IF s = s2 THEN hM ELSE h2]
MCTwoProgram == [s \in MCTwoSlaves |-> MCProgram[s]]

\* The two slave.c, the first on the master's machine, and the Lab3slave.c.
MCThreeSlaves  == {s2, s3, x}
MCThreeHostOf  == [s \in MCThreeSlaves |-> IF s = s2 THEN hM ELSE h2]
MCThreeProgram == [s \in MCThreeSlaves |-> MCProgram[s]]
=============================================================================
