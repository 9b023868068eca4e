----------------------------- MODULE MCUdpCalc -----------------------------
(***************************************************************************)
(* Small instances of UdpCalc: two users who add, shift by a negative      *)
(* count (undefined in C, an exception in Python) and mistype an opcode.   *)
(***************************************************************************)
EXTENDS UdpCalc, TLC

CONSTANTS c1, c2

MCClients   == {c1, c2}
MCOneClient == {c1}
Sum         == [op |-> ADDOP, one |-> 3, two |-> 4]
BadShift    == [op |-> LSOP, one |-> 1, two |-> -1]
BadOp       == [op |-> 6, one |-> 1, two |-> 1]
MCQueries     == {Sum, BadShift}
MCFewQueries  == {Sum, BadOp}
MCGarbage     == {5}
MCServers     == {"C", "Python"}
MCAnyBuild    == BOOLEAN
MCSoundBuild  == {FALSE}
MCSpilling    == {TRUE}
MCSymmetry    == Permutations(MCClients)
=============================================================================
