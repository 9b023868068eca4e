----------------------------- MODULE MCTcpCalc -----------------------------
(* TcpCalc with a C client and a Python one. *)
EXTENDS TcpCalc

CONSTANTS c1, p1

Sum   == [op |-> ADDOP, one |-> 2, two |-> 3]
Shift == [op |-> RSOP, one |-> -3, two |-> 1]

MCQueries == {Sum, Shift}
MCOneQuery == {Sum}
MCGarbage == {7}
=============================================================================
