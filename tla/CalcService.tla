---------------------------- MODULE CalcService ----------------------------
(***************************************************************************)
(* What the calculator promises its users, whatever the transport: each    *)
(* asks one thing at a time and is shown one answer to it, a result that a *)
(* server may give.  A user may leave at any time, and several may have to *)
(* leave together when a server goes down.                                 *)
(***************************************************************************)
CONSTANTS
    Users,
    Queries,
    ResultsOf  \* the results a query may have

VARIABLE session

Ready       == [at |-> "ready"]
Asked(q)    == [at |-> "asked", query |-> q]
Shown(q, r) == [at |-> "shown", query |-> q, result |-> r]
Left        == [at |-> "left"]

Init == session = [u \in Users |-> Ready]

Ask(u, q) ==
    /\ session[u] = Ready
    /\ session' = [session EXCEPT ![u] = Asked(q)]

Answer(u, q) ==
    /\ session[u] = Asked(q)
    /\ \E r \in ResultsOf[q] : session' = [session EXCEPT ![u] = Shown(q, r)]

Again(u) ==
    /\ session[u].at = "shown"
    /\ session' = [session EXCEPT ![u] = Ready]

Leave(S) == session' = [u \in Users |-> IF u \in S THEN Left ELSE session[u]]

Next ==
    \/ \E u \in Users, q \in Queries : Ask(u, q) \/ Answer(u, q)
    \/ \E u \in Users : Again(u)
    \/ \E S \in SUBSET Users : Leave(S)

Spec == Init /\ [][Next]_session
=============================================================================
