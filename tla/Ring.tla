-------------------------------- MODULE Ring --------------------------------
(***************************************************************************)
(* The promise of the join protocol, without threads, sockets or partial   *)
(* updates: slaves enter the ring one at a time, at the front, and every   *)
(* slave that learns a place learns the one its admission gave it.         *)
(* RingMaster is shown to implement this specification.                    *)
(***************************************************************************)
EXTENDS RingPlaces

VARIABLES
    ring,   \* the members in admission order; the last one is the head
    place   \* what each slave has learnt, None before that

Init ==
    /\ ring = << >>
    /\ place = [s \in Slaves |-> None]

\* The head of the ring moves to s, its counter and address at once.
Admit(s) ==
    /\ \A i \in 1 .. Len(ring) : ring[i] # s
    /\ ring' = Append(ring, s)
    /\ UNCHANGED place

\* The i-th member learns its place.
Learn(i) ==
    /\ place[ring[i]] = None
    /\ place' = [place EXCEPT ![ring[i]] = PlaceAt(ring, i)]
    /\ UNCHANGED ring

Next ==
    \/ \E s \in Slaves : Admit(s)
    \/ \E i \in 1 .. Len(ring) : Learn(i)

Spec == Init /\ [][Next]_<<ring, place>>
=============================================================================
