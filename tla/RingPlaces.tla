----------------------------- MODULE RingPlaces -----------------------------
(***************************************************************************)
(* What a place in the ring is.  master.py admits slaves one after the     *)
(* other and tells each of them a ring ID and the IP address of the member *)
(* in front of it: the slave admitted just before, or the master itself    *)
(* for the first one.                                                      *)
(***************************************************************************)
EXTENDS Naturals, Sequences

CONSTANTS
    Slaves,      \* join attempts: one iteration of a slave program's loop each
    Hosts,       \* the IP addresses of the machines involved
    HostOf,      \* the address each slave connects from (addr[0] of accept)
    MasterHost,  \* the master's own LAN address
    None         \* no slave, no place, no answer yet

ASSUME HostAssumption ==
    /\ HostOf \in [Slaves -> Hosts]
    /\ MasterHost \in Hosts

Places == [rid : Nat, next : Hosts]

ASSUME NoneAssumption == None \notin Slaves /\ None \notin Places

(***************************************************************************)
(* The address nextSlaveIP holds once the first k slaves of the admission  *)
(* order are in.                                                           *)
(***************************************************************************)
HostAt(order, k) == IF k = 0 THEN MasterHost ELSE HostOf[order[k]]

(***************************************************************************)
(* The place of the i-th slave admitted: pack_response runs before the     *)
(* counter and the address move on, so it carries the values left by the   *)
(* (i-1)-th admission.                                                     *)
(***************************************************************************)
PlaceAt(order, i) == [rid |-> i - 1, next |-> HostAt(order, i - 1)]
=============================================================================
