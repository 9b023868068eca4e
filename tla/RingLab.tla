------------------------------ MODULE RingLab ------------------------------
(***************************************************************************)
(* The ring lab as the repository ships it: the master of RingMaster with  *)
(* its three slave programs.  slave.py and slave.c send the request the    *)
(* master expects; Lab3slave.c sends another one (Codec's makeRequest), so *)
(* that it is one of RingMaster's strangers.  The two C programs look at   *)
(* no return code: when the connection ends without an answer they show    *)
(* the ring that happens to be in their unfilled buffer.  Lab3slave.c goes *)
(* on to open a socket for the datagrams of the ring.                      *)
(***************************************************************************)
EXTENDS RingMaster

Wire == INSTANCE Codec

CONSTANTS
    Program,    \* which program each slave runs
    Leftovers,  \* rings an unfilled response may hold
    Ephemeral   \* ports the kernel picks for a socket that was never bound

Rings   == [mastGID : Nat, rID : Nat, nextSlave : Hosts \cup {None}]
Sockets == [type : {"stream", "datagram"}, port : Nat]

Request(s) == IF Program[s] = "Lab3slave.c" THEN Wire!makeRequest ELSE Wire!pack_request

ASSUME LabAssumption ==
    /\ Program \in [Slaves -> {"slave.py", "slave.c", "Lab3slave.c"}]
    /\ Leftovers \subseteq Rings /\ None \notin Rings \cup Sockets
    /\ Ephemeral \subseteq Nat
    /\ Strangers = {s \in Slaves : ~ Wire!request_is_valid(Wire!unpack_request(Request(s)).magic)}

VARIABLES
    theRing,  \* what a slave has shown
    phase,    \* what a slave does after it has shown a ring
    sockUDP   \* the socket Lab3slave.c listens on

labVars == <<theRing, phase, sockUDP>>

LabInit ==
    /\ Init
    /\ theRing = [s \in Slaves |-> None]
    /\ phase = [s \in Slaves |-> "joining"]
    /\ sockUDP = [s \in Slaves |-> None]

\* makeRing on the eight bytes of an answer (see PlaceSurvives in CodecCases).
makeRing(p) == [mastGID |-> MASTER_ID, rID |-> p.rid, nextSlave |-> p.next]

-----------------------------------------------------------------------------
\* recv has filled the response.
ShowRing(s) ==
    /\ ReceivePlace(s)
    /\ theRing' = [theRing EXCEPT ![s] = makeRing(reply[s])]
    /\ phase' = [phase EXCEPT ![s] = "shown"]
    /\ UNCHANGED sockUDP

\* recv has returned nothing: unpacking raises.
PythonRaises(s) ==
    /\ Program[s] = "slave.py"
    /\ ReceiveEof(s)
    /\ phase' = [phase EXCEPT ![s] = "raised"]
    /\ UNCHANGED <<theRing, sockUDP>>

\* Mutant: nothing is shown.
ShowLeftover_Silent(s) ==
    /\ Program[s] # "slave.py"
    /\ ReceiveEof(s)
    /\ phase' = [phase EXCEPT ![s] = "shown"]
    /\ UNCHANGED <<theRing, sockUDP>>

\* recv has returned nothing, and the response is shown as it was.
ShowLeftover(s) ==
    /\ Program[s] # "slave.py"
    /\ ReceiveEof(s)
    /\ \E r \in Leftovers : theRing' = [theRing EXCEPT ![s] = r]
    /\ phase' = [phase EXCEPT ![s] = "shown"]
    /\ UNCHANGED sockUDP

(***************************************************************************)
(* Lab3slave.c only.  makeRequest has written over main's other variables: *)
(* in some builds res is one of them and reading it ends the program.  In  *)
(* the others the socket is made from res, the address of the master, like *)
(* the one for the join: a TCP socket.  It cannot be bound to that address *)
(* (the error is ignored), so listen gives it a port of the kernel's.      *)
(***************************************************************************)
Crash(s) ==
    /\ Program[s] = "Lab3slave.c" /\ phase[s] = "shown"
    /\ phase' = [phase EXCEPT ![s] = "crashed"]
    /\ UNCHANGED <<vars, theRing, sockUDP>>

Listen(s) ==
    /\ Program[s] = "Lab3slave.c" /\ phase[s] = "shown"
    /\ phase' = [phase EXCEPT ![s] = "listening"]
    /\ \E p \in Ephemeral : sockUDP' = [sockUDP EXCEPT ![s] = [type |-> "stream", port |-> p]]
    /\ UNCHANGED <<vars, theRing>>

\* The messages of a peer are shown or not (Codec's handleMessage) and change
\* nothing.  When the peer leaves, recv returns nothing, again and again.
AcceptPeer(s) ==
    /\ phase[s] = "listening"
    /\ phase' = [phase EXCEPT ![s] = "serving"]
    /\ UNCHANGED <<vars, theRing, sockUDP>>

PeerEnds(s) ==
    /\ phase[s] = "serving"
    /\ phase' = [phase EXCEPT ![s] = "spinning"]
    /\ UNCHANGED <<vars, theRing, sockUDP>>

\* recv reports an error and the program exits.
RecvFails(s) ==
    /\ phase[s] = "serving"
    /\ phase' = [phase EXCEPT ![s] = "exited"]
    /\ UNCHANGED <<vars, theRing, sockUDP>>

-----------------------------------------------------------------------------
SlaveProgram(s) ==
    \/ ShowRing(s) \/ PythonRaises(s) \/ ShowLeftover(s) \/ Crash(s) \/ Listen(s)
    \/ AcceptPeer(s) \/ PeerEnds(s) \/ RecvFails(s)

\* Every step of RingMaster but the two in which a slave reads its answer.
Elsewhere ==
    \/ \E s \in Slaves : Connect(s) \/ SendRequest(s) \/ Die(s)
    \/ AcceptStep
    \/ \E rid \in 0 .. MaxRID, text \in {"fits", "oversize"} : Prompt(rid, text)
    \/ PromptRaises
    \/ SendTo
    \/ \E d \in net : Receive(d)
    \/ ForwardMessage
    \/ \E d \in net : Vanish(d)

LabNext ==
    \/ \E s \in Slaves : SlaveProgram(s)
    \/ Elsewhere /\ UNCHANGED labVars

LabSpec == LabInit /\ [][LabNext]_<<vars, labVars>>

\* As in RingMaster; no peer has to come, to leave or to fail.
LabFairSpec ==
    /\ LabSpec /\ Fairness
    /\ \A s \in Slaves : WF_<<vars, labVars>>(Crash(s) \/ Listen(s))

-----------------------------------------------------------------------------
\* The programs' own variables keep to their kinds of value: a ring once
\* shown, a socket only where one was made (the locals of main).
LabTypeOK ==
    /\ theRing \in [Slaves -> Rings \cup {None}]
    /\ phase \in [Slaves -> {"joining", "shown", "raised", "crashed", "listening", "serving", "spinning", "exited"}]
    /\ sockUDP \in [Slaves -> Sockets \cup {None}]
    /\ \A s \in Slaves :
          /\ theRing[s] # None <=> phase[s] \notin {"joining", "raised"}
          /\ sockUDP[s] # None <=> phase[s] \in {"listening", "serving", "spinning", "exited"}

\* Although slave.c looks at no return code, the ring it shows is, like the
\* one slave.py shows, the ring of its own admission: the right count and the
\* address of the member before it.  As long as the master's process lives, only
\* an exception in accept_joins makes it show an unfilled buffer.  (Lab3slave.c,
\* never admitted, shows nothing else.)
ShownIsAdmission ==
    \A s \in Slaves : theRing[s] # None =>
        \/ \E i \in 1 .. Len(admitted) :
              admitted[i] = s /\ theRing[s] = makeRing(PlaceAt(admitted, i))
        \/ s \in Strangers
        \/ acceptPc = "dead"

\* A slave that was reported as malformed is left waiting: it learns that it
\* was turned away when the master serves the next connection, not before.
\* Every connection that follows sets it free.
TurnedAwayLearns ==
    \A s \in Strangers :
        (slavePc[s] = "asked" /\ conn = s /\ acceptPc = "accept" /\ backlog # << >>)
            ~> slavePc[s] # "asked"

-----------------------------------------------------------------------------
\* Lab3slave.c:148 says "Listen on port 10010 (MastGID*5) + RingID": the port
\* to which the datagrams of its ring go.
ListensOnRingPort ==
    \A s \in Slaves : phase[s] = "listening" =>
        sockUDP[s] = [type |-> "datagram", port |-> 10010 + theRing[s].mastGID * 5 + theRing[s].rID]
=============================================================================
