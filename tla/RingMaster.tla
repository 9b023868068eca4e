----------------------------- MODULE RingMaster -----------------------------
(***************************************************************************)
(* Ring/master.py and the slaves that join it.  The master runs three      *)
(* threads over two unlocked attributes, nextSlaveRID and nextSlaveIP:     *)
(*                                                                         *)
(*   - accept_joins serves one TCP join connection at a time, answers with *)
(*     the current pair and then moves the pair on to the new slave;       *)
(*   - send_message_prompt sends what the user types to the pair;          *)
(*   - recv_handle_message prints a datagram that is for ring ID 0 and     *)
(*     forwards every other one to the pair.                               *)
(*                                                                         *)
(* Every read and every write of the pair that another thread can fall     *)
(* between is a step of its own.  A datagram is addressed when its target  *)
(* tuple has been evaluated: the rest of sendto is part of the delay of    *)
(* the network, which may lose and reorder datagrams.                      *)
(***************************************************************************)
EXTENDS RingPlaces

CONSTANTS
    Strangers,    \* the slaves whose first bytes do not carry the magic number
    Eof,          \* what recv returns once the master has dropped the connection
    MaxRID,       \* largest value of one unsigned byte (255 in the code)
    ListenQueue,  \* completed connections the kernel keeps for listen(1)
    MaxSends      \* bound: lines the user types at the prompt

ASSUME MasterAssumption ==
    /\ Strangers \subseteq Slaves
    /\ Eof # None /\ Eof \notin Places
    /\ MaxRID \in Nat /\ ListenQueue \in Nat /\ MaxSends \in Nat

VARIABLES
    nextSlaveRID, nextSlaveIP,            \* shared by the three threads
    acceptPc, conn, response, backlog,    \* accept_joins and its listening socket
    admitted,                             \* history: slaves packed a response, in order
    slavePc, reply, place,                \* the slave programs
    sendPc, outgoing, sendIP, sends,      \* send_message_prompt
    recvPc, held, recvIP, printed,        \* recv_handle_message
    net                                   \* datagrams in flight

target     == <<nextSlaveRID, nextSlaveIP>>
acceptVars == <<acceptPc, conn, response, backlog, admitted>>
slaveVars  == <<slavePc, reply, place>>
sendVars   == <<sendPc, outgoing, sendIP, sends>>
recvVars   == <<recvPc, held, recvIP, printed>>
vars       == <<target, acceptVars, slaveVars, sendVars, recvVars, net>>

MASTER_ID == 15
myRingID  == 0

Port(rid) == 10010 + MASTER_ID * 5 + rid

calculate_my_port == Port(myRingID)
\* Mutant: the master's own ring ID instead of the next slave's.
calculate_target_port_Own == Port(myRingID)

calculate_target_port == Port(nextSlaveRID)

(***************************************************************************)
(* The user's text fits the 71-byte buffer of recvfrom or is oversize; a   *)
(* datagram read through that buffer is cut.  Nothing decrements ttl.      *)
(***************************************************************************)
Texts     == {"fits", "oversize", "cut"}
Datagrams == [n : 1 .. MaxSends, ttl : {255}, rid : 0 .. MaxRID, text : Texts,
              ip : Hosts, port : Nat]

\* The bytes of a datagram before it has an address.
Messages == [n : 1 .. MaxSends, ttl : {255}, rid : 0 .. MaxRID, text : Texts]

AddressedTo(m, ip, port) ==
    [n |-> m.n, ttl |-> m.ttl, rid |-> m.rid, text |-> m.text, ip |-> ip, port |-> port]

ToMaster(d) == d.ip = MasterHost /\ d.port = calculate_my_port

-----------------------------------------------------------------------------
Init ==
    /\ nextSlaveRID = 0 /\ nextSlaveIP = MasterHost
    /\ acceptPc = "accept" /\ conn = None /\ response = None
    /\ backlog = << >> /\ admitted = << >>
    /\ slavePc = [s \in Slaves |-> "idle"]
    /\ reply = [s \in Slaves |-> None]
    /\ place = [s \in Slaves |-> None]
    /\ sendPc = "prompt" /\ outgoing = None /\ sendIP = MasterHost /\ sends = 0
    /\ recvPc = "listen" /\ held = None /\ recvIP = MasterHost /\ printed = {}
    /\ net = {}

-----------------------------------------------------------------------------
(* The slaves: connect, send the request, receive the answer.              *)

Connect(s) ==
    /\ slavePc[s] = "idle"
    /\ Len(backlog) < ListenQueue
    /\ slavePc' = [slavePc EXCEPT ![s] = "connected"]
    /\ backlog' = Append(backlog, s)
    /\ UNCHANGED <<target, acceptPc, conn, response, admitted, reply, place>>
    /\ UNCHANGED <<sendVars, recvVars, net>>

SendRequest(s) ==
    /\ slavePc[s] = "connected"
    /\ slavePc' = [slavePc EXCEPT ![s] = "asked"]
    /\ UNCHANGED <<target, acceptVars, reply, place, sendVars, recvVars, net>>

\* recv has returned the eight bytes of a response.
Answered(s) == reply[s] \notin {None, Eof}

ReceivePlace(s) ==
    /\ slavePc[s] = "asked" /\ Answered(s)
    /\ slavePc' = [slavePc EXCEPT ![s] = "joined"]
    /\ place' = [place EXCEPT ![s] = reply[s]]
    /\ UNCHANGED <<target, acceptVars, reply, sendVars, recvVars, net>>

\* recv returns no bytes: there is nothing to unpack and the program ends.
ReceiveEof(s) ==
    /\ slavePc[s] = "asked" /\ reply[s] = Eof
    /\ slavePc' = [slavePc EXCEPT ![s] = "turnedAway"]
    /\ UNCHANGED <<target, acceptVars, reply, place, sendVars, recvVars, net>>

\* The slave is killed before or after its request has left.
Die(s) ==
    /\ \/ /\ slavePc[s] = "connected"
          /\ slavePc' = [slavePc EXCEPT ![s] = "diedSilent"]
       \/ /\ slavePc[s] = "asked"
          /\ slavePc' = [slavePc EXCEPT ![s] = "diedAsked"]
    /\ UNCHANGED <<target, acceptVars, reply, place, sendVars, recvVars, net>>

-----------------------------------------------------------------------------
(* accept_joins.                                                           *)

\* Mutant: closing takes back an answer that has not been read.
DropConn_Always == reply' = [s \in Slaves |-> IF s = conn /\ slavePc[s] = "asked" THEN Eof ELSE reply[s]]

\* The last reference to a connection goes away and Python closes it.
DropConn == reply' = [s \in Slaves |-> IF s = conn /\ reply[s] = None THEN Eof ELSE reply[s]]

HasAsked(s) == slavePc[s] \in {"asked", "diedAsked"}

\* Mutant: the connection served stays at the front of the queue.
AcceptConn_Peek ==
    /\ acceptPc = "accept" /\ backlog # << >>
    /\ acceptPc' = "recv"
    /\ conn' = Head(backlog)
    /\ DropConn
    /\ UNCHANGED <<target, response, backlog, admitted, slavePc, place, sendVars, recvVars, net>>

\* Mutant: the connection served before stays open.
AcceptConn_NoClose ==
    /\ acceptPc = "accept" /\ backlog # << >>
    /\ acceptPc' = "recv"
    /\ conn' = Head(backlog)
    /\ backlog' = Tail(backlog)
    /\ UNCHANGED <<target, response, admitted, slaveVars, sendVars, recvVars, net>>

\* accept returns; rebinding conn closes the connection served before.
AcceptConn ==
    /\ acceptPc = "accept" /\ backlog # << >>
    /\ acceptPc' = "recv"
    /\ conn' = Head(backlog)
    /\ backlog' = Tail(backlog)
    /\ DropConn
    /\ UNCHANGED <<target, response, admitted, slavePc, place, sendVars, recvVars, net>>

\* Mutant: the answer carries the counter as it will be after this join.
pack_response_Late == [rid |-> nextSlaveRID + 1, next |-> nextSlaveIP]

pack_response == [rid |-> nextSlaveRID, next |-> nextSlaveIP]

\* A well-formed request: the answer is packed from the pair as it is now.
PackResponse ==
    /\ acceptPc = "recv" /\ HasAsked(conn) /\ conn \notin Strangers
    /\ nextSlaveRID <= MaxRID
    /\ response' = pack_response
    /\ admitted' = Append(admitted, conn)
    /\ acceptPc' = "packed"
    /\ UNCHANGED <<target, conn, backlog, slaveVars, sendVars, recvVars, net>>

\* Mutant: the counter does not move on.
NewRID_Forgotten == nextSlaveRID

NewRID == nextSlaveRID + 1

\* Mutant: the address is written before the counter.
BumpRID_AddressFirst ==
    /\ acceptPc = "packed"
    /\ nextSlaveIP' = HostOf[conn]
    /\ acceptPc' = "bumped"
    /\ UNCHANGED <<nextSlaveRID, conn, response, backlog, admitted>>
    /\ UNCHANGED <<slaveVars, sendVars, recvVars, net>>

BumpRID ==
    /\ acceptPc = "packed"
    /\ nextSlaveRID' = NewRID
    /\ acceptPc' = "bumped"
    /\ UNCHANGED <<nextSlaveIP, conn, response, backlog, admitted>>
    /\ UNCHANGED <<slaveVars, sendVars, recvVars, net>>

\* Mutant: the address told to the slave is kept as the next address.
NewIP_Stale == response.next

\* Mutant: the whole of addr instead of its first component.
NewIP_Whole == <<HostOf[conn], calculate_my_port>>

NewIP == HostOf[conn]

SetIP ==
    /\ acceptPc = "bumped"
    /\ nextSlaveIP' = NewIP
    /\ acceptPc' = "retargeted"
    /\ UNCHANGED <<nextSlaveRID, conn, response, backlog, admitted>>
    /\ UNCHANGED <<slaveVars, sendVars, recvVars, net>>

\* Mutant: the answer is never sent.
SendResponse_Missing ==
    /\ acceptPc = "retargeted"
    /\ acceptPc' = "accept"
    /\ UNCHANGED <<target, conn, response, backlog, admitted, slaveVars, sendVars, recvVars, net>>

\* sendall succeeds; if the slave is dead nobody reads what it sent.
SendResponse ==
    /\ acceptPc = "retargeted"
    /\ reply' = [reply EXCEPT ![conn] = response]
    /\ acceptPc' = "accept"
    /\ UNCHANGED <<target, conn, response, backlog, admitted, slavePc, place>>
    /\ UNCHANGED <<sendVars, recvVars, net>>

\* Mutant: the thread goes back to the same connection for a better request.
RejectMalformed_Retries ==
    /\ acceptPc = "recv" /\ HasAsked(conn) /\ conn \in Strangers
    /\ UNCHANGED vars

\* Another magic number: reported, not answered, and not closed.
RejectMalformed ==
    /\ acceptPc = "recv" /\ HasAsked(conn) /\ conn \in Strangers
    /\ acceptPc' = "accept"
    /\ UNCHANGED <<target, conn, response, backlog, admitted, slaveVars>>
    /\ UNCHANGED <<sendVars, recvVars, net>>

(***************************************************************************)
(* An exception nobody catches ends the thread, and with it every later    *)
(* join: an empty request cannot be unpacked, a ring ID beyond one byte    *)
(* cannot be packed, sendall finds the slave gone.                         *)
(***************************************************************************)
AcceptThreadDies ==
    /\ \/ acceptPc = "recv" /\ slavePc[conn] = "diedSilent"
       \/ /\ acceptPc = "recv" /\ HasAsked(conn) /\ conn \notin Strangers
          /\ nextSlaveRID > MaxRID
       \/ acceptPc = "retargeted" /\ slavePc[conn] = "diedAsked"
    /\ acceptPc' = "dead"
    /\ DropConn
    /\ UNCHANGED <<target, conn, response, backlog, admitted, slavePc, place>>
    /\ UNCHANGED <<sendVars, recvVars, net>>

-----------------------------------------------------------------------------
(* send_message_prompt: the address is read first, then the ring ID.       *)

Prompt(rid, text) ==
    /\ sendPc = "prompt" /\ sends < MaxSends
    /\ rid <= MaxRID
    /\ outgoing' = [n |-> sends + 1, ttl |-> 255, rid |-> rid, text |-> text]
    /\ sendIP' = nextSlaveIP
    /\ sends' = sends + 1
    /\ sendPc' = "aimed"
    /\ UNCHANGED <<target, acceptVars, slaveVars, recvVars, net>>

\* The ring ID typed does not fit one byte: form_datagram raises.
PromptRaises ==
    /\ sendPc = "prompt" /\ sends < MaxSends
    /\ sendPc' = "dead"
    /\ UNCHANGED <<target, acceptVars, slaveVars, outgoing, sendIP, sends, recvVars, net>>

\* Mutant: the line is sent again and again.
SendTo_Repeats ==
    /\ sendPc = "aimed"
    /\ net' = net \cup {AddressedTo(outgoing, sendIP, calculate_target_port)}
    /\ UNCHANGED <<target, acceptVars, slaveVars, sendVars, recvVars>>

SendTo ==
    /\ sendPc = "aimed"
    /\ net' = net \cup {AddressedTo(outgoing, sendIP, calculate_target_port)}
    /\ sendPc' = "prompt"
    /\ UNCHANGED <<target, acceptVars, slaveVars, outgoing, sendIP, sends, recvVars>>

-----------------------------------------------------------------------------
(* recv_handle_message.                                                    *)

\* What recvfrom leaves of a datagram.
ThroughBuffer(d) == IF d.text = "oversize" THEN "cut" ELSE d.text

\* An uncut datagram carries its checksum; the last byte of one cut here is
\* arbitrary text that may or may not complete the sum to 0xFF.
verify_checksum(d) == IF d.text = "oversize" THEN BOOLEAN ELSE {TRUE}

i_am_recipient(d) == d.rid = myRingID

Receive(d) ==
    /\ recvPc = "listen" /\ ToMaster(d)
    /\ net' = net \ {d}
    /\ \/ /\ FALSE \in verify_checksum(d)
          /\ UNCHANGED recvVars
       \/ /\ TRUE \in verify_checksum(d) /\ i_am_recipient(d)
          /\ printed' = printed \cup {d.n}
          /\ UNCHANGED <<recvPc, held, recvIP>>
       \/ /\ TRUE \in verify_checksum(d) /\ ~ i_am_recipient(d)
          /\ held' = [n |-> d.n, ttl |-> d.ttl, rid |-> d.rid, text |-> ThroughBuffer(d)]
          /\ recvIP' = nextSlaveIP
          /\ recvPc' = "forward"
          /\ UNCHANGED printed
    /\ UNCHANGED <<target, acceptVars, slaveVars, sendVars>>

\* Mutant: the datagram goes back to the port it arrived on.
ForwardMessage_OwnPort ==
    /\ recvPc = "forward"
    /\ net' = net \cup {AddressedTo(held, recvIP, calculate_my_port)}
    /\ recvPc' = "listen"
    /\ UNCHANGED <<target, acceptVars, slaveVars, sendVars, held, recvIP, printed>>

ForwardMessage ==
    /\ recvPc = "forward"
    /\ net' = net \cup {AddressedTo(held, recvIP, calculate_target_port)}
    /\ recvPc' = "listen"
    /\ UNCHANGED <<target, acceptVars, slaveVars, sendVars, held, recvIP, printed>>

-----------------------------------------------------------------------------
\* The network loses a datagram, or its host has nobody on that port.
Vanish(d) ==
    /\ net' = net \ {d}
    /\ UNCHANGED <<target, acceptVars, slaveVars, sendVars, recvVars>>

SlaveStep(s) ==
    Connect(s) \/ SendRequest(s) \/ ReceivePlace(s) \/ ReceiveEof(s) \/ Die(s)

AcceptStep ==
    \/ AcceptConn \/ PackResponse \/ BumpRID \/ SetIP \/ SendResponse
    \/ RejectMalformed \/ AcceptThreadDies

Next ==
    \/ \E s \in Slaves : SlaveStep(s)
    \/ AcceptStep
    \/ \E rid \in 0 .. MaxRID, text \in {"fits", "oversize"} : Prompt(rid, text)
    \/ PromptRaises
    \/ SendTo
    \/ \E d \in net : Receive(d)
    \/ ForwardMessage
    \/ \E d \in net : Vanish(d)

Spec == Init /\ [][Next]_vars

(***************************************************************************)
(* Threads and slave programs are scheduled by the operating system and    *)
(* never wait once their step is enabled; the network hands over or drops  *)
(* every datagram.  Nothing makes a user type, a slave start or die.       *)
(***************************************************************************)
Fairness ==
    /\ WF_vars(AcceptStep)
    /\ \A s \in Slaves : WF_vars(SendRequest(s) \/ ReceivePlace(s) \/ ReceiveEof(s))
    /\ WF_vars(SendTo)
    /\ WF_vars(ForwardMessage)
    /\ WF_vars(\E d \in net : Receive(d))
    /\ WF_vars(\E d \in net : ~ ToMaster(d) /\ Vanish(d))

FairSpec == Spec /\ Fairness

-----------------------------------------------------------------------------
(* What must hold.                                                         *)

\* Every variable keeps to its kind of value, through every failure of a
\* thread or a slave (the attributes of Master and the locals of its threads).
TypeOK ==
    /\ nextSlaveRID \in Nat /\ nextSlaveIP \in Hosts
    /\ acceptPc \in {"accept", "recv", "packed", "bumped", "retargeted", "dead"}
    /\ conn \in Slaves \cup {None}
    /\ acceptPc \notin {"accept", "dead"} => conn \in Slaves
    /\ response \in Places \cup {None}
    /\ acceptPc \in {"packed", "bumped", "retargeted"} => response \in Places
    /\ backlog \in Seq(Slaves) /\ admitted \in Seq(Slaves)
    /\ slavePc \in [Slaves -> {"idle", "connected", "asked", "joined", "turnedAway",
                               "diedSilent", "diedAsked"}]
    /\ reply \in [Slaves -> Places \cup {None, Eof}]
    /\ place \in [Slaves -> Places \cup {None}]
    /\ sendPc \in {"prompt", "aimed", "dead"}
    /\ outgoing \in Messages \cup {None}
    /\ sendPc = "aimed" => outgoing \in Messages
    /\ sendIP \in Hosts /\ sends \in 0 .. MaxSends
    /\ recvPc \in {"listen", "forward"}
    /\ held \in Messages \cup {None}
    /\ recvPc = "forward" => held \in Messages
    /\ recvIP \in Hosts /\ printed \subseteq 1 .. MaxSends
    /\ net \subseteq Datagrams

\* A slave that has joined holds exactly the place of its admission: its ring
\* ID counts the slaves admitted before it and its next address is the one of
\* the slave admitted just before, the master for the first.  (The pair is
\* read by pack_response before accept_joins moves it on.)
PlacesFollowAdmission ==
    \A s \in Slaves : place[s] # None =>
        \E i \in 1 .. Len(admitted) : admitted[i] = s /\ place[s] = PlaceAt(admitted, i)

\* No two slaves that have joined share a ring ID.
DistinctRingIDs ==
    \A s, t \in Slaves :
        (place[s] # None /\ place[t] # None /\ s # t) => place[s].rid # place[t].rid

\* While accept_joins is between two joins the shared pair names the last
\* slave admitted, and the counter is the number of slaves admitted.
SettledTarget ==
    acceptPc \in {"accept", "recv"} =>
        /\ nextSlaveRID = Len(admitted)
        /\ nextSlaveIP = HostAt(admitted, Len(admitted))

\* The threads read the address before the ring ID, and accept_joins writes
\* the ring ID before the address.  So however the threads interleave, a
\* datagram may go to the port of a newer slave at the address of an older
\* one, and never to the port of an older slave at the address of a newer one.
Addressed(order, ip, port) ==
    \E r \in 0 .. Len(order) :
        port = Port(r) /\ \E k \in 0 .. r : ip = HostAt(order, k)

AimNeverBehindHost == \A d \in net : Addressed(admitted, d.ip, d.port)

\* Forwarding neither multiplies a datagram nor keeps one that was printed:
\* a line typed at the prompt is in one place at most, in the send thread,
\* in flight, in the receive thread or printed.
OneCopy ==
    /\ \A d, e \in net : d.n = e.n => d = e
    /\ \A d \in net : d.n \notin printed
    /\ sendPc = "aimed" => outgoing.n \notin printed /\ \A d \in net : d.n # outgoing.n
    /\ recvPc = "forward" => held.n \notin printed /\ \A d \in net : d.n # held.n
    /\ (sendPc = "aimed" /\ recvPc = "forward") => outgoing.n # held.n

\* An admission is lost only with its slave: every slave admitted has been
\* answered, has died, or is the one accept_joins is still serving.  In
\* particular no surviving slave is left out of the ring the master aims at.
NoLostAdmission ==
    \A i \in 1 .. Len(admitted) :
        \/ reply[admitted[i]] = PlaceAt(admitted, i)
        \/ slavePc[admitted[i]] = "diedAsked"
        \/ /\ i = Len(admitted) /\ conn = admitted[i]
           /\ acceptPc \in {"packed", "bumped", "retargeted"}

\* Once a slave has been admitted the master never again addresses a datagram
\* to its own socket (calculate_target_port no longer yields its own port).
NoNewSelfDatagram ==
    [][nextSlaveRID > 0 => \A d \in net' \ net : ~ ToMaster(d)]_vars

\* What ends accept_joins: a slave that dies around its request, or the first
\* ring ID beyond one byte.
JoinsEnded ==
    /\ acceptPc = "dead"
    /\ nextSlaveRID > MaxRID \/ \E s \in Slaves : slavePc[s] \in {"diedSilent", "diedAsked"}

\* A slave whose request has been sent is answered, or sees its connection
\* closed, or dies, unless accept_joins has ended for one of its two reasons.
EveryRequestServed ==
    \A s \in Slaves \ Strangers :
        slavePc[s] = "asked" ~> (slavePc[s] # "asked" \/ JoinsEnded)

\* Before the first join a datagram for another ring ID circulates through
\* the master's own socket; the first admission puts an end to it.
CirculationEnds ==
    nextSlaveRID > 0 ~> [](\A d \in net : ~ ToMaster(d))

(***************************************************************************)
(* The join protocol seen from outside: a slave is in the ring from the    *)
(* moment the second half of the pair is written.                          *)
(***************************************************************************)
Members ==
    IF acceptPc \in {"packed", "bumped"} THEN SubSeq(admitted, 1, Len(admitted) - 1)
    ELSE admitted

Abs == INSTANCE Ring WITH ring <- Members

\* Two unlocked writes, three threads and failing slaves notwithstanding, the
\* master admits slaves one at a time at the head of the ring (see Ring).
ImplementsRing == Abs!Spec

-----------------------------------------------------------------------------
(* What the repository says and the code does not do.                      *)

\* Lab3slave.c binds port 10010 + groupID * 5 + its own ring ID
\* (Lab3slave.c:148), so between two joins the port the master sends to
\* should be the port of the head of the ring.
MasterAimsAtHeadPort ==
    (acceptPc = "accept" /\ admitted # << >>) =>
        LET head == admitted[Len(admitted)]
        IN  place[head] # None => calculate_target_port = Port(place[head].rid)

\* A datagram carries a time to live, and Lab3slave.c:215 speaks of one too
\* low to go on: no datagram should stay in the ring for ever.
DatagramsDie ==
    \A i \in 1 .. MaxSends :
        (\E d \in net : d.n = i) ~>
            ((\A d \in net : d.n # i) /\ ~ (recvPc = "forward" /\ held.n = i))
=============================================================================
