-------------------------- MODULE RingMasterProofs --------------------------
(***************************************************************************)
(* Proofs about RingMaster for any set of slaves and hosts, any byte size, *)
(* any listen queue and any number of lines typed.                         *)
(***************************************************************************)
EXTENDS RingMaster, TLAPS

USE DEF MASTER_ID, myRingID

(***************************************************************************)
(* Type correctness.                                                       *)
(***************************************************************************)

\* The pure helpers stay within their types.
LEMMA HelperTypes ==
    ASSUME TypeOK
    PROVE  /\ pack_response \in Places
           /\ calculate_target_port \in Nat
           /\ NewRID \in Nat
           /\ conn \in Slaves => NewIP \in Hosts
           /\ \A m \in Messages, ip \in Hosts :
                 AddressedTo(m, ip, calculate_target_port) \in Datagrams
<1>1. calculate_target_port \in Nat
  BY DEF TypeOK, calculate_target_port, Port
<1>2. \A m \in Messages, ip \in Hosts : AddressedTo(m, ip, calculate_target_port) \in Datagrams
  BY <1>1 DEF Messages, Datagrams, AddressedTo
<1> QED
  BY <1>1, <1>2, HostAssumption DEF TypeOK, pack_response, NewRID, NewIP, Places

LEMMA InitTypeOK == Init => TypeOK
  BY HostAssumption, MasterAssumption DEF Init, TypeOK

LEMMA SlaveTypeOK ==
    ASSUME TypeOK, NEW s \in Slaves, SlaveStep(s)
    PROVE  TypeOK'
<1> USE DEF TypeOK, target, acceptVars, slaveVars, sendVars, recvVars
<1>1. CASE Connect(s)
  BY <1>1 DEF Connect
<1>2. CASE SendRequest(s)
  BY <1>2 DEF SendRequest
<1>3. CASE ReceivePlace(s)
  BY <1>3 DEF ReceivePlace, Answered
<1>4. CASE ReceiveEof(s)
  BY <1>4 DEF ReceiveEof
<1>5. CASE Die(s)
  BY <1>5 DEF Die
<1> QED
  BY <1>1, <1>2, <1>3, <1>4, <1>5 DEF SlaveStep

LEMMA AcceptTypeOK ==
    ASSUME TypeOK, AcceptStep
    PROVE  TypeOK'
<1> USE DEF TypeOK, target, acceptVars, slaveVars, sendVars, recvVars
<1>0. DropConn => reply' \in [Slaves -> Places \cup {None, Eof}]
  BY DEF DropConn
<1>1. CASE AcceptConn
  <2>1. Head(backlog) \in Slaves /\ Tail(backlog) \in Seq(Slaves)
    BY <1>1 DEF AcceptConn
  <2> QED
    BY <1>0, <1>1, <2>1 DEF AcceptConn
<1>2. CASE PackResponse
  BY <1>2, HelperTypes DEF PackResponse
<1>3. CASE BumpRID
  BY <1>3, HelperTypes DEF BumpRID
<1>4. CASE SetIP
  BY <1>4, HelperTypes DEF SetIP
<1>5. CASE SendResponse
  BY <1>5 DEF SendResponse
<1>6. CASE RejectMalformed
  BY <1>6 DEF RejectMalformed
<1>7. CASE AcceptThreadDies
  BY <1>0, <1>7 DEF AcceptThreadDies
<1> QED
  BY <1>1, <1>2, <1>3, <1>4, <1>5, <1>6, <1>7 DEF AcceptStep

\* The steps of send_message_prompt, recv_handle_message and the network.
DatagramStep ==
    \/ \E rid \in 0 .. MaxRID, text \in {"fits", "oversize"} : Prompt(rid, text)
    \/ PromptRaises \/ SendTo
    \/ \E d \in net : Receive(d)
    \/ ForwardMessage
    \/ \E d \in net : Vanish(d)

LEMMA DatagramTypeOK ==
    ASSUME TypeOK, DatagramStep
    PROVE  TypeOK'
<1> USE DEF TypeOK, target, acceptVars, slaveVars, sendVars, recvVars
<1>1. ASSUME NEW rid \in 0 .. MaxRID, NEW text \in {"fits", "oversize"}, Prompt(rid, text)
      PROVE  TypeOK'
  <2>1. sends + 1 \in 1 .. MaxSends
    BY <1>1, MasterAssumption DEF Prompt
  <2>2. outgoing' \in Messages
    BY <1>1, <2>1 DEF Prompt, Messages, Texts
  <2> QED
    BY <1>1, <2>1, <2>2 DEF Prompt
<1>2. CASE PromptRaises
  BY <1>2 DEF PromptRaises
<1>3. CASE SendTo
  <2>1. AddressedTo(outgoing, sendIP, calculate_target_port) \in Datagrams
    BY <1>3, HelperTypes DEF SendTo
  <2> QED
    BY <1>3, <2>1 DEF SendTo
<1>4. ASSUME NEW d \in net, Receive(d)
      PROVE  TypeOK'
  <2>1. d \in Datagrams
    OBVIOUS
  <2>2. [n |-> d.n, ttl |-> d.ttl, rid |-> d.rid, text |-> ThroughBuffer(d)] \in Messages
    BY <2>1 DEF Datagrams, Messages, Texts, ThroughBuffer
  <2>3. d.n \in 1 .. MaxSends
    BY <2>1 DEF Datagrams
  <2> QED
    BY <1>4, <2>2, <2>3 DEF Receive
<1>5. CASE ForwardMessage
  <2>1. AddressedTo(held, recvIP, calculate_target_port) \in Datagrams
    BY <1>5, HelperTypes DEF ForwardMessage
  <2> QED
    BY <1>5, <2>1 DEF ForwardMessage
<1>6. ASSUME NEW d \in net, Vanish(d)
      PROVE  TypeOK'
  BY <1>6 DEF Vanish
<1> QED
  BY <1>1, <1>2, <1>3, <1>4, <1>5, <1>6 DEF DatagramStep

LEMMA NextTypeOK ==
    ASSUME TypeOK, [Next]_vars
    PROVE  TypeOK'
<1>1. CASE Next
  BY <1>1, SlaveTypeOK, AcceptTypeOK, DatagramTypeOK DEF Next, DatagramStep
<1>2. CASE UNCHANGED vars
  BY <1>2 DEF TypeOK, vars, target, acceptVars, slaveVars, sendVars, recvVars
<1> QED
  BY <1>1, <1>2

\* Every reachable state of the master, its slaves and the network has the
\* types of TypeOK, whatever fails (every attribute and local of master.py).
THEOREM TypeCorrect == Spec => []TypeOK
<1>1. TypeOK /\ [Next]_vars => TypeOK'
  BY NextTypeOK
<1> QED
  BY <1>1, InitTypeOK, PTL DEF Spec

-----------------------------------------------------------------------------
(***************************************************************************)
(* The join protocol.  SettledTarget and PlacesFollowAdmission say nothing *)
(* of the steps between pack_response and sendall, so neither is inductive.*)
(* AdmissionInv gives the pair at every step of accept_joins and what the  *)
(* thread holds in its hands meanwhile.                                    *)
(***************************************************************************)
Serving == acceptPc \in {"packed", "bumped", "retargeted"}

\* The pair lags one admission behind between the steps of a join: the counter
\* until it is bumped, the address until it is set.
PairInv ==
    /\ nextSlaveRID = IF acceptPc = "packed" THEN Len(admitted) - 1 ELSE Len(admitted)
    /\ nextSlaveIP = HostAt(admitted, IF acceptPc \in {"packed", "bumped"}
                                      THEN Len(admitted) - 1 ELSE Len(admitted))

\* The answer on its way is the place of the last slave admitted.
ServingInv ==
    Serving => /\ Len(admitted) > 0
               /\ conn = admitted[Len(admitted)]
               /\ response = PlaceAt(admitted, Len(admitted))

IsPlaceOf(p, s) == \E i \in 1 .. Len(admitted) : admitted[i] = s /\ p = PlaceAt(admitted, i)

AnswersInv ==
    \A s \in Slaves : /\ reply[s] \notin {None, Eof} => IsPlaceOf(reply[s], s)
                      /\ place[s] # None => IsPlaceOf(place[s], s)

AdmissionInv == TypeOK /\ PairInv /\ ServingInv /\ AnswersInv

\* An admission changes nothing about the places given before it.
LEMMA AppendKeepsPlaces ==
    ASSUME NEW order \in Seq(Slaves), NEW s \in Slaves
    PROVE  /\ Append(order, s) \in Seq(Slaves)
           /\ Len(Append(order, s)) = Len(order) + 1
           /\ Append(order, s)[Len(order) + 1] = s
           /\ \A i \in 1 .. Len(order) : Append(order, s)[i] = order[i]
           /\ \A k \in 0 .. Len(order) : HostAt(Append(order, s), k) = HostAt(order, k)
           /\ \A i \in 1 .. Len(order) + 1 :
                 PlaceAt(Append(order, s), i) = PlaceAt(order, i)
<1>1. \A i \in 1 .. Len(order) : Append(order, s)[i] = order[i]
  OBVIOUS
<1>2. \A k \in 0 .. Len(order) : HostAt(Append(order, s), k) = HostAt(order, k)
  BY <1>1 DEF HostAt
<1>3. \A i \in 1 .. Len(order) + 1 : i - 1 \in 0 .. Len(order)
  OBVIOUS
<1> QED
  BY <1>1, <1>2, <1>3 DEF PlaceAt

\* A place is never None and never an empty read.
LEMMA PlaceIsPlace ==
    ASSUME NEW order \in Seq(Slaves), NEW i \in 1 .. Len(order)
    PROVE  PlaceAt(order, i) \in Places /\ PlaceAt(order, i) \notin {None, Eof}
<1>1. HostAt(order, i - 1) \in Hosts
  BY HostAssumption DEF HostAt
<1> QED
  BY <1>1, NoneAssumption, MasterAssumption DEF PlaceAt, Places

LEMMA InitAdmission == Init => AdmissionInv
  BY InitTypeOK DEF Init, AdmissionInv, PairInv, ServingInv, Serving, AnswersInv, HostAt

LEMMA AdmissionStep ==
    ASSUME AdmissionInv, [Next]_vars
    PROVE  AdmissionInv'
<1> USE DEF target, acceptVars, slaveVars, sendVars, recvVars
<1>0. TypeOK /\ TypeOK'
  BY NextTypeOK DEF AdmissionInv
<1>a. ASSUME UNCHANGED <<nextSlaveRID, nextSlaveIP, acceptPc, conn, response, admitted>>,
             UNCHANGED <<reply, place>>
      PROVE  AdmissionInv'
  BY <1>0, <1>a DEF AdmissionInv, PairInv, ServingInv, Serving, AnswersInv, IsPlaceOf
<1>b. ASSUME UNCHANGED <<nextSlaveRID, nextSlaveIP, acceptPc, conn, response, admitted>>
      PROVE  PairInv' /\ ServingInv'
  BY <1>b DEF AdmissionInv, PairInv, ServingInv, Serving
<1>c. ASSUME UNCHANGED <<admitted, place>>, DropConn
      PROVE  AnswersInv'
  BY <1>0, <1>c DEF AdmissionInv, AnswersInv, IsPlaceOf, DropConn, TypeOK
<1>1. ASSUME NEW s \in Slaves, SlaveStep(s)
      PROVE  AdmissionInv'
  <2>1. CASE ReceivePlace(s)
    <3>1. AnswersInv'
      BY <1>0, <2>1 DEF AdmissionInv, ReceivePlace, Answered, AnswersInv, IsPlaceOf, TypeOK
    <3> QED
      BY <1>0, <1>b, <2>1, <3>1 DEF AdmissionInv, ReceivePlace
  <2> QED
    BY <1>a, <1>1, <2>1 DEF SlaveStep, Connect, SendRequest, ReceiveEof, Die
<1>2. CASE AcceptConn
  <2>1. PairInv' /\ ServingInv'
    BY <1>2 DEF AdmissionInv, AcceptConn, PairInv, ServingInv, Serving
  <2> QED
    BY <1>0, <1>c, <1>2, <2>1 DEF AdmissionInv, AcceptConn
<1>3. CASE PackResponse
  <2>1. conn \in Slaves /\ admitted \in Seq(Slaves) /\ admitted' = Append(admitted, conn)
    BY <1>0, <1>3 DEF TypeOK, PackResponse
  <2>2. nextSlaveRID = Len(admitted) /\ nextSlaveIP = HostAt(admitted, Len(admitted))
    BY <1>3 DEF AdmissionInv, PairInv, PackResponse
  <2>3. PairInv'
    BY <1>3, <2>1, <2>2, AppendKeepsPlaces DEF PairInv, PackResponse
  <2>4. ServingInv'
    <3>1. response' = PlaceAt(admitted, Len(admitted) + 1)
      BY <1>3, <2>1, <2>2 DEF PackResponse, pack_response, PlaceAt
    <3> QED
      BY <1>3, <2>1, <3>1, AppendKeepsPlaces DEF ServingInv, Serving, PackResponse
  <2>5. ASSUME NEW p, NEW s \in Slaves, IsPlaceOf(p, s)
        PROVE  IsPlaceOf(p, s)'
    BY <2>1, <2>5, AppendKeepsPlaces DEF IsPlaceOf
  <2>6. AnswersInv'
    BY <1>3, <2>5 DEF AdmissionInv, AnswersInv, PackResponse
  <2> QED
    BY <1>0, <2>3, <2>4, <2>6 DEF AdmissionInv
<1>4. CASE BumpRID
  BY <1>0, <1>4 DEF AdmissionInv, BumpRID, NewRID, PairInv, ServingInv, Serving, AnswersInv,
                    IsPlaceOf, TypeOK
<1>5. CASE SetIP
  BY <1>0, <1>5 DEF AdmissionInv, SetIP, NewIP, PairInv, ServingInv, Serving, AnswersInv,
                    IsPlaceOf, TypeOK, HostAt
<1>6. CASE SendResponse
  <2>1. PairInv' /\ ServingInv'
    BY <1>6 DEF AdmissionInv, SendResponse, PairInv, ServingInv, Serving
  <2>2. IsPlaceOf(response, conn)
    BY <1>0, <1>6 DEF AdmissionInv, SendResponse, ServingInv, Serving, IsPlaceOf, TypeOK
  <2>3. AnswersInv'
    BY <1>0, <1>6, <2>2 DEF AdmissionInv, SendResponse, AnswersInv, IsPlaceOf, TypeOK
  <2> QED
    BY <1>0, <2>1, <2>3 DEF AdmissionInv
<1>7. CASE RejectMalformed
  BY <1>0, <1>7 DEF AdmissionInv, RejectMalformed, PairInv, ServingInv, Serving, AnswersInv,
                    IsPlaceOf
<1>8. CASE AcceptThreadDies
  <2>1. PairInv' /\ ServingInv'
    BY <1>8 DEF AdmissionInv, AcceptThreadDies, PairInv, ServingInv, Serving
  <2> QED
    BY <1>0, <1>c, <1>8, <2>1 DEF AdmissionInv, AcceptThreadDies
<1>9. ASSUME DatagramStep
      PROVE  AdmissionInv'
  BY <1>a, <1>9 DEF DatagramStep, Prompt, PromptRaises, SendTo, Receive, ForwardMessage, Vanish
<1>10. CASE UNCHANGED vars
  BY <1>a, <1>10 DEF vars
<1> QED
  BY <1>1, <1>2, <1>3, <1>4, <1>5, <1>6, <1>7, <1>8, <1>9, <1>10
     DEF Next, AcceptStep, DatagramStep

LEMMA AdmissionAlways == Spec => []AdmissionInv
<1>1. AdmissionInv /\ [Next]_vars => AdmissionInv'
  BY AdmissionStep
<1> QED
  BY <1>1, InitAdmission, PTL DEF Spec

\* A slave that has joined holds the place of its own admission
\* (master.py:130-134, the answer is packed before the pair moves on).
THEOREM PlacesCorrect == Spec => []PlacesFollowAdmission
<1>1. AdmissionInv => PlacesFollowAdmission
  BY DEF AdmissionInv, AnswersInv, IsPlaceOf, PlacesFollowAdmission
<1> QED
  BY <1>1, AdmissionAlways, PTL

\* However many slaves join, no two of them get the same ring ID
\* (master.py:131 is the only write of the counter).
THEOREM RingIDsUnique == Spec => []DistinctRingIDs
<1>1. AdmissionInv => DistinctRingIDs
  <2> SUFFICES ASSUME AdmissionInv, NEW s \in Slaves, NEW t \in Slaves,
                      place[s] # None, place[t] # None, s # t
               PROVE  place[s].rid # place[t].rid
    BY DEF DistinctRingIDs
  <2>1. PICK i \in 1 .. Len(admitted) : admitted[i] = s /\ place[s] = PlaceAt(admitted, i)
    BY DEF AdmissionInv, AnswersInv, IsPlaceOf
  <2>2. PICK j \in 1 .. Len(admitted) : admitted[j] = t /\ place[t] = PlaceAt(admitted, j)
    BY DEF AdmissionInv, AnswersInv, IsPlaceOf
  <2>3. Len(admitted) \in Nat
    BY DEF AdmissionInv, TypeOK
  <2> QED
    BY <2>1, <2>2, <2>3 DEF PlaceAt
<1> QED
  BY <1>1, AdmissionAlways, PTL

\* Between two joins the pair names the head of the ring and the number of
\* slaves admitted, also after joins that failed half way.
THEOREM TargetSettles == Spec => []SettledTarget
<1>1. AdmissionInv => SettledTarget
  BY DEF AdmissionInv, PairInv, SettledTarget
<1> QED
  BY <1>1, AdmissionAlways, PTL

-----------------------------------------------------------------------------
(***************************************************************************)
(* Where datagrams go.  A thread that has read the address and not yet the *)
(* ring ID holds an address no newer than the counter; the counter only    *)
(* grows, so the torn pair it ends up with errs on one side only.          *)
(***************************************************************************)
NoNewer(ip) == \E k \in 0 .. nextSlaveRID : ip = HostAt(admitted, k)

AimInv ==
    /\ sendPc = "aimed" => NoNewer(sendIP)
    /\ recvPc = "forward" => NoNewer(recvIP)
    /\ AimNeverBehindHost

\* The counter is never ahead of the admissions, and the address never ahead
\* of the counter.
LEMMA PairBounds ==
    ASSUME AdmissionInv
    PROVE  /\ admitted \in Seq(Slaves) /\ Len(admitted) \in Nat
           /\ nextSlaveRID \in 0 .. Len(admitted)
           /\ NoNewer(nextSlaveIP)
<1>1. admitted \in Seq(Slaves) /\ Len(admitted) \in Nat
  BY DEF AdmissionInv, TypeOK
<1>2. nextSlaveRID \in 0 .. Len(admitted)
  BY <1>1 DEF AdmissionInv, PairInv, ServingInv, Serving
<1>3. NoNewer(nextSlaveIP)
  BY <1>1, <1>2 DEF AdmissionInv, PairInv, ServingInv, Serving, NoNewer
<1> QED
  BY <1>1, <1>2, <1>3

\* What is no newer than the counter stays so, and a datagram well addressed
\* stays so, when slaves are admitted and the counter grows.
LEMMA AimIsStable ==
    ASSUME AdmissionInv, [Next]_vars
    PROVE  /\ nextSlaveRID' >= nextSlaveRID
           /\ \A ip : NoNewer(ip) => NoNewer(ip)'
           /\ \A ip, port : Addressed(admitted, ip, port) => Addressed(admitted, ip, port)'
<1> USE DEF target, acceptVars, slaveVars, sendVars, recvVars
<1>1. /\ admitted \in Seq(Slaves) /\ Len(admitted) \in Nat
      /\ nextSlaveRID \in 0 .. Len(admitted)
  BY PairBounds
<1>2. nextSlaveRID' = nextSlaveRID \/ nextSlaveRID' = nextSlaveRID + 1
  BY DEF Next, SlaveStep, AcceptStep, Connect, SendRequest, ReceivePlace, ReceiveEof, Die,
         AcceptConn, PackResponse, BumpRID, NewRID, SetIP, SendResponse, RejectMalformed,
         AcceptThreadDies, Prompt, PromptRaises, SendTo, Receive, ForwardMessage, Vanish, vars
<1>3. admitted' = admitted \/ (conn \in Slaves /\ admitted' = Append(admitted, conn))
  BY DEF Next, SlaveStep, AcceptStep, Connect, SendRequest, ReceivePlace, ReceiveEof, Die,
         AcceptConn, PackResponse, BumpRID, SetIP, SendResponse, RejectMalformed,
         AcceptThreadDies, Prompt, PromptRaises, SendTo, Receive, ForwardMessage, Vanish, vars,
         AdmissionInv, TypeOK
<1>4. /\ Len(admitted') \in Nat /\ Len(admitted') >= Len(admitted)
      /\ \A k \in 0 .. Len(admitted) : HostAt(admitted', k) = HostAt(admitted, k)
  <2>1. CASE admitted' = admitted
    BY <1>1, <2>1
  <2>2. CASE conn \in Slaves /\ admitted' = Append(admitted, conn)
    BY <1>1, <2>2, AppendKeepsPlaces
  <2> QED
    BY <1>3, <2>1, <2>2
<1>5. ASSUME NEW ip, NoNewer(ip)
      PROVE  NoNewer(ip)'
  BY <1>1, <1>2, <1>4, <1>5 DEF NoNewer
<1>6. ASSUME NEW ip, NEW port, Addressed(admitted, ip, port)
      PROVE  Addressed(admitted, ip, port)'
  BY <1>1, <1>4, <1>6 DEF Addressed
<1> QED
  BY <1>1, <1>2, <1>5, <1>6

\* A datagram whose address is no newer than the counter is well addressed.
LEMMA AimIsAddressed ==
    ASSUME AdmissionInv, NEW ip, NoNewer(ip)
    PROVE  Addressed(admitted, ip, calculate_target_port)
  BY PairBounds DEF NoNewer, Addressed, calculate_target_port

LEMMA AimStep ==
    ASSUME AdmissionInv, AimInv, [Next]_vars
    PROVE  AimInv'
<1> USE DEF target, acceptVars, slaveVars, sendVars, recvVars
<1>a. NoNewer(nextSlaveIP)
  BY PairBounds
<1>1. ASSUME UNCHANGED <<sendVars, recvVars, net>>
      PROVE  AimInv'
  BY <1>1, AimIsStable DEF AimInv, AimNeverBehindHost
<1>2. ASSUME NEW rid \in 0 .. MaxRID, NEW text, Prompt(rid, text)
      PROVE  AimInv'
  BY <1>a, <1>2, AimIsStable DEF AimInv, AimNeverBehindHost, Prompt
<1>3. CASE PromptRaises
  BY <1>3, AimIsStable DEF AimInv, AimNeverBehindHost, PromptRaises
<1>4. CASE SendTo
  <2>1. Addressed(admitted, sendIP, calculate_target_port)
    BY <1>4, AimIsAddressed DEF AimInv, SendTo
  <2> QED
    BY <1>4, <2>1, AimIsStable DEF AimInv, AimNeverBehindHost, SendTo, AddressedTo
<1>5. ASSUME NEW d \in net, Receive(d)
      PROVE  AimInv'
  BY <1>a, <1>5, AimIsStable DEF AimInv, AimNeverBehindHost, Receive
<1>6. CASE ForwardMessage
  <2>1. Addressed(admitted, recvIP, calculate_target_port)
    BY <1>6, AimIsAddressed DEF AimInv, ForwardMessage
  <2> QED
    BY <1>6, <2>1, AimIsStable DEF AimInv, AimNeverBehindHost, ForwardMessage, AddressedTo
<1>7. ASSUME NEW d \in net, Vanish(d)
      PROVE  AimInv'
  BY <1>7, AimIsStable DEF AimInv, AimNeverBehindHost, Vanish
<1>8. ASSUME NEW s \in Slaves, SlaveStep(s)
      PROVE  AimInv'
  BY <1>1, <1>8 DEF SlaveStep, Connect, SendRequest, ReceivePlace, ReceiveEof, Die
<1>9. CASE AcceptStep
  BY <1>1, <1>9 DEF AcceptStep, AcceptConn, PackResponse, BumpRID, SetIP, SendResponse,
                    RejectMalformed, AcceptThreadDies
<1>10. CASE UNCHANGED vars
  BY <1>1, <1>10 DEF vars
<1> QED
  BY <1>2, <1>3, <1>4, <1>5, <1>6, <1>7, <1>8, <1>9, <1>10 DEF Next

\* The order in which accept_joins writes the pair and sendto reads it keeps a
\* datagram from the port of an older slave at a newer slave's address
\* (master.py:84, 106 against 131-132).
THEOREM AimCorrect == Spec => []AimNeverBehindHost
<1>1. Init => AimInv
  BY DEF Init, AimInv, AimNeverBehindHost
<1>2. AdmissionInv /\ AimInv /\ [Next]_vars => AimInv'
  BY AimStep
<1>3. AimInv => AimNeverBehindHost
  BY DEF AimInv
<1> QED
  BY <1>1, <1>2, <1>3, AdmissionAlways, PTL DEF Spec

\* Once a slave is in, the master addresses no new datagram to its own socket
\* (calculate_target_port, master.py:115-116).
THEOREM NoSelfDatagrams == Spec => NoNewSelfDatagram
<1>1. TypeOK /\ [Next]_vars => [nextSlaveRID > 0 => \A d \in net' \ net : ~ ToMaster(d)]_vars
  <2> SUFFICES ASSUME TypeOK, Next, nextSlaveRID > 0, NEW d \in net' \ net
               PROVE  ~ ToMaster(d)
    OBVIOUS
  <2>1. d.port = calculate_target_port
    <3>1. CASE SendTo \/ ForwardMessage
      BY <3>1 DEF SendTo, ForwardMessage, AddressedTo
    <3>2. ASSUME net' \subseteq net
          PROVE  FALSE
      BY <3>2
    <3>3. ASSUME NEW s \in Slaves, SlaveStep(s)
          PROVE  FALSE
      BY <3>2, <3>3 DEF SlaveStep, Connect, SendRequest, ReceivePlace, ReceiveEof, Die
    <3>4. CASE AcceptStep
      BY <3>2, <3>4 DEF AcceptStep, AcceptConn, PackResponse, BumpRID, SetIP, SendResponse,
                        RejectMalformed, AcceptThreadDies
    <3>5. ASSUME NEW rid, NEW text, Prompt(rid, text)
          PROVE  FALSE
      BY <3>2, <3>5 DEF Prompt
    <3>6. CASE PromptRaises
      BY <3>2, <3>6 DEF PromptRaises
    <3>7. ASSUME NEW e \in net, Receive(e) \/ Vanish(e)
          PROVE  FALSE
      BY <3>2, <3>7 DEF Receive, Vanish
    <3> QED
      BY <3>1, <3>3, <3>4, <3>5, <3>6, <3>7 DEF Next
  <2> QED
    BY <2>1 DEF TypeOK, ToMaster, calculate_target_port, calculate_my_port, Port
<1> QED
  BY <1>1, TypeCorrect, PTL DEF Spec, NoNewSelfDatagram

-----------------------------------------------------------------------------
(***************************************************************************)
(* A typed line is in one place at most.  A new line is told from the ones *)
(* before it because every line under way is numbered at most sends.       *)
(***************************************************************************)
CopyInv ==
    /\ OneCopy
    /\ \A d \in net : d.n <= sends
    /\ \A n \in printed : n <= sends
    /\ sendPc = "aimed" => outgoing.n <= sends
    /\ recvPc = "forward" => held.n <= sends

LEMMA CopyStep ==
    ASSUME TypeOK, CopyInv, [Next]_vars
    PROVE  CopyInv'
<1> USE DEF target, acceptVars, slaveVars, sendVars, recvVars
<1>0. /\ sends \in Nat
      /\ \A d \in net : d.n \in Nat
      /\ \A n \in printed : n \in Nat
      /\ sendPc = "aimed" => outgoing.n \in Nat
      /\ recvPc = "forward" => held.n \in Nat
  BY DEF TypeOK, Datagrams, Messages
<1>a. ASSUME UNCHANGED <<sendVars, recvVars>>, net' \subseteq net
      PROVE  CopyInv'
  BY <1>a DEF CopyInv, OneCopy
<1>1. ASSUME NEW s \in Slaves, SlaveStep(s)
      PROVE  CopyInv'
  BY <1>a, <1>1 DEF SlaveStep, Connect, SendRequest, ReceivePlace, ReceiveEof, Die
<1>2. CASE AcceptStep
  BY <1>a, <1>2 DEF AcceptStep, AcceptConn, PackResponse, BumpRID, SetIP, SendResponse,
                    RejectMalformed, AcceptThreadDies
<1>3. ASSUME NEW rid \in 0 .. MaxRID, NEW text, Prompt(rid, text)
      PROVE  CopyInv'
  <2>1. outgoing'.n = sends + 1 /\ sends' = sends + 1
    BY <1>3 DEF Prompt
  <2>2. /\ \A d \in net : d.n # outgoing'.n
        /\ outgoing'.n \notin printed
        /\ recvPc = "forward" => outgoing'.n # held.n
    BY <1>0, <2>1 DEF CopyInv
  <2>3. OneCopy'
    BY <1>3, <2>2 DEF Prompt, CopyInv, OneCopy
  <2> QED
    BY <1>0, <1>3, <2>1, <2>3 DEF Prompt, CopyInv
<1>4. CASE PromptRaises
  BY <1>4 DEF PromptRaises, CopyInv, OneCopy
<1>5. CASE SendTo
  <2>1. PICK e : e.n = outgoing.n /\ net' = net \cup {e}
    BY <1>5 DEF SendTo, AddressedTo
  <2> QED
    BY <1>5, <2>1 DEF SendTo, CopyInv, OneCopy
<1>6. ASSUME NEW d \in net, Receive(d)
      PROVE  CopyInv'
  <2>0. net' = net \ {d} /\ UNCHANGED sendVars /\ recvPc = "listen"
    BY <1>6 DEF Receive
  <2>1. CASE UNCHANGED recvVars
    BY <1>a, <2>0, <2>1
  <2>2. CASE printed' = printed \cup {d.n} /\ UNCHANGED <<recvPc, held, recvIP>>
    BY <2>0, <2>2 DEF CopyInv, OneCopy
  <2>3. CASE held'.n = d.n /\ recvPc' = "forward" /\ UNCHANGED printed
    BY <2>0, <2>3 DEF CopyInv, OneCopy
  <2>4. \/ UNCHANGED recvVars
        \/ printed' = printed \cup {d.n} /\ UNCHANGED <<recvPc, held, recvIP>>
        \/ /\ held' = [n |-> d.n, ttl |-> d.ttl, rid |-> d.rid, text |-> ThroughBuffer(d)]
           /\ recvPc' = "forward" /\ UNCHANGED printed
    BY <1>6, Zenon DEF Receive
  <2> QED
    BY <2>1, <2>2, <2>3, <2>4
<1>7. CASE ForwardMessage
  <2>1. PICK e : e.n = held.n /\ net' = net \cup {e}
    BY <1>7 DEF ForwardMessage, AddressedTo
  <2> QED
    BY <1>7, <2>1 DEF ForwardMessage, CopyInv, OneCopy
<1>8. ASSUME NEW d \in net, Vanish(d)
      PROVE  CopyInv'
  BY <1>a, <1>8 DEF Vanish
<1>9. CASE UNCHANGED vars
  BY <1>a, <1>9 DEF vars
<1> QED
  BY <1>1, <1>2, <1>3, <1>4, <1>5, <1>6, <1>7, <1>8, <1>9 DEF Next

\* Forwarding never multiplies a line and never keeps one that was printed
\* (recv_handle_message, master.py:92-106).
THEOREM NoDuplicates == Spec => []OneCopy
<1>1. Init => CopyInv
  BY DEF Init, CopyInv, OneCopy
<1>2. TypeOK /\ CopyInv /\ [Next]_vars => CopyInv'
  BY CopyStep
<1>3. CopyInv => OneCopy
  BY DEF CopyInv
<1> QED
  BY <1>1, <1>2, <1>3, TypeCorrect, PTL DEF Spec
=============================================================================
