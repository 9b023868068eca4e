------------------------ MODULE RingRefinementProofs ------------------------
(***************************************************************************)
(* No admission is lost, and RingMaster implements Ring.  Both rest on who *)
(* can be where: a slave connects once, waits in the listen queue, is      *)
(* served, and is admitted at most once.                                   *)
(***************************************************************************)
EXTENDS RingMasterProofs

Occurs(s, q) == \E i \in 1 .. Len(q) : q[i] = s
Once(q) == \A i, j \in 1 .. Len(q) : q[i] = q[j] => i = j

QueueInv ==
    /\ \A s \in Slaves : slavePc[s] = "idle" =>
          ~ Occurs(s, backlog) /\ s # conn /\ ~ Occurs(s, admitted)
    /\ \A s \in Slaves : Occurs(s, backlog) => s # conn /\ ~ Occurs(s, admitted)
    /\ acceptPc = "recv" => ~ Occurs(conn, admitted)
    /\ Once(backlog)
    /\ Once(admitted)

\* Nobody is answered before being served, and nobody has a place before
\* having joined.
ServedInv ==
    /\ \A s \in Slaves : (slavePc[s] = "idle" \/ Occurs(s, backlog)) => reply[s] = None
    /\ acceptPc \notin {"accept", "dead"} => reply[conn] = None
    /\ \A s \in Slaves : place[s] # None => slavePc[s] = "joined"

LEMMA AppendOccurs ==
    ASSUME NEW q \in Seq(Slaves), NEW s \in Slaves
    PROVE  /\ \A t : Occurs(t, Append(q, s)) <=> Occurs(t, q) \/ t = s
           /\ Once(q) /\ ~ Occurs(s, q) => Once(Append(q, s))
<1>1. /\ Len(Append(q, s)) = Len(q) + 1
      /\ Append(q, s)[Len(q) + 1] = s
      /\ \A i \in 1 .. Len(q) : Append(q, s)[i] = q[i]
  OBVIOUS
<1>2. \A t : Occurs(t, Append(q, s)) <=> Occurs(t, q) \/ t = s
  BY <1>1 DEF Occurs
<1>3. Once(q) /\ ~ Occurs(s, q) => Once(Append(q, s))
  BY <1>1 DEF Occurs, Once
<1> QED
  BY <1>2, <1>3

LEMMA TailOccurs ==
    ASSUME NEW q \in Seq(Slaves), q # << >>
    PROVE  /\ Head(q) \in Slaves /\ Occurs(Head(q), q)
           /\ \A t : Occurs(t, Tail(q)) => Occurs(t, q)
           /\ Once(q) => Once(Tail(q)) /\ ~ Occurs(Head(q), Tail(q))
<1>1. /\ Len(q) > 0 /\ Head(q) = q[1] /\ Len(Tail(q)) = Len(q) - 1
      /\ \A i \in 1 .. Len(q) - 1 : Tail(q)[i] = q[i + 1]
  OBVIOUS
<1>2. Head(q) \in Slaves /\ Occurs(Head(q), q)
  BY <1>1 DEF Occurs
<1>3. \A t : Occurs(t, Tail(q)) => Occurs(t, q)
  BY <1>1 DEF Occurs
<1>4. Once(q) => Once(Tail(q)) /\ ~ Occurs(Head(q), Tail(q))
  BY <1>1 DEF Occurs, Once
<1> QED
  BY <1>2, <1>3, <1>4

LEMMA QueueStep ==
    ASSUME TypeOK, QueueInv, ServedInv, [Next]_vars
    PROVE  QueueInv' /\ ServedInv'
<1> USE DEF target, acceptVars, slaveVars, sendVars, recvVars
<1>a. ASSUME UNCHANGED <<slavePc, backlog, conn, admitted, reply, place, acceptPc>>
      PROVE  QueueInv' /\ ServedInv'
  BY <1>a DEF QueueInv, ServedInv
<1>1. ASSUME NEW s \in Slaves, Connect(s)
      PROVE  QueueInv' /\ ServedInv'
  <2>1. backlog \in Seq(Slaves) /\ backlog' = Append(backlog, s)
    BY <1>1 DEF TypeOK, Connect
  <2>2. slavePc[s] = "idle" /\ slavePc' = [slavePc EXCEPT ![s] = "connected"]
    BY <1>1 DEF Connect
  <2> QED
    BY <1>1, <2>1, <2>2, AppendOccurs DEF TypeOK, Connect, QueueInv, ServedInv
<1>2. ASSUME NEW s \in Slaves, SendRequest(s) \/ ReceiveEof(s) \/ Die(s)
      PROVE  QueueInv' /\ ServedInv'
  BY <1>2 DEF TypeOK, SendRequest, ReceiveEof, Die, QueueInv, ServedInv
<1>3. ASSUME NEW s \in Slaves, ReceivePlace(s)
      PROVE  QueueInv' /\ ServedInv'
  BY <1>3 DEF TypeOK, ReceivePlace, QueueInv, ServedInv
<1>4. CASE AcceptConn
  <2>1. backlog \in Seq(Slaves) /\ backlog # << >> /\ backlog' = Tail(backlog)
    BY <1>4 DEF TypeOK, AcceptConn
  <2>2. conn' = Head(backlog) /\ acceptPc' = "recv"
    BY <1>4 DEF AcceptConn
  <2>3. QueueInv'
    BY <1>4, <2>1, <2>2, TailOccurs DEF QueueInv, AcceptConn
  <2>4. ServedInv'
    BY <1>4, <2>1, <2>2, TailOccurs DEF TypeOK, QueueInv, ServedInv, AcceptConn, DropConn
  <2> QED
    BY <2>3, <2>4
<1>5. CASE PackResponse
  <2>1. conn \in Slaves /\ admitted \in Seq(Slaves) /\ admitted' = Append(admitted, conn)
    BY <1>5 DEF TypeOK, PackResponse
  <2>2. QueueInv'
    BY <1>5, <2>1, AppendOccurs DEF QueueInv, PackResponse
  <2> QED
    BY <1>5, <2>2 DEF ServedInv, PackResponse
<1>6. CASE BumpRID \/ SetIP \/ RejectMalformed
  BY <1>6 DEF BumpRID, SetIP, RejectMalformed, QueueInv, ServedInv
<1>7. CASE SendResponse
  BY <1>7 DEF TypeOK, SendResponse, QueueInv, ServedInv
<1>8. CASE AcceptThreadDies
  BY <1>8 DEF TypeOK, AcceptThreadDies, DropConn, QueueInv, ServedInv
<1>9. CASE DatagramStep
  BY <1>a, <1>9 DEF DatagramStep, Prompt, PromptRaises, SendTo, Receive, ForwardMessage, Vanish
<1>10. CASE UNCHANGED vars
  BY <1>a, <1>10 DEF vars
<1> QED
  BY <1>1, <1>2, <1>3, <1>4, <1>5, <1>6, <1>7, <1>8, <1>9, <1>10
     DEF Next, SlaveStep, AcceptStep, DatagramStep

\* Everything the two theorems below rest on.
JoinInv == AdmissionInv /\ QueueInv /\ ServedInv

LEMMA JoinAlways == Spec => []JoinInv
<1>1. Init => QueueInv /\ ServedInv
  BY NoneAssumption DEF Init, QueueInv, ServedInv, Occurs, Once
<1>2. AdmissionInv => TypeOK
  BY DEF AdmissionInv
<1>3. TypeOK /\ QueueInv /\ ServedInv /\ [Next]_vars => QueueInv' /\ ServedInv'
  BY QueueStep
<1> QED
  BY <1>1, <1>2, <1>3, AdmissionAlways, PTL DEF Spec, JoinInv

-----------------------------------------------------------------------------
LEMMA NoLostStep ==
    ASSUME JoinInv, NoLostAdmission, [Next]_vars
    PROVE  NoLostAdmission'
<1> USE DEF target, acceptVars, slaveVars, sendVars, recvVars
<1>0. TypeOK /\ QueueInv /\ admitted \in Seq(Slaves) /\ Len(admitted) \in Nat
  BY DEF JoinInv, AdmissionInv, TypeOK
<1>1. ASSUME NEW s \in Slaves, SlaveStep(s)
      PROVE  NoLostAdmission'
  <2>1. UNCHANGED <<acceptPc, conn, admitted, reply>>
    BY <1>1 DEF SlaveStep, Connect, SendRequest, ReceivePlace, ReceiveEof, Die
  <2>2. \A t \in Slaves : slavePc[t] = "diedAsked" => slavePc'[t] = "diedAsked"
    BY <1>0, <1>1 DEF TypeOK, SlaveStep, Connect, SendRequest, ReceivePlace, ReceiveEof, Die
  <2>3. \A i \in 1 .. Len(admitted) : admitted[i] \in Slaves
    BY <1>0
  <2> QED
    BY <2>1, <2>2, <2>3 DEF NoLostAdmission
<1>2. CASE AcceptConn \/ AcceptThreadDies
  <2>1. UNCHANGED <<admitted, slavePc>> /\ DropConn
    BY <1>2 DEF AcceptConn, AcceptThreadDies
  <2>2. \A i \in 1 .. Len(admitted) : /\ PlaceAt(admitted, i) # None
                                      /\ admitted[i] \in Slaves
    BY <1>0, PlaceIsPlace
  <2>3. \A i \in 1 .. Len(admitted) : \/ reply[admitted[i]] = PlaceAt(admitted, i)
                                      \/ slavePc[admitted[i]] = "diedAsked"
    BY <1>2 DEF NoLostAdmission, AcceptConn, AcceptThreadDies
  <2> QED
    BY <2>1, <2>2, <2>3 DEF NoLostAdmission, DropConn
<1>3. CASE PackResponse
  <2>1. conn \in Slaves /\ admitted' = Append(admitted, conn)
    BY <1>0, <1>3 DEF TypeOK, PackResponse
  <2>2. acceptPc = "recv" /\ acceptPc' = "packed" /\ UNCHANGED <<conn, reply, slavePc>>
    BY <1>3 DEF PackResponse
  <2> QED
    BY <1>0, <2>1, <2>2, AppendKeepsPlaces DEF NoLostAdmission
<1>4. CASE BumpRID \/ SetIP \/ RejectMalformed
  BY <1>4 DEF BumpRID, SetIP, RejectMalformed, NoLostAdmission
<1>5. CASE SendResponse
  <2>1. /\ Len(admitted) > 0 /\ conn = admitted[Len(admitted)]
        /\ response = PlaceAt(admitted, Len(admitted))
    BY <1>5 DEF JoinInv, AdmissionInv, ServingInv, Serving, SendResponse
  <2>2. \A i \in 1 .. Len(admitted) : i # Len(admitted) => admitted[i] # conn
    BY <1>0, <2>1 DEF QueueInv, Once
  <2>3. conn \in Slaves /\ reply' = [reply EXCEPT ![conn] = response]
    BY <1>0, <1>5 DEF TypeOK, SendResponse
  <2> QED
    BY <1>0, <1>5, <2>1, <2>2, <2>3 DEF NoLostAdmission, SendResponse, TypeOK
<1>6. CASE DatagramStep
  BY <1>6 DEF DatagramStep, Prompt, PromptRaises, SendTo, Receive, ForwardMessage, Vanish,
              NoLostAdmission
<1>7. CASE UNCHANGED vars
  BY <1>7 DEF vars, NoLostAdmission
<1> QED
  BY <1>1, <1>2, <1>3, <1>4, <1>5, <1>6, <1>7 DEF Next, AcceptStep, DatagramStep

\* Every slave counted in the ring has been answered, is dead, or is being
\* answered (accept_joins counts the slave at master.py:131 before the answer
\* leaves at 134).
THEOREM AdmissionsKept == Spec => []NoLostAdmission
<1>1. Init => NoLostAdmission
  BY DEF Init, NoLostAdmission
<1>2. JoinInv /\ NoLostAdmission /\ [Next]_vars => NoLostAdmission'
  BY NoLostStep
<1> QED
  BY <1>1, <1>2, JoinAlways, PTL DEF Spec

-----------------------------------------------------------------------------
(***************************************************************************)
(* Refinement.  A slave becomes a member when the address is set; until    *)
(* then Members leaves the last admission out.                             *)
(***************************************************************************)
LEMMA PrefixProperties ==
    ASSUME NEW q \in Seq(Slaves), NEW k \in 0 .. Len(q)
    PROVE  /\ SubSeq(q, 1, k) \in Seq(Slaves)
           /\ Len(SubSeq(q, 1, k)) = k
           /\ \A i \in 1 .. k : SubSeq(q, 1, k)[i] = q[i]
<1>1. SubSeq(q, 1, k) \in Seq(Slaves)
  OBVIOUS
<1>2. Len(SubSeq(q, 1, k)) = k
  OBVIOUS
<1>3. \A i \in 1 .. k : SubSeq(q, 1, k)[i] = q[i]
  OBVIOUS
<1> QED
  BY <1>1, <1>2, <1>3

LEMMA MembersPrefix ==
    ASSUME JoinInv
    PROVE  /\ Members \in Seq(Slaves)
           /\ Len(Members) = IF acceptPc \in {"packed", "bumped"}
                             THEN Len(admitted) - 1 ELSE Len(admitted)
           /\ \A i \in 1 .. Len(Members) : Members[i] = admitted[i]
<1>1. admitted \in Seq(Slaves) /\ Len(admitted) \in Nat
  BY DEF JoinInv, AdmissionInv, TypeOK
<1>2. CASE acceptPc \in {"packed", "bumped"}
  <2>1. Len(admitted) > 0
    BY <1>2 DEF JoinInv, AdmissionInv, ServingInv, Serving
  <2>2. Members = SubSeq(admitted, 1, Len(admitted) - 1)
    BY <1>2 DEF Members
  <2>3. Len(admitted) - 1 \in 0 .. Len(admitted)
    BY <1>1, <2>1
  <2> QED
    BY <1>1, <1>2, <2>2, <2>3, PrefixProperties
<1>3. CASE acceptPc \notin {"packed", "bumped"}
  BY <1>1, <1>3 DEF Members
<1> QED
  BY <1>2, <1>3

LEMMA JoinRefines ==
    ASSUME JoinInv, JoinInv', [Next]_vars
    PROVE  [Abs!Next]_<<Members, place>>
<1> USE DEF target, acceptVars, slaveVars, sendVars, recvVars
<1>0. TypeOK /\ QueueInv /\ ServedInv /\ admitted \in Seq(Slaves) /\ Len(admitted) \in Nat
  BY DEF JoinInv, AdmissionInv, TypeOK
<1>1. ASSUME NEW s \in Slaves, ReceivePlace(s)
      PROVE  Abs!Next
  <2>1. /\ place' = [place EXCEPT ![s] = reply[s]]
        /\ UNCHANGED <<acceptPc, admitted>>
        /\ slavePc[s] = "asked" /\ reply[s] \notin {None, Eof}
    BY <1>1 DEF ReceivePlace, Answered
  <2>2. PICK i \in 1 .. Len(admitted) : admitted[i] = s /\ reply[s] = PlaceAt(admitted, i)
    BY <2>1 DEF JoinInv, AdmissionInv, AnswersInv, IsPlaceOf
  <2>3. i \in 1 .. Len(Members)
    <3>1. CASE acceptPc \in {"packed", "bumped"}
      <4>1. conn = admitted[Len(admitted)] /\ reply[conn] = None
        BY <1>0, <3>1 DEF JoinInv, AdmissionInv, ServingInv, Serving, ServedInv
      <4>2. i # Len(admitted)
        BY <2>1, <2>2, <4>1
      <4> QED
        BY <1>0, <3>1, <4>2, MembersPrefix
    <3> QED
      BY <3>1, MembersPrefix
  <2>4. Members[i] = s
    BY <2>2, <2>3, MembersPrefix
  <2>5. Abs!PlaceAt(Members, i) = PlaceAt(admitted, i)
    <3>1. i - 1 = 0 \/ i - 1 \in 1 .. Len(Members)
      BY <2>3
    <3>2. i - 1 \in 1 .. Len(Members) => Members[i - 1] = admitted[i - 1]
      BY MembersPrefix
    <3> QED
      BY <3>1, <3>2 DEF Abs!PlaceAt, Abs!HostAt, PlaceAt, HostAt
  <2>6. place[s] = None
    BY <1>0, <2>1 DEF ServedInv
  <2>7. Members' = Members
    BY <2>1 DEF Members
  <2> QED
    BY <2>1, <2>2, <2>3, <2>4, <2>5, <2>6, <2>7 DEF Abs!Next, Abs!Learn
<1>2. CASE SetIP
  <2>1. /\ Len(admitted) > 0 /\ conn = admitted[Len(admitted)]
        /\ acceptPc = "bumped" /\ acceptPc' = "retargeted"
        /\ UNCHANGED <<admitted, place, conn>>
    BY <1>2 DEF JoinInv, AdmissionInv, ServingInv, Serving, SetIP
  <2>2. conn \in Slaves
    BY <1>0, <2>1
  <2>3. \A i \in 1 .. Len(Members) : Members[i] # conn
    BY <1>0, <2>1, MembersPrefix DEF QueueInv, Once
  <2>4. Members' = Append(Members, conn)
    <3>1. Members = SubSeq(admitted, 1, Len(admitted) - 1)
      BY <2>1 DEF Members
    <3>2. Members' = admitted
      BY <2>1 DEF Members
    <3> QED
      BY <1>0, <2>1, <3>1, <3>2
  <2> QED
    BY <2>1, <2>2, <2>3, <2>4 DEF Abs!Next, Abs!Admit
<1>3. CASE PackResponse
  <2>1. conn \in Slaves /\ admitted' = Append(admitted, conn)
    BY <1>0, <1>3 DEF TypeOK, PackResponse
  <2>2. acceptPc = "recv" /\ acceptPc' = "packed" /\ place' = place
    BY <1>3 DEF PackResponse
  <2>3. Members = admitted /\ Members' = SubSeq(admitted', 1, Len(admitted') - 1)
    BY <2>2 DEF Members
  <2> QED
    BY <1>0, <2>1, <2>2, <2>3
<1>4. ASSUME place' = place, admitted' = admitted,
             acceptPc' \in {"packed", "bumped"} <=> acceptPc \in {"packed", "bumped"}
      PROVE  UNCHANGED <<Members, place>>
  BY <1>4 DEF Members
<1>5. ASSUME NEW s \in Slaves, Connect(s) \/ SendRequest(s) \/ ReceiveEof(s) \/ Die(s)
      PROVE  UNCHANGED <<Members, place>>
  BY <1>4, <1>5 DEF Connect, SendRequest, ReceiveEof, Die
<1>6. CASE AcceptConn \/ BumpRID \/ SendResponse \/ RejectMalformed \/ AcceptThreadDies
  BY <1>4, <1>6 DEF AcceptConn, BumpRID, SendResponse, RejectMalformed, AcceptThreadDies
<1>7. CASE DatagramStep
  BY <1>4, <1>7 DEF DatagramStep, Prompt, PromptRaises, SendTo, Receive, ForwardMessage, Vanish
<1>8. CASE UNCHANGED vars
  BY <1>4, <1>8 DEF vars
<1> QED
  BY <1>1, <1>2, <1>3, <1>5, <1>6, <1>7, <1>8
     DEF Next, SlaveStep, AcceptStep, DatagramStep

\* The unlocked, two-part update of the pair by accept_joins implements the
\* atomic admissions of Ring: seen from the slaves and from the head of the
\* ring, slaves join one at a time (master.py:118-139).
THEOREM RingImplemented == Spec => ImplementsRing
<1>1. Init => Abs!Init
  BY DEF Init, Abs!Init, Members
<1>2. JoinInv /\ JoinInv' /\ [Next]_vars => [Abs!Next]_<<Members, place>>
  BY JoinRefines
<1> QED
  BY <1>1, <1>2, JoinAlways, PTL DEF Spec, ImplementsRing, Abs!Spec
=============================================================================
