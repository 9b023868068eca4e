--------------------------- MODULE RingLabProofs ---------------------------
(***************************************************************************)
(* Proofs about RingLab for any number of slaves of each program, and any  *)
(* contents of their unfilled buffers.                                     *)
(***************************************************************************)
EXTENDS RingLab, RingMasterProofs

allVars == <<vars, labVars>>

USE DEF MASTER_ID

(***************************************************************************)
(* RingLab is RingMaster with more said of the slaves: what is proved of   *)
(* RingMaster holds of the lab.                                            *)
(***************************************************************************)
LEMMA LabStep ==
    ASSUME [LabNext]_allVars
    PROVE  [Next]_vars
<1>1. ASSUME NEW s \in Slaves, SlaveProgram(s)
      PROVE  [Next]_vars
  BY <1>1 DEF SlaveProgram, ShowRing, PythonRaises, ShowLeftover, Crash, Listen, AcceptPeer,
              PeerEnds, RecvFails, Next, SlaveStep
<1>2. CASE Elsewhere
  BY <1>2 DEF Elsewhere, Next, SlaveStep
<1>3. CASE UNCHANGED allVars
  BY <1>3 DEF allVars
<1> QED
  BY <1>1, <1>2, <1>3 DEF LabNext

\* With its three slave programs, the ones that ignore their return codes and
\* the one that sends a malformed request among them, the lab takes only steps
\* of RingMaster (Ring/slave.c:93-107, Lab3slave.c:133-223).
THEOREM LabIsMaster == LabSpec => Spec
<1>1. LabInit => Init
  BY DEF LabInit
<1>2. [LabNext]_allVars => [Next]_vars
  BY LabStep
<1> QED
  BY <1>1, <1>2, PTL DEF LabSpec, Spec, allVars

-----------------------------------------------------------------------------
(***************************************************************************)
(* Type correctness needs to know that a slave whose join is under way has *)
(* shown nothing yet.                                                      *)
(***************************************************************************)
JoiningInv ==
    \A s \in Slaves : slavePc[s] \notin {"joined", "turnedAway"} => phase[s] = "joining"

LabTypeInv == LabTypeOK /\ JoiningInv

LEMMA RingShown ==
    ASSUME NEW p \in Places
    PROVE  makeRing(p) \in Rings /\ makeRing(p) # None
<1>1. makeRing(p) \in Rings
  BY DEF makeRing, Rings, Places
<1> QED
  BY <1>1, LabAssumption

LEMMA LabTypeStep ==
    ASSUME TypeOK, LabTypeInv, [LabNext]_allVars
    PROVE  LabTypeInv'
<1> USE DEF LabTypeInv, LabTypeOK, JoiningInv
<1>0. slavePc \in [Slaves -> {"idle", "connected", "asked", "joined", "turnedAway",
                              "diedSilent", "diedAsked"}]
  BY DEF TypeOK
<1>1. ASSUME NEW s \in Slaves, ShowRing(s)
      PROVE  LabTypeInv'
  <2>1. reply[s] \in Places
    BY <1>1 DEF ShowRing, ReceivePlace, Answered, TypeOK
  <2>2. phase[s] = "joining" /\ slavePc' = [slavePc EXCEPT ![s] = "joined"]
    BY <1>1 DEF ShowRing, ReceivePlace
  <2> QED
    BY <1>0, <1>1, <2>1, <2>2, RingShown DEF ShowRing
<1>2. ASSUME NEW s \in Slaves, PythonRaises(s)
      PROVE  LabTypeInv'
  <2>1. phase[s] = "joining" /\ slavePc' = [slavePc EXCEPT ![s] = "turnedAway"]
    BY <1>2 DEF PythonRaises, ReceiveEof
  <2> QED
    BY <1>0, <1>2, <2>1 DEF PythonRaises
<1>3. ASSUME NEW s \in Slaves, ShowLeftover(s)
      PROVE  LabTypeInv'
  <2>1. phase[s] = "joining" /\ slavePc' = [slavePc EXCEPT ![s] = "turnedAway"]
    BY <1>3 DEF ShowLeftover, ReceiveEof
  <2>2. PICK r \in Leftovers : theRing' = [theRing EXCEPT ![s] = r]
    BY <1>3 DEF ShowLeftover
  <2>3. r \in Rings /\ r # None
    BY LabAssumption
  <2> QED
    BY <1>0, <1>3, <2>1, <2>2, <2>3 DEF ShowLeftover
<1>4. ASSUME NEW s \in Slaves, Crash(s) \/ AcceptPeer(s) \/ PeerEnds(s) \/ RecvFails(s)
      PROVE  LabTypeInv'
  BY <1>0, <1>4 DEF Crash, AcceptPeer, PeerEnds, RecvFails, vars, slaveVars
<1>5. ASSUME NEW s \in Slaves, Listen(s)
      PROVE  LabTypeInv'
  <2>1. PICK p \in Ephemeral : sockUDP' = [sockUDP EXCEPT ![s] = [type |-> "stream", port |-> p]]
    BY <1>5 DEF Listen
  <2>2. [type |-> "stream", port |-> p] \in Sockets
    BY LabAssumption DEF Sockets
  <2>3. [type |-> "stream", port |-> p] # None
    BY <2>2, LabAssumption DEF Sockets
  <2> QED
    BY <1>0, <1>5, <2>1, <2>2, <2>3 DEF Listen, vars, slaveVars
<1>6. CASE Elsewhere /\ UNCHANGED labVars
  <2>1. \A s \in Slaves : slavePc'[s] \notin {"joined", "turnedAway"} =>
                              slavePc[s] \notin {"joined", "turnedAway"}
    BY <1>0, <1>6 DEF Elsewhere, Connect, SendRequest, Die, AcceptStep, AcceptConn, PackResponse,
         BumpRID, SetIP, SendResponse, RejectMalformed, AcceptThreadDies, Prompt, PromptRaises,
         SendTo, Receive, ForwardMessage, Vanish, slaveVars
  <2> QED
    BY <1>6, <2>1 DEF labVars
<1>7. CASE UNCHANGED allVars
  BY <1>7 DEF allVars, vars, labVars, slaveVars
<1> QED
  BY <1>1, <1>2, <1>3, <1>4, <1>5, <1>6, <1>7 DEF LabNext, SlaveProgram

LEMMA LabInitTypeInv == LabInit => LabTypeInv
  BY DEF LabInit, Init, LabTypeInv, LabTypeOK, JoiningInv

\* Through every failure of a slave or of the master's threads, a slave has
\* shown a ring exactly when it got that far, and has a socket exactly when it
\* made one (the locals of main in Ring/slave.c and Lab3slave.c).
THEOREM LabTypeCorrect == LabSpec => []LabTypeOK
<1>1. TypeOK /\ LabTypeInv /\ [LabNext]_allVars => LabTypeInv'
  BY LabTypeStep
<1>2. LabTypeInv => LabTypeOK
  BY DEF LabTypeInv
<1> QED
  BY <1>1, <1>2, LabInitTypeInv, LabIsMaster, TypeCorrect, PTL DEF LabSpec, allVars

-----------------------------------------------------------------------------
(***************************************************************************)
(* A connection ends without an answer in one of two ways: accept_joins    *)
(* has called its slave malformed and goes on to the next one, or an       *)
(* exception ends accept_joins.                                            *)
(***************************************************************************)
DropInv ==
    /\ \A s \in Slaves \ Strangers : reply[s] = Eof => acceptPc = "dead"
    /\ (acceptPc = "accept" /\ conn \in Slaves /\ reply[conn] = None) => conn \in Strangers

LEMMA DropStep ==
    ASSUME AdmissionInv, DropInv, [Next]_vars
    PROVE  DropInv'
<1> USE DEF DropInv, target, acceptVars, slaveVars, sendVars, recvVars
<1>0. TypeOK
  BY DEF AdmissionInv
<1>a. ASSUME UNCHANGED <<acceptPc, conn, reply>>
      PROVE  DropInv'
  BY <1>a
<1>1. ASSUME NEW s \in Slaves, SlaveStep(s)
      PROVE  DropInv'
  BY <1>a, <1>1 DEF SlaveStep, Connect, SendRequest, ReceivePlace, ReceiveEof, Die
<1>2. CASE AcceptConn
  BY <1>2 DEF AcceptConn, DropConn
<1>3. CASE PackResponse \/ BumpRID \/ SetIP
  BY <1>3 DEF PackResponse, BumpRID, SetIP
<1>4. CASE SendResponse
  <2>1. conn \in Slaves /\ response \in Places
    BY <1>0, <1>4 DEF TypeOK, SendResponse
  <2>2. response # None /\ response # Eof
    BY <2>1, NoneAssumption, MasterAssumption
  <2>3. reply' = [reply EXCEPT ![conn] = response] /\ reply \in [Slaves -> Places \cup {None, Eof}]
    BY <1>0, <1>4 DEF TypeOK, SendResponse
  <2> QED
    BY <1>4, <2>1, <2>2, <2>3 DEF SendResponse
<1>5. CASE RejectMalformed
  BY <1>5 DEF RejectMalformed
<1>6. CASE AcceptThreadDies
  BY <1>6 DEF AcceptThreadDies
<1>7. CASE DatagramStep
  BY <1>a, <1>7 DEF DatagramStep, Prompt, PromptRaises, SendTo, Receive, ForwardMessage, Vanish
<1>8. CASE UNCHANGED vars
  BY <1>a, <1>8 DEF vars
<1> QED
  BY <1>1, <1>2, <1>3, <1>4, <1>5, <1>6, <1>7, <1>8 DEF Next, AcceptStep, DatagramStep

\* An admission stays one, and a thread that has ended does not come back.
LEMMA AdmissionsStay ==
    ASSUME AdmissionInv, [Next]_vars
    PROVE  /\ \A p, s : IsPlaceOf(p, s) => IsPlaceOf(p, s)'
           /\ acceptPc = "dead" => acceptPc' = "dead"
<1> USE DEF target, acceptVars, slaveVars, sendVars, recvVars
<1>1. admitted' = admitted \/ (conn \in Slaves /\ admitted' = Append(admitted, conn))
  BY DEF Next, SlaveStep, AcceptStep, Connect, SendRequest, ReceivePlace, ReceiveEof, Die,
         AcceptConn, PackResponse, BumpRID, SetIP, SendResponse, RejectMalformed,
         AcceptThreadDies, Prompt, PromptRaises, SendTo, Receive, ForwardMessage, Vanish, vars,
         AdmissionInv, TypeOK
<1>2. acceptPc = "dead" => acceptPc' = "dead"
  BY DEF Next, SlaveStep, AcceptStep, Connect, SendRequest, ReceivePlace, ReceiveEof, Die,
         AcceptConn, PackResponse, BumpRID, SetIP, SendResponse, RejectMalformed,
         AcceptThreadDies, Prompt, PromptRaises, SendTo, Receive, ForwardMessage, Vanish, vars
<1>3. ASSUME NEW p, NEW s, IsPlaceOf(p, s)
      PROVE  IsPlaceOf(p, s)'
  <2>1. CASE admitted' = admitted
    BY <1>3, <2>1 DEF IsPlaceOf
  <2>2. CASE conn \in Slaves /\ admitted' = Append(admitted, conn)
    <3>1. admitted \in Seq(Slaves)
      BY DEF AdmissionInv, TypeOK
    <3> QED
      BY <1>3, <2>2, <3>1, AppendKeepsPlaces DEF IsPlaceOf
  <2> QED
    BY <1>1, <2>1, <2>2
<1> QED
  BY <1>2, <1>3

\* ShownIsAdmission with the place named.
ShownInv ==
    \A s \in Slaves : theRing[s] # None =>
        \/ \E p : IsPlaceOf(p, s) /\ theRing[s] = makeRing(p)
        \/ s \in Strangers
        \/ acceptPc = "dead"

LEMMA ShownStep ==
    ASSUME AdmissionInv, LabTypeOK, DropInv, ShownInv, [LabNext]_allVars
    PROVE  ShownInv'
<1>0. [Next]_vars
  BY LabStep
<1>1. ASSUME NEW t \in Slaves, theRing'[t] = theRing[t], theRing'[t] # None
      PROVE  \/ \E p : IsPlaceOf(p, t)' /\ theRing'[t] = makeRing(p)
             \/ t \in Strangers
             \/ acceptPc' = "dead"
  BY <1>0, <1>1, AdmissionsStay DEF ShownInv
<1>2. ASSUME NEW s \in Slaves, ShowRing(s)
      PROVE  ShownInv'
  <2>1. PICK p : p = reply[s] /\ IsPlaceOf(p, s)
    BY <1>2 DEF ShowRing, ReceivePlace, Answered, AdmissionInv, AnswersInv
  <2>2. IsPlaceOf(p, s)'
    BY <1>0, <2>1, AdmissionsStay
  <2>3. theRing'[s] = makeRing(p) /\ \A t \in Slaves : t = s \/ theRing'[t] = theRing[t]
    BY <1>2, <2>1 DEF ShowRing, LabTypeOK
  <2> QED
    BY <1>1, <2>2, <2>3 DEF ShownInv
<1>3. ASSUME NEW s \in Slaves, ShowLeftover(s)
      PROVE  ShownInv'
  <2>1. s \in Strangers \/ acceptPc' = "dead"
    BY <1>0, <1>3, AdmissionsStay DEF ShowLeftover, ReceiveEof, DropInv
  <2>2. \A t \in Slaves : t = s \/ theRing'[t] = theRing[t]
    BY <1>3 DEF ShowLeftover, LabTypeOK
  <2> QED
    BY <1>1, <2>1, <2>2 DEF ShownInv
<1>4. ASSUME UNCHANGED theRing
      PROVE  ShownInv'
  BY <1>1, <1>4 DEF ShownInv
<1> QED
  BY <1>2, <1>3, <1>4 DEF LabNext, SlaveProgram, PythonRaises, Crash, Listen, AcceptPeer,
                          PeerEnds, RecvFails, allVars, labVars

\* No slave that asked as it should ever shows another ring than the one of its
\* admission, return codes ignored or not, as long as accept_joins runs
\* (Ring/slave.c:97-104, master.py:122-137).
THEOREM ShownCorrect == LabSpec => []ShownIsAdmission
<1>1. LabInit => DropInv /\ ShownInv
  BY NoneAssumption, MasterAssumption DEF LabInit, Init, DropInv, ShownInv
<1>2. AdmissionInv /\ LabTypeOK /\ DropInv /\ ShownInv /\ [LabNext]_allVars => DropInv' /\ ShownInv'
  BY LabStep, DropStep, ShownStep
<1>3. ShownInv => ShownIsAdmission
  BY DEF ShownInv, ShownIsAdmission, IsPlaceOf
<1> QED
  BY <1>1, <1>2, <1>3, LabIsMaster, LabTypeCorrect, AdmissionAlways, PTL DEF LabSpec, allVars
=============================================================================
