------------------------ MODULE TcpRefinementProofs ------------------------
(***************************************************************************)
(* The TCP lab implements the calculator service, for any clients and      *)
(* queries, with kills and restarts: whoever still has a connection gets   *)
(* what the service promises.                                              *)
(***************************************************************************)
EXTENDS TcpCalcProofs

USE DEF mainVars, boundVars, childVars, kernelVars, clientVars

\* A step that leaves alone what client c sees leaves its session alone.
LEMMA SameView ==
    ASSUME NEW c \in Clients, pc'[c] = pc[c], asked'[c] = asked[c], buf'[c] = buf[c],
           lost'[c] = lost[c]
    PROVE  View(c)' = View(c)
<1>1. Current(c)' = Current(c)
  BY DEF Current
<1> QED
  BY <1>1 DEF View

\* A step of one client moves its session and no other.
LEMMA OneSession ==
    ASSUME NEW c \in Clients,
           \A a \in Clients : a # c => /\ pc'[a] = pc[a] /\ asked'[a] = asked[a]
                                       /\ buf'[a] = buf[a] /\ lost'[a] = lost[a]
    PROVE  session' = [session EXCEPT ![c] = View(c)']
<1>1. \A a \in Clients : a # c => View(a)' = View(a)
  BY SameView
<1> QED
  BY <1>1 DEF session

\* Calling in is not seen yet, and asking on a lost connection not any more.
LEMMA SilentStep ==
    ASSUME NEW c \in Clients, View(c)' = View(c),
           \A a \in Clients : a # c => /\ pc'[a] = pc[a] /\ asked'[a] = asked[a]
                                       /\ buf'[a] = buf[a] /\ lost'[a] = lost[a]
    PROVE  UNCHANGED session
<1>1. \A a \in Clients : View(a)' = View(a)
  BY SameView
<1> QED
  BY <1>1 DEF session

LEMMA InitSession == Init => Service!Init
  BY DEF Init, Service!Init, session, View, Service!Ready

LEMMA AskSession ==
    ASSUME TypeOK, NEW c \in Clients, NEW q \in Queries, Ask(c, q)
    PROVE  Service!Ask(c, q) \/ UNCHANGED session
<1> DEFINE body == [id |-> iNum[c], query |-> q]
<1>1. /\ pc[c] = "prompt" /\ pc' = [pc EXCEPT ![c] = "waiting"] /\ body \in Bodies
      /\ asked' = [asked EXCEPT ![c] = Append(asked[c], body)] /\ asked[c] \in Seq(Bodies)
      /\ UNCHANGED <<buf, lost>>
  BY DEF Ask, Bodies, TypeOK
<1>2. \A a \in Clients : a # c => pc'[a] = pc[a] /\ asked'[a] = asked[a]
  BY <1>1 DEF TypeOK
<1>3. CASE lost[c]
  <2>1. View(c)' = View(c)
    BY <1>1, <1>3 DEF View
  <2> QED
    BY <1>1, <1>2, <2>1, SilentStep
<1>4. CASE ~ lost[c]
  <2>1. Current(c)' = body
    <3>1. asked'[c] = Append(asked[c], body)
      BY <1>1 DEF TypeOK
    <3> QED
      BY <1>1, <3>1, Sequences DEF Current
  <2>2. pc'[c] = "waiting"
    BY <1>1 DEF TypeOK
  <2>3. View(c) = [at |-> "ready"] /\ View(c)' = [at |-> "asked", query |-> q]
    BY <1>1, <1>4, <2>1, <2>2 DEF View
  <2>4. session' = [session EXCEPT ![c] = View(c)']
    BY <1>1, <1>2, OneSession
  <2> QED
    BY <2>3, <2>4 DEF Service!Ask, Service!Ready, Service!Asked, session
<1> QED
  BY <1>3, <1>4

LEMMA AnswerSession ==
    ASSUME TypeOK, TurnInv, NEW c \in Clients, Receive(c)
    PROVE  (\E q \in Queries : Service!Answer(c, q)) \/ UNCHANGED session
<1>1. /\ pc[c] = "waiting" /\ pc' = [pc EXCEPT ![c] = "shown"]
      /\ buf' = [buf EXCEPT ![c] = Head(toClient[c])] /\ UNCHANGED <<asked, lost>>
  BY DEF Receive
<1>2. \A a \in Clients : a # c => pc'[a] = pc[a] /\ buf'[a] = buf[a]
  BY <1>1 DEF TypeOK
<1>3. CASE lost[c]
  <2>1. View(c)' = View(c)
    BY <1>1, <1>3 DEF View
  <2> QED
    BY <1>1, <1>2, <2>1, SilentStep
<1>4. CASE ~ lost[c]
  <2> DEFINE q == Current(c).query
             r == Head(toClient[c]).result
  <2>1. q \in Queries
    <3>1. asked[c] \in Seq(Bodies) /\ asked[c] # << >>
      BY <1>1 DEF TypeOK
    <3>2. Current(c) \in Bodies
      BY <3>1 DEF Current
    <3> QED
      BY <3>2 DEF Bodies
  <2>2. r \in Promised[q]
    <3>1. IsAnswer(Head(toClient[c]), Current(c))
      BY DEF Receive, TurnInv, Turn, Quiet, Going, InHand, Coming
    <3> QED
      BY <2>1, <3>1 DEF IsAnswer, Promised
  <2>3. pc'[c] = "shown" /\ buf'[c] = Head(toClient[c]) /\ Current(c)' = Current(c)
    BY <1>1 DEF TypeOK, Current
  <2>4. /\ View(c) = [at |-> "asked", query |-> q]
        /\ View(c)' = [at |-> "shown", query |-> q, result |-> r]
    BY <1>1, <1>4, <2>3 DEF View
  <2>5. session' = [session EXCEPT ![c] = View(c)']
    BY <1>1, <1>2, OneSession
  <2>6. /\ session[c] = Service!Asked(q)
        /\ session' = [session EXCEPT ![c] = Service!Shown(q, r)]
    BY <2>4, <2>5 DEF Service!Asked, Service!Shown, session
  <2> QED
    BY <2>1, <2>2, <2>6 DEF Service!Answer
<1> QED
  BY <1>3, <1>4

\* A client's session ends when its program does.
LEMMA LeaveSession ==
    ASSUME TypeOK, NEW c \in Clients, pc' = [pc EXCEPT ![c] = "exited"],
           UNCHANGED <<asked, buf, lost>>
    PROVE  Service!Leave({c})
<1>1. pc'[c] = "exited" /\ \A a \in Clients : a # c => pc'[a] = pc[a]
  BY DEF TypeOK
<1>2. View(c)' = Service!Left
  BY <1>1 DEF View, Service!Left
<1>3. session' = [session EXCEPT ![c] = View(c)']
  BY <1>1, OneSession
<1> QED
  BY <1>2, <1>3 DEF Service!Leave, session

\* The sessions of all who are connected end together.
LEMMA ClosedSession ==
    ASSUME TypeOK, Closed, UNCHANGED <<pc, asked, buf>>
    PROVE  \E S \in SUBSET Clients : Service!Leave(S)
<1> DEFINE S == {c \in Clients : lost[c] \/ Connected(c)}
<1>1. \A c \in S : View(c)' = Service!Left
  BY DEF Closed, View, Service!Left
<1>2. \A c \in Clients \ S : View(c)' = View(c)
  <2>1. \A c \in Clients \ S : lost'[c] = lost[c]
    BY DEF Closed, TypeOK
  <2> QED
    BY <2>1, SameView
<1>3. Service!Leave(S)
  BY <1>1, <1>2 DEF Service!Leave, session
<1> QED
  BY <1>3

LEMMA ClientSession ==
    ASSUME TypeOK, TurnInv, NEW c \in Clients, ClientStep(c)
    PROVE  [Service!Next]_session
<1>1. CASE Connect(c)
  <2>1. pc[c] = "idle" /\ pc' = [pc EXCEPT ![c] = "prompt"] /\ UNCHANGED <<asked, buf, lost>>
    BY <1>1 DEF Connect
  <2>2. pc'[c] = "prompt" /\ \A a \in Clients : a # c => pc'[a] = pc[a]
    BY <2>1 DEF TypeOK
  <2>3. View(c)' = View(c)
    BY <2>1, <2>2 DEF View
  <2> QED
    BY <2>1, <2>2, <2>3, SilentStep
<1>2. CASE ConnectFails(c) \/ Leave(c)
  <2>1. Service!Leave({c})
    BY <1>2, LeaveSession DEF ConnectFails, Leave
  <2>2. {c} \in SUBSET Clients
    OBVIOUS
  <2> QED
    BY <2>1, <2>2 DEF Service!Next
<1>3. ASSUME NEW q \in Queries, Ask(c, q)
      PROVE  [Service!Next]_session
  BY <1>3, AskSession DEF Service!Next
<1>4. CASE Receive(c)
  BY <1>4, AnswerSession DEF Service!Next
<1>5. CASE ReceiveNothing(c)
  <2>1. lost[c] /\ lost' = lost /\ View(c)' = View(c)
    BY <1>5 DEF ReceiveNothing, View
  <2>2. \A a \in Clients : a # c => pc'[a] = pc[a] /\ asked'[a] = asked[a] /\ buf'[a] = buf[a]
    BY <1>5 DEF ReceiveNothing, TypeOK
  <2> QED
    BY <2>1, <2>2, SilentStep
<1>6. CASE Continue(c)
  <2>1. pc[c] = "shown" /\ pc' = [pc EXCEPT ![c] = "prompt"] /\ UNCHANGED <<asked, buf, lost>>
    BY <1>6 DEF Continue
  <2>2. pc'[c] = "prompt" /\ \A a \in Clients : a # c => pc'[a] = pc[a]
    BY <2>1 DEF TypeOK
  <2>3. CASE lost[c]
    <3>1. View(c)' = View(c)
      BY <2>1, <2>3 DEF View
    <3> QED
      BY <2>1, <2>2, <3>1, SilentStep
  <2>4. CASE ~ lost[c]
    <3>1. View(c).at = "shown" /\ View(c)' = Service!Ready
      BY <2>1, <2>2, <2>4 DEF View, Service!Ready
    <3>2. session' = [session EXCEPT ![c] = View(c)']
      BY <2>1, <2>2, OneSession
    <3>3. Service!Again(c)
      BY <3>1, <3>2 DEF Service!Again, session
    <3> QED
      BY <3>3 DEF Service!Next
  <2> QED
    BY <2>3, <2>4
<1> QED
  BY <1>1, <1>2, <1>3, <1>4, <1>5, <1>6 DEF ClientStep

LEMMA SessionStep ==
    ASSUME TypeOK, TurnInv, [Next]_vars
    PROVE  [Service!Next]_session
<1>1. CASE UNCHANGED <<pc, asked, buf, lost>>
  <2>1. \A c \in Clients : View(c)' = View(c)
    BY <1>1, SameView
  <2> QED
    BY <2>1 DEF session
<1>2. CASE Closed /\ UNCHANGED <<pc, asked, buf>>
  BY <1>2, ClosedSession DEF Service!Next
<1>3. CASE ChildEnds \/ Dies
  BY <1>1, <1>2, <1>3 DEF ChildEnds, Dies
<1>4. CASE HandlerStep \/ Restart \/ UNCHANGED vars
  BY <1>1, <1>4 DEF HandlerStep, HandlerStarts, HandlerReaps, HandlerReturns, Restart, vars
<1>5. CASE Accept \/ RecvRequest \/ RecvNothing \/ SendResponse \/ Fork
  BY <1>1, <1>5 DEF Accept, RecvRequest, RecvNothing, SendResponse, Fork
<1>6. CASE ConnectionKills \/ Kill
  BY <1>3, <1>6 DEF ConnectionKills, Kill
<1> QED
  BY <1>3, <1>4, <1>5, <1>6, ClientSession DEF Next, MainStep

\* As long as its connection lasts every user of the TCP lab is shown one answer
\* to what it asked, through forks, signals, the answers given to nobody, kills
\* and restarts; only when the server's last process has gone do the sessions
\* end, all of them together (tcp/TCP-server.c:246-300, tcp/TCP-client.c:238-290).
THEOREM ServiceImplemented == Spec => TcpImplements
<1>1. TypeOK /\ TurnInv /\ [Next]_vars => [Service!Next]_session
  BY SessionStep
<1> QED
  BY <1>1, InitSession, TypeCorrect, TurnAlways, PTL DEF Spec, TcpImplements, Service!Spec
=============================================================================
