--------------------------- MODULE TcpCalcProofs ---------------------------
(***************************************************************************)
(* Proofs about TcpCalc for any clients of either program, any queries,    *)
(* kills and restarts, any length of the kernel's queue and any width of   *)
(* the request number.                                                     *)
(***************************************************************************)
EXTENDS TcpCalc, CalcProofs

USE DEF mainVars, boundVars, childVars, kernelVars, clientVars

-----------------------------------------------------------------------------
(***************************************************************************)
(* Type correctness.  The request number of a Python client leaves its     *)
(* byte only when the client is about to make a request, which then fails. *)
(***************************************************************************)
NumberInv == \A c \in Clients : pc[c] \in {"waiting", "shown"} => iNum[c] \in IDs

TypeInv == TypeOK /\ NumberInv

LEMMA Sequences ==
    ASSUME NEW S
    PROVE  /\ << >> \in Seq(S) /\ Len(<< >>) = 0
           /\ \A s \in Seq(S) : /\ Len(s) \in Nat /\ (Len(s) = 0 <=> s = << >>)
                                /\ s # << >> => /\ Head(s) \in S /\ Tail(s) \in Seq(S)
                                                /\ Len(Tail(s)) = Len(s) - 1
           /\ \A s \in Seq(S), e \in S : /\ Append(s, e) \in Seq(S)
                                         /\ Len(Append(s, e)) = Len(s) + 1
                                         /\ Append(s, e) # << >>
                                         /\ Append(s, e)[Len(Append(s, e))] = e
                                         /\ s = << >> => Head(Append(s, e)) = e
<1>1. \A s \in Seq(S), e \in S : /\ Append(s, e) \in Seq(S)
                                 /\ Len(Append(s, e)) = Len(s) + 1
                                 /\ Append(s, e)[Len(Append(s, e))] = e
                                 /\ s = << >> => Head(Append(s, e)) = e
  OBVIOUS
<1>2. \A s \in Seq(S) : /\ Len(s) \in Nat /\ (Len(s) = 0 <=> s = << >>)
                        /\ s # << >> => /\ Head(s) \in S /\ Tail(s) \in Seq(S)
                                        /\ Len(Tail(s)) = Len(s) - 1
  OBVIOUS
<1>3. << >> \in Seq(S) /\ Len(<< >>) = 0
  OBVIOUS
<1>4. \A s \in Seq(S), e \in S : Append(s, e) # << >>
  <2>1. \A s \in Seq(S), e \in S : Len(Append(s, e)) # 0
    BY <1>1, <1>2
  <2> QED
    BY <1>3, <2>1
<1> QED
  BY <1>1, <1>2, <1>3, <1>4

\* What the server makes of a request it holds is a well-typed answer to it.
LEMMA Processed ==
    ASSUME NEW b \in Bodies \cup {Uninit}, NEW r \in processRequest(b)
    PROVE  /\ r \in Answers /\ r # Uninit
           /\ b \in Bodies => IsAnswer(r, b)
<1>1. CASE b = Uninit
  <2>1. b \notin Bodies
    BY <1>1, TcpAssumption
  <2>2. r \in Answers
    BY <1>1, GarbageAssumption DEF processRequest, Answers, Fits32
  <2> QED
    BY <2>1, <2>2, TcpAssumption
<1>2. CASE b \in Bodies
  <2>1. b # Uninit /\ b.id \in IDs /\ b.query \in Queries
    BY <1>2, TcpAssumption DEF Bodies
  <2>2. r \in [id : {b.id}, result : calcResult(b.query)]
    BY <2>1 DEF processRequest
  <2>3. r.result \in Int
    BY <2>1, <2>2, QueriesAssumption, ResultsFit DEF Fits32
  <2>4. r \in Answers /\ IsAnswer(r, b)
    BY <2>1, <2>2, <2>3 DEF Answers, IsAnswer
  <2> QED
    BY <2>4, TcpAssumption
<1> QED
  BY <1>1, <1>2

LEMMA ClosedTypes ==
    ASSUME TypeOK, Closed \/ UNCHANGED <<lost, backlog, toServer>>
    PROVE  /\ lost' \in [Clients -> BOOLEAN]
           /\ backlog' \in Seq(Clients)
           /\ toServer' \in [Clients -> Seq(Bodies)]
<1>1. CASE Closed
  <2>1. lost' \in [Clients -> BOOLEAN]
    BY <1>1, Zenon DEF Closed
  <2> QED
    BY <1>1, <2>1, Sequences DEF Closed
<1>2. CASE UNCHANGED <<lost, backlog, toServer>>
  BY <1>2 DEF TypeOK
<1> QED
  BY <1>1, <1>2

LEMMA InitTypeInv ==
    ASSUME Init
    PROVE  TypeInv
<1>1. 0 \in 0 .. IDSpace /\ 1 \in 0 .. IDSpace
  BY TcpAssumption
<1>2. iNum \in [Clients -> 0 .. IDSpace]
  BY <1>1 DEF Init
<1>3. /\ backlog \in Seq(Clients) /\ asked \in [Clients -> Seq(Bodies)]
      /\ toServer \in [Clients -> Seq(Bodies)] /\ toClient \in [Clients -> Seq(Answers)]
  BY Sequences DEF Init
<1>4. /\ empties \in 0 .. MaxEmpty /\ kills \in 0 .. MaxKills
      /\ restarts \in 0 .. MaxRestarts /\ children \in Nat /\ zombies \in Nat
  BY TcpAssumption DEF Init
<1> QED
  BY <1>2, <1>3, <1>4 DEF Init, TypeInv, TypeOK, NumberInv

LEMMA ClientTypeInv ==
    ASSUME TypeInv, NEW c \in Clients, ClientStep(c)
    PROVE  TypeInv'
<1> USE DEF TypeInv, TypeOK, NumberInv
<1>0. IDs \subseteq 0 .. IDSpace
  BY TcpAssumption DEF IDs
<1>1. CASE Connect(c)
  <2>1. backlog' \in Seq(Clients)
    BY <1>1, Sequences DEF Connect
  <2> QED
    BY <1>1, <2>1 DEF Connect
<1>2. CASE ConnectFails(c)
  BY <1>2 DEF ConnectFails
<1>3. ASSUME NEW q \in Queries, Ask(c, q)
      PROVE  TypeInv'
  <2> DEFINE body == [id |-> iNum[c], query |-> q]
  <2>1. body \in Bodies
    BY <1>3 DEF Ask, Bodies
  <2>2. asked' \in [Clients -> Seq(Bodies)] /\ asked'[c] # << >>
    <3>1. asked' = [asked EXCEPT ![c] = Append(asked[c], body)] /\ asked[c] \in Seq(Bodies)
      BY <1>3 DEF Ask
    <3>2. Append(asked[c], body) \in Seq(Bodies) /\ Append(asked[c], body) # << >>
      BY <2>1, <3>1, Sequences
    <3> QED
      BY <3>1, <3>2
  <2>3. toServer' \in [Clients -> Seq(Bodies)]
    BY <1>3, <2>1, Sequences DEF Ask
  <2>4. \A a \in Clients : a # c => asked'[a] = asked[a]
    BY <1>3 DEF Ask
  <2> QED
    BY <1>3, <2>2, <2>3, <2>4 DEF Ask
<1>4. CASE Receive(c)
  <2>1. Head(toClient[c]) \in Answers /\ Tail(toClient[c]) \in Seq(Answers)
    BY <1>4, Sequences DEF Receive
  <2>2. Head(toClient[c]) # Uninit
    BY <2>1, TcpAssumption
  <2>3. toClient' \in [Clients -> Seq(Answers)]
    BY <1>4, <2>1, Sequences DEF Receive
  <2> QED
    BY <1>4, <2>1, <2>2, <2>3 DEF Receive
<1>5. CASE ReceiveNothing(c)
  <2>1. ASSUME UNCHANGED <<buf, iNum>>,
               \/ pc' = [pc EXCEPT ![c] = "exited"]
               \/ pc' = [pc EXCEPT ![c] = "shown"] /\ buf[c] # Uninit
        PROVE  TypeInv'
    BY <1>5, <2>1 DEF ReceiveNothing
  <2>2. ASSUME NEW i \in IDs, NEW n \in IDs, NEW r \in Garbage,
               buf' = [buf EXCEPT ![c] = [id |-> i, result |-> r]], iNum' = [iNum EXCEPT ![c] = n],
               pc' = [pc EXCEPT ![c] = "shown"]
        PROVE  TypeInv'
    <3>1. [id |-> i, result |-> r] \in Answers
      BY GarbageAssumption DEF Answers, Fits32
    <3>2. [id |-> i, result |-> r] # Uninit
      BY <3>1, TcpAssumption
    <3> QED
      BY <1>0, <1>5, <2>2, <3>1, <3>2 DEF ReceiveNothing
  <2>3. \/ /\ UNCHANGED <<buf, iNum>>
           /\ \/ pc' = [pc EXCEPT ![c] = "exited"]
              \/ pc' = [pc EXCEPT ![c] = "shown"] /\ buf[c] # Uninit
        \/ /\ pc' = [pc EXCEPT ![c] = "shown"]
           /\ \E i, n \in IDs, r \in Garbage :
                 /\ buf' = [buf EXCEPT ![c] = [id |-> i, result |-> r]]
                 /\ iNum' = [iNum EXCEPT ![c] = n]
    BY <1>5 DEF ReceiveNothing
  <2> QED
    BY <1>5, <2>1, <2>2, <2>3
<1>6. CASE Continue(c)
  <2>1. NextNum(c) \in 0 .. IDSpace
    <3>1. iNum[c] \in 0 .. IDSpace - 1
      BY <1>6 DEF Continue, IDs
    <3> QED
      BY <3>1, TcpAssumption DEF NextNum
  <2> QED
    BY <1>6, <2>1 DEF Continue
<1>7. CASE Leave(c)
  BY <1>7 DEF Leave
<1> QED
  BY <1>1, <1>2, <1>3, <1>4, <1>5, <1>6, <1>7 DEF ClientStep

LEMMA ServerTypeInv ==
    ASSUME TypeInv, MainStep \/ Kill \/ Restart
    PROVE  TypeInv'
<1> USE DEF TypeInv, TypeOK, NumberInv
<1>1. CASE Accept
  <2>1. Head(backlog) \in Clients /\ Tail(backlog) \in Seq(Clients)
    BY <1>1, Sequences DEF Accept
  <2> QED
    BY <1>1, <2>1, TcpAssumption DEF Accept, At
<1>2. CASE RecvRequest
  <2>1. serving \in Clients
    BY <1>2 DEF RecvRequest, At
  <2>2. recBytes' \in Bodies
    BY <1>2, <2>1, Sequences DEF RecvRequest
  <2>3. response' \in Answers /\ response' # Uninit
    BY <1>2, <2>2, Processed DEF RecvRequest
  <2>4. toServer' \in [Clients -> Seq(Bodies)]
    BY <1>2, <2>1, Sequences DEF RecvRequest
  <2> QED
    BY <1>2, <2>1, <2>2, <2>3, <2>4 DEF RecvRequest, At
<1>3. CASE RecvNothing
  <2>1. response' \in Answers /\ response' # Uninit
    BY <1>3, Processed DEF RecvNothing
  <2>2. empties' \in 0 .. MaxEmpty
    BY <1>3, TcpAssumption DEF RecvNothing
  <2> QED
    BY <1>3, <2>1, <2>2 DEF RecvNothing, At
<1>4. CASE SendResponse
  <2>1. serving \in Clients /\ response \in Answers
    BY <1>4 DEF SendResponse, At
  <2>2. toClient' \in [Clients -> Seq(Answers)]
    BY <1>4, <2>1, Sequences DEF SendResponse
  <2>3. reset' \in BOOLEAN
    BY <1>4 DEF SendResponse, ClientLeft
  <2> QED
    BY <1>4, <2>1, <2>2, <2>3 DEF SendResponse, At
<1>5. CASE Fork
  BY <1>5 DEF Fork, At
<1>6. ASSUME Dies, kills' \in 0 .. MaxKills
      PROVE  TypeInv'
  <2>1. /\ lost' \in [Clients -> BOOLEAN]
        /\ backlog' \in Seq(Clients)
        /\ toServer' \in [Clients -> Seq(Bodies)]
    BY <1>6, ClosedTypes DEF Dies
  <2> QED
    BY <1>6, <2>1 DEF Dies
<1>7. CASE ConnectionKills
  BY <1>6, <1>7 DEF ConnectionKills
<1>8. CASE Kill
  <2>1. kills' \in 0 .. MaxKills
    BY <1>8, TcpAssumption DEF Kill
  <2> QED
    BY <1>6, <1>8, <2>1 DEF Kill
<1>9. CASE Restart
  <2>1. restarts' \in 0 .. MaxRestarts /\ 0 \in 0 .. MaxEmpty
    BY <1>9, TcpAssumption DEF Restart
  <2> QED
    BY <1>9, <2>1 DEF Restart
<1> QED
  BY <1>1, <1>2, <1>3, <1>4, <1>5, <1>7, <1>8, <1>9 DEF MainStep

LEMMA ChildrenTypeInv ==
    ASSUME TypeInv, ChildEnds \/ HandlerStep
    PROVE  TypeInv'
<1> USE DEF TypeInv, TypeOK, NumberInv
<1>1. CASE ChildEnds
  <2>1. /\ lost' \in [Clients -> BOOLEAN]
        /\ backlog' \in Seq(Clients)
        /\ toServer' \in [Clients -> Seq(Bodies)]
    BY <1>1, ClosedTypes DEF ChildEnds
  <2>2. children' \in Nat
    BY <1>1 DEF ChildEnds
  <2>3. zombies' \in Nat /\ sigchld' \in BOOLEAN
    <3>1. \/ zombies' = zombies /\ sigchld' = sigchld
          \/ zombies' = zombies + 1 /\ sigchld' = TRUE
      BY <1>1 DEF ChildEnds
    <3>2. zombies' \in Nat
      BY <3>1
    <3>3. sigchld' \in BOOLEAN
      BY <3>1
    <3> QED
      BY <3>2, <3>3
  <2> QED
    BY <1>1, <2>1, <2>2, <2>3 DEF ChildEnds
<1>2. CASE HandlerStarts
  BY <1>2 DEF HandlerStarts
<1>3. CASE HandlerReaps
  <2>1. zombies' \in Nat
    BY <1>3 DEF HandlerReaps
  <2> QED
    BY <1>3, <2>1 DEF HandlerReaps
<1>4. CASE HandlerReturns
  BY <1>4 DEF HandlerReturns
<1> QED
  BY <1>1, <1>2, <1>3, <1>4 DEF HandlerStep

LEMMA NextTypeInv ==
    ASSUME TypeInv, [Next]_vars
    PROVE  TypeInv'
<1>1. CASE UNCHANGED vars
  BY <1>1 DEF vars, TypeInv, TypeOK, NumberInv
<1> QED
  BY <1>1, ClientTypeInv, ServerTypeInv, ChildrenTypeInv DEF Next

LEMMA TypeAlways == Spec => []TypeInv
<1> QED
  BY InitTypeInv, NextTypeInv, PTL DEF Spec

\* Every reachable state of the TCP lab has the types of TypeOK: no program
\* answers without a request in its buffer, none shows an unfilled answer, and
\* the request number leaves its byte only by one (tcp/TCP-server.c:258-293,
\* tcp/TCP-client.c, tcp/tcpclient.py:71).
THEOREM TypeCorrect == Spec => []TypeOK
  BY TypeAlways, PTL DEF TypeInv

-----------------------------------------------------------------------------
\* Whatever ends a child, or two at once, a zombie is waited for: the handler
\* runs or will run (tcp/TCP-server.c:60-66).
THEOREM ZombiesReapedAlways == Spec => []ZombiesReaped
<1>1. Init => ZombiesReaped
  BY DEF Init, ZombiesReaped
<1>2. TypeInv /\ ZombiesReaped /\ [Next]_vars => ZombiesReaped'
  <2> SUFFICES ASSUME TypeInv, ZombiesReaped, [Next]_vars
               PROVE  ZombiesReaped'
    OBVIOUS
  <2>1. CASE UNCHANGED childVars
    BY <2>1 DEF ZombiesReaped
  <2>2. CASE ChildEnds
    BY <2>2 DEF ChildEnds, ZombiesReaped
  <2>3. CASE HandlerStep
    BY <2>3 DEF HandlerStep, HandlerStarts, HandlerReaps, HandlerReturns, ZombiesReaped, TypeInv,
                TypeOK
  <2>4. CASE Fork
    BY <2>4 DEF Fork, ZombiesReaped
  <2>5. CASE Dies
    BY <2>5 DEF Dies, ZombiesReaped
  <2> QED
    BY <2>1, <2>2, <2>3, <2>4, <2>5 DEF Next, ClientStep, Connect, ConnectFails, Ask, Receive,
       ReceiveNothing, Continue, Leave, MainStep, Accept, RecvRequest, RecvNothing, SendResponse,
       ConnectionKills, Kill, Restart, vars
<1> QED
  BY <1>1, <1>2, TypeAlways, PTL DEF Spec

-----------------------------------------------------------------------------
(***************************************************************************)
(* Where the one message of a connection can be: on its way to the server, *)
(* in the server's hands, or on its way back.                              *)
(***************************************************************************)
Making(c) == serving = c /\ serverPc = "send"

Quiet(c)   == toServer[c] = << >> /\ toClient[c] = << >> /\ ~ Making(c)
Going(c)   == /\ Len(toServer[c]) = 1 /\ toClient[c] = << >> /\ ~ Making(c)
              /\ Head(toServer[c]) = Current(c)
InHand(c)  == /\ toServer[c] = << >> /\ toClient[c] = << >> /\ Making(c)
              /\ IsAnswer(response, Current(c))
Coming(c)  == /\ toServer[c] = << >> /\ Len(toClient[c]) = 1 /\ ~ Making(c)
              /\ IsAnswer(Head(toClient[c]), Current(c))

Turn(c) ==
    /\ pc[c] \in {"idle", "prompt", "shown"} => Quiet(c)
    /\ pc[c] = "waiting" => \/ Going(c) \/ InHand(c) \/ Coming(c)
                            \/ Quiet(c) /\ (serverPc = "dead" \/ lost[c])

(***************************************************************************)
(* A connection that has ended stays so, and no server ever has it.  When  *)
(* the last process of a dead server has gone, every connection has ended. *)
(***************************************************************************)
LostInv ==
    \A c \in Clients : lost[c] =>
        /\ pc[c] # "idle" /\ toServer[c] = << >>
        /\ \A i \in 1 .. Len(backlog) : backlog[i] # c
        /\ serving = c => serverPc = "dead"

DeadInv == (serverPc = "dead" /\ children = 0) => \A c \in Clients : Connected(c) => lost[c]

TurnInv == LostInv /\ DeadInv /\ \A c \in Clients : Turn(c)

LEMMA OneMessage ==
    ASSUME NEW S, NEW s \in Seq(S), Len(s) = 1
    PROVE  s # << >> /\ Tail(s) = << >>
<1>1. s # << >> /\ Len(s) \in Nat
  OBVIOUS
<1>2. Tail(s) \in Seq(S) /\ Len(Tail(s)) = 0
  BY <1>1
<1> QED
  BY <1>1, <1>2, Sequences

\* A step that leaves a client's channel alone, and does not bring a dead server
\* back to a client that waits for it, leaves its turn alone.
LEMMA TurnKept ==
    ASSUME NEW c \in Clients, Turn(c),
           UNCHANGED <<toServer[c], toClient[c], pc[c], asked[c]>>,
           Making(c)' <=> Making(c), Making(c) => response' = response,
           lost[c] => lost'[c],
           (pc[c] = "waiting" /\ serverPc = "dead") => serverPc' = "dead" \/ lost'[c]
    PROVE  Turn(c)'
<1>1. Current(c)' = Current(c)
  BY DEF Current
<1>2. /\ Quiet(c) => Quiet(c)'
      /\ Going(c) => Going(c)'
      /\ InHand(c) => InHand(c)'
      /\ Coming(c) => Coming(c)'
  BY <1>1 DEF Quiet, Going, InHand, Coming, IsAnswer
<1> QED
  BY <1>2 DEF Turn

\* With its last process the server's end of every connection is gone.
LEMMA ClosedTurn ==
    ASSUME TypeOK, TurnInv, Closed, serverPc' = "dead",
           UNCHANGED <<serving, toClient, pc, asked>>
    PROVE  TurnInv'
<1>1. \A c \in Clients : /\ lost'[c] <=> lost[c] \/ Connected(c)
                         /\ toServer'[c] = << >>
  BY DEF Closed
<1>2. LostInv'
  <2>1. backlog' = << >> /\ Len(backlog') = 0
    BY Sequences DEF Closed
  <2>2. \A c \in Clients : lost'[c] => pc[c] # "idle"
    BY <1>1 DEF TurnInv, LostInv, Connected
  <2> QED
    BY <1>1, <2>1, <2>2 DEF LostInv
<1>3. DeadInv'
  BY <1>1 DEF DeadInv, Connected
<1>4. ASSUME NEW c \in Clients
      PROVE  Turn(c)'
  <2>1. ~ Making(c)' /\ Current(c)' = Current(c) /\ pc'[c] = pc[c]
    BY DEF Making, Current
  <2>2. Turn(c) /\ toServer'[c] = << >> /\ toClient'[c] = toClient[c]
    BY <1>1 DEF TurnInv
  <2>3. /\ Quiet(c) \/ Going(c) \/ InHand(c) => Quiet(c)'
        /\ Coming(c) => Coming(c)'
    BY <2>1, <2>2 DEF Quiet, Going, InHand, Coming, IsAnswer
  <2> QED
    BY <2>1, <2>2, <2>3 DEF Turn
<1> QED
  BY <1>2, <1>3, <1>4 DEF TurnInv

LEMMA InitTurnInv == Init => TurnInv
<1> SUFFICES ASSUME Init
             PROVE  TurnInv
  OBVIOUS
<1>1. \A c \in Clients : /\ pc[c] = "idle" /\ ~ lost[c]
                         /\ toServer[c] = << >> /\ toClient[c] = << >>
  BY DEF Init
<1>2. serverPc = "accept"
  BY DEF Init
<1> QED
  BY <1>1, <1>2 DEF TurnInv, LostInv, DeadInv, Turn, Quiet, Making

LEMMA ClientTurnInv ==
    ASSUME TypeOK, TurnInv, NEW c \in Clients, ClientStep(c)
    PROVE  TurnInv'
<1> USE DEF TurnInv
<1>p. pc \in [Clients -> {"idle", "prompt", "waiting", "shown", "exited"}]
  BY DEF TypeOK
<1>0. ASSUME NEW a \in Clients, a # c
      PROVE  Turn(a)'
  <2>1. /\ UNCHANGED <<toServer[a], toClient[a], pc[a], asked[a]>>
        /\ UNCHANGED <<serving, serverPc, response, lost>>
    BY <1>0 DEF ClientStep, Connect, ConnectFails, Ask, Receive, ReceiveNothing, Continue, Leave,
                TypeOK
  <2> QED
    BY <1>0, <2>1, TurnKept DEF Making
<1>1. CASE Connect(c)
  <2>1. backlog' = Append(backlog, c) /\ backlog \in Seq(Clients)
    BY <1>1 DEF Connect, TypeOK
  <2>2. ~ lost[c] /\ pc' = [pc EXCEPT ![c] = "prompt"]
    BY <1>1 DEF Connect, LostInv
  <2>3. LostInv'
    <3>1. \A i \in 1 .. Len(backlog') : \/ i \in 1 .. Len(backlog) /\ backlog'[i] = backlog[i]
                                        \/ backlog'[i] = c
      BY <2>1
    <3> QED
      BY <1>p, <1>1, <2>2, <3>1 DEF Connect, LostInv
  <2>4. DeadInv'
    BY <1>1 DEF Connect, DeadInv, Listening
  <2>5. Turn(c)'
    BY <1>p, <1>1, <2>2 DEF Connect, Turn, Quiet, Making
  <2> QED
    BY <1>0, <2>3, <2>4, <2>5
<1>2. ASSUME UNCHANGED <<serverPc, serving, children, backlog, toServer, lost>>,
             \A a \in Clients : a # c => pc'[a] = pc[a],
             pc'[c] # "idle" , Connected(c)' => Connected(c), Turn(c)'
      PROVE  TurnInv'
  <2>1. LostInv'
    BY <1>2 DEF LostInv
  <2>2. DeadInv'
    BY <1>2 DEF DeadInv, Connected
  <2> QED
    BY <1>0, <1>2, <2>1, <2>2
<1>3. CASE ConnectFails(c) \/ Leave(c)
  <2>1. pc' = [pc EXCEPT ![c] = "exited"] /\ (Leave(c) => Connected(c))
    BY <1>3 DEF ConnectFails, Leave
  <2>2. Turn(c)'
    BY <1>p, <2>1 DEF Turn
  <2> QED
    BY <1>p, <1>2, <1>3, <2>1, <2>2 DEF ConnectFails, Leave, Connected
<1>4. ASSUME NEW q \in Queries, Ask(c, q)
      PROVE  TurnInv'
  <2> DEFINE body == [id |-> iNum[c], query |-> q]
  <2>1. body \in Bodies /\ asked[c] \in Seq(Bodies) /\ toServer[c] \in Seq(Bodies)
    BY <1>4 DEF Ask, Bodies, TypeOK
  <2>2. Current(c)' = body
    <3>1. asked'[c] = Append(asked[c], body)
      BY <1>4 DEF Ask, TypeOK
    <3> QED
      BY <2>1, <3>1, Sequences DEF Current
  <2>3. Quiet(c) /\ pc[c] = "prompt" /\ pc' = [pc EXCEPT ![c] = "waiting"]
    BY <1>4 DEF Ask, Turn
  <2>4. CASE lost[c]
    <3>1. Quiet(c)' /\ lost'[c] /\ toServer' = toServer
      BY <1>4, <2>3, <2>4 DEF Ask, Quiet, Making
    <3>2. Turn(c)'
      BY <1>p, <2>3, <3>1 DEF Turn
    <3> QED
      BY <1>p, <1>2, <1>4, <2>3, <3>1, <3>2 DEF Ask, Connected
  <2>5. CASE ~ lost[c]
    <3>1. toServer' = [toServer EXCEPT ![c] = Append(toServer[c], body)]
      BY <1>4, <2>5 DEF Ask
    <3>2. toServer'[c] = Append(toServer[c], body)
      BY <3>1 DEF TypeOK
    <3>3. Len(toServer'[c]) = 1 /\ Head(toServer'[c]) = body
      BY <2>1, <2>3, <3>2, Sequences DEF Quiet
    <3>4. Going(c)'
      BY <1>4, <2>2, <2>3, <3>3 DEF Ask, Going, Quiet, Making
    <3>5. Turn(c)'
      BY <1>p, <2>3, <3>4 DEF Turn
    <3>6. LostInv'
      <4>1. \A a \in Clients : lost[a] => toServer'[a] = toServer[a] /\ pc'[a] = pc[a]
        BY <1>p, <2>3, <2>5, <3>1 DEF TypeOK
      <4> QED
        BY <1>4, <4>1 DEF Ask, LostInv
    <3>7. DeadInv'
      BY <1>p, <1>4, <2>3 DEF Ask, DeadInv, Connected
    <3> QED
      BY <1>0, <3>5, <3>6, <3>7
  <2> QED
    BY <2>4, <2>5
<1>5. CASE Receive(c)
  <2>1. Coming(c)
    BY <1>5 DEF Receive, Turn, Quiet, Going, InHand
  <2>2. toClient[c] \in Seq(Answers)
    BY DEF TypeOK
  <2>3. toClient'[c] = << >>
    <3>1. toClient' = [toClient EXCEPT ![c] = IF c \in CClients THEN << >> ELSE Tail(toClient[c])]
      BY <1>5 DEF Receive
    <3>2. Tail(toClient[c]) = << >>
      BY <2>1, <2>2, OneMessage DEF Coming
    <3> QED
      BY <3>1, <3>2 DEF TypeOK
  <2>4. Quiet(c)'
    BY <1>5, <2>1, <2>3 DEF Receive, Coming, Quiet, Making
  <2>5. pc' = [pc EXCEPT ![c] = "shown"] /\ pc[c] = "waiting"
    BY <1>5 DEF Receive
  <2>6. Turn(c)'
    BY <1>p, <2>4, <2>5 DEF Turn
  <2> QED
    BY <1>p, <1>2, <1>5, <2>5, <2>6 DEF Receive, Connected
<1>6. CASE ReceiveNothing(c)
  <2>1. Quiet(c)
    BY <1>6 DEF ReceiveNothing, LostInv, Turn, Going, InHand, Coming, Making, Quiet, TypeOK
  <2>2. pc[c] = "waiting" /\ \E l \in {"exited", "shown"} : pc' = [pc EXCEPT ![c] = l]
    BY <1>6 DEF ReceiveNothing
  <2>3. Turn(c)'
    BY <1>6, <1>p, <2>1, <2>2 DEF ReceiveNothing, Turn, Quiet, Making
  <2> QED
    BY <1>p, <1>2, <1>6, <2>2, <2>3 DEF ReceiveNothing, Connected
<1>7. CASE Continue(c)
  <2>1. pc[c] = "shown" /\ pc' = [pc EXCEPT ![c] = "prompt"]
    BY <1>7 DEF Continue
  <2>2. Turn(c)'
    BY <1>7, <1>p, <2>1 DEF Continue, Turn, Quiet, Making
  <2> QED
    BY <1>p, <1>2, <1>7, <2>1, <2>2 DEF Continue, Connected
<1> QED
  BY <1>1, <1>3, <1>4, <1>5, <1>6, <1>7 DEF ClientStep

LEMMA ServerTurnInv ==
    ASSUME TypeInv, TurnInv, MainStep \/ Kill \/ Restart
    PROVE  TurnInv'
<1> USE DEF TurnInv
<1>0. TypeOK
  BY DEF TypeInv
<1>1. CASE Accept
  <2>1. backlog \in Seq(Clients) /\ backlog # << >> /\ Len(backlog) \in Nat \ {0}
    BY <1>0, <1>1, Sequences DEF Accept, TypeOK
  <2>2. LostInv'
    <3>1. serving' = backlog[1] /\ 1 \in 1 .. Len(backlog)
      BY <1>1, <2>1 DEF Accept
    <3>2. \A i \in 1 .. Len(backlog') : i + 1 \in 1 .. Len(backlog) /\ backlog'[i] = backlog[i + 1]
      BY <1>1, <2>1 DEF Accept
    <3> QED
      BY <1>1, <3>1, <3>2 DEF Accept, LostInv
  <2>3. DeadInv'
    BY <1>1 DEF Accept, At, DeadInv
  <2>4. \A c \in Clients : Turn(c)'
    BY <1>1, TurnKept DEF Accept, At, Making
  <2> QED
    BY <2>2, <2>3, <2>4
<1>2. ASSUME UNCHANGED <<serving, backlog, lost, pc, asked>>,
             serving \in Clients, serverPc # "dead", serverPc' # "dead",
             \A c \in Clients : c # serving => UNCHANGED <<toServer[c], toClient[c]>>,
             toServer'[serving] = << >> \/ toServer'[serving] = toServer[serving],
             Turn(serving)'
      PROVE  TurnInv'
  <2>1. LostInv'
    BY <1>2 DEF LostInv
  <2>2. DeadInv'
    BY <1>2 DEF DeadInv
  <2>3. \A c \in Clients : c # serving => Turn(c)'
    BY <1>2, TurnKept DEF Making
  <2> QED
    BY <1>2, <2>1, <2>2, <2>3
<1>3. CASE RecvRequest
  <2>1. serving \in Clients /\ serverPc = "recv" /\ serverPc' = "send"
    BY <1>0, <1>3 DEF RecvRequest, At, TypeOK
  <2>2. toServer[serving] \in Seq(Bodies) /\ toServer[serving] # << >>
    BY <1>0, <1>3, <2>1 DEF RecvRequest, TypeOK
  <2>3. recBytes' = Head(toServer[serving]) /\ recBytes' \in Bodies
    BY <1>3, <2>2, Sequences DEF RecvRequest
  <2>4. IsAnswer(response', recBytes')
    BY <1>3, <2>3, Processed DEF RecvRequest
  <2>5. toServer' = [toServer EXCEPT ![serving] = << >>] /\ toServer'[serving] = << >>
    BY <1>0, <1>3, <2>1 DEF RecvRequest, TypeOK
  <2>6. Turn(serving)'
    <3>1. CASE pc[serving] = "waiting"
      <4>1. Going(serving)
        BY <2>1, <2>2, <3>1 DEF Turn, Quiet, InHand, Coming
      <4>2. InHand(serving)'
        <5>1. Current(serving)' = Current(serving)
          BY <1>3 DEF RecvRequest, Current
        <5> QED
          BY <1>3, <2>1, <2>3, <2>4, <2>5, <4>1, <5>1
             DEF RecvRequest, Going, InHand, Making, IsAnswer
      <4> QED
        BY <1>3, <3>1, <4>2 DEF RecvRequest, Turn
    <3>2. CASE pc[serving] # "waiting"
      <4>1. pc[serving] = "exited"
        BY <1>0, <2>1, <2>2, <3>2 DEF Turn, Quiet, TypeOK
      <4> QED
        BY <1>3, <4>1 DEF RecvRequest, Turn
    <3> QED
      BY <3>1, <3>2
  <2> QED
    BY <1>0, <1>2, <1>3, <2>1, <2>5, <2>6 DEF RecvRequest, TypeOK
<1>4. CASE RecvNothing
  <2>1. serving \in Clients /\ serverPc = "recv" /\ serverPc' = "send" /\ pc[serving] = "exited"
    BY <1>0, <1>4 DEF RecvNothing, At, TypeOK, ClientLeft
  <2>2. Turn(serving)'
    BY <1>4, <2>1 DEF RecvNothing, Turn
  <2> QED
    BY <1>2, <1>4, <2>1, <2>2 DEF RecvNothing
<1>5. CASE SendResponse
  <2>1. serving \in Clients /\ serverPc = "send" /\ serverPc' = "fork" /\ Making(serving)
    BY <1>0, <1>5 DEF SendResponse, At, TypeOK, Making
  <2>2. CASE ClientLeft
    <3>1. Turn(serving)'
      BY <1>5, <2>2 DEF SendResponse, ClientLeft, Turn
    <3> QED
      BY <1>2, <1>5, <2>1, <2>2, <3>1 DEF SendResponse
  <2>3. CASE ~ ClientLeft
    <3>1. toClient' = [toClient EXCEPT ![serving] = Append(toClient[serving], response)]
      BY <1>5, <2>3 DEF SendResponse
    <3>2. pc[serving] = "waiting" /\ InHand(serving)
      BY <1>0, <2>1, <2>3 DEF ClientLeft, Turn, Quiet, Going, Coming, TypeOK
    <3>3. response \in Answers /\ toClient[serving] = << >>
      BY <1>0, <2>1, <3>2 DEF InHand, TypeOK
    <3>4. Len(toClient'[serving]) = 1 /\ Head(toClient'[serving]) = response
      <4>1. toClient'[serving] = Append(toClient[serving], response)
        BY <1>0, <2>1, <3>1 DEF TypeOK
      <4> QED
        BY <3>3, <4>1, Sequences
    <3>5. Current(serving)' = Current(serving)
      BY <1>5 DEF SendResponse, Current
    <3>6. Coming(serving)'
      BY <1>5, <2>1, <3>2, <3>4, <3>5 DEF SendResponse, InHand, Coming, Making, IsAnswer
    <3>7. Turn(serving)'
      BY <1>5, <3>2, <3>6 DEF SendResponse, Turn
    <3>8. \A c \in Clients : c # serving => toClient'[c] = toClient[c]
      BY <1>0, <3>1 DEF TypeOK
    <3> QED
      BY <1>2, <1>5, <2>1, <3>7, <3>8 DEF SendResponse
  <2> QED
    BY <2>2, <2>3
<1>6. CASE Fork
  <2>1. serving \in Clients /\ serverPc = "fork" /\ serverPc' = "recv"
    BY <1>0, <1>6 DEF Fork, At, TypeOK
  <2>2. Turn(serving)'
    BY <1>6, <2>1, TurnKept DEF Fork, Making
  <2> QED
    BY <1>2, <1>6, <2>1, <2>2 DEF Fork
<1>7. CASE Dies
  <2>1. CASE children = 0
    BY <1>0, <1>7, <2>1, ClosedTurn DEF Dies
  <2>2. CASE children # 0
    <3>1. LostInv'
      BY <1>7, <2>2 DEF Dies, LostInv
    <3>2. DeadInv'
      BY <1>7, <2>2 DEF Dies, DeadInv
    <3>3. ASSUME NEW c \in Clients
          PROVE  Turn(c)'
      <4>1. ~ Making(c)' /\ serverPc' = "dead" /\ Current(c)' = Current(c)
        BY <1>7 DEF Dies, Making, Current
      <4>2. UNCHANGED <<toServer, toClient, pc>>
        BY <1>7, <2>2 DEF Dies
      <4>3. /\ Quiet(c) \/ InHand(c) => Quiet(c)'
            /\ Going(c) => Going(c)'
            /\ Coming(c) => Coming(c)'
        BY <4>1, <4>2 DEF Quiet, InHand, Going, Coming, IsAnswer
      <4> QED
        BY <4>1, <4>2, <4>3 DEF Turn
    <3> QED
      BY <3>1, <3>2, <3>3
  <2> QED
    BY <2>1, <2>2
<1>8. CASE Restart
  <2>1. serverPc = "dead" /\ children = 0 /\ serverPc' = "accept"
    BY <1>0, <1>8 DEF Restart, Listening, TypeOK
  <2>2. LostInv'
    BY <1>8, TcpAssumption DEF Restart, LostInv
  <2>3. DeadInv'
    BY <2>1 DEF DeadInv
  <2>4. ASSUME NEW c \in Clients
        PROVE  Turn(c)'
    <3>1. pc[c] = "waiting" => lost'[c]
      BY <1>8, <2>1 DEF Restart, DeadInv, Connected
    <3> QED
      BY <1>8, <2>1, <3>1, TurnKept DEF Restart, Making
  <2> QED
    BY <2>2, <2>3, <2>4
<1> QED
  BY <1>1, <1>3, <1>4, <1>5, <1>6, <1>7, <1>8 DEF MainStep, ConnectionKills, Kill

LEMMA ChildrenTurnInv ==
    ASSUME TypeOK, TurnInv, ChildEnds \/ HandlerStep
    PROVE  TurnInv'
<1>1. CASE ChildEnds /\ serverPc = "dead" /\ children = 1
  BY <1>1, ClosedTurn DEF ChildEnds
<1>2. ASSUME UNCHANGED <<mainVars, kernelVars, clientVars>>,
             serverPc = "dead" /\ children' = 0 => children = 0
      PROVE  TurnInv'
  <2>1. LostInv' /\ DeadInv'
    BY <1>2 DEF TurnInv, LostInv, DeadInv, Connected
  <2>2. \A c \in Clients : Turn(c)'
    BY <1>2, TurnKept DEF TurnInv, Making
  <2> QED
    BY <2>1, <2>2 DEF TurnInv
<1>3. CASE ChildEnds /\ ~ (serverPc = "dead" /\ children = 1)
  <2>1. serverPc = "dead" => children' # 0
    BY <1>3 DEF ChildEnds, TypeOK
  <2> QED
    BY <1>2, <1>3, <2>1 DEF ChildEnds
<1>4. CASE HandlerStep
  BY <1>2, <1>4 DEF HandlerStep, HandlerStarts, HandlerReaps, HandlerReturns
<1> QED
  BY <1>1, <1>3, <1>4

LEMMA NextTurnInv ==
    ASSUME TypeInv, TurnInv, [Next]_vars
    PROVE  TurnInv'
<1>1. CASE UNCHANGED vars
  <2>1. LostInv' /\ DeadInv'
    BY <1>1 DEF vars, TurnInv, LostInv, DeadInv, Connected
  <2>2. \A c \in Clients : Turn(c)'
    BY <1>1, TurnKept DEF vars, TurnInv, Making
  <2> QED
    BY <2>1, <2>2 DEF TurnInv
<1> QED
  BY <1>1, ClientTurnInv, ServerTurnInv, ChildrenTurnInv DEF Next, TypeInv

LEMMA TurnAlways == Spec => []TurnInv
  BY InitTurnInv, NextTurnInv, TypeAlways, PTL DEF Spec

\* On every connection requests and answers alternate, so that no read merges
\* two messages and no answer is given twice to a client that is there, whatever
\* the children, the signals and the other clients do (tcp/TCP-server.c:258-293).
THEOREM TurnsTaken == Spec => []InTurn
<1>1. TypeOK /\ TurnInv => InTurn
  <2> SUFFICES ASSUME TypeOK, TurnInv, NEW c \in Clients
               PROVE  LET pending == Len(toServer[c]) + Len(toClient[c]) + (IF Making(c) THEN 1 ELSE 0)
                      IN  /\ pc[c] = "waiting" => pending \in (IF serverPc = "dead" \/ lost[c] THEN 0 .. 1 ELSE {1})
                          /\ pc[c] \in {"idle", "prompt", "shown"} => pending = 0
                          /\ (pc[c] = "waiting" /\ toClient[c] # << >>) =>
                                 IsAnswer(Head(toClient[c]), Current(c))
    BY DEF InTurn, Making
  <2>1. Turn(c)
    BY DEF TurnInv
  <2>2. Len(<< >>) = 0
    OBVIOUS
  <2> DEFINE going   == Len(toServer[c])
             coming  == Len(toClient[c])
             inHand  == IF Making(c) THEN 1 ELSE 0
             pending == going + coming + inHand
  <2>3. /\ Quiet(c) => going = 0 /\ coming = 0 /\ inHand = 0
        /\ Going(c) => going = 1 /\ coming = 0 /\ inHand = 0
        /\ InHand(c) => going = 0 /\ coming = 0 /\ inHand = 1
        /\ Coming(c) => going = 0 /\ coming = 1 /\ inHand = 0
    BY <2>2 DEF Quiet, Going, InHand, Coming
  <2> HIDE DEF going, coming, inHand
  <2>4. /\ Quiet(c) => pending = 0
        /\ Going(c) \/ InHand(c) \/ Coming(c) => pending = 1
    BY <2>3
  <2>5. pc[c] = "waiting" /\ toClient[c] # << >> => IsAnswer(Head(toClient[c]), Current(c))
    BY <2>1 DEF Turn, Quiet, Going, InHand, Coming
  <2>6. pc[c] = "waiting" => pending = 1 \/ (pending = 0 /\ (serverPc = "dead" \/ lost[c]))
    BY <2>1, <2>4 DEF Turn
  <2>7. pc[c] \in {"idle", "prompt", "shown"} => pending = 0
    BY <2>1, <2>4 DEF Turn
  <2> HIDE DEF pending
  <2>8. pc[c] = "waiting" => pending \in (IF serverPc = "dead" \/ lost[c] THEN 0 .. 1 ELSE {1})
    BY <2>6
  <2> QED
    BY <2>5, <2>7, <2>8 DEF pending, going, coming, inHand
<1> QED
  BY <1>1, TypeCorrect, TurnAlways, PTL

\* What a client that still has its connection shows answers the request it has
\* just made; the unchecked reads of both programs show leftovers only after
\* the other end has gone (tcp/TCP-client.c:265, tcp/TCP-server.c:259).
THEOREM AnswersAreCurrent == Spec => []AnswersCurrent
<1>1. Init => AnswersCurrent
  BY DEF Init, AnswersCurrent
<1>2. TypeOK /\ TurnInv /\ AnswersCurrent /\ [Next]_vars => AnswersCurrent'
  <2> SUFFICES ASSUME TypeOK, TurnInv, AnswersCurrent, [Next]_vars
               PROVE  AnswersCurrent'
    OBVIOUS
  <2>1. ASSUME NEW c \in Clients,
               pc'[c] = pc[c], buf'[c] = buf[c], asked'[c] = asked[c], lost[c] => lost'[c]
        PROVE  pc'[c] = "shown" => lost'[c] \/ IsAnswer(buf'[c], Current(c)')
    BY <2>1 DEF AnswersCurrent, Current
  <2>2. ASSUME NEW c \in Clients, Receive(c)
        PROVE  AnswersCurrent'
    <3>1. IsAnswer(Head(toClient[c]), Current(c))
      BY <2>2 DEF Receive, TurnInv, Turn, Quiet, Going, InHand, Coming
    <3>2. IsAnswer(buf'[c], Current(c)')
      BY <2>2, <3>1 DEF Receive, Current, TypeOK
    <3>3. \A a \in Clients : a # c => pc'[a] = pc[a] /\ buf'[a] = buf[a]
      BY <2>2 DEF Receive, TypeOK
    <3> QED
      BY <2>1, <2>2, <3>2, <3>3 DEF Receive, AnswersCurrent, IsAnswer, Current
  <2>3. ASSUME NEW c \in Clients, ReceiveNothing(c)
        PROVE  AnswersCurrent'
    <3>1. lost'[c] /\ \A a \in Clients : a # c => pc'[a] = pc[a] /\ buf'[a] = buf[a]
      BY <2>3 DEF ReceiveNothing, TypeOK
    <3> QED
      BY <2>1, <2>3, <3>1 DEF ReceiveNothing, AnswersCurrent, IsAnswer, Current
  <2>4. ASSUME NEW c \in Clients, pc'[c] # "shown", buf' = buf, lost' = lost,
               \A a \in Clients : a # c => pc'[a] = pc[a] /\ asked'[a] = asked[a]
        PROVE  AnswersCurrent'
    BY <2>1, <2>4 DEF AnswersCurrent, IsAnswer, Current
  <2>5. ASSUME NEW c \in Clients, Connect(c) \/ ConnectFails(c) \/ Continue(c) \/ Leave(c)
               \/ \E q \in Queries : Ask(c, q)
        PROVE  AnswersCurrent'
    BY <2>4, <2>5 DEF Connect, ConnectFails, Continue, Leave, Ask, TypeOK
  <2>6. CASE UNCHANGED <<pc, buf, asked>> /\ \A c \in Clients : lost[c] => lost'[c]
    BY <2>1, <2>6 DEF AnswersCurrent, IsAnswer, Current
  <2>7. CASE MainStep \/ Kill \/ Restart \/ ChildEnds \/ HandlerStep \/ UNCHANGED vars
    BY <2>6, <2>7 DEF MainStep, Accept, RecvRequest, RecvNothing, SendResponse, Fork,
       ConnectionKills, Dies, Closed, Kill, Restart, ChildEnds, HandlerStep, HandlerStarts,
       HandlerReaps, HandlerReturns, vars
  <2> QED
    BY <2>2, <2>3, <2>5, <2>7 DEF Next, ClientStep
<1> QED
  BY <1>1, <1>2, TypeCorrect, TurnAlways, PTL DEF Spec
=============================================================================
