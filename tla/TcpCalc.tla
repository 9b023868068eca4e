------------------------------ MODULE TcpCalc ------------------------------
(***************************************************************************)
(* The TCP lab: calculator clients (tcp/TCP-client.c, tcp/tcpclient.py)    *)
(* and the server tcp/TCP-server.c.  The server never leaves the loop in   *)
(* which it serves its first client: when that client has left, recv       *)
(* returns no bytes, the last request is processed and answered again, and *)
(* sooner or later a signal or an error ends the server.  After each       *)
(* answer it forks a child that closes its descriptors and exits.          *)
(*                                                                         *)
(* A message is received as it was sent: eight and seven bytes arrive      *)
(* whole (a short read is not modelled).                                   *)
(***************************************************************************)
EXTENDS Calc, Sequences, FiniteSetsExt

CONSTANTS
    CClients,       \* runs of TCP-client.c
    PythonClients,  \* runs of tcpclient.py
    Queries,        \* what a user may type: records [op, one, two]
    IDSpace,        \* values of an unsigned byte (256 in the code)
    ListenQueue,    \* completed connections the kernel keeps for listen(BACKLOG)
    MaxAsks,        \* bound: requests the clients make in all
    MaxEmpty,       \* bound: empty reads before the peer's reset ends the server
    MaxKills,       \* bound: times the server is killed
    MaxRestarts,    \* bound: times the server is started again
    Uninit,         \* contents of a buffer nothing has been written to
    None            \* no client

Clients == CClients \cup PythonClients
IDs     == 0 .. IDSpace - 1
Bodies  == [id : IDs, query : Queries]
Answers == [id : IDs, result : Int]

ASSUME TcpAssumption ==
    /\ CClients \cap PythonClients = {} /\ None \notin Clients
    /\ IDSpace \in Nat \ {0}
    /\ ListenQueue \in Nat /\ MaxAsks \in Nat /\ MaxEmpty \in Nat
    /\ MaxKills \in Nat /\ MaxRestarts \in Nat
    /\ Uninit \notin Bodies \cup Answers

ASSUME QueriesAssumption == Queries \subseteq CalcQueries

VARIABLES
    serverPc, serving, recBytes, response, reset, \* the server: main
    empties, kills, restarts,                     \* what the bounds count
    children, zombies, sigchld, handling,         \* its children and their signal
    backlog, toServer, toClient,                  \* what the kernels hold
    pc, iNum, buf, lost, asked                    \* the clients; asked is history

mainVars   == <<serverPc, serving, recBytes, response, reset, empties>>
boundVars  == <<kills, restarts>>
childVars  == <<children, zombies, sigchld, handling>>
kernelVars == <<backlog, toServer, toClient>>
clientVars == <<pc, iNum, buf, lost, asked>>
vars       == <<mainVars, boundVars, childVars, kernelVars, clientVars>>

Init ==
    /\ serverPc = "accept" /\ serving = None
    /\ recBytes = Uninit /\ response = Uninit
    /\ reset = FALSE /\ empties = 0
    /\ kills = 0 /\ restarts = 0
    /\ children = 0 /\ zombies = 0 /\ sigchld = FALSE /\ handling = FALSE
    /\ backlog = << >>
    /\ toServer = [c \in Clients |-> << >>] /\ toClient = [c \in Clients |-> << >>]
    /\ pc = [c \in Clients |-> "idle"]
    /\ iNum = [c \in Clients |-> IF c \in PythonClients THEN 1 ELSE 0]
    /\ buf = [c \in Clients |-> Uninit]
    /\ lost = [c \in Clients |-> FALSE]
    /\ asked = [c \in Clients |-> << >>]

-----------------------------------------------------------------------------
(* The clients.                                                            *)

Connected(c) == pc[c] \in {"prompt", "waiting", "shown"}

\* A child inherits the listening socket: the port is open while one lives.
Listening == serverPc # "dead" \/ children > 0

Connect(c) ==
    /\ pc[c] = "idle" /\ Listening /\ Len(backlog) < ListenQueue
    /\ backlog' = Append(backlog, c)
    /\ pc' = [pc EXCEPT ![c] = "prompt"]
    /\ UNCHANGED <<mainVars, boundVars, childVars, toServer, toClient, iNum, buf, lost, asked>>

ConnectFails(c) ==
    /\ pc[c] = "idle" /\ ~ Listening
    /\ pc' = [pc EXCEPT ![c] = "exited"]
    /\ UNCHANGED <<mainVars, boundVars, childVars, kernelVars, iNum, buf, lost, asked>>

AsksMade == MapThenSumSet(LAMBDA c : Len(asked[c]), Clients)

\* The C client ignores what send returns.  A Python requestID of 256 does not
\* pack into a byte, which ends the program (see Leave).
Ask(c, q) ==
    /\ pc[c] = "prompt" /\ AsksMade < MaxAsks /\ iNum[c] \in IDs
    /\ LET body == [id |-> iNum[c], query |-> q]
       IN  /\ asked' = [asked EXCEPT ![c] = Append(@, body)]
           /\ toServer' = IF lost[c] THEN toServer
                          ELSE [toServer EXCEPT ![c] = Append(@, body)]
    /\ pc' = [pc EXCEPT ![c] = "waiting"]
    /\ UNCHANGED <<mainVars, boundVars, childVars, backlog, toClient, iNum, buf, lost>>

\* Mutant: the answer stays in the kernel's buffer.
Receive_Peek(c) ==
    /\ pc[c] = "waiting" /\ toClient[c] # << >>
    /\ buf' = [buf EXCEPT ![c] = Head(toClient[c])]
    /\ pc' = [pc EXCEPT ![c] = "shown"]
    /\ UNCHANGED <<mainVars, boundVars, childVars, kernelVars, iNum, lost, asked>>

\* recv takes all there is in C, seven bytes in Python; the first answer is shown.
Receive(c) ==
    /\ pc[c] = "waiting" /\ toClient[c] # << >>
    /\ buf' = [buf EXCEPT ![c] = Head(toClient[c])]
    /\ toClient' = [toClient EXCEPT ![c] = IF c \in CClients THEN << >> ELSE Tail(@)]
    /\ pc' = [pc EXCEPT ![c] = "shown"]
    /\ UNCHANGED <<mainVars, boundVars, childVars, backlog, toServer, iNum, lost, asked>>

\* Mutant: an empty read counts as an answer, with nothing in buf either.
ReceiveNothing_Unchecked(c) ==
    /\ pc[c] = "waiting" /\ lost[c] /\ toClient[c] = << >>
    /\ pc' = [pc EXCEPT ![c] = "shown"]
    /\ UNCHANGED <<mainVars, boundVars, childVars, kernelVars, iNum, buf, lost, asked>>

(***************************************************************************)
(* The server is gone and nothing is left to read.  recv fails, or returns *)
(* no bytes: Python then has nothing to unpack, and C shows what buf holds *)
(* from before.  A buf never filled holds any length: the copy into        *)
(* recBytes runs over main's other variables.                              *)
(***************************************************************************)
ReceiveNothing(c) ==
    /\ pc[c] = "waiting" /\ lost[c] /\ toClient[c] = << >>
    /\ \/ /\ pc' = [pc EXCEPT ![c] = "exited"]
          /\ UNCHANGED <<buf, iNum>>
       \/ /\ c \in CClients /\ buf[c] # Uninit
          /\ pc' = [pc EXCEPT ![c] = "shown"]
          /\ UNCHANGED <<buf, iNum>>
       \/ /\ c \in CClients /\ buf[c] = Uninit
          /\ pc' = [pc EXCEPT ![c] = "shown"]
          /\ \E i, n \in IDs, r \in Garbage :
                /\ buf' = [buf EXCEPT ![c] = [id |-> i, result |-> r]]
                /\ iNum' = [iNum EXCEPT ![c] = n]
    /\ UNCHANGED <<mainVars, boundVars, childVars, kernelVars, lost, asked>>

\* C counts in an int and sends its low byte; Python counts up to 256.
NextNum(c) == IF c \in CClients THEN (iNum[c] + 1) % IDSpace ELSE iNum[c] + 1

Continue(c) ==
    /\ pc[c] = "shown"
    /\ pc' = [pc EXCEPT ![c] = "prompt"]
    /\ iNum' = [iNum EXCEPT ![c] = NextNum(c)]
    /\ UNCHANGED <<mainVars, boundVars, childVars, kernelVars, buf, lost, asked>>

\* The user has had enough, or the program is ended by a failing send, an
\* exception or a signal: the kernel closes the connection.
Leave(c) ==
    /\ Connected(c)
    /\ pc' = [pc EXCEPT ![c] = "exited"]
    /\ UNCHANGED <<mainVars, boundVars, childVars, kernelVars, iNum, buf, lost, asked>>

-----------------------------------------------------------------------------
(* The server.  While it handles a signal its main program does not run.   *)

At(label) == serverPc = label /\ ~ handling

ClientLeft == pc[serving] = "exited"

Accept ==
    /\ At("accept") /\ backlog # << >>
    /\ serving' = Head(backlog) /\ backlog' = Tail(backlog)
    /\ serverPc' = "recv"
    /\ UNCHANGED <<recBytes, response, reset, empties, boundVars, childVars>>
    /\ UNCHANGED <<toServer, toClient, clientVars>>

processRequest(bytes) ==
    IF bytes = Uninit THEN [id : IDs, result : Garbage]
    ELSE [id : {bytes.id}, result : calcResult(bytes.query)]

\* Mutant: the answer is made before the request is copied to recBytes.
RecvRequest_Late ==
    /\ At("recv") /\ toServer[serving] # << >>
    /\ recBytes' = Head(toServer[serving])
    /\ toServer' = [toServer EXCEPT ![serving] = << >>]
    /\ response' \in processRequest(IF recBytes = Uninit THEN recBytes' ELSE recBytes)
    /\ serverPc' = "send"
    /\ UNCHANGED <<serving, reset, empties, boundVars, childVars, backlog, toClient, clientVars>>

\* recv takes all there is; the first request is answered.
RecvRequest ==
    /\ At("recv") /\ toServer[serving] # << >>
    /\ recBytes' = Head(toServer[serving])
    /\ toServer' = [toServer EXCEPT ![serving] = << >>]
    /\ response' \in processRequest(recBytes')
    /\ serverPc' = "send"
    /\ UNCHANGED <<serving, reset, empties, boundVars, childVars, backlog, toClient, clientVars>>

\* Mutant: recv does not wait for a client that is still there.
RecvNothing_NonBlocking ==
    /\ At("recv") /\ toServer[serving] = << >>
    /\ empties < MaxEmpty /\ empties' = empties + 1
    /\ response' \in processRequest(recBytes)
    /\ serverPc' = "send"
    /\ UNCHANGED <<serving, recBytes, reset, boundVars, childVars, kernelVars, clientVars>>

\* The client has left: no bytes, and whatever recBytes holds is answered.
RecvNothing ==
    /\ At("recv") /\ toServer[serving] = << >> /\ ClientLeft
    /\ empties < MaxEmpty /\ empties' = empties + 1
    /\ response' \in processRequest(recBytes)
    /\ serverPc' = "send"
    /\ UNCHANGED <<serving, recBytes, reset, boundVars, childVars, kernelVars, clientVars>>

\* Mutant: the answer is not sent.
SendResponse_Missing ==
    /\ At("send")
    /\ reset' = (reset \/ ClientLeft)
    /\ serverPc' = "fork"
    /\ UNCHANGED <<serving, recBytes, response, empties, boundVars, childVars>>
    /\ UNCHANGED <<kernelVars, clientVars>>

\* An answer to a client that has left goes nowhere; its kernel resets the
\* connection, and the reset comes some time later.
SendResponse ==
    /\ At("send")
    /\ toClient' = IF ClientLeft THEN toClient
                   ELSE [toClient EXCEPT ![serving] = Append(@, response)]
    /\ reset' = (reset \/ ClientLeft)
    /\ serverPc' = "fork"
    /\ UNCHANGED <<serving, recBytes, response, empties, boundVars, childVars>>
    /\ UNCHANGED <<backlog, toServer, clientVars>>

\* With fork failing too the parent goes on to recv.
Fork ==
    /\ At("fork")
    /\ children' \in {children, children + 1}
    /\ serverPc' = "recv"
    /\ UNCHANGED <<serving, recBytes, response, reset, empties, boundVars>>
    /\ UNCHANGED <<zombies, sigchld, handling, kernelVars, clientVars>>

\* The last process that had the sockets is gone: every connection ends.
Closed ==
    /\ lost' = [c \in Clients |-> lost[c] \/ Connected(c)]
    /\ backlog' = << >>
    /\ toServer' = [c \in Clients |-> << >>]

Dies ==
    /\ serverPc' = "dead"
    /\ zombies' = 0 /\ sigchld' = FALSE /\ handling' = FALSE
    /\ IF children = 0 THEN Closed ELSE UNCHANGED <<lost, backlog, toServer>>
    /\ UNCHANGED <<serving, recBytes, response, reset, empties, children, restarts>>
    /\ UNCHANGED <<toClient, pc, iNum, buf, asked>>

\* A client that left an answer unread has reset the connection as it closed.
Reset == reset \/ toClient[serving] # << >>

\* recv reports the reset and main exits, or send raises SIGPIPE, or an empty
\* read with nothing read before takes its length from a byte never written
\* and the copy into recBytes runs into memory it must not touch.
ConnectionKills ==
    /\ \/ At("recv") /\ toServer[serving] = << >> /\ (Reset \/ recBytes = Uninit)
       \/ At("send") /\ Reset
    /\ ClientLeft
    /\ Dies /\ UNCHANGED kills

Kill ==
    /\ serverPc # "dead" /\ kills < MaxKills
    /\ kills' = kills + 1
    /\ Dies

\* bind fails while a child of the old server has the listening socket.
Restart ==
    /\ ~ Listening /\ restarts < MaxRestarts
    /\ restarts' = restarts + 1
    /\ serverPc' = "accept" /\ serving' = None
    /\ recBytes' = Uninit /\ response' = Uninit
    /\ reset' = FALSE /\ empties' = 0
    /\ UNCHANGED <<kills, childVars, kernelVars, clientVars>>

-----------------------------------------------------------------------------
(* The children and SIGCHLD.                                               *)

\* Mutant: the child waits for the client to close its end.
ChildEnds_Lingers ==
    /\ children > 0 /\ children' = children - 1
    /\ pc[serving] = "exited"
    /\ IF serverPc = "dead"
       THEN /\ IF children = 1 THEN Closed ELSE UNCHANGED <<lost, backlog, toServer>>
            /\ UNCHANGED <<zombies, sigchld>>
       ELSE /\ zombies' = zombies + 1 /\ sigchld' = TRUE
            /\ UNCHANGED <<lost, backlog, toServer>>
    /\ UNCHANGED <<mainVars, boundVars, handling, toClient, pc, iNum, buf, asked>>

\* A child closes both descriptors and exits.  Signals of one kind do not queue.
ChildEnds ==
    /\ children > 0 /\ children' = children - 1
    /\ IF serverPc = "dead"
       THEN /\ IF children = 1 THEN Closed ELSE UNCHANGED <<lost, backlog, toServer>>
            /\ UNCHANGED <<zombies, sigchld>>
       ELSE /\ zombies' = zombies + 1 /\ sigchld' = TRUE
            /\ UNCHANGED <<lost, backlog, toServer>>
    /\ UNCHANGED <<mainVars, boundVars, handling, toClient, pc, iNum, buf, asked>>

\* sigchld_handler: SIGCHLD is blocked while it runs.
HandlerStarts ==
    /\ sigchld /\ ~ handling /\ serverPc # "dead"
    /\ handling' = TRUE /\ sigchld' = FALSE
    /\ UNCHANGED <<mainVars, boundVars, children, zombies, kernelVars, clientVars>>

HandlerReaps ==
    /\ handling /\ zombies > 0
    /\ zombies' = zombies - 1
    /\ UNCHANGED <<mainVars, boundVars, children, sigchld, handling, kernelVars, clientVars>>

\* Mutant: one waitpid for each signal.
HandlerReturns_One ==
    /\ handling
    /\ handling' = FALSE
    /\ UNCHANGED <<mainVars, boundVars, children, zombies, sigchld, kernelVars, clientVars>>

HandlerReturns ==
    /\ handling /\ zombies = 0
    /\ handling' = FALSE
    /\ UNCHANGED <<mainVars, boundVars, children, zombies, sigchld, kernelVars, clientVars>>

-----------------------------------------------------------------------------
ClientStep(c) ==
    \/ Connect(c) \/ ConnectFails(c)
    \/ \E q \in Queries : Ask(c, q)
    \/ Receive(c) \/ ReceiveNothing(c) \/ Continue(c) \/ Leave(c)

MainStep ==
    Accept \/ RecvRequest \/ RecvNothing \/ SendResponse \/ Fork \/ ConnectionKills

HandlerStep == HandlerStarts \/ HandlerReaps \/ HandlerReturns

Next ==
    \/ \E c \in Clients : ClientStep(c)
    \/ MainStep \/ Kill \/ Restart
    \/ ChildEnds \/ HandlerStep

Spec == Init /\ [][Next]_vars

\* The server, its signal handler, its children and a client in recv run when
\* they can.  Users type when they like, and nobody has to restart a server.
Fairness ==
    /\ WF_vars(MainStep) /\ WF_vars(HandlerStep) /\ WF_vars(ChildEnds)
    /\ \A c \in Clients : WF_vars(Receive(c) \/ ReceiveNothing(c))

FairSpec == Spec /\ Fairness

-----------------------------------------------------------------------------
(* What must hold.                                                         *)

\* The variables of main in both programs, the kernels' queues and the
\* children's bookkeeping keep to their kinds of value.
TypeOK ==
    /\ serverPc \in {"accept", "recv", "send", "fork", "dead"}
    /\ serving \in Clients \cup {None}
    /\ serverPc \in {"recv", "send", "fork"} => serving # None
    /\ recBytes \in Bodies \cup {Uninit} /\ response \in Answers \cup {Uninit}
    /\ serverPc = "send" => response # Uninit
    /\ reset \in BOOLEAN
    /\ empties \in 0 .. MaxEmpty /\ kills \in 0 .. MaxKills /\ restarts \in 0 .. MaxRestarts
    /\ children \in Nat /\ zombies \in Nat
    /\ sigchld \in BOOLEAN /\ handling \in BOOLEAN
    /\ backlog \in Seq(Clients)
    /\ toServer \in [Clients -> Seq(Bodies)] /\ toClient \in [Clients -> Seq(Answers)]
    /\ pc \in [Clients -> {"idle", "prompt", "waiting", "shown", "exited"}]
    /\ iNum \in [Clients -> 0 .. IDSpace]
    /\ buf \in [Clients -> Answers \cup {Uninit}]
    /\ lost \in [Clients -> BOOLEAN]
    /\ asked \in [Clients -> Seq(Bodies)]
    /\ \A c \in Clients : pc[c] \in {"waiting", "shown"} => asked[c] # << >>
    /\ \A c \in Clients : pc[c] = "shown" => buf[c] # Uninit

Current(c) == asked[c][Len(asked[c])]

IsAnswer(a, body) == a.id = body.id /\ a.result \in calcResult(body.query)

\* What a client shows is the answer to the request it has just made, or its
\* connection is gone: the leftovers in the two programs' buffers never
\* reach a user while both ends live.
AnswersCurrent ==
    \A c \in Clients : pc[c] = "shown" => lost[c] \/ IsAnswer(buf[c], Current(c))

\* Requests and answers alternate on every connection: one of the two at most
\* is under way, only while the client waits, and the answer the server is
\* making belongs to the request waited for.  So no recv finds two messages
\* to merge, and no client that is there gets an answer twice.
InTurn ==
    \A c \in Clients :
        LET making  == serving = c /\ serverPc = "send"
            pending == Len(toServer[c]) + Len(toClient[c]) + (IF making THEN 1 ELSE 0)
        IN  /\ pc[c] = "waiting" => pending \in (IF serverPc = "dead" \/ lost[c] THEN 0 .. 1 ELSE {1})
            /\ pc[c] \in {"idle", "prompt", "shown"} => pending = 0
            /\ (pc[c] = "waiting" /\ toClient[c] # << >>) =>
                   IsAnswer(Head(toClient[c]), Current(c))

\* A child that has exited is reaped, or SIGCHLD is pending, or the handler
\* runs: two children whose signals were merged into one leave no zombie.
ZombiesReaped == zombies > 0 => sigchld \/ handling

\* A client being served is answered whatever the children do.
ServedIsAnswered ==
    \A c \in Clients : (pc[c] = "waiting" /\ serving = c) ~> pc[c] # "waiting"

\* The server's death reaches every client that waits, in service or in the
\* kernel's queue, although its children have its sockets open.
NobodyWaitsForTheDead ==
    \A c \in Clients : (pc[c] = "waiting" /\ serverPc = "dead") ~> pc[c] # "waiting"

(***************************************************************************)
(* The exchange as a user sees it; with its connection a client leaves.    *)
(***************************************************************************)
View(c) ==
    IF lost[c] THEN [at |-> "left"]
    ELSE CASE pc[c] \in {"idle", "prompt"} -> [at |-> "ready"]
           [] pc[c] = "waiting" -> [at |-> "asked", query |-> Current(c).query]
           [] pc[c] = "shown"   -> [at |-> "shown", query |-> Current(c).query, result |-> buf[c].result]
           [] pc[c] = "exited"  -> [at |-> "left"]

session == [c \in Clients |-> View(c)]

Promised == [q \in Queries |-> calcResult(q)]

Service == INSTANCE CalcService WITH Users <- Clients, ResultsOf <- Promised

\* Through forks, signals, stale buffers, kills and restarts, whoever still
\* has a connection gets what the calculator promises (see CalcService).
TcpImplements == Service!Spec

-----------------------------------------------------------------------------
(* What the repository says and the code does not do.                      *)

\* The outer loop is called the "main accept() loop" (TCP-server.c:246) and
\* closes the connection at its end (TCP-server.c:299): after a client has
\* been answered and has left the server accepts the next one.
MainAcceptLoop ==
    (serving # None /\ recBytes # Uninit /\ pc[serving] = "exited") ~>
        (serverPc = "accept" \/ kills > 0)
=============================================================================
