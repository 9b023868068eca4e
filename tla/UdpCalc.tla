------------------------------ MODULE UdpCalc ------------------------------
(***************************************************************************)
(* The UDP lab: calculator clients (udp/ClientUDP.c) and one server, the C *)
(* one (udp/ServerUDP.c) or the Python one (udp/udpserv.py).  A client     *)
(* sends a request and blocks in recvfrom: there is no timeout and no      *)
(* retry, and the request ID a reply carries is displayed, never checked.  *)
(* The C server keeps the bytes of the last request in recBytes for ever.  *)
(***************************************************************************)
EXTENDS Calc, Sequences, FiniteSetsExt

CONSTANTS
    Clients,       \* client processes, each with a socket of its own
    Queries,       \* what a user may type: records [op, one, two]
    Servers,       \* the server programs considered
    Spills,        \* the client builds considered (see Continue)
    IDSpace,       \* values of an unsigned byte (256 in the code)
    CanLose,       \* the network may lose a datagram
    CanDuplicate,  \* the network may deliver a datagram again
    MaxAsks,       \* bound: requests the clients make in all
    MaxRestarts,   \* bound: times the server is killed and started again
    Uninit,        \* contents of a buffer nothing has been written to
    NoBytes        \* contents of a datagram of length 0

\* A datagram of eight bytes carries a request ID and a query.
IDs      == 0 .. IDSpace - 1
Bodies   == [id : IDs, query : Queries]
Requests == [from : Clients, body : Bodies \cup {NoBytes}]
Replies  == [to : Clients, id : IDs, result : Int]

ASSUME UdpAssumption ==
    /\ Servers \subseteq {"C", "Python"} /\ Spills \subseteq BOOLEAN
    /\ IDSpace \in Nat \ {0}
    /\ CanLose \in BOOLEAN /\ CanDuplicate \in BOOLEAN
    /\ MaxAsks \in Nat /\ MaxRestarts \in Nat
    /\ Uninit \notin Bodies \cup Replies \cup {NoBytes} /\ NoBytes \notin Bodies

ASSUME QueriesAssumption == Queries \subseteq CalcQueries

VARIABLES
    server,       \* the server program running
    spill,        \* whether scanf overwrites the neighbours of keepGoing
    serverUp, recBytes, restarts,                 \* the server
    pc, requestID, totMessLength, shown, asked,   \* the clients; asked is history
    requests, replies                             \* datagrams in flight

build      == <<server, spill>>
serverVars == <<serverUp, recBytes, restarts>>
clientVars == <<pc, requestID, totMessLength, shown, asked>>
vars       == <<build, serverVars, clientVars, requests, replies>>

Init ==
    /\ server \in Servers /\ spill \in Spills
    /\ serverUp = TRUE /\ recBytes = Uninit /\ restarts = 0
    /\ pc = [c \in Clients |-> "prompt"]
    /\ requestID = [c \in Clients |-> 0]
    /\ totMessLength = [c \in Clients |-> 8]
    /\ shown = [c \in Clients |-> Uninit]
    /\ asked = [c \in Clients |-> << >>]
    /\ requests = {} /\ replies = {}

\* What is left in flight once d has been handed over.
HandOver(inFlight, d) ==
    {inFlight \ {d}} \cup (IF CanDuplicate THEN {inFlight} ELSE {})

-----------------------------------------------------------------------------
(* The client: clientRun.                                                  *)

AsksMade == MapThenSumSet(LAMBDA c : Len(asked[c]), Clients)

\* Mutant: the counter does not wrap.
NextID_Unbounded(c) == requestID[c] + 1

\* Mutant: the counter is not incremented.
NextID_Stuck(c) == requestID[c]

NextID(c) == (requestID[c] + 1) % IDSpace

\* The first totMessLength bytes of the eight that getTotalMessage filled in.
Sent(c, body) == IF totMessLength[c] = 8 THEN body ELSE NoBytes

\* Mutant: the client asks again while it waits.
Ask_Retry(c, q) ==
    /\ pc[c] \in {"prompt", "waiting"} /\ AsksMade < MaxAsks
    /\ LET body == [id |-> NextID(c), query |-> q]
       IN  /\ requestID' = [requestID EXCEPT ![c] = NextID(c)]
           /\ asked' = [asked EXCEPT ![c] = Append(@, body)]
           /\ requests' = requests \cup {[from |-> c, body |-> Sent(c, body)]}
    /\ pc' = [pc EXCEPT ![c] = "waiting"]
    /\ UNCHANGED <<build, serverVars, totMessLength, shown, replies>>

Ask(c, q) ==
    /\ pc[c] = "prompt" /\ AsksMade < MaxAsks
    /\ LET body == [id |-> NextID(c), query |-> q]
       IN  /\ requestID' = [requestID EXCEPT ![c] = NextID(c)]
           /\ asked' = [asked EXCEPT ![c] = Append(@, body)]
           /\ requests' = requests \cup {[from |-> c, body |-> Sent(c, body)]}
    /\ pc' = [pc EXCEPT ![c] = "waiting"]
    /\ UNCHANGED <<build, serverVars, totMessLength, shown, replies>>

\* sendto or recvfrom fails, or the user interrupts: the program ends.
Abort(c) ==
    /\ pc[c] \in {"prompt", "waiting"}
    /\ pc' = [pc EXCEPT ![c] = "exited"]
    /\ UNCHANGED <<build, serverVars, requestID, totMessLength, shown, asked, requests, replies>>

\* Whatever reply arrives is displayed.  (recvfrom also puts the sender's address
\* where the next request goes; only the server sends to a client, so that the
\* address stays the same.)
ReceiveReply(c) ==
    /\ pc[c] = "waiting"
    /\ \E r \in replies :
          /\ r.to = c
          /\ shown' = [shown EXCEPT ![c] = r]
          /\ replies' \in HandOver(replies, r)
    /\ pc' = [pc EXCEPT ![c] = "shown"]
    /\ UNCHANGED <<build, serverVars, requestID, totMessLength, asked, requests>>

(***************************************************************************)
(* scanf("%d" SCNd8, &keepGoing) writes an int over the one byte keepGoing *)
(* and, in some builds, over requestID and totMessLength next to it.       *)
(***************************************************************************)
Continue(c) ==
    /\ pc[c] = "shown"
    /\ pc' \in {[pc EXCEPT ![c] = "prompt"], [pc EXCEPT ![c] = "exited"]}
    /\ IF spill
       THEN /\ requestID' = [requestID EXCEPT ![c] = 0]
            /\ totMessLength' = [totMessLength EXCEPT ![c] = 0]
       ELSE UNCHANGED <<requestID, totMessLength>>
    /\ UNCHANGED <<build, serverVars, shown, asked, requests, replies>>

-----------------------------------------------------------------------------
(* The servers: one request at a time, in the order the datagrams arrive.  *)

\* recBytes after a datagram: one without bytes leaves the last request there.
Loaded(d) == IF d.body = NoBytes THEN recBytes ELSE d.body

\* Mutant: every reply goes to the client heard first.
processRequest_FirstAddress(c, bytes) ==
    IF bytes = Uninit THEN [to : {c}, id : IDs, result : Garbage]
    ELSE [to : {CHOOSE a \in Clients : TRUE}, id : {bytes.id}, result : calcResult(bytes.query)]

processRequest(c, bytes) ==
    IF bytes = Uninit THEN [to : {c}, id : IDs, result : Garbage]
    ELSE [to : {c}, id : {bytes.id}, result : calcResult(bytes.query)]

\* Mutant: the reply is made before the request is copied to recBytes.
ServeC_Early(d) ==
    /\ server = "C" /\ serverUp
    /\ recBytes' = Loaded(d)
    /\ \E r \in processRequest(d.from, IF recBytes = Uninit THEN Loaded(d) ELSE recBytes) :
          replies' = replies \cup {r}
    /\ requests' \in HandOver(requests, d)
    /\ UNCHANGED <<build, serverUp, restarts, clientVars>>

\* Mutant: the request is processed in place and recBytes never filled.
ServeC_InPlace(d) ==
    /\ server = "C" /\ serverUp
    /\ \E r \in processRequest(d.from, Loaded(d)) : replies' = replies \cup {r}
    /\ requests' \in HandOver(requests, d)
    /\ UNCHANGED <<build, serverVars, clientVars>>

\* Mutant: a shift that C leaves undefined is dropped without a reply.
ServeC_Drops(d) ==
    /\ server = "C" /\ serverUp
    /\ recBytes' = Loaded(d)
    /\ IF Loaded(d).query.two < 0 THEN UNCHANGED replies
       ELSE \E r \in processRequest(d.from, Loaded(d)) : replies' = replies \cup {r}
    /\ requests' \in HandOver(requests, d)
    /\ UNCHANGED <<build, serverUp, restarts, clientVars>>

ServeC(d) ==
    /\ server = "C" /\ serverUp
    /\ recBytes' = Loaded(d)
    /\ \E r \in processRequest(d.from, Loaded(d)) : replies' = replies \cup {r}
    /\ requests' \in HandOver(requests, d)
    /\ UNCHANGED <<build, serverUp, restarts, clientVars>>

\* With nothing ever received, buf[0] is arbitrary too: the loop that copies
\* so many bytes into the eight of recBytes may run over the stack.
UninitCrash(d) ==
    /\ server = "C" /\ serverUp /\ Loaded(d) = Uninit
    /\ serverUp' = FALSE
    /\ requests' \in HandOver(requests, d)
    /\ UNCHANGED <<build, recBytes, restarts, clientVars, replies>>

PythonReplies(d) ==
    IF d.body = NoBytes THEN {}
    ELSE [to : {d.from}, id : {d.body.id}, result : format_response(d.body.query)]

ServePython(d) ==
    /\ server = "Python" /\ serverUp
    /\ \E r \in PythonReplies(d) : replies' = replies \cup {r}
    /\ requests' \in HandOver(requests, d)
    /\ UNCHANGED <<build, serverVars, clientVars>>

\* Nobody catches what format_response raises: the server ends.
PythonRaises(d) ==
    /\ server = "Python" /\ serverUp /\ PythonReplies(d) = {}
    /\ serverUp' = FALSE
    /\ requests' \in HandOver(requests, d)
    /\ UNCHANGED <<build, recBytes, restarts, clientVars, replies>>

Serve(d) == ServeC(d) \/ UninitCrash(d) \/ ServePython(d) \/ PythonRaises(d)

\* The server is killed, if it still runs, and started again; what waited in
\* its socket is gone.
Restart ==
    /\ restarts < MaxRestarts
    /\ restarts' = restarts + 1
    /\ serverUp' = TRUE /\ recBytes' = Uninit
    /\ requests' \in SUBSET requests
    /\ UNCHANGED <<build, clientVars, replies>>

\* Lost on the way, or nobody has the socket any more.
LoseRequest(d) ==
    /\ CanLose \/ ~ serverUp
    /\ requests' = requests \ {d}
    /\ UNCHANGED <<build, serverVars, clientVars, replies>>

LoseReply(r) ==
    /\ CanLose \/ pc[r.to] = "exited"
    /\ replies' = replies \ {r}
    /\ UNCHANGED <<build, serverVars, clientVars, requests>>

-----------------------------------------------------------------------------
ClientStep(c) ==
    \/ \E q \in Queries : Ask(c, q)
    \/ Abort(c) \/ ReceiveReply(c) \/ Continue(c)

Next ==
    \/ \E c \in Clients : ClientStep(c)
    \/ \E d \in requests : Serve(d) \/ LoseRequest(d)
    \/ \E r \in replies : LoseReply(r)
    \/ Restart

Spec == Init /\ [][Next]_vars

\* The server and a client in recvfrom run when there is something to read.
\* Users, failures and the network owe nothing.
Fairness ==
    /\ WF_vars(\E d \in requests : Serve(d))
    /\ \A c \in Clients : WF_vars(ReceiveReply(c))

FairSpec == Spec /\ Fairness

-----------------------------------------------------------------------------
(* What must hold.                                                         *)

\* Requests, replies and every local of clientRun and servRun keep their
\* widths and shapes, in every build and through every fault.
TypeOK ==
    /\ server \in Servers /\ spill \in Spills
    /\ serverUp \in BOOLEAN /\ recBytes \in Bodies \cup {Uninit}
    /\ restarts \in 0 .. MaxRestarts
    /\ pc \in [Clients -> {"prompt", "waiting", "shown", "exited"}]
    /\ requestID \in [Clients -> IDs]
    /\ totMessLength \in [Clients -> {0, 8}]
    /\ shown \in [Clients -> Replies \cup {Uninit}]
    /\ asked \in [Clients -> Seq(Bodies)]
    /\ requests \subseteq Requests /\ replies \subseteq Replies
    /\ \A c \in Clients : pc[c] \in {"waiting", "shown"} => asked[c] # << >>
    /\ \A c \in Clients : pc[c] = "shown" => shown[c] \in Replies

Results(q) == IF server = "C" THEN calcResult(q) ELSE format_response(q)

Current(c) == asked[c][Len(asked[c])]

\* What a client displays is the number and the result of the request it has
\* just made (ClientUDP.c:327), whatever the other clients ask meanwhile.
ReplyMatches ==
    \A c \in Clients : pc[c] = "shown" =>
        /\ shown[c].id = Current(c).id
        /\ shown[c].result \in Results(Current(c).query)

\* On a network that does not duplicate, a client has one datagram under way
\* at most, as a request or as its reply, and only while it waits.
OneUnderWay ==
    \A c \in Clients :
        LET out  == {d \in requests : d.from = c}
            back == {r \in replies : r.to = c}
        IN  /\ \A d, e \in out : d = e
            /\ \A r, s \in back : r = s
            /\ out = {} \/ back = {}
            /\ pc[c] \in {"prompt", "shown"} => out = {} /\ back = {}

\* Lost, late and repeated datagrams may show the answer to an older request,
\* and never one this client did not ask for or a wrong result.
HonestReplies ==
    ~ spill => \A c \in Clients : shown[c] # Uninit =>
        \E i \in 1 .. Len(asked[c]) :
            /\ shown[c].id = asked[c][i].id
            /\ shown[c].result \in Results(asked[c][i].query)

\* The request ID is enough to tell a late reply from the one waited for,
\* had the client compared them, until the byte comes round again: a reply with
\* the current ID answers the current request.
IdIdentifies ==
    ~ spill => \A c \in Clients :
        (pc[c] = "shown" /\ Len(asked[c]) <= IDSpace /\ shown[c].id = Current(c).id) =>
            shown[c].result \in Results(Current(c).query)

\* In no build does the C server answer from a buffer it has never filled,
\* unless it was restarted in mid-conversation: a datagram without bytes comes
\* only from a client it has answered before.
NeverFromUninit ==
    (server = "C" /\ restarts = 0 /\ recBytes = Uninit) => \A d \in requests : d.body # NoBytes

\* On a network that loses nothing a request is answered, whoever else asks,
\* unless the server has died of an earlier one.
EveryAskAnswered ==
    \A c \in Clients : pc[c] = "waiting" ~> (pc[c] # "waiting" \/ ~ serverUp)

(***************************************************************************)
(* The exchange as a user sees it.                                         *)
(***************************************************************************)
View(c) ==
    CASE pc[c] = "prompt"  -> [at |-> "ready"]
      [] pc[c] = "waiting" -> [at |-> "asked", query |-> Current(c).query]
      [] pc[c] = "shown"   -> [at |-> "shown", query |-> Current(c).query, result |-> shown[c].result]
      [] pc[c] = "exited"  -> [at |-> "left"]

session == [c \in Clients |-> View(c)]

\* Whichever server answers.
Promised == [q \in Queries |-> calcResult(q) \cup format_response(q)]

Service == INSTANCE CalcService WITH Users <- Clients, ResultsOf <- Promised

\* Datagrams, one buffer for all clients and request IDs nobody compares
\* notwithstanding, on a network that neither loses nor repeats the users get
\* what the calculator promises (see CalcService).
UdpImplements == Service!Spec
=============================================================================
