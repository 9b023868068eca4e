--------------------------- MODULE UdpCalcProofs ---------------------------
(***************************************************************************)
(* Proofs about UdpCalc for any clients and queries, either server, any    *)
(* width of the request ID, and, where the theorem does not say otherwise, *)
(* a network that loses, delays, reorders and repeats datagrams and a      *)
(* server that is restarted.  The last part is the refinement of the       *)
(* calculator service.                                                     *)
(***************************************************************************)
EXTENDS UdpCalc, CalcProofs

USE DEF build, serverVars, clientVars

-----------------------------------------------------------------------------
(* Type correctness.                                                       *)

LEMMA NextIDType ==
    ASSUME TypeOK, NEW c \in Clients
    PROVE  NextID(c) \in IDs
  BY UdpAssumption DEF TypeOK, NextID, IDs

\* What either server may answer to a query is an integer.
LEMMA QueryResults ==
    ASSUME NEW q \in Queries
    PROVE  calcResult(q) \subseteq Int /\ format_response(q) \subseteq Int
<1>1. q \in CalcQueries
  BY QueriesAssumption
<1>2. \A r \in calcResult(q) : r \in Int
  BY <1>1, ResultsFit DEF Fits32
<1>3. format_response(q) \subseteq calcResult(q)
  BY <1>1, PythonIsWithinC
<1> QED
  BY <1>2, <1>3

LEMMA HandOverShrinks ==
    ASSUME NEW S, NEW d, NEW T \in HandOver(S, d)
    PROVE  T \subseteq S /\ (~ CanDuplicate => T = S \ {d})
  BY DEF HandOver

\* What a server sends for a well-typed request is a well-typed reply to its
\* sender; it holds the request's ID and a result of its query.
LEMMA ServedReplies ==
    ASSUME TypeOK, NEW d \in Requests
    PROVE  /\ Loaded(d) \in Bodies \cup {Uninit}
           /\ \A r \in processRequest(d.from, Loaded(d)) :
                 /\ r \in Replies /\ r.to = d.from
                 /\ d.body # NoBytes => r.id = d.body.id /\ r.result \in calcResult(d.body.query)
           /\ \A r \in PythonReplies(d) :
                 /\ r \in Replies /\ r.to = d.from
                 /\ d.body # NoBytes /\ r.id = d.body.id
                 /\ r.result \in format_response(d.body.query)
<1>1. Loaded(d) \in Bodies \cup {Uninit} /\ (d.body # NoBytes => Loaded(d) = d.body)
  BY DEF TypeOK, Requests, Loaded
<1>2. \A b \in Bodies : /\ b.id \in IDs /\ b.query \in Queries /\ b # Uninit
                        /\ calcResult(b.query) \subseteq Int
                        /\ format_response(b.query) \subseteq Int
  BY UdpAssumption, QueryResults DEF Bodies
<1>3. d.from \in Clients /\ d.body \in Bodies \cup {NoBytes}
  BY DEF Requests
<1>4. ASSUME NEW r \in processRequest(d.from, Loaded(d))
      PROVE  /\ r \in Replies /\ r.to = d.from
             /\ d.body # NoBytes => r.id = d.body.id /\ r.result \in calcResult(d.body.query)
  <2>1. CASE Loaded(d) = Uninit
    BY <1>1, <1>2, <1>3, <1>4, <2>1, GarbageAssumption DEF processRequest, Replies, Fits32
  <2>2. CASE Loaded(d) \in Bodies
    BY <1>1, <1>2, <1>3, <1>4, <2>2 DEF processRequest, Replies
  <2> QED
    BY <1>1, <2>1, <2>2
<1>5. ASSUME NEW r \in PythonReplies(d)
      PROVE  /\ r \in Replies /\ r.to = d.from
             /\ d.body # NoBytes /\ r.id = d.body.id
             /\ r.result \in format_response(d.body.query)
  BY <1>2, <1>3, <1>5 DEF PythonReplies, Replies
<1> QED
  BY <1>1, <1>4, <1>5

\* One step of a server, seen through what it does to the datagrams.
LEMMA ServeEffect ==
    ASSUME TypeOK, NEW d \in requests, Serve(d)
    PROVE  /\ requests' \in HandOver(requests, d) /\ d \in Requests
           /\ UNCHANGED <<build, restarts, clientVars>>
           /\ recBytes' = recBytes \/ (server = "C" /\ recBytes' = Loaded(d))
           /\ \/ replies' = replies
              \/ \E r \in Replies : /\ replies' = replies \cup {r} /\ r.to = d.from
                                    /\ d.body # NoBytes => /\ r.id = d.body.id
                                                           /\ r.result \in Results(d.body.query)
<1>0. d \in Requests
  BY DEF TypeOK
<1>1. CASE ServeC(d)
  BY <1>0, <1>1, ServedReplies DEF ServeC, Results
<1>2. CASE ServePython(d)
  BY <1>0, <1>2, ServedReplies DEF ServePython, Results
<1>3. CASE PythonRaises(d) \/ UninitCrash(d)
  BY <1>0, <1>3 DEF PythonRaises, UninitCrash
<1> QED
  BY <1>1, <1>2, <1>3 DEF Serve

\* Which programs run does not change.
LEMMA BuildFixed ==
    ASSUME [Next]_vars
    PROVE  UNCHANGED <<server, spill>>
<1>1. ASSUME NEW c \in Clients, ClientStep(c)
      PROVE  UNCHANGED <<server, spill>>
  BY <1>1 DEF ClientStep, Ask, Abort, ReceiveReply, Continue
<1>2. ASSUME NEW d, Serve(d) \/ LoseRequest(d) \/ LoseReply(d) \/ Restart
      PROVE  UNCHANGED <<server, spill>>
  BY <1>2 DEF Serve, ServeC, ServePython, PythonRaises, UninitCrash, LoseRequest, LoseReply,
              Restart
<1> QED
  BY <1>1, <1>2 DEF Next, vars

LEMMA InitTypeOK == Init => TypeOK
  BY UdpAssumption DEF Init, TypeOK, IDs

LEMMA NextTypeOK ==
    ASSUME TypeOK, [Next]_vars
    PROVE  TypeOK'
<1>1. ASSUME NEW c \in Clients, NEW q \in Queries, Ask(c, q)
      PROVE  TypeOK'
  <2> DEFINE body == [id |-> NextID(c), query |-> q]
  <2>1. body \in Bodies
    BY NextIDType DEF Bodies
  <2>2. [from |-> c, body |-> Sent(c, body)] \in Requests
    BY <2>1 DEF Sent, Requests
  <2>3. asked' = [asked EXCEPT ![c] = Append(asked[c], body)]
    BY <1>1 DEF Ask, TypeOK
  <2>4. asked' \in [Clients -> Seq(Bodies)] /\ asked'[c] # << >>
    <3>1. \A s \in Seq(Bodies), b \in Bodies : Append(s, b) \in Seq(Bodies) /\ Append(s, b) # << >>
      <4>1. ASSUME NEW s \in Seq(Bodies), NEW b \in Bodies
            PROVE  Append(s, b) \in Seq(Bodies) /\ Len(Append(s, b)) # 0
        OBVIOUS
      <4> QED
        BY <4>1
    <3>2. asked \in [Clients -> Seq(Bodies)]
      BY DEF TypeOK
    <3>3. Append(asked[c], body) \in Seq(Bodies) /\ Append(asked[c], body) # << >>
      BY <2>1, <3>1, <3>2
    <3> QED
      BY <2>3, <3>2, <3>3
  <2>5. requests' \subseteq Requests
    BY <1>1, <2>2 DEF Ask, TypeOK
  <2>6. requestID' \in [Clients -> IDs]
    BY <1>1, NextIDType DEF Ask, TypeOK
  <2> QED
    BY <1>1, <2>3, <2>4, <2>5, <2>6 DEF Ask, TypeOK
<1>2. ASSUME NEW c \in Clients, Abort(c)
      PROVE  TypeOK'
  BY <1>2 DEF Abort, TypeOK
<1>3. ASSUME NEW c \in Clients, ReceiveReply(c)
      PROVE  TypeOK'
  <2>1. PICK r \in replies : /\ shown' = [shown EXCEPT ![c] = r]
                             /\ replies' \in HandOver(replies, r)
    BY <1>3 DEF ReceiveReply
  <2> QED
    BY <1>3, <2>1, HandOverShrinks DEF ReceiveReply, TypeOK
<1>4. ASSUME NEW c \in Clients, Continue(c)
      PROVE  TypeOK'
  <2>1. 0 \in IDs
    BY UdpAssumption DEF IDs
  <2> QED
    BY <1>4, <2>1 DEF Continue, TypeOK
<1>5. ASSUME NEW d \in requests, Serve(d)
      PROVE  TypeOK'
  <2>1. requests' \subseteq Requests /\ replies' \subseteq Replies
    BY <1>5, ServeEffect, HandOverShrinks DEF TypeOK
  <2>2. recBytes' \in Bodies \cup {Uninit}
    BY <1>5, ServeEffect, ServedReplies DEF TypeOK
  <2>3. serverUp' \in BOOLEAN
    BY <1>5 DEF Serve, ServeC, ServePython, PythonRaises, UninitCrash, TypeOK
  <2> QED
    BY <1>5, <2>1, <2>2, <2>3, ServeEffect DEF TypeOK
<1>6. CASE Restart
  BY <1>6, UdpAssumption DEF Restart, TypeOK
<1>7. ASSUME NEW d \in requests, LoseRequest(d)
      PROVE  TypeOK'
  BY <1>7 DEF LoseRequest, TypeOK
<1>8. ASSUME NEW r \in replies, LoseReply(r)
      PROVE  TypeOK'
  BY <1>8 DEF LoseReply, TypeOK
<1>9. CASE UNCHANGED vars
  BY <1>9 DEF vars, TypeOK
<1> QED
  BY <1>1, <1>2, <1>3, <1>4, <1>5, <1>6, <1>7, <1>8, <1>9 DEF Next, ClientStep

\* Every reachable state has the types of TypeOK: in particular the request ID
\* stays within its byte and no buffer holds anything but a request.
THEOREM TypeCorrect == Spec => []TypeOK
<1>1. TypeOK /\ [Next]_vars => TypeOK'
  BY NextTypeOK
<1> QED
  BY <1>1, InitTypeOK, PTL DEF Spec

-----------------------------------------------------------------------------
(* The server's buffer.                                                    *)

\* Until the C server has filled recBytes nobody has been answered, and no
\* client sends less than a whole request before it has been answered.
FreshInv ==
    (server = "C" /\ restarts = 0 /\ recBytes = Uninit) =>
        /\ replies = {}
        /\ \A c \in Clients : totMessLength[c] = 8 /\ pc[c] # "shown"
        /\ \A d \in requests : d.body # NoBytes

LEMMA FreshStep ==
    ASSUME TypeOK, FreshInv, [Next]_vars
    PROVE  FreshInv'
<1> DEFINE Fresh   == server = "C" /\ restarts = 0 /\ recBytes = Uninit
           Waiting == /\ replies = {}
                      /\ \A c \in Clients : totMessLength[c] = 8 /\ pc[c] # "shown"
                      /\ \A d \in requests : d.body # NoBytes
<1> SUFFICES ASSUME Fresh'
             PROVE  Waiting'
  BY DEF FreshInv
<1>1. ASSUME NEW c \in Clients, NEW q \in Queries, Ask(c, q)
      PROVE  Waiting'
  <2>1. Fresh /\ Waiting
    BY <1>1 DEF Ask, FreshInv
  <2>2. [id |-> NextID(c), query |-> q] \in Bodies
    BY NextIDType DEF Bodies
  <2>3. [id |-> NextID(c), query |-> q] # NoBytes
    BY <2>2, UdpAssumption
  <2>4. \A d \in requests' : d.body # NoBytes
    BY <1>1, <2>1, <2>3 DEF Ask, Sent
  <2> QED
    BY <1>1, <2>1, <2>4 DEF Ask, TypeOK
<1>2. ASSUME NEW c \in Clients, Abort(c) \/ ReceiveReply(c) \/ Continue(c)
      PROVE  Waiting'
  <2>1. Fresh /\ Waiting
    BY <1>2 DEF Abort, ReceiveReply, Continue, FreshInv
  <2>2. Abort(c)
    BY <1>2, <2>1 DEF ReceiveReply, Continue
  <2> QED
    BY <2>1, <2>2 DEF Abort, TypeOK
<1>3. ASSUME NEW d \in requests, Serve(d)
      PROVE  FALSE
  <2>1. server = "C" /\ restarts = 0 /\ Loaded(d) = Uninit
    BY <1>3 DEF Serve, ServeC, ServePython, PythonRaises, UninitCrash
  <2>2. d.body = NoBytes /\ recBytes = Uninit
    BY <2>1, UdpAssumption DEF Loaded, TypeOK, Requests
  <2> QED
    BY <2>1, <2>2 DEF FreshInv
<1>4. CASE Restart
  BY <1>4, UdpAssumption DEF Restart, TypeOK
<1>5. ASSUME \/ \E d \in requests : LoseRequest(d)
             \/ \E r \in replies : LoseReply(r)
             \/ UNCHANGED vars
      PROVE  Waiting'
  BY <1>5 DEF LoseRequest, LoseReply, vars, FreshInv
<1> QED
  BY <1>1, <1>2, <1>3, <1>4, <1>5 DEF Next, ClientStep

\* Also in the builds whose clients come to send datagrams without bytes, the C
\* server that has not been restarted has a request in recBytes by then
\* (ServerUDP.c:291-312).
THEOREM BufferFilled == Spec => []NeverFromUninit
<1>1. Init => FreshInv
  BY DEF Init, FreshInv
<1>2. TypeOK /\ FreshInv /\ [Next]_vars => FreshInv'
  BY FreshStep
<1>3. FreshInv => NeverFromUninit
  BY DEF FreshInv, NeverFromUninit
<1> QED
  BY <1>1, <1>2, <1>3, TypeCorrect, PTL DEF Spec

-----------------------------------------------------------------------------
(* Replies under loss, delay and repetition.                               *)

Answers(c, i, r) == r.id = asked[c][i].id /\ r.result \in Results(asked[c][i].query)

IsAnswer(c, r) == \E i \in 1 .. Len(asked[c]) : Answers(c, i, r)

\* Every datagram under way belongs to a request its client has made.
HonestInv ==
    ~ spill =>
        /\ \A c \in Clients : totMessLength[c] = 8
        /\ \A d \in requests : \E i \in 1 .. Len(asked[d.from]) : d.body = asked[d.from][i]
        /\ \A r \in replies : IsAnswer(r.to, r)
        /\ \A c \in Clients : shown[c] # Uninit => IsAnswer(c, shown[c])

\* Asking leaves the answers to the earlier requests what they were.
LEMMA AskKeepsAnswers ==
    ASSUME TypeOK, NEW c \in Clients, NEW q \in Queries, Ask(c, q)
    PROVE  /\ asked'[c] = Append(asked[c], [id |-> NextID(c), query |-> q])
           /\ Len(asked'[c]) = Len(asked[c]) + 1 /\ Len(asked[c]) \in Nat
           /\ asked'[c][Len(asked[c]) + 1] = [id |-> NextID(c), query |-> q]
           /\ \A i \in 1 .. Len(asked[c]) : asked'[c][i] = asked[c][i]
           /\ \A a \in Clients : a # c => asked'[a] = asked[a]
           /\ \A a \in Clients : \A r : IsAnswer(a, r) => IsAnswer(a, r)'
<1> DEFINE body == [id |-> NextID(c), query |-> q]
<1>1. asked \in [Clients -> Seq(Bodies)] /\ asked' = [asked EXCEPT ![c] = Append(asked[c], body)]
  BY DEF TypeOK, Ask
<1>2. asked'[c] = Append(asked[c], body) /\ \A a \in Clients : a # c => asked'[a] = asked[a]
  BY <1>1
<1>3. body \in Bodies
  BY NextIDType DEF Bodies
<1>4. \A s \in Seq(Bodies), b \in Bodies :
          /\ Len(s) \in Nat /\ Len(Append(s, b)) = Len(s) + 1
          /\ Append(s, b)[Len(s) + 1] = b
          /\ \A i \in 1 .. Len(s) : Append(s, b)[i] = s[i]
  OBVIOUS
<1>5. /\ Len(asked[c]) \in Nat /\ Len(asked'[c]) = Len(asked[c]) + 1
      /\ asked'[c][Len(asked[c]) + 1] = body
      /\ \A i \in 1 .. Len(asked[c]) : asked'[c][i] = asked[c][i]
  BY <1>1, <1>2, <1>3, <1>4
<1>6. ASSUME NEW a \in Clients, NEW r, IsAnswer(a, r)
      PROVE  IsAnswer(a, r)'
  <2>1. server' = server
    BY DEF Ask
  <2>2. PICK i \in 1 .. Len(asked[a]) : Answers(a, i, r)
    BY <1>6 DEF IsAnswer
  <2>3. i \in 1 .. Len(asked'[a]) /\ asked'[a][i] = asked[a][i]
    BY <1>2, <1>5, <2>2
  <2> QED
    BY <2>1, <2>2, <2>3 DEF IsAnswer, Answers, Results
<1> QED
  BY <1>2, <1>5, <1>6

LEMMA HonestStep ==
    ASSUME TypeOK, HonestInv, [Next]_vars
    PROVE  HonestInv'
<1> SUFFICES ASSUME ~ spill
             PROVE  HonestInv'
  BY BuildFixed DEF HonestInv
<1>a. ASSUME UNCHANGED <<build, totMessLength, asked, shown>>,
             requests' \subseteq requests, replies' \subseteq replies
      PROVE  HonestInv'
  BY <1>a DEF HonestInv, IsAnswer, Answers, Results
<1>1. ASSUME NEW c \in Clients, NEW q \in Queries, Ask(c, q)
      PROVE  HonestInv'
  <2> DEFINE body == [id |-> NextID(c), query |-> q]
  <2>1. requests' = requests \cup {[from |-> c, body |-> body]}
    BY <1>1 DEF HonestInv, Ask, Sent
  <2>2. Len(asked[c]) + 1 \in 1 .. Len(asked'[c]) /\ asked'[c][Len(asked[c]) + 1] = body
    BY <1>1, AskKeepsAnswers
  <2>3. \A d \in requests : \E i \in 1 .. Len(asked'[d.from]) : d.body = asked'[d.from][i]
    <3>1. SUFFICES ASSUME NEW d \in requests
                   PROVE  \E i \in 1 .. Len(asked'[d.from]) : d.body = asked'[d.from][i]
      OBVIOUS
    <3>2. PICK i \in 1 .. Len(asked[d.from]) : d.body = asked[d.from][i]
      BY DEF HonestInv
    <3>3. d.from \in Clients
      BY DEF TypeOK, Requests
    <3>5. /\ Len(asked[c]) \in Nat /\ Len(asked'[c]) = Len(asked[c]) + 1
          /\ \A k \in 1 .. Len(asked[c]) : asked'[c][k] = asked[c][k]
          /\ \A a \in Clients : a # c => asked'[a] = asked[a]
      BY <1>1, AskKeepsAnswers
    <3>4. i \in 1 .. Len(asked'[d.from]) /\ asked'[d.from][i] = asked[d.from][i]
      <4>1. CASE d.from = c
        BY <3>5, <3>2, <4>1
      <4>2. CASE d.from # c
        BY <3>5, <3>2, <3>3, <4>2
      <4> QED
        BY <4>1, <4>2
    <3> QED
      BY <3>2, <3>4
  <2>4. \A d \in requests' : \E i \in 1 .. Len(asked'[d.from]) : d.body = asked'[d.from][i]
    BY <2>1, <2>2, <2>3
  <2>5. \A r \in replies' : IsAnswer(r.to, r)'
    BY <1>1, AskKeepsAnswers DEF HonestInv, Ask, TypeOK, Replies
  <2>6. \A a \in Clients : shown'[a] # Uninit => IsAnswer(a, shown[a])'
    BY <1>1, AskKeepsAnswers DEF HonestInv, Ask
  <2> QED
    BY <1>1, <2>4, <2>5, <2>6 DEF HonestInv, Ask
<1>2. ASSUME NEW c \in Clients, Abort(c)
      PROVE  HonestInv'
  BY <1>a, <1>2 DEF Abort
<1>3. ASSUME NEW c \in Clients, ReceiveReply(c)
      PROVE  HonestInv'
  <2>1. PICK r \in replies : /\ r.to = c /\ shown' = [shown EXCEPT ![c] = r]
                             /\ replies' \in HandOver(replies, r)
    BY <1>3 DEF ReceiveReply
  <2>2. replies' \subseteq replies
    BY <2>1, HandOverShrinks
  <2>3. \A a \in Clients : shown'[a] # Uninit => IsAnswer(a, shown'[a])
    BY <2>1 DEF HonestInv, TypeOK
  <2> QED
    BY <1>3, <2>2, <2>3 DEF ReceiveReply, HonestInv, IsAnswer, Answers, Results
<1>4. ASSUME NEW c \in Clients, Continue(c)
      PROVE  HonestInv'
  BY <1>a, <1>4 DEF Continue
<1>5. ASSUME NEW d \in requests, Serve(d)
      PROVE  HonestInv'
  <2>1. PICK i \in 1 .. Len(asked[d.from]) : d.body = asked[d.from][i]
    BY DEF HonestInv
  <2>2. d.body # NoBytes
    <3>1. asked[d.from] \in Seq(Bodies)
      BY DEF TypeOK, Requests
    <3> QED
      BY <2>1, <3>1, UdpAssumption
  <2>3. \A r \in replies' : IsAnswer(r.to, r)
    BY <1>5, <2>1, <2>2, ServeEffect DEF HonestInv, IsAnswer, Answers
  <2>4. requests' \subseteq requests /\ UNCHANGED <<build, clientVars>>
    BY <1>5, ServeEffect, HandOverShrinks
  <2> QED
    BY <2>3, <2>4 DEF HonestInv, IsAnswer, Answers, Results
<1>6. CASE Restart
  BY <1>a, <1>6 DEF Restart
<1>7. ASSUME NEW d \in requests, LoseRequest(d)
      PROVE  HonestInv'
  BY <1>a, <1>7 DEF LoseRequest
<1>8. ASSUME NEW r \in replies, LoseReply(r)
      PROVE  HonestInv'
  BY <1>a, <1>8 DEF LoseReply
<1>9. CASE UNCHANGED vars
  BY <1>a, <1>9 DEF vars
<1> QED
  BY <1>1, <1>2, <1>3, <1>4, <1>5, <1>6, <1>7, <1>8, <1>9 DEF Next, ClientStep

LEMMA HonestAlways == Spec => []HonestInv
<1>1. Init => HonestInv
  BY DEF Init, HonestInv
<1>2. TypeOK /\ HonestInv /\ [Next]_vars => HonestInv'
  BY HonestStep
<1> QED
  BY <1>1, <1>2, TypeCorrect, PTL DEF Spec

\* Whatever the network and restarts do, a client whose scanf keeps to its
\* variable shows only answers to requests it made (ClientUDP.c:308-327).
THEOREM RepliesHonest == Spec => []HonestReplies
<1>1. HonestInv => HonestReplies
  BY DEF HonestInv, HonestReplies, IsAnswer, Answers
<1> QED
  BY <1>1, HonestAlways, PTL

-----------------------------------------------------------------------------
(* The request ID.                                                         *)

\* The number of the i-th request in one byte, for the first IDSpace of them.
Byte(i) == IF i = IDSpace THEN 0 ELSE i

NumberInv ==
    ~ spill => \A c \in Clients :
        /\ Len(asked[c]) <= IDSpace => requestID[c] = Byte(Len(asked[c]))
        /\ \A i \in 1 .. Len(asked[c]) : i <= IDSpace => asked[c][i].id = Byte(i)

LEMMA ByteProperties ==
    /\ \A k \in 1 .. IDSpace : k % IDSpace = Byte(k)
    /\ \A i, k \in 1 .. IDSpace : Byte(i) = Byte(k) => i = k
<1>1. ASSUME NEW m \in Nat \ {0}, NEW k \in 1 .. m
      PROVE  k % m = IF k = m THEN 0 ELSE k
  OBVIOUS
<1>2. IDSpace \in Nat \ {0}
  BY UdpAssumption
<1>3. \A k \in 1 .. IDSpace : k % IDSpace = Byte(k)
  BY <1>1, <1>2 DEF Byte
<1>4. \A i, k \in 1 .. IDSpace : Byte(i) = Byte(k) => i = k
  BY <1>2 DEF Byte
<1> QED
  BY <1>3, <1>4

LEMMA NumberStep ==
    ASSUME TypeOK, NumberInv, [Next]_vars
    PROVE  NumberInv'
<1> SUFFICES ASSUME ~ spill
             PROVE  NumberInv'
  BY BuildFixed DEF NumberInv
<1>1. ASSUME NEW c \in Clients, NEW q \in Queries, Ask(c, q)
      PROVE  NumberInv'
  <2> DEFINE n == Len(asked[c])
  <2>1. n \in Nat /\ (n + 1 <= IDSpace => requestID[c] = n)
    BY <1>1, AskKeepsAnswers, UdpAssumption DEF NumberInv, Byte
  <2>2. n + 1 <= IDSpace => NextID(c) = Byte(n + 1)
    BY <2>1, ByteProperties DEF NextID
  <2>3. /\ Len(asked'[c]) = n + 1
        /\ n + 1 <= IDSpace => asked'[c][n + 1].id = Byte(n + 1)
        /\ \A i \in 1 .. n : asked'[c][i] = asked[c][i]
        /\ \A a \in Clients : a # c => asked'[a] = asked[a]
    <3>1. /\ Len(asked'[c]) = n + 1
          /\ asked'[c][n + 1] = [id |-> NextID(c), query |-> q]
          /\ \A i \in 1 .. n : asked'[c][i] = asked[c][i]
          /\ \A a \in Clients : a # c => asked'[a] = asked[a]
      BY <1>1, AskKeepsAnswers
    <3>2. asked'[c][n + 1].id = NextID(c)
      BY <3>1
    <3> QED
      BY <2>2, <3>1, <3>2
  <2>4. \A i \in 1 .. Len(asked'[c]) : i <= IDSpace => asked'[c][i].id = Byte(i)
    <3>1. \A i \in 1 .. n + 1 : i = n + 1 \/ i \in 1 .. n
      BY <2>1
    <3> QED
      BY <2>3, <3>1 DEF NumberInv
  <2>5. Len(asked'[c]) <= IDSpace => requestID'[c] = Byte(Len(asked'[c]))
    BY <1>1, <2>2, <2>3 DEF Ask, TypeOK
  <2>6. \A a \in Clients : a # c => requestID'[a] = requestID[a] /\ asked'[a] = asked[a]
    BY <1>1, <2>3 DEF Ask, TypeOK
  <2> QED
    BY <2>4, <2>5, <2>6 DEF NumberInv
<1>2. ASSUME UNCHANGED <<spill, requestID, asked>>
      PROVE  NumberInv'
  BY <1>2 DEF NumberInv
<1>3. ASSUME NEW c \in Clients, Abort(c) \/ ReceiveReply(c) \/ Continue(c)
      PROVE  NumberInv'
  BY <1>2, <1>3 DEF Abort, ReceiveReply, Continue
<1>4. ASSUME NEW d, Serve(d) \/ LoseRequest(d) \/ LoseReply(d) \/ Restart
      PROVE  NumberInv'
  BY <1>2, <1>4 DEF Serve, ServeC, ServePython, PythonRaises, UninitCrash, LoseRequest,
                    LoseReply, Restart
<1>5. CASE UNCHANGED vars
  BY <1>2, <1>5 DEF vars
<1> QED
  BY <1>1, <1>3, <1>4, <1>5 DEF Next, ClientStep

\* Until the byte has come round, a reply whose ID is the current one answers
\* the current request: the check ClientUDP.c leaves out would be enough.
THEOREM IdSuffices == Spec => []IdIdentifies
<1>1. Init => NumberInv
  BY UdpAssumption DEF Init, NumberInv, Byte
<1>2. TypeOK /\ NumberInv /\ [Next]_vars => NumberInv'
  BY NumberStep
<1>3. TypeOK /\ HonestInv /\ NumberInv => IdIdentifies
  <2> SUFFICES ASSUME TypeOK, HonestInv, NumberInv, ~ spill, NEW c \in Clients,
                      pc[c] = "shown", Len(asked[c]) <= IDSpace, shown[c].id = Current(c).id
               PROVE  shown[c].result \in Results(Current(c).query)
    BY DEF IdIdentifies
  <2>1. shown[c] # Uninit
    BY UdpAssumption DEF TypeOK
  <2>2. PICK i \in 1 .. Len(asked[c]) : Answers(c, i, shown[c])
    BY <2>1 DEF HonestInv, IsAnswer
  <2>3. Len(asked[c]) \in 1 .. IDSpace /\ i \in 1 .. IDSpace
    <3>1. asked[c] \in Seq(Bodies)
      BY DEF TypeOK
    <3> QED
      BY <2>2, <3>1, UdpAssumption
  <2>4. Byte(i) = Byte(Len(asked[c]))
    <3>1. i <= IDSpace /\ Len(asked[c]) \in 1 .. Len(asked[c])
      BY <2>3, UdpAssumption
    <3>2. asked[c][i].id = Byte(i) /\ Current(c).id = Byte(Len(asked[c]))
      BY <3>1 DEF NumberInv, Current
    <3> QED
      BY <2>2, <3>2 DEF Answers
  <2>5. i = Len(asked[c])
    BY <2>3, <2>4, ByteProperties
  <2> QED
    BY <2>2, <2>5 DEF Answers, Current
<1> QED
  BY <1>1, <1>2, <1>3, TypeCorrect, HonestAlways, PTL DEF Spec

-----------------------------------------------------------------------------
(* A network that repeats nothing: stop-and-wait is enough.                *)

\* OneUnderWay, client by client.
Single(c) ==
    /\ \A d, e \in requests : d.from = c /\ e.from = c => d = e
    /\ \A r, s \in replies : r.to = c /\ s.to = c => r = s
    /\ \A d \in requests, r \in replies : ~ (d.from = c /\ r.to = c)
    /\ pc[c] \in {"prompt", "shown"} => /\ \A d \in requests : d.from # c
                                       /\ \A r \in replies : r.to # c

LEMMA SingleStep ==
    ASSUME ~ CanDuplicate, TypeOK, NEW c \in Clients, Single(c), [Next]_vars
    PROVE  Single(c)'
<1>a. ASSUME requests' \subseteq requests, replies' \subseteq replies, pc'[c] = pc[c]
      PROVE  Single(c)'
  BY <1>a DEF Single
<1>b. \A a \in Clients : a # c => \A v : [pc EXCEPT ![a] = v][c] = pc[c]
  BY DEF TypeOK
<1>1. ASSUME NEW a \in Clients, NEW q \in Queries, Ask(a, q)
      PROVE  Single(c)'
  <2>1. PICK d : requests' = requests \cup {d} /\ d.from = a
    <3> DEFINE d0 == [from |-> a, body |-> Sent(a, [id |-> NextID(a), query |-> q])]
    <3>1. requests' = requests \cup {d0}
      BY <1>1 DEF Ask
    <3>2. d0.from = a
      OBVIOUS
    <3> QED
      BY <3>1, <3>2
  <2>2. pc'[a] = "waiting" /\ replies' = replies /\ pc[a] = "prompt"
    BY <1>1 DEF Ask, TypeOK
  <2>3. CASE a = c
    BY <2>1, <2>2, <2>3 DEF Single
  <2>4. CASE a # c
    <3>1. pc'[c] = pc[c]
      BY <1>1, <1>b, <2>4 DEF Ask
    <3> QED
      BY <2>1, <2>2, <2>4, <3>1 DEF Single
  <2> QED
    BY <2>3, <2>4
<1>2. ASSUME NEW a \in Clients, Abort(a)
      PROVE  Single(c)'
  BY <1>2 DEF Abort, TypeOK, Single
<1>3. ASSUME NEW a \in Clients, ReceiveReply(a)
      PROVE  Single(c)'
  <2>1. PICK r \in replies : r.to = a /\ replies' = replies \ {r}
    BY <1>3, HandOverShrinks DEF ReceiveReply
  <2>2. requests' = requests
    BY <1>3 DEF ReceiveReply
  <2>3. CASE a = c
    BY <2>1, <2>2, <2>3 DEF Single
  <2>4. CASE a # c
    BY <1>3, <1>a, <1>b, <2>1, <2>2, <2>4 DEF ReceiveReply
  <2> QED
    BY <2>3, <2>4
<1>4. ASSUME NEW a \in Clients, Continue(a)
      PROVE  Single(c)'
  BY <1>4 DEF Continue, TypeOK, Single
<1>5. ASSUME NEW d \in requests, Serve(d)
      PROVE  Single(c)'
  <2>1. requests' = requests \ {d} /\ pc' = pc
    BY <1>5, ServeEffect, HandOverShrinks
  <2>2. CASE replies' = replies
    BY <1>a, <2>1, <2>2
  <2>3. CASE \E r \in Replies : replies' = replies \cup {r} /\ r.to = d.from
    <3>1. PICK r : replies' = replies \cup {r} /\ r.to = d.from
      BY <2>3
    <3>2. CASE d.from = c
      BY <2>1, <3>1, <3>2 DEF Single
    <3>3. CASE d.from # c
      BY <2>1, <3>1, <3>3 DEF Single
    <3> QED
      BY <3>2, <3>3
  <2> QED
    BY <1>5, <2>2, <2>3, ServeEffect
<1>6. CASE Restart \/ UNCHANGED vars
  BY <1>a, <1>6 DEF Restart, vars
<1>7. ASSUME NEW d, LoseRequest(d) \/ LoseReply(d)
      PROVE  Single(c)'
  BY <1>a, <1>7 DEF LoseRequest, LoseReply
<1> QED
  BY <1>1, <1>2, <1>3, <1>4, <1>5, <1>6, <1>7 DEF Next, ClientStep

\* Without repetition a client has one datagram under way at most, whatever
\* else is lost, in any build.
THEOREM StopAndWait ==
    ASSUME ~ CanDuplicate
    PROVE  Spec => []OneUnderWay
<1> DEFINE Inv == \A c \in Clients : Single(c)
<1>1. Init => Inv
  BY DEF Init, Single
<1>2. TypeOK /\ Inv /\ [Next]_vars => Inv'
  BY SingleStep
<1>3. Inv => OneUnderWay
  BY DEF Single, OneUnderWay
<1> QED
  BY <1>1, <1>2, <1>3, TypeCorrect, PTL DEF Spec

AnswersCurrent(c, r) == r.id = Current(c).id /\ r.result \in Results(Current(c).query)

\* What is under way for a client that waits is its current request or the
\* answer to it.
CurrentInv ==
    /\ \A c \in Clients : totMessLength[c] = 8
    /\ \A d \in requests : d.body # NoBytes /\ (pc[d.from] = "waiting" => d.body = Current(d.from))
    /\ \A r \in replies : pc[r.to] = "waiting" => AnswersCurrent(r.to, r)
    /\ \A c \in Clients : pc[c] = "shown" => AnswersCurrent(c, shown[c])

LEMMA CurrentStep ==
    ASSUME TypeOK, ~ spill, CurrentInv, \A c \in Clients : Single(c), [Next]_vars
    PROVE  CurrentInv'
<1>0. /\ server' = server
      /\ \A d \in requests : d.from \in Clients
      /\ \A r \in replies : r.to \in Clients
  BY BuildFixed DEF TypeOK, Requests, Replies
<1>a. ASSUME UNCHANGED <<totMessLength, asked, shown, server>>,
             requests' \subseteq requests, replies' \subseteq replies,
             \A c \in Clients : pc'[c] \in {"waiting", "shown"} => pc'[c] = pc[c]
      PROVE  CurrentInv'
  BY <1>0, <1>a DEF CurrentInv, AnswersCurrent, Current, Results
<1>1. ASSUME NEW c \in Clients, NEW q \in Queries, Ask(c, q)
      PROVE  CurrentInv'
  <2> DEFINE body == [id |-> NextID(c), query |-> q]
  <2>1. /\ requests' = requests \cup {[from |-> c, body |-> body]}
        /\ UNCHANGED <<replies, shown, totMessLength>>
        /\ pc'[c] = "waiting" /\ \A a \in Clients : a # c => pc'[a] = pc[a]
    BY <1>1 DEF CurrentInv, Ask, Sent, TypeOK
  <2>2. Current(c)' = body /\ \A a \in Clients : a # c => Current(a)' = Current(a)
    BY <1>1, AskKeepsAnswers DEF Current
  <2>3. body \in Bodies /\ body # NoBytes
    BY NextIDType, UdpAssumption DEF Bodies
  <2>4. \A d \in requests : d.from # c
    BY <1>1 DEF Single, Ask
  <2>5. \A r \in replies : r.to # c
    BY <1>1 DEF Single, Ask
  <2>6. ASSUME NEW d \in requests'
        PROVE  d.body # NoBytes /\ (pc'[d.from] = "waiting" => d.body = Current(d.from)')
    <3>1. CASE d \in requests
      BY <1>0, <2>1, <2>2, <2>4, <3>1 DEF CurrentInv
    <3>2. CASE d = [from |-> c, body |-> body]
      BY <2>2, <2>3, <3>2
    <3> QED
      BY <2>1, <2>6, <3>1, <3>2
  <2>7. \A r \in replies' : pc'[r.to] = "waiting" => AnswersCurrent(r.to, r)'
    BY <1>0, <2>1, <2>2, <2>5 DEF CurrentInv, AnswersCurrent, Results
  <2>8. \A a \in Clients : pc'[a] = "shown" => AnswersCurrent(a, shown[a])'
    BY <1>0, <2>1, <2>2 DEF CurrentInv, AnswersCurrent, Results
  <2> QED
    BY <2>1, <2>6, <2>7, <2>8 DEF CurrentInv
<1>2. ASSUME NEW c \in Clients, Abort(c) \/ Continue(c)
      PROVE  CurrentInv'
  BY <1>a, <1>0, <1>2 DEF Abort, Continue, TypeOK
<1>3. ASSUME NEW c \in Clients, ReceiveReply(c)
      PROVE  CurrentInv'
  <2>1. PICK r \in replies : /\ r.to = c /\ shown' = [shown EXCEPT ![c] = r]
                             /\ replies' \in HandOver(replies, r)
    BY <1>3 DEF ReceiveReply
  <2>2. /\ replies' \subseteq replies /\ pc[c] = "waiting"
        /\ pc' = [pc EXCEPT ![c] = "shown"]
        /\ UNCHANGED <<requests, asked, totMessLength>>
    BY <1>3, <2>1, HandOverShrinks DEF ReceiveReply
  <2>3. AnswersCurrent(c, r)
    BY <2>1, <2>2 DEF CurrentInv
  <2>4. \A a \in Clients : pc'[a] = "shown" => AnswersCurrent(a, shown'[a])
    BY <2>1, <2>2, <2>3 DEF CurrentInv, TypeOK
  <2>5. \A a \in Clients : pc'[a] = "waiting" => pc[a] = "waiting"
    BY <2>2 DEF TypeOK
  <2> QED
    BY <1>0, <2>2, <2>4, <2>5 DEF CurrentInv, AnswersCurrent, Current, Results
<1>4. ASSUME NEW d \in requests, Serve(d)
      PROVE  CurrentInv'
  <2>1. requests' \subseteq requests /\ UNCHANGED <<clientVars, server>>
    BY <1>0, <1>4, ServeEffect, HandOverShrinks
  <2>2. d.body # NoBytes /\ (pc[d.from] = "waiting" => d.body = Current(d.from))
    BY DEF CurrentInv
  <2>3. \A r \in replies' : pc[r.to] = "waiting" => AnswersCurrent(r.to, r)
    BY <1>4, <2>2, ServeEffect DEF CurrentInv, AnswersCurrent
  <2> QED
    BY <2>1, <2>3 DEF CurrentInv, AnswersCurrent, Current, Results
<1>5. CASE Restart \/ UNCHANGED vars
  BY <1>a, <1>0, <1>5 DEF Restart, vars
<1>6. ASSUME NEW d, LoseRequest(d) \/ LoseReply(d)
      PROVE  CurrentInv'
  BY <1>a, <1>0, <1>6 DEF LoseRequest, LoseReply
<1> QED
  BY <1>1, <1>2, <1>3, <1>4, <1>5, <1>6 DEF Next, ClientStep

\* In a sound build and without repetition, the number and the result a client
\* displays are those of the request it has just made, though nothing compares
\* them (ClientUDP.c:302-327).
THEOREM RepliesMatch ==
    ASSUME ~ CanDuplicate, Spills = {FALSE}
    PROVE  Spec => []ReplyMatches
<1> DEFINE Inv == CurrentInv /\ \A c \in Clients : Single(c)
<1>1. Init => Inv
  BY DEF Init, Single, CurrentInv
<1>2. TypeOK => ~ spill
  BY DEF TypeOK
<1>3. TypeOK /\ Inv /\ [Next]_vars => Inv'
  BY <1>2, SingleStep, CurrentStep
<1>4. Inv => ReplyMatches
  BY DEF CurrentInv, AnswersCurrent, ReplyMatches
<1> QED
  BY <1>1, <1>3, <1>4, TypeCorrect, PTL DEF Spec

-----------------------------------------------------------------------------
(***************************************************************************)
(* The UDP lab implements the calculator service.                          *)
(***************************************************************************)
\* A step that leaves alone what client c sees leaves its session alone.
LEMMA SameView ==
    ASSUME NEW c \in Clients, pc'[c] = pc[c], asked'[c] = asked[c], shown'[c] = shown[c]
    PROVE  View(c)' = View(c)
  BY DEF View, Current

\* A step of one client moves its session and no other.
LEMMA OneSession ==
    ASSUME NEW c \in Clients,
           \A a \in Clients : a # c => /\ pc'[a] = pc[a] /\ asked'[a] = asked[a]
                                       /\ shown'[a] = shown[a]
    PROVE  session' = [session EXCEPT ![c] = View(c)']
<1>1. \A a \in Clients : a # c => View(a)' = View(a)
  BY SameView
<1> QED
  BY <1>1 DEF session

LEMMA InitSession == Init => Service!Init
  BY DEF Init, Service!Init, session, View, Service!Ready

LEMMA AskSession ==
    ASSUME TypeOK, NEW c \in Clients, NEW q \in Queries, Ask(c, q)
    PROVE  Service!Ask(c, q)
<1> DEFINE body == [id |-> NextID(c), query |-> q]
<1>1. /\ pc[c] = "prompt" /\ pc' = [pc EXCEPT ![c] = "waiting"]
      /\ asked' = [asked EXCEPT ![c] = Append(asked[c], body)]
      /\ shown' = shown
  BY DEF Ask, TypeOK
<1>2. Current(c)' = body
  <2>1. body \in Bodies
    BY NextIDType DEF Bodies
  <2>2. asked[c] \in Seq(Bodies) /\ asked'[c] = Append(asked[c], body)
    BY <1>1 DEF TypeOK
  <2> QED
    BY <2>1, <2>2 DEF Current
<1>3. View(c) = [at |-> "ready"]
  BY <1>1 DEF View
<1>4. View(c)' = [at |-> "asked", query |-> q]
  <2>1. pc'[c] = "waiting"
    BY <1>1 DEF TypeOK
  <2> QED
    BY <1>2, <2>1 DEF View
<1>5. session' = [session EXCEPT ![c] = View(c)']
  BY <1>1, OneSession DEF TypeOK
<1> QED
  BY <1>3, <1>4, <1>5 DEF Service!Ask, Service!Ready, Service!Asked, session

LEMMA AnswerSession ==
    ASSUME TypeOK, ReplyMatches', NEW c \in Clients, ReceiveReply(c)
    PROVE  \E q \in Queries : Service!Answer(c, q)
<1> DEFINE q == Current(c).query
<1>1. PICK r \in replies : shown' = [shown EXCEPT ![c] = r]
  BY DEF ReceiveReply
<1>2. /\ pc[c] = "waiting" /\ pc' = [pc EXCEPT ![c] = "shown"]
      /\ UNCHANGED <<asked, server>>
  BY DEF ReceiveReply
<1>3. pc'[c] = "shown" /\ Current(c)' = Current(c)
  BY <1>2 DEF TypeOK, Current
<1>4. q \in Queries
  <2>1. asked[c] \in Seq(Bodies) /\ asked[c] # << >>
    BY <1>2 DEF TypeOK
  <2>2. Current(c) \in Bodies
    BY <2>1 DEF Current
  <2> QED
    BY <2>2 DEF Bodies
<1>5. shown'[c].result \in Promised[q]
  <2>1. (shown[c].result \in Results(Current(c).query))'
    BY <1>3 DEF ReplyMatches
  <2>2. shown'[c].result \in Results(q)
    BY <1>2, <1>3, <2>1 DEF Results
  <2>3. Results(q) \subseteq Promised[q]
    BY <1>4 DEF Results, Promised
  <2> QED
    BY <2>2, <2>3
<1>6. View(c) = [at |-> "asked", query |-> q]
  BY <1>2 DEF View
<1>7. View(c)' = [at |-> "shown", query |-> q, result |-> shown'[c].result]
  BY <1>3 DEF View
<1>8. session' = [session EXCEPT ![c] = View(c)']
  BY <1>1, <1>2, OneSession DEF TypeOK
<1>9. Service!Answer(c, q)
  BY <1>5, <1>6, <1>7, <1>8 DEF Service!Answer, Service!Asked, Service!Shown, session
<1> QED
  BY <1>4, <1>9

LEMMA EndSession ==
    ASSUME TypeOK, NEW c \in Clients, pc' = [pc EXCEPT ![c] = "exited"], UNCHANGED <<asked, shown>>
    PROVE  Service!Leave({c})
<1>1. View(c)' = [at |-> "left"]
  BY DEF View, TypeOK
<1>2. session' = [session EXCEPT ![c] = View(c)']
  BY OneSession DEF TypeOK
<1> QED
  BY <1>1, <1>2 DEF Service!Leave, Service!Left, session

LEMMA ContinueSession ==
    ASSUME TypeOK, NEW c \in Clients, Continue(c)
    PROVE  Service!Again(c) \/ Service!Leave({c})
<1>1. pc[c] = "shown" /\ UNCHANGED <<asked, shown>>
  BY DEF Continue
<1>2. CASE pc' = [pc EXCEPT ![c] = "exited"]
  BY <1>1, <1>2, EndSession
<1>3. CASE pc' = [pc EXCEPT ![c] = "prompt"]
  <2>1. View(c).at = "shown" /\ View(c)' = [at |-> "ready"]
    BY <1>1, <1>3 DEF View, TypeOK
  <2>2. session' = [session EXCEPT ![c] = View(c)']
    BY <1>1, <1>3, OneSession DEF TypeOK
  <2> QED
    BY <2>1, <2>2 DEF Service!Again, Service!Ready, session
<1> QED
  BY <1>2, <1>3 DEF Continue

LEMMA SessionStep ==
    ASSUME TypeOK, ReplyMatches', [Next]_vars
    PROVE  [Service!Next]_session
<1>1. ASSUME NEW c \in Clients, ClientStep(c)
      PROVE  Service!Next
  <2>1. CASE Abort(c)
    BY <2>1, EndSession DEF Abort, Service!Next
  <2> QED
    BY <1>1, <2>1, AskSession, AnswerSession, ContinueSession DEF ClientStep, Service!Next
<1>2. ASSUME UNCHANGED clientVars
      PROVE  session' = session
  BY <1>2, SameView DEF session
<1>3. ASSUME NEW d, Serve(d) \/ LoseRequest(d) \/ LoseReply(d) \/ Restart
      PROVE  UNCHANGED clientVars
  BY <1>3 DEF Serve, ServeC, ServePython, PythonRaises, UninitCrash, LoseRequest, LoseReply,
              Restart
<1> QED
  BY <1>1, <1>2, <1>3 DEF Next, vars

\* In a sound build and without repetition, users of the UDP lab get what the
\* calculator promises: one answer to what they asked, theirs and not another
\* client's, through losses and restarts (ClientUDP.c:271-334, ServerUDP.c:291-328).
THEOREM ServiceImplemented ==
    ASSUME ~ CanDuplicate, Spills = {FALSE}
    PROVE  Spec => UdpImplements
<1>1. TypeOK /\ ReplyMatches' /\ [Next]_vars => [Service!Next]_session
  BY SessionStep
<1> QED
  BY <1>1, InitSession, TypeCorrect, RepliesMatch, PTL DEF Spec, UdpImplements, Service!Spec
=============================================================================
