# Verification of the OPserver4320 networking labs

The repository holds three small network programs and their variants: a **ring**
of message-forwarding nodes that slaves join over TCP (`Ring/`, `Lab3slave.c`),
and a remote **calculator** spoken over UDP (`udp/`) and over TCP (`tcp/`).
This directory models them in TLA+, checks small instances with TLC and proves
the main safety properties with TLAPS for every value of the constants.

## 1. Inventory

| Component | State | Operations | Talks to |
|---|---|---|---|
| Ring master, `Ring/master.py` | `nextSlaveRID`, `nextSlaveIP` (shared by three threads, no lock); locals of the threads | admit a slave (`accept_joins`), send a line (`send_message_prompt`), print or forward a datagram (`recv_handle_message`) | slaves over TCP (join), UDP datagrams to the target pair |
| Ring slaves, `Ring/slave.py`, `Ring/slave.c` | the connection, the answer | connect, send request, receive place | master |
| Ring slave with receive loop, `Lab3slave.c` | `theRing`, `req` and the locals next to it, a socket meant for datagrams | send a request (a malformed one), show a ring, listen, check, print, (not) forward a message | master, any TCP peer |
| UDP client, `udp/ClientUDP.c` | `requestID`, `totMessLength`, buffers | ask, wait, show, continue | UDP server |
| UDP servers, `udp/ServerUDP.c`, `udp/udpserv.py` | `recBytes` (C only) | answer one datagram after the other | all clients |
| TCP client, `tcp/TCP-client.c`, `tcp/tcpclient.py` | `iNum` / `requestID`, `buf` | connect, ask, wait, show, continue | TCP server |
| TCP server, `tcp/TCP-server.c` | `recBytes`, sockets, children | accept, answer, fork, reap | one client, in fact |
| TCP server, `tcp/TCP-Server.py` | - | none: it ends before it listens | - |
| Arithmetic | - | `calcResult` (C, two copies), `format_response` (Python) | used by the servers |
| Encodings, checksums | - | 16/32-bit big-endian codecs, carry-around sum | used by all |

What is hard to test in them, and where it bites, is listed line by line under
`hazards` in `PROJECT.json`. The groups are:

* **interleaving without locks**: the pair of the ring master is written in two
  steps by one thread and read in two steps by two others;
* **failure of a peer between two steps**: a slave that dies around its request
  ends the master's accept thread; a TCP client that leaves ends the server;
* **unchecked returns**: the C slaves show the answer to a join whether one came
  or not; `Lab3slave.c` goes on to a socket made from the wrong address;
* **loss, repetition, delay**: UDP clients take any datagram for their answer;
* **stale buffers**: both C servers and both C clients process what is left
  from before when a read brings nothing;
* **children and signals**: forked children inherit sockets, SIGCHLD is merged;
* **edges**: ring ID 256, request numbers that wrap or raise, undefined shifts,
  datagrams longer than the buffer.

What makes each component correct:

* *ring master*: each slave learns the place its admission gave it; no two
  slaves have the same ring ID (the first one shares 0 with the master,
  `master.py:21-22`); the target pair follows the admissions; datagrams are neither
  multiplied nor sent to an older slave's port at a newer one's address; admitted
  slaves are not forgotten; who asks is served;
* *ring slaves*: the ring shown is the ring of the slave's own admission; who is
  turned away learns it; a typed line for a slave's ring ID is printed by a
  `Lab3slave.c` it reaches, up to its first NUL byte, and one for another ring ID
  is not; the master prints the lines for 0 as they were typed and forwards the
  others;
* *UDP calculator*: what is shown answers the request just made where the
  network allows it, one's own earlier request otherwise; who asks is answered;
* *TCP calculator*: requests and answers alternate; leftovers are shown only
  once the connection has ended; no zombie is forgotten; the server's death
  reaches everybody who waits.

## 2. Modules

| Module | Role |
|---|---|
| `RingPlaces` | constants of the ring and what a place in it is |
| `Ring` | abstract specification of the join protocol: `Admit`, `Learn` |
| `RingMaster` | `master.py` with the slaves that join it, the user and the network |
| `RingMasterProofs`, `RingRefinementProofs` | theorems about `RingMaster` |
| `MCRingMaster` | a small instance of `RingMaster` on its own |
| `RingLab` | `RingMaster` composed with the three slave programs: what each sends, shows and does afterwards |
| `RingLabProofs` | theorems about `RingLab` |
| `MCRingLab` | instances of `RingLab` |
| `CTypes` | the C programs' integers: bytes, `int16_t`, `int32_t` and the conversions to them |
| `Calc` | the arithmetic of the servers, with undefined and raising cases |
| `CalcProofs` | words of 16 and 32 bits against arithmetic, for every operand |
| `Codec` | the bytes of every message of the labs; the two checksums of the ring; what each member does with a datagram |
| `CalcService` | abstract specification of the calculator: ask, be shown an answer, leave |
| `CodecCases`, `MCCodec` | `Codec` and `Calc` against reference definitions, one input per state |
| `CodecProofs` | theorems about `CodecCases`: `Codec` and `Calc` for every input |
| `UdpCalc` | UDP clients, both servers, the network |
| `UdpCalcProofs` | theorems about `UdpCalc`, its refinement of `CalcService` included |
| `MCUdpCalc` | instances of `UdpCalc` |
| `TcpCalc` | TCP clients (C and Python), the C server, its children, the kernels' queues |
| `TcpCalcProofs`, `TcpRefinementProofs` | theorems about `TcpCalc` |
| `MCTcpCalc` | instances of `TcpCalc` |

`PROJECT.json` maps every definition that models code to its lines. Definitions
whose name ends in `_Something` and whose comment starts with *Mutant* are not
part of a specification: each is a plausible bug for the definition it precedes,
and shows that the property listed with it can fail.

### RingMaster

Each thread has a program counter. A read or a write of the shared pair that
another thread can fall between is a step of its own:

| Code | Actions |
|---|---|
| `accept` and rebinding `conn` (119-124) | `AcceptConn` (rebinding closes the connection served before: `DropConn`) |
| `recv`, `unpack_request`, `pack_response` (124-130) | `PackResponse`, `RejectMalformed` |
| `nextSlaveRID += 1` (131) | `BumpRID` |
| `nextSlaveIP = addr[0]` (132) | `SetIP` |
| `sendall` (134) | `SendResponse` |
| exceptions at 126, 130, 134 | `AcceptThreadDies` |
| `send_message_prompt` (79-84) | `Prompt` (reads the address), `SendTo` (reads the ring ID), `PromptRaises` |
| `recv_handle_message`, `recv_forward_message` (92-106) | `Receive` (check, print, or read the address), `ForwardMessage` (reads the ring ID) |
| `slave.py` `client` (38-52) | `Connect`, `SendRequest`, `ReceivePlace`, `ReceiveEof`, `Die` |
| network | `Vanish`; reordering because `net` is a set |

A datagram carries the number of the typed line it stems from (a history value),
its time to live, its destination and its length class. The check of a datagram
cut by the 71-byte buffer succeeds or fails by chance. `net` is a set of
datagrams and keeps no count of equal ones, so that one step sending the same
datagram twice would not show (the code has one `sendto` per step); a thread that
sent and still held its line would, in `OneCopy`.

### RingLab

`RingLab` extends `RingMaster` and leaves the master as it is. Of the slaves'
steps it refines the two in which the join ends, and adds what the program does
next (`Program` says which slave runs which):

| Code | Actions |
|---|---|
| the answer has come: `slave.py` 44-54, `slave.c` 99-106, `Lab3slave.c` 137-142 | `ShowRing` |
| nothing has come: `slave.py` raises in `unpack_reply` | `PythonRaises` |
| nothing has come: the C programs show `response` unfilled | `ShowLeftover` |
| `Lab3slave.c` 148-172, where `makeRequest` has overwritten `res` | `Crash` |
| the same, where it has not | `Listen` |
| the accept and receive loops, 174-223 | `AcceptPeer`, `PeerEnds`, `RecvFails` |

`makeRequest` of `Lab3slave.c` takes `unsigned char *req[]`, so that its three
bytes are stored as three pointers: what leaves is 15, 0, 0 and the rest lands in
`main`'s other variables. Which ones depends on the build. Builds with gcc at
`-O0` and `-O2` and without a stack protector end with SIGSEGV after showing the
ring; with `-fstack-protector-strong` the program goes on, binds `res` (the
master's address, which fails) and listens at a port of the kernel's. Both are
steps of the model. `LabAssumption` computes from the bytes each program sends
which slaves are strangers to the master.

### CalcService

A user is ready, has asked a query, is shown a query with a result, or has left.
`UdpCalc` and `TcpCalc` map each client to a session (`View`): the query is the
one of the current request, the result the one on the screen. In `TcpCalc` a
client has left as soon as its connection is lost, which is when it may be shown
leftovers, and several leave in one step when the server's last process ends.

### UdpCalc

`Ask`, `ReceiveReply` and `Continue` are the parts of the loop of `clientRun`
between its blocking calls; `Abort` is every way a client ends. `ServeC` is one
turn of the loop of `servRun`: `Loaded` is `recBytes` after the copy, so that a
datagram of length 0 leaves the last request there. `ServePython` and
`PythonRaises` are `udpserv.py`. `HandOver` (repeat), `LoseRequest`, `LoseReply`
are the network, `Restart` a server that is killed and started again. The
variable `spill` is the client build: in some, `scanf("%d" SCNd8, &keepGoing)`
writes over `requestID` and `totMessLength` (seen with gcc at `-O0
-fstack-protector-strong`); in a sound build it does not.

### TcpCalc

The clients' steps are those of `UdpCalc` with a connection: `Connect`,
`ConnectFails`, `Ask`, `Receive`, `ReceiveNothing` (the server's end is gone),
`Continue`, `Leave`. The server's main program is `Accept`, then for ever
`RecvRequest` or `RecvNothing`, `SendResponse`, `Fork`; `ConnectionKills` is the
end that a departed client brings about (error from `recv`, SIGPIPE from `send`,
or the copy from an unfilled buffer). `ChildEnds`, `HandlerStarts`,
`HandlerReaps` and `HandlerReturns` are the children and `sigchld_handler`; the
main program does not run while the handler does. Sockets close when the last
process that has them ends (`Closed`), which may be a child of a dead server;
only then can `Restart` bind.

### Calc

`calcResult` and `format_response` return the set of results a build may answer
with: several where C leaves a shift undefined (a count outside 0..31 is taken modulo 32 by one build
and shifts every bit out in another: a build for x86 does the former), any member of `Garbage` for an
operation that assigns nothing, none where Python raises. `|`, `&`, `>>` and `<<`
are what the machine does, bit by bit: `Bit` takes an operand apart, repeating
its sign as the promotion to `int` does, and `Word` puts the result together from
the sign bit down. `Word` is a recursive function and not a `RECURSIVE` operator,
so that `CalcProofs` can reason about it. `CalcQueries` are the queries a client
can put on the wire; `UdpCalc` and `TcpCalc` assume their `Queries` to be some of
these and nothing about the results.

### Codec

The functions have the names they have in the code. A message is a sequence of
bytes; conversions to `int16_t` and `int32_t` are written out (`Signed16`,
`Signed8`). `get16FromBytes` keeps the order of the code: the high byte goes
through an `int16_t`, is masked as an `int`, and is converted again.
`raw_sum` and `checksum` are folds over the bytes with the step each program
takes: `Carry` in `master.py`, `AddByte` in `Lab3slave.c`. `UdpCalc` and
`TcpCalc` pass queries and results as they are, which `WireFaithful` justifies,
as `PlaceSurvives` justifies that `RingMaster` and `RingLab` pass places: the C
slaves' `get16FromBytes` loses the high byte of the magic number, which none of
them looks at, and nothing else.
`form_datagram` is what the master sends for a typed line; `recv_handle_message`
and `handleMessage` are what the master and `Lab3slave.c` do with a datagram,
buffers included (`TypedIsPrinted`). `master.py` prints every byte of a text;
`handleMessage` prints it with `printf("%s")`, which stops at the first NUL byte
(`CString`), and `ShownOf` says so without it. `handleMessage` compares the
destination with 1 where the time to live is meant, and its forwarding is an empty
block: it never prints what is for another ring ID. A line for ring ID 0 is
printed by the master and by the first slave alike, whichever it reaches.

## 3. Runs

| Run | Question | Instance |
|---|---|---|
| `ring_master_safety` | all safety of the master and of what its slaves show, and `Ring` as its abstraction | a `slave.py` on the master's host, two `slave.c` and a `Lab3slave.c` on another; one line sent; one-byte ring IDs reduced to 0..1 so that the third admission meets the limit; queue of 2 |
| `ring_master_live` | is everybody served, do those turned away learn it, does early circulation end | two `slave.c`, one of them on the master's host, a `Lab3slave.c`, one line |
| `lab3_port` | *violated*: does `Lab3slave.c` listen where its ring sends | a `slave.c`, a `Lab3slave.c`, no line |
| `ring_target_port` | *violated*: does the master aim at the head's port | a slave, a stranger |
| `ring_ttl` | *violated*: do datagrams die | the same, with fairness |
| `udp_reliable` | matching, one under way, liveness, `CalcService` as its abstraction; no faults | two clients, five requests, two request IDs, both servers, an addition and a negative shift |
| `udp_unreliable` | honesty under loss, repetition, one restart | two clients, three requests, both builds and servers, an addition and an unknown operation |
| `udp_spill` | *violated*: matching in a spilling build | one client, two requests, both servers (the C one answers the empty datagram), no faults |
| `tcp_safety` | alternation, stale data, zombies, `CalcService` as its abstraction | a C and a Python client, four requests, two IDs, one kill, one restart, two empty reads |
| `tcp_live` | is the client in service answered, does death reach all | the same clients, three requests |
| `codec` | encodings, arithmetic, checksums against reference definitions; places and lines from end to end | all pairs of 19 operands at the edges of 2, 4, 5, 8 and 16 bits with seven operation codes; messages of up to four of six bytes and their checksum, and the same after 62 bytes of text, where they bring the datagram to the 71 bytes of the master's buffer |
| `tcp_accept_loop` | *violated*: does the server return to accept | the same clients, two requests, no kill |

**Why the bounds are enough.** The ring's properties relate at most two slaves
and the one being admitted, and one line with the thread that holds it: three
slaves give a first, a middle and a refused admission, and hosts shared and not
shared. `codec` tries operands and bytes on both sides of every edge the code
has: the sign, a byte, the width, the shift counts 15, 16, 30, 31 and 32, a sum
of 255 and 256; a line of 64 bytes is the longest the master's buffer holds with
the seven bytes around it (`Lab3slave.c` reads up to 74). Two request IDs make the counter wrap within three requests. A
queue of one and two clients is the least in which one waits while another is
served; with four answers up to four children overlap and their signals merge.
The bounds that are not the code's own (`MaxSends`, `MaxAsks`, `MaxRestarts`,
`MaxKills`, `MaxEmpty`, `MaxLength`) stop users and operators only; the theorems
of section 4 do not depend on their values. `IDSpace`, `MaxRID` and
`ListenQueue` are the code's or the kernel's limits made small.

**Symmetry** is used in `ring_master_safety` (the two `slave.c`) and
`udp_unreliable` (the clients), which check no liveness.

**Deadlock** is not checked in any run: the users' inputs are bounded, programs
end, a UDP client may wait for a dead server and a slave for a dead thread. What
must not stop is stated as liveness.

**Fairness.** Threads, server loops, children, signal handlers and processes
blocked in `recv` are weakly fair: the operating system runs them once they can
go on, and nothing disables them meanwhile. In `ring_master_live` a connected
slave sends its request (or dies), as `slave.py` does without waiting for
anything, and the network delivers or drops every datagram. `EveryRequestServed`
excepts the time after `accept_joins` has ended, and says what may end it: a slave
that dies around its request, or the first ring ID beyond a byte (`JoinsEnded`). A
`Lab3slave.c` that has shown a ring goes on to its
socket or to its end (`LabFairSpec`); no peer has to come. Users, deaths, loss
and restarts have no fairness. `EveryAskAnswered` is checked only for a network
without loss, because no program retries.

**What the violations show.**

1. `ring_target_port`: `accept_joins` packs the answer and then increments the
   counter that `calculate_target_port` uses, so the master sends to a port one
   above the one `Lab3slave.c:148` says the head slave listens on.
2. `ring_ttl`: the time to live is set to 255 and never looked at or
   decremented. Before the first join the master's target is its own socket, and
   a line for another ring ID circulates there until someone joins.
3. `udp_spill`: `ClientUDP.c:329` reads an `int` into a byte.
4. `lab3_port`: `Lab3slave.c` looks up the datagram address of the port its ring
   ID gives (lines 156-164) and does not use it: the socket is made and bound from
   `res`, the TCP address of the master. It listens where nobody sends.
5. `tcp_accept_loop`: the inner `while(1)` of `TCP-server.c` is never left; the
   server ends when its first client has gone.

## 4. Proofs

All theorems hold for every value of the constants that satisfies the named
assumptions (`HostAssumption`, `NoneAssumption`, `MasterAssumption`,
`LabAssumption`, `UdpAssumption`, `TcpAssumption`, `QueriesAssumption`,
`CasesAssumption`, `GarbageAssumption`): any number of slaves, clients, hosts,
queries, any width of the counters. `QueriesAssumption` says that a query is two
16-bit operands and an operation byte, `CasesAssumption` that what is tried is of
its width, `GarbageAssumption` that a result never assigned holds some `int32_t`.

**Ring.** `TypeCorrect` is inductive as it stands. The admission properties are
not: what a slave holds depends on an answer packed earlier from a pair that has
moved on since. `AdmissionInv` adds to `TypeOK`

* `PairInv`: at each label of `accept_joins`, the pair in terms of the history
  `admitted` (one behind for the counter at `packed`, for the address at
  `packed` and `bumped`);
* `ServingInv`: while a join is served the response is the place of the last
  admission;
* `AnswersInv`: every answer on a connection and every place learnt is the place
  of an admission of that slave.

From it follow `PlacesCorrect`, `RingIDsUnique` (places at different positions
have different ring IDs) and `TargetSettles`. `AimCorrect` adds that the
addresses the two sending threads hold are not newer than the current counter
(`AimInv`), which is the order of the reads against the order of the writes.
`NoDuplicates` strengthens `OneCopy` with the bound that line numbers in use are
at most `sends`. `RingRefinementProofs` first shows that a slave is in the
queue, in service or admitted at most once (`QueueInv`, `ServedInv`), from which
`AdmissionsKept` and, with the refinement mapping `ring <- Members`, the
implementation `RingImplemented` follow: a slave enters the abstract ring when
`SetIP` writes the second half of the pair.

**Ring lab.** `LabIsMaster` shows that every step of the lab is a step of
`RingMaster` or leaves it alone, so that all theorems above hold of the three
programs. `LabTypeCorrect` adds that a slave whose join is under way has shown
nothing (`JoiningInv`). `ShownCorrect` rests on the two ways in which a connection
can end without an answer (`DropInv`): its slave was called malformed, or the
accept thread has ended; with `AdmissionInv` and the fact that admissions stay,
what is shown is the place of an admission (`ShownInv`).

**UDP.** `RepliesHonest` needs, besides what is shown, the datagrams in flight
and the server's buffer to stem from requests their client made (`HonestInv`).
`IdSuffices` adds that the n-th request carries the byte n (`NumberInv`), so that
within `IDSpace` requests equal bytes mean equal requests. `StopAndWait` and
`RepliesMatch` assume a network that does not duplicate; the latter also a sound
client build, because `udp_spill` shows that it fails otherwise. `BufferFilled`
rests on the first datagram of every client having its eight bytes (`FreshInv`).
`ServiceImplemented` is the refinement of `CalcService`, under the same two
assumptions as `RepliesMatch`: each client's step moves its own session, and
`ReplyMatches` in the next state makes `ReceiveReply` an `Answer`; losses,
servers' steps and restarts move none.

**TCP.** `TypeCorrect` adds to `TypeOK` that the request number is a byte while a
request is out (`NumberInv`): the Python client leaves the byte only on its way to
the exception. `InTurn` counts messages and is not inductive. `TurnInv` says where
the one message of a waiting client is, and of what (`Going`, `InHand`, `Coming`),
that a connection that has ended stays so and is nobody's to serve (`LostInv`),
and that with the last process of a dead server every connection has ended
(`DeadInv`), without which a restarted server could meet a client waiting on an
old connection. `TurnsTaken` and `AnswersAreCurrent` follow from it, and so does
`ServiceImplemented`: an answer that is `Coming` answers the current request, a
lost connection is a session that was left, and `Closed` is one `Leave` of all
who were connected. `ZombiesReaped` is inductive with the types.

**Arithmetic.** `CalcProofs` is about the words `Calc` builds. The provers have no
induction rule with a predicate to instantiate; what they do have is that `<` is
well founded on the natural numbers, so that a set of them with a member has a
least one (`LeastNumber`). `Upward` and `Downward` are induction from 0 to n and
back, with the set of the numbers reached in the place of the predicate. By
`Downward`, `Word` exists and obeys its recursion (`WordFromTheSign`), and every
word fits its width (`Word16Fits`, `Word32Fits`). Each operator is then compared
with arithmetic place by place: above place i stands the operand divided by 2^i
(`Upper`, `UpperBits`), which gives `RightIsQuotient`; the or and the and carry
the sum of the two operands between them (`OrAndBits`); a left shift is what is
kept of the operand, doubled y times (`LeftShifted`), and splits into shifts that
lose nothing (`LeftSmall`) and shifts of the low half word (`LeftLarge`).
`PythonIsWithinC` and `ResultsFit` draw the consequences for the two servers; the
type theorems of `UdpCalc` and `TcpCalc` use them for the results in flight.

**Codec.** What `codec` checks of some inputs `CodecProofs` proves of all: the
properties of `CodecCases` follow from the types of the inputs alone (`CasesType`),
each by a lemma about the operators. `WireAlwaysFaithful` rests on `RoundTrip16`,
`RoundTrip32` and on every result being an `int32_t`. For the sums, a fold is by
definition the value of a function on sets of places; `SumsExist` builds it by
induction over the length, `FoldsAreSums` shows it unique and equal for the two
programs, whose steps are the same (`SameStep`), and `RunningSums` turns it into
the sequence of partial sums. From there `SumsAlwaysAgree` and
`SealedAlwaysAccepted` are one step each (`ComplementSeals`), and
`OneByteAlwaysNoticed` is an induction along two sums that part at the changed
byte: no later byte brings them together, except where the sum takes 0x00 and 0xFF
for the same (`BytesTellApart`). `PlaceAlwaysSurvives` and `TypedAlwaysPrinted`
follow the bytes through the layouts and the buffers; the first NUL of a closed
text is the least member of a set of places (`UpToNul`); 64 bytes of text is the
bound that makes the datagram fit the master's 71, and the hypothesis under which
`TypedIsPrinted` is stated.

**Only model-checked**: the liveness properties (`EveryRequestServed`,
`CirculationEnds`, `TurnedAwayLearns`, `EveryAskAnswered`, `ServedIsAnswered`,
`NobodyWaitsForTheDead`), which need fairness and `ENABLED`. Every invariant and
every safety property the passing runs check is a theorem.

## 5. Not modelled

* `TCP-Server.py`: it ends before it serves anybody.
* Command lines, name resolution, printing. (A TCP server whose output is not a
  terminal prints some lines once more for every child; nothing depends on it.)
* Short reads on the TCP connections. The clients send their eight bytes, the
  slaves their three, in one call on an idle connection and wait for the answer;
  a kernel passes such a segment on in one piece.
* A request whose length byte is larger than the eight bytes of `recBytes`
  (`ServerUDP.c:299`): the clients of the repository send 8 or, in a spilling
  build, 0. An unfilled buffer whose length is read back is `UninitCrash` in
  `UdpCalc`.
* The missing terminator of `getPort` in `Lab3slave.c`: the text goes to a
  `printf` and to a lookup whose result nobody uses.
* The death of the master's whole process: a `slave.c` that waits for its answer
  then shows an unfilled buffer, as it does when the accept thread ends.
* The text of the ring's messages in `RingMaster`, which keeps its length class;
  `Codec` has the bytes.

## 6. Plan

1. *(done)* the ring master with its refinement and proofs; the UDP calculator
   and its proofs; the TCP calculator.
2. *(done)* `RingLab`: the three slave programs with their unchecked returns, the
   socket bound from the wrong address; a passing and a violation run; proofs.
3. *(done)* `Codec` and `Calc` against reference definitions, the ring's messages
   and their handlers included; lemmas on the sums.
4. *(done)* `CalcService`, checked and proved of `UdpCalc` and `TcpCalc`.
5. *(done)* Proofs about `TcpCalc`: type correctness, `ZombiesReaped`, `InTurn`,
   `AnswersCurrent`, and its refinement of `CalcService`.
6. *(done)* Proofs about `Codec` and `Calc`: every property of `CodecCases` for
   every input.
7. Left: of the passing runs' properties only liveness has no theorem. Worth
   adding: the weaker service the UDP lab implements when datagrams are repeated,
   of which `RepliesHonest` and `IdSuffices` are the two halves.
