----------------------------- MODULE CodecCases -----------------------------
(***************************************************************************)
(* The encodings, the checksums and the arithmetic of the labs, one input  *)
(* per state: a query a client may send, or the bytes of a ring datagram   *)
(* as it grows.                                                            *)
(***************************************************************************)
EXTENDS Codec, Calc

CONSTANTS
    Operands,    \* 16-bit operands tried, in all pairs
    IDs,         \* request IDs tried
    SomeBytes,   \* bytes of datagrams tried
    Filler,      \* text that brings a datagram near the size of the buffers
    MaxLength    \* bound: bytes of a datagram

ASSUME CasesAssumption ==
    /\ Operands \subseteq Int16 /\ IDs \subseteq Bytes /\ SomeBytes \subseteq Bytes
    /\ MaxLength \in Nat /\ Filler \in Seq(Bytes)

VARIABLES kind, query, id, message

vars == <<kind, query, id, message>>

Queries == [op : 0 .. 6, one : Operands, two : Operands]

Init ==
    /\ kind \in {"query", "message"}
    /\ IF kind = "query" THEN query \in Queries /\ id \in IDs
       ELSE query \in {[op |-> ADDOP, one |-> 0, two |-> 0]} /\ id \in {0}
    /\ message = << >>

\* The datagram grows by a byte.
Extend(b) ==
    /\ kind = "message" /\ Len(message) < MaxLength
    /\ message' = Append(message, b)
    /\ UNCHANGED <<kind, query, id>>

Next == \E b \in SomeBytes : Extend(b)

Spec == Init /\ [][Next]_vars

-----------------------------------------------------------------------------
\* What the client packs is what the server unpacks, and what the server
\* answers is what the client shows, for every operand and result at the edges
\* of its width.  (UdpCalc and TcpCalc pass queries and results as they are.)
WireFaithful ==
    kind = "query" =>
        /\ remakeRequest(getTotalMessage(id, query)) = [id |-> id, query |-> query]
        /\ \A r \in calcResult(query) \cup format_response(query) :
              remakeResponse(unloadResponse(id, r)) = [id |-> id, result |-> r]

\* Wherever the Python server answers at all it gives a result some build of
\* the C server gives.  (A build in which the machine takes a shift count modulo
\* 32 parts from it at counts above 31: x >> 33 is 0 or -1 in Python and
\* x >> 1 there.)
PythonWithinC == kind = "query" => format_response(query) \subseteq calcResult(query)

\* The bitwise operators against arithmetic: or and and together have the bits
\* of both operands, a right shift divides and rounds down, a left shift
\* multiplies and keeps 32 bits.
ArithmeticReference ==
    kind = "query" =>
        LET x == query.one
            y == query.two
        IN  /\ BitOr(x, y) + BitAnd(x, y) = x + y
            /\ BitAnd(x, y) \in Int16 /\ (x >= 0 => BitAnd(x, y) \in 0 .. x)
            /\ (y \in 0 .. 30) => ShiftRight(x, y) = x \div 2^y
            /\ y \in 0 .. 15 => ShiftLeft(x, y) = x * 2^y
            /\ y \in 16 .. 30 => ShiftLeft(x, y) = Signed16((x % 2^(32 - y)) * 2^(y - 16)) * 2^16

\* The slave accepts exactly the datagrams the master accepts.
SumsAgree == kind = "message" => (checksum(message) = 0 <=> verify_checksum(message))

\* form_datagram's last byte makes both ends accept, whatever comes before.
SealedAccepted ==
    kind = "message" =>
        LET sealed == Append(message, calculate_checksum(message))
        IN  calculate_checksum(message) \in Bytes /\ verify_checksum(sealed) /\ checksum(sealed) = 0

\* A datagram with one byte changed is refused, unless 0x00 and 0xFF were
\* exchanged, which a sum with end-around carry may not tell apart.
OneByteNoticed ==
    kind = "message" =>
        LET sealed == Append(message, calculate_checksum(message))
        IN  \A i \in 1 .. Len(sealed), b \in SomeBytes :
                verify_checksum([sealed EXCEPT ![i] = b]) =>
                    b = sealed[i] \/ {b, sealed[i]} = {0, 255}

\* Every slave program reads from the master's answer the ring ID and the
\* address packed into it, although the C ones mangle the magic number between
\* the two (Lab3slave.c:44).
PlaceSurvives ==
    (kind = "message" /\ Len(message) = 4) =>
        \A rid \in SomeBytes :
            LET answer == pack_response(rid, message)
            IN  /\ unpack_reply(answer).group_id = groupID /\ makeRing(answer).mastGID = groupID
                /\ unpack_reply(answer).ring_id = rid      /\ makeRing(answer).rID = rid
                /\ unpack_reply(answer).next_slave_ip = message
                /\ makeRing(answer).nextSlave = message

\* A Lab3 slave shows a text up to its first NUL byte: as it was typed, unless
\* there is one.
ShownOf(shown, text) ==
    /\ Len(shown) <= Len(text)
    /\ \A i \in 1 .. Len(shown) : shown[i] = text[i] /\ shown[i] # 0
    /\ Len(shown) < Len(text) => text[Len(shown) + 1] = 0

\* What becomes of a line of up to 64 bytes, which with its header and its
\* checksum still fits the smaller buffer (recv_handle_message of master.py,
\* Lab3slave.c:185-221).  The master prints it as typed if it is for ring ID 0
\* and forwards it otherwise.  A Lab3 slave prints it, up to a NUL byte, if it is
\* for the slave's ring ID, and does not print it otherwise.  The first slave of
\* a ring has the master's ring ID (master.py:21-22): a line for 0 is printed by
\* whichever of the two it reaches.
TypedIsPrinted ==
    kind = "message" =>
        \A text \in {message, Filler \o message}, target \in SomeBytes :
            Len(text) <= 64 =>
                LET d == form_datagram(target, text)
                IN  /\ recv_handle_message(d) = (IF target = myRingID THEN Prints(text) ELSE Does("forward"))
                    /\ \A rID \in SomeBytes :
                          LET done == handleMessage(d, rID)
                          IN  /\ done.does = "print" <=> rID = target
                              /\ rID = target => ShownOf(done.text, text)
=============================================================================
