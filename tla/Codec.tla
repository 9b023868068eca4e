------------------------------- MODULE Codec -------------------------------
(***************************************************************************)
(* What travels on the wires: the big-endian numbers and the layout of the *)
(* calculator's requests and responses, the same in the UDP and the TCP    *)
(* lab; the ring's join messages and datagrams, which master.py and the    *)
(* slaves write and read each in their own way, and what a datagram makes  *)
(* its receiver do.  A message is a sequence of bytes; every intermediate  *)
(* value stays within 32 bits.                                             *)
(***************************************************************************)
EXTENDS CTypes, Sequences, SequencesExt

-----------------------------------------------------------------------------
(* Numbers.                                                                *)

getBytesFrom16(x) == << (x \div 256) % 256, x % 256 >>

\* The ring slaves' copy, a mutant for the other one: its second mask is the
\* one of its first line, and only the low byte is left.
get16FromBytes_LowByte(b) == Signed16((Signed16(b[1] * 256) % 256) + b[2])

\* The high byte is stored first, then kept by the mask 0xff00.
get16FromBytes(b) == Signed16(((Signed16(b[1] * 256) \div 256) % 256) * 256 + b[2])

getBytesFrom32(x) ==
    << (x \div 2^24) % 256, (x \div 2^16) % 256, (x \div 2^8) % 256, x % 256 >>

get32FromBytes(b) == Signed8(b[1]) * 2^24 + b[2] * 2^16 + b[3] * 2^8 + b[4]

-----------------------------------------------------------------------------
(* Requests and responses of the calculator.                               *)

getTotalMessage(id, q) ==
    << 8, id, q.op, 2 >> \o getBytesFrom16(q.one) \o getBytesFrom16(q.two)

remakeRequest(m) ==
    [id |-> m[2], query |-> [op  |-> m[3],
                             one |-> get16FromBytes(SubSeq(m, 5, 6)),
                             two |-> get16FromBytes(SubSeq(m, 7, 8))]]

unloadResponse(id, result) == << 7, id, 0 >> \o getBytesFrom32(result)

remakeResponse(m) == [id |-> m[2], result |-> get32FromBytes(SubSeq(m, 4, 7))]

-----------------------------------------------------------------------------
(* The checksum of the ring's datagrams: a sum with end-around carry.      *)

\* Mutant: the carry is dropped.
Carry_Dropped(total) == total % 256

\* One turn of master.py's inner loop is enough for the sum of two bytes.
Carry(total) == IF total < 256 THEN total ELSE (total % 256) + (total \div 256)

\* Mutant: the sum leaves out the first byte.
raw_sum_Short(m) == FoldLeft(LAMBDA t, b : Carry(t + b), 0, SubSeq(m, 2, Len(m)))

raw_sum(m) == FoldLeft(LAMBDA t, b : Carry(t + b), 0, m)

\* Mutant: the sum itself instead of its complement.
calculate_checksum_Plain(m) == raw_sum(m)

calculate_checksum(m) == 255 - raw_sum(m)

verify_checksum(m) == raw_sum(m) = 255

\* Lab3slave.c: the carry is added in the same step, in an unsigned char.
AddByte(sum, b) == (sum + b + (IF sum + b > 255 THEN 1 ELSE 0)) % 256

checksum(m) == 255 - FoldLeft(AddByte, 0, m)

-----------------------------------------------------------------------------
(* Joining the ring.  The first request is slave.py's and slave.c's.       *)

groupID     == 15
MAGIC_VALUE == 4660   \* 0x1234

pack_request == << groupID, 18, 52 >>

\* Eight bytes of a pointer whose value is the byte b.
Pointer(b) == << b, 0, 0, 0, 0, 0, 0, 0 >>

\* Lab3slave.c takes its three bytes for three pointers: the first one fills
\* the three bytes sent, the others land in main's other variables.
makeRequest == SubSeq(Pointer(groupID) \o Pointer(18) \o Pointer(52), 1, 3)

unpack_request(m) == [id |-> m[1], magic |-> m[2] * 256 + m[3]]

request_is_valid(magic) == magic = MAGIC_VALUE

pack_response(rid, ip) == << groupID, 18, 52, rid >> \o ip

unpack_reply(m) ==
    [group_id |-> m[1], magic |-> m[2] * 256 + m[3], ring_id |-> m[4], next_slave_ip |-> SubSeq(m, 5, 8)]

\* Mutant: the ring ID is taken from the byte before.
makeRing_Shifted(m) ==
    [mastGID |-> m[1], magic |-> get16FromBytes_LowByte(SubSeq(m, 2, 3)), rID |-> m[3],
     nextSlave |-> SubSeq(m, 5, 8)]

\* The C slaves' own get16FromBytes keeps the low byte alone.
makeRing(m) ==
    [mastGID |-> m[1], magic |-> get16FromBytes_LowByte(SubSeq(m, 2, 3)), rID |-> m[4],
     nextSlave |-> SubSeq(m, 5, 8)]

-----------------------------------------------------------------------------
(* The ring's datagrams: group, magic number, time to live, destination,   *)
(* source, text, checksum.                                                 *)

myRingID == 0

form_datagram(target, text) ==
    LET body == << groupID, 18, 52, 255, target, myRingID >> \o text
    IN  Append(body, calculate_checksum(body))

\* What recv and recvfrom leave of a message that meets a buffer of n bytes.
Received(m, n) == IF Len(m) <= n THEN m ELSE SubSeq(m, 1, n)

Prints(text) == [does |-> "print", text |-> text]
Does(what)   == [does |-> what, text |-> << >>]

\* Mutant: the buffer is a byte short.
recv_handle_message_Short(datagram) ==
    LET data == Received(datagram, 70)
    IN  CASE ~ verify_checksum(data) -> Does("report error")
          [] verify_checksum(data) /\ data[5] = myRingID -> Prints(SubSeq(data, 7, Len(data) - 1))
          [] OTHER -> Does("forward")

\* The master: BUFF_SIZE is 71.
recv_handle_message(datagram) ==
    LET data == Received(datagram, 71)
    IN  CASE ~ verify_checksum(data) -> Does("report error")
          [] verify_checksum(data) /\ data[5] = myRingID -> Prints(SubSeq(data, 7, Len(data) - 1))
          [] OTHER -> Does("forward")

\* What printf("%s") prints of an array: the bytes before its first NUL.
CString(array) == SubSeq(array, 1, SelectInSeq(array, LAMBDA b : b = 0) - 1)

\* Lab3slave.c: the text is printed up to its first NUL byte, forwarding is an
\* empty block, and the destination is compared with 1 where the time to live
\* is meant.
handleMessage(message, rID) ==
    LET recMsg     == Received(message, 74)
        theMessage == Append(SubSeq(recMsg, 7, Len(recMsg) - 1), 0)
    IN  CASE checksum(recMsg) # 0 -> Does("report error")
          [] checksum(recMsg) = 0 /\ recMsg[5] = rID ->
                 Prints(CString(theMessage))
          [] checksum(recMsg) = 0 /\ recMsg[5] # rID /\ recMsg[5] > 1 -> Does("nothing")
          [] OTHER -> Does("report time to live")
=============================================================================
