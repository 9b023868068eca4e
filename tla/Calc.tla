-------------------------------- MODULE Calc --------------------------------
(***************************************************************************)
(* The calculator of the UDP and the TCP lab: six operations on two signed *)
(* 16-bit operands with a signed 32-bit result.  calcResult is the C one   *)
(* (both servers carry the same copy), format_response the Python one.     *)
(* Each is the set of results the program can answer with: more than one   *)
(* where C leaves the result undefined, none where Python raises.          *)
(*                                                                         *)
(* Every value stays within 32 bits, TLC's own integers.                   *)
(***************************************************************************)
EXTENDS CTypes

CONSTANT Garbage   \* what a result never assigned may hold

ASSUME GarbageAssumption == Garbage # {} /\ \A r \in Garbage : Fits32(r)

ADDOP == 0
SUBOP == 1
OROP  == 2
ANDOP == 3
RSOP  == 4
LSOP  == 5

\* What a client may ask: its fields as they travel, any operation code.
CalcQueries == [op : Bytes, one : Int16, two : Int16]

\* Bit i of a 16-bit operand promoted to int, which repeats the sign bit.
Bit(x, i) == IF i < 16 THEN (x \div 2^i) % 2 ELSE IF x < 0 THEN 1 ELSE 0

\* The two's complement number with the bits b[0] .. b[w - 1], from the sign down.
Word(w, b) ==
    LET word[i \in 0 .. w - 1] == IF i = w - 1 THEN -b[i] ELSE 2 * word[i + 1] + b[i]
    IN  word[0]

BitOr(x, y)  == Word(16, [i \in 0 .. 15 |-> IF Bit(x, i) + Bit(y, i) = 0 THEN 0 ELSE 1])
BitAnd(x, y) == Word(16, [i \in 0 .. 15 |-> Bit(x, i) * Bit(y, i)])

\* Mutant: a logical shift, which fills with zeros.
ShiftRight_Logical(x, k) == Word(16, [i \in 0 .. 15 |-> IF i + k < 16 THEN Bit(x, i + k) ELSE 0])

ShiftRight(x, k) == Word(16, [i \in 0 .. 15 |-> Bit(x, i + k)])
ShiftLeft(x, k)  == Word(32, [i \in 0 .. 31 |-> IF i < k THEN 0 ELSE Bit(x, i - k)])

(***************************************************************************)
(* A shift count outside 0 .. 31 is undefined in C.  A build for a machine *)
(* that masks the count (x86) takes it modulo 32, another shifts every bit *)
(* out: the set is wider than what one build does.                         *)
(***************************************************************************)
\* Mutant: the count is taken modulo the width of the operand.
ShiftCounts_Masked(n) == {n % 16}

ShiftCounts(n) == IF n \in 0 .. 31 THEN {n} ELSE {n % 32, 32}

calcResult(q) ==
    CASE q.op = ADDOP -> {q.one + q.two}
      [] q.op = SUBOP -> {q.one - q.two}
      [] q.op = OROP  -> {BitOr(q.one, q.two)}
      [] q.op = ANDOP -> {BitAnd(q.one, q.two)}
      [] q.op = RSOP  -> {ShiftRight(q.one, k) : k \in ShiftCounts(q.two)}
      [] q.op = LSOP  -> {ShiftLeft(q.one, k) : k \in ShiftCounts(q.two)}
      [] OTHER        -> Garbage

\* one * 2^two packs into four bytes, so that no bit is lost.
PacksShifted(one, two) == \/ one = 0 \/ two <= 16
                          \/ two <= 31 /\ one \in -(2^(31 - two)) .. 2^(31 - two) - 1

\* Python: no such operation, a negative shift count, and a result that does
\* not pack into four bytes all raise.
format_response(q) ==
    CASE q.op = ADDOP -> {q.one + q.two}
      [] q.op = SUBOP -> {q.one - q.two}
      [] q.op = OROP  -> {BitOr(q.one, q.two)}
      [] q.op = ANDOP -> {BitAnd(q.one, q.two)}
      [] q.op = RSOP /\ q.two >= 0 -> {ShiftRight(q.one, q.two)}
      [] q.op = LSOP /\ q.two >= 0 /\ PacksShifted(q.one, q.two) -> {ShiftLeft(q.one, q.two)}
      [] OTHER -> {}
=============================================================================
