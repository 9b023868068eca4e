------------------------------- MODULE CTypes -------------------------------
(***************************************************************************)
(* The integers the calculator's and the ring's programs exchange.  2^31   *)
(* is beyond TLC's own integers, so an int32_t is recognised by its upper  *)
(* half.                                                                   *)
(***************************************************************************)
EXTENDS Integers

Bytes == 0 .. 255
Int16 == -(2^15) .. 2^15 - 1

\* An int32_t.
Fits32(r) == r \in Int /\ -(2^15) <= r \div 2^16 /\ r \div 2^16 < 2^15

\* The int16_t and the int8_t with the low bits of x.
Signed16(x) == LET low == x % 65536 IN IF low < 32768 THEN low ELSE low - 65536
Signed8(x)  == IF x < 128 THEN x ELSE x - 256
=============================================================================
