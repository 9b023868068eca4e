----------------------------- MODULE CalcProofs -----------------------------
(***************************************************************************)
(* The calculator's arithmetic for every 16-bit operand.  A word is read   *)
(* from its sign bit down, so that every fact about one is an induction    *)
(* over the places of its bits; the induction is Upward or Downward, which *)
(* rest on the least member of a set of natural numbers.                   *)
(***************************************************************************)
EXTENDS Calc, WellFoundedInduction, TLAPS

-----------------------------------------------------------------------------
(* Induction, powers of two, division.                                     *)

\* A set of natural numbers with a member has a least one.
LEMMA LeastNumber ==
  ASSUME NEW T \in SUBSET Nat, T # {}
  PROVE  \E n \in T : \A k \in T : n <= k
<1>1. \E n \in T : \A k \in T : <<k, n>> \notin OpToRel(<, Nat)
  BY NatLessThanWellFounded, WFMin
<1>2. \A k, n \in Nat : <<k, n>> \notin OpToRel(<, Nat) => n <= k
  BY DEF OpToRel
<1> QED
  BY <1>1, <1>2

\* Induction from 0 up to n, over a set of the numbers it has reached.
LEMMA Upward ==
  ASSUME NEW n \in Nat, NEW S, 0 \in S, \A i \in 0 .. n - 1 : i \in S => i + 1 \in S
  PROVE  \A i \in 0 .. n : i \in S
<1> DEFINE T == {i \in 0 .. n : i \notin S}
<1> SUFFICES ASSUME T # {} PROVE FALSE
  OBVIOUS
<1>1. T \in SUBSET Nat
  OBVIOUS
<1>2. PICK i \in T : \A k \in T : i <= k
  <2> HIDE DEF T
  <2> QED BY <1>1, LeastNumber
<1>3. i - 1 \in 0 .. n - 1 /\ i - 1 \notin T
  <2>1. i \in 0 .. n /\ i # 0
    BY <1>2
  <2> HIDE DEF T
  <2> QED BY <1>2, <2>1
<1> QED
  BY <1>2, <1>3

\* The same from n down to 0.
LEMMA Downward ==
  ASSUME NEW n \in Nat, NEW S, n \in S, \A i \in 0 .. n - 1 : i + 1 \in S => i \in S
  PROVE  \A i \in 0 .. n : i \in S
<1> DEFINE U == {i \in 0 .. n : n - i \in S}
<1>1. 0 \in U
  OBVIOUS
<1>2. \A i \in 0 .. n - 1 : i \in U => i + 1 \in U
  <2> SUFFICES ASSUME NEW i \in 0 .. n - 1, n - i \in S PROVE n - (i + 1) \in S
    OBVIOUS
  <2>1. n - (i + 1) \in 0 .. n - 1 /\ (n - (i + 1)) + 1 = n - i
    OBVIOUS
  <2> QED BY <2>1
<1>3. \A i \in 0 .. n : i \in U
  <2> HIDE DEF U
  <2> QED BY <1>1, <1>2, Upward
<1> QED
  <2> SUFFICES ASSUME NEW i \in 0 .. n PROVE i \in S
    OBVIOUS
  <2>1. n - i \in 0 .. n /\ n - (n - i) = i
    OBVIOUS
  <2> QED BY <1>3, <2>1

\* The powers of two a 32-bit word is made of, each twice the one before.
LEMMA Powers ==
  \A i \in 0 .. 31 : 2^i \in Nat \ {0} /\ 2^(i + 1) = 2 * 2^i
<1> SUFFICES ASSUME NEW i \in 0 .. 31 PROVE 2^i \in Nat \ {0} /\ 2^(i + 1) = 2 * 2^i
  OBVIOUS
<1>0. CASE i = 0  BY <1>0
<1>1. CASE i = 1  BY <1>1
<1>2. CASE i = 2  BY <1>2
<1>3. CASE i = 3  BY <1>3
<1>4. CASE i = 4  BY <1>4
<1>5. CASE i = 5  BY <1>5
<1>6. CASE i = 6  BY <1>6
<1>7. CASE i = 7  BY <1>7
<1>8. CASE i = 8  BY <1>8
<1>9. CASE i = 9  BY <1>9
<1>10. CASE i = 10  BY <1>10
<1>11. CASE i = 11  BY <1>11
<1>12. CASE i = 12  BY <1>12
<1>13. CASE i = 13  BY <1>13
<1>14. CASE i = 14  BY <1>14
<1>15. CASE i = 15  BY <1>15
<1>16. CASE i = 16  BY <1>16
<1>17. CASE i = 17  BY <1>17
<1>18. CASE i = 18  BY <1>18
<1>19. CASE i = 19  BY <1>19
<1>20. CASE i = 20  BY <1>20
<1>21. CASE i = 21  BY <1>21
<1>22. CASE i = 22  BY <1>22
<1>23. CASE i = 23  BY <1>23
<1>24. CASE i = 24  BY <1>24
<1>25. CASE i = 25  BY <1>25
<1>26. CASE i = 26  BY <1>26
<1>27. CASE i = 27  BY <1>27
<1>28. CASE i = 28  BY <1>28
<1>29. CASE i = 29  BY <1>29
<1>30. CASE i = 30  BY <1>30
<1>31. CASE i = 31  BY <1>31
<1> QED
  BY <1>0, <1>1, <1>2, <1>3, <1>4, <1>5, <1>6, <1>7, <1>8, <1>9,
     <1>10, <1>11, <1>12, <1>13, <1>14, <1>15, <1>16, <1>17, <1>18, <1>19,
     <1>20, <1>21, <1>22, <1>23, <1>24, <1>25, <1>26, <1>27, <1>28, <1>29,
     <1>30, <1>31

\* How the left shifts by 16 and more split between the two half words.
LEMMA SplitPowers ==
  \A j \in 0 .. 14 : 2^j * 2^(15 - j) = 2^15 /\ 2^(j + 16) = 2^16 * 2^j
<1> SUFFICES ASSUME NEW j \in 0 .. 14 PROVE 2^j * 2^(15 - j) = 2^15 /\ 2^(j + 16) = 2^16 * 2^j
  BY Zenon
<1>0. CASE j = 0  BY <1>0
<1>1. CASE j = 1  BY <1>1
<1>2. CASE j = 2  BY <1>2
<1>3. CASE j = 3  BY <1>3
<1>4. CASE j = 4  BY <1>4
<1>5. CASE j = 5  BY <1>5
<1>6. CASE j = 6  BY <1>6
<1>7. CASE j = 7  BY <1>7
<1>8. CASE j = 8  BY <1>8
<1>9. CASE j = 9  BY <1>9
<1>10. CASE j = 10  BY <1>10
<1>11. CASE j = 11  BY <1>11
<1>12. CASE j = 12  BY <1>12
<1>13. CASE j = 13  BY <1>13
<1>14. CASE j = 14  BY <1>14
<1> QED
  BY <1>0, <1>1, <1>2, <1>3, <1>4, <1>5, <1>6, <1>7, <1>8, <1>9, <1>10, <1>11, <1>12, <1>13, <1>14

\* A number written with divisor, quotient and remainder is divided.
LEMMA Quotient ==
  ASSUME NEW p \in Nat \ {0}, NEW s \in Int, NEW u \in 0 .. p - 1
  PROVE  (p * s + u) \div p = s
<1> DEFINE x == p * s + u
           q == x \div p
           r == x % p
<1>1. x \in Int
  OBVIOUS
<1>2. q \in Int /\ r \in Int /\ x = p * q + r /\ 0 <= r /\ r < p
  BY <1>1
<1> HIDE DEF q, r
<1>3. p * (q - s) = u - r /\ -p < u - r /\ u - r < p
  BY <1>2
<1>4. q - s >= 1 => p * (q - s) >= p
  BY <1>2
<1>5. q - s <= -1 => p * (q - s) <= -p
  BY <1>2
<1> QED
  BY <1>2, <1>3, <1>4, <1>5 DEF q

\* Dividing by p and then by 2 is dividing by 2 * p.
LEMMA Halving ==
  ASSUME NEW x \in Int, NEW p \in Nat \ {0}
  PROVE  x \div p \in Int /\ x \div (2 * p) = (x \div p) \div 2
<1> DEFINE q == x \div p
           r == x % p
           s == q \div 2
           t == q % 2
<1>1. x = p * q + r /\ q \in Int /\ r \in Int /\ 0 <= r /\ r < p
  OBVIOUS
<1>2. q = 2 * s + t /\ s \in Int /\ (t = 0 \/ t = 1)
  BY <1>1
<1> HIDE DEF q, r, s, t
<1>3. x = (2 * p) * s + (p * t + r)
  BY <1>1, <1>2
<1>4. p * t + r \in Int /\ 0 <= p * t + r /\ p * t + r < 2 * p
  BY <1>1, <1>2
<1>5. x \div (2 * p) = s
  BY <1>2, <1>3, <1>4, Quotient
<1> QED
  BY <1>1, <1>5 DEF q, s

-----------------------------------------------------------------------------
(* Words.                                                                  *)

\* Word exists and is computed from the sign bit down: each bit doubles what
\* stands above it and adds itself.
LEMMA WordFromTheSign ==
  ASSUME NEW n \in Nat, NEW b \in [0 .. n -> {0, 1}]
  PROVE  \E h \in [0 .. n -> Int] : /\ h[n] = -b[n]
                                    /\ \A i \in 0 .. n - 1 : h[i] = 2 * h[i + 1] + b[i]
                                    /\ Word(n + 1, b) = h[0]
<1> DEFINE Eq(h, k) == h = [i \in k .. n |-> IF i = n THEN -b[i] ELSE 2 * h[i + 1] + b[i]]
           S == {k \in 0 .. n : \E h \in [k .. n -> Int] : Eq(h, k)}
<1>0. \A i \in 0 .. n : b[i] \in Int
  OBVIOUS
<1>1. n \in S
  <2> DEFINE h == [i \in n .. n |-> -b[i]]
  <2>1. h \in [n .. n -> Int] /\ Eq(h, n)
    BY <1>0
  <2> HIDE DEF h, Eq
  <2> QED BY <2>1
<1>2. ASSUME NEW k \in 0 .. n - 1, k + 1 \in S PROVE k \in S
  <2>1. PICK h \in [k + 1 .. n -> Int] : Eq(h, k + 1)
    BY <1>2
  <2> DEFINE g == [i \in k .. n |-> IF i = k THEN 2 * h[k + 1] + b[k] ELSE h[i]]
  <2>2. h[k + 1] \in Int /\ b[k] \in Int
    BY <1>0
  <2>3. g \in [k .. n -> Int]
    BY <2>2
  <2>4. Eq(g, k)
    <3> SUFFICES ASSUME NEW i \in k .. n
                 PROVE  g[i] = IF i = n THEN -b[i] ELSE 2 * g[i + 1] + b[i]
      OBVIOUS
    <3>1. CASE i = k
      BY <3>1
    <3>2. CASE i # k
      <4>1. i \in k + 1 .. n /\ g[i] = h[i] /\ (i # n => g[i + 1] = h[i + 1])
        BY <3>2
      <4> QED BY <2>1, <4>1
    <3> QED BY <3>1, <3>2
  <2> HIDE DEF g, Eq
  <2> QED BY <2>3, <2>4
<1>3. 0 \in S
  <2> HIDE DEF S
  <2> QED BY <1>1, <1>2, Downward
<1> DEFINE h == CHOOSE h : Eq(h, 0)
<1>4. Eq(h, 0)
  <2>1. \E f : Eq(f, 0)
    BY <1>3
  <2> HIDE DEF Eq
  <2> QED BY <2>1
<1>5. Word(n + 1, b) = h[0]
  BY DEF Word
<1> HIDE DEF h
<1>6. h[n] = -b[n] /\ \A i \in 0 .. n - 1 : h[i] = 2 * h[i + 1] + b[i]
  BY <1>4
<1>7. \A i \in 0 .. n : h[i] \in Int
  <2> DEFINE U == {i \in 0 .. n : h[i] \in Int}
  <2>1. n \in U
    BY <1>0, <1>6
  <2>2. \A i \in 0 .. n - 1 : i + 1 \in U => i \in U
    BY <1>0, <1>6
  <2>3. \A i \in 0 .. n : i \in U
    <3> HIDE DEF U
    <3> QED BY <2>1, <2>2, Downward
  <2> QED BY <2>3
<1>8. h \in [0 .. n -> Int]
  BY <1>4, <1>7
<1> QED
  BY <1>5, <1>6, <1>8

\* The places of the two widths there are, 16 and 32.
LEMMA Widths ==
  /\ 15 \in Nat /\ 15 - 1 = 14 /\ 15 + 1 = 16
  /\ 31 \in Nat /\ 31 - 1 = 30 /\ 31 + 1 = 32
  OBVIOUS

\* Downward through a 16-bit word.
LEMMA Down16 ==
  ASSUME NEW S, 15 \in S, \A i \in 0 .. 14 : i + 1 \in S => i \in S
  PROVE  0 \in S
<1>1. \A i \in 0 .. 15 : i \in S
  BY Widths, Downward, Zenon
<1> QED
  BY <1>1

\* Downward through a 32-bit word.
LEMMA Down32 ==
  ASSUME NEW S, 31 \in S, \A i \in 0 .. 30 : i + 1 \in S => i \in S
  PROVE  0 \in S
<1>1. \A i \in 0 .. 31 : i \in S
  BY Widths, Downward, Zenon
<1> QED
  BY <1>1

\* WordFromTheSign for a 16-bit word.
LEMMA Word16 ==
  ASSUME NEW b \in [0 .. 15 -> {0, 1}]
  PROVE  \E h \in [0 .. 15 -> Int] : /\ h[15] = -b[15]
                                     /\ \A i \in 0 .. 14 : h[i] = 2 * h[i + 1] + b[i]
                                     /\ Word(16, b) = h[0]
  BY Widths, WordFromTheSign, Zenon

\* WordFromTheSign for a 32-bit word.
LEMMA Word32 ==
  ASSUME NEW b \in [0 .. 31 -> {0, 1}]
  PROVE  \E h \in [0 .. 31 -> Int] : /\ h[31] = -b[31]
                                     /\ \A i \in 0 .. 30 : h[i] = 2 * h[i + 1] + b[i]
                                     /\ Word(32, b) = h[0]
  BY Widths, WordFromTheSign, Zenon

\* A word of n + 1 bits lies in the two's complement range of that width.
LEMMA WordFits ==
  ASSUME NEW n \in 0 .. 31, NEW b \in [0 .. n -> {0, 1}]
  PROVE  Word(n + 1, b) \in -(2^n) .. 2^n - 1
<1>1. PICK h \in [0 .. n -> Int] : /\ h[n] = -b[n]
                                   /\ \A i \in 0 .. n - 1 : h[i] = 2 * h[i + 1] + b[i]
                                   /\ Word(n + 1, b) = h[0]
  <2>1. n \in Nat
    OBVIOUS
  <2> QED BY <2>1, WordFromTheSign
<1> DEFINE S == {i \in 0 .. n : h[i] \in -(2^(n - i)) .. 2^(n - i) - 1}
<1>2. n \in S
  <2>1. n - n = 0 /\ 2^0 = 1
    OBVIOUS
  <2> QED BY <1>1, <2>1
<1>3. ASSUME NEW i \in 0 .. n - 1, i + 1 \in S PROVE i \in S
  <2> DEFINE p == 2^(n - (i + 1))
  <2>1. n - (i + 1) \in 0 .. 31 /\ n - i = (n - (i + 1)) + 1
    OBVIOUS
  <2>2. p \in Nat \ {0} /\ 2^(n - i) = 2 * p
    BY <2>1, Powers
  <2>3. h[i + 1] \in -p .. p - 1
    BY <1>3
  <2> HIDE DEF p
  <2>4. h[i] = 2 * h[i + 1] + b[i] /\ b[i] \in 0 .. 1
    BY <1>1
  <2>5. h[i] \in -(2 * p) .. 2 * p - 1
    BY <2>2, <2>3, <2>4
  <2> QED BY <2>2, <2>5
<1>4. \A i \in 0 .. n : i \in S
  <2>1. n \in Nat
    OBVIOUS
  <2> HIDE DEF S
  <2> QED BY <1>2, <1>3, <2>1, Downward
<1>5. h[0] \in -(2^(n - 0)) .. 2^(n - 0) - 1
  BY <1>4
<1> QED
  BY <1>1, <1>5

\* Int16 by its bounds.
LEMMA Int16Range ==
  /\ \A x \in Int16 : x \in Int /\ -32768 <= x /\ x <= 32767
  /\ \A x \in Int : -32768 <= x /\ x <= 32767 => x \in Int16
<1>1. \A x \in Int16 : x \in Int /\ -32768 <= x /\ x <= 32767
  BY DEF Int16
<1>2. \A x \in Int : -32768 <= x /\ x <= 32767 => x \in Int16
  BY DEF Int16
<1> QED
  BY <1>1, <1>2

\* A 16-bit word is an int16_t.
LEMMA Word16Fits ==
  ASSUME NEW b \in [0 .. 15 -> {0, 1}]
  PROVE  Word(16, b) \in Int16
<1> DEFINE v == Word(15 + 1, b)
<1>1. v \in Int16
  BY WordFits DEF Int16
<1>2. v = Word(16, b)
  BY Widths, Zenon
<1> QED
  BY <1>1, <1>2

\* A 32-bit word is an int32_t.
LEMMA Word32Fits ==
  ASSUME NEW b \in [0 .. 31 -> {0, 1}]
  PROVE  Fits32(Word(32, b))
<1> DEFINE v == Word(31 + 1, b)
<1>1. v \in -(2^31) .. 2^31 - 1
  BY WordFits
<1>2. v = Word(32, b)
  BY Widths, Zenon
<1> HIDE DEF v
<1>3. v \in Int /\ -(65536 * 32768) <= v /\ v < 65536 * 32768
  BY <1>1
<1>4. Fits32(v)
  BY <1>3 DEF Fits32
<1> QED
  BY <1>2, <1>4

-----------------------------------------------------------------------------
(* The bits of an operand.                                                 *)

\* What is left of a number when every bit below its sign is shifted out.
Sign(x) == IF x < 0 THEN -1 ELSE 0

\* What stands above the lowest j bits of a 16-bit operand.
Upper(x, j) == IF j < 16 THEN x \div 2^j ELSE Sign(x)

\* Bit(x, j) is the bit between two Uppers, and beyond the operand's own bits
\* there is only its sign.
LEMMA UpperBits ==
  ASSUME NEW x \in Int16, NEW j \in Nat
  PROVE  /\ Upper(x, j) \in Int /\ Bit(x, j) \in {0, 1}
         /\ Upper(x, j) = 2 * Upper(x, j + 1) + Bit(x, j)
         /\ j >= 15 => Upper(x, j) = Sign(x) /\ Bit(x, j) = -Sign(x)
<1>0. x \in Int /\ -32768 <= x /\ x <= 32767
  BY Int16Range
<1>1. CASE j < 15
  <2> DEFINE p == 2^j
  <2>1. p \in Nat \ {0} /\ 2^(j + 1) = 2 * p
    <3>1. j \in 0 .. 31
      BY <1>1
    <3> QED BY <3>1, Powers
  <2> HIDE DEF p
  <2>2. x \div p \in Int /\ x \div (2 * p) = (x \div p) \div 2
    <3>1. x \in Int /\ p \in Nat \ {0}
      BY <1>0, <2>1
    <3> QED BY <3>1, Halving
  <2> DEFINE q == x \div p
  <2>3. Upper(x, j) = q /\ Upper(x, j + 1) = q \div 2 /\ Bit(x, j) = q % 2
    BY <1>1, <2>1, <2>2 DEF Upper, Bit, p
  <2>4. q \in Int
    BY <2>2
  <2> HIDE DEF q
  <2> QED BY <1>1, <2>3, <2>4
<1>2. CASE j >= 15
  <2>1. x \div 32768 = Sign(x)
    BY <1>0 DEF Sign
  <2>2. 2^15 = 32768
    OBVIOUS
  <2>3. Upper(x, j) = Sign(x) /\ Upper(x, j + 1) = Sign(x)
    <3>1. CASE j = 15
      BY <3>1, <2>1, <2>2 DEF Upper
    <3> QED BY <1>2, <3>1 DEF Upper
  <2>4. Bit(x, j) = -Sign(x)
    <3>1. CASE j = 15
      <4>1. Bit(x, j) = Sign(x) % 2
        BY <3>1, <2>1, <2>2 DEF Bit
      <4> QED BY <4>1 DEF Sign
    <3>2. CASE j > 15
      BY <1>2, <3>2 DEF Bit, Sign
    <3> QED BY <1>2, <3>1, <3>2
  <2>5. Sign(x) = -1 \/ Sign(x) = 0
    BY DEF Sign
  <2> QED BY <2>3, <2>4, <2>5
<1> QED
  BY <1>1, <1>2

\* All of an operand stands above its lowest 0 bits.
LEMMA UpperOfZero ==
  ASSUME NEW x \in Int16
  PROVE  Upper(x, 0) = x
<1>1. x \in Int /\ 2^0 = 1
  BY Int16Range
<1> QED
  BY <1>1 DEF Upper

\* A right shift leaves what stands above the bits it drops.
LEMMA RightIsUpper ==
  ASSUME NEW x \in Int16, NEW k \in Nat
  PROVE  ShiftRight(x, k) = Upper(x, k)
<1> DEFINE b == [i \in 0 .. 15 |-> Bit(x, i + k)]
<1>1. b \in [0 .. 15 -> {0, 1}]
  BY UpperBits
<1>2. PICK h \in [0 .. 15 -> Int] : /\ h[15] = -b[15]
                                    /\ \A i \in 0 .. 14 : h[i] = 2 * h[i + 1] + b[i]
                                    /\ Word(16, b) = h[0]
  <2> HIDE DEF b
  <2> QED BY <1>1, Word16
<1> DEFINE S == {i \in 0 .. 15 : h[i] = Upper(x, i + k)}
<1>3. 15 \in S
  <2>1. b[15] = Bit(x, 15 + k) /\ 15 + k \in Nat /\ 15 + k >= 15
    OBVIOUS
  <2>2. Upper(x, 15 + k) = Sign(x) /\ Bit(x, 15 + k) = -Sign(x)
    BY <2>1, UpperBits
  <2> QED BY <1>2, <2>1, <2>2 DEF Sign
<1>4. ASSUME NEW i \in 0 .. 14, i + 1 \in S PROVE i \in S
  <2>1. i + k \in Nat /\ (i + 1) + k = (i + k) + 1
    OBVIOUS
  <2>2. Upper(x, i + k) = 2 * Upper(x, (i + 1) + k) + Bit(x, i + k)
    BY <2>1, UpperBits
  <2>3. h[i] = 2 * h[i + 1] + Bit(x, i + k)
    BY <1>2
  <2> QED BY <1>4, <2>2, <2>3
<1>5. 0 \in S
  <2> HIDE DEF S
  <2> QED BY <1>3, <1>4, Down16
<1>6. h[0] = Upper(x, 0 + k)
  BY <1>5
<1> QED
  BY <1>2, <1>6 DEF ShiftRight

\* A right shift by a count the machine takes divides and rounds down.
LEMMA RightIsQuotient ==
  ASSUME NEW x \in Int16, NEW y \in 0 .. 30
  PROVE  ShiftRight(x, y) = x \div 2^y
<1> DEFINE S == {j \in 0 .. 15 : x \div 2^(15 + j) = Sign(x)}
<1>1. x \in Int /\ Upper(x, 15) = Sign(x) /\ Upper(x, 15) = x \div 2^15
  <2>1. 15 \in Nat /\ 15 >= 15 /\ 15 < 16
    OBVIOUS
  <2>2. Upper(x, 15) = Sign(x)
    BY <2>1, UpperBits
  <2> QED BY <2>1, <2>2, Int16Range DEF Upper
<1>2. 0 \in S
  BY <1>1
<1>3. ASSUME NEW j \in 0 .. 15 - 1, j \in S PROVE j + 1 \in S
  <2> DEFINE p == 2^(15 + j)
  <2>1. 15 + j \in 0 .. 31 /\ 15 + (j + 1) = (15 + j) + 1
    OBVIOUS
  <2>2. p \in Nat \ {0} /\ 2^(15 + (j + 1)) = 2 * p
    BY <2>1, Powers
  <2>3. x \div p = Sign(x)
    BY <1>3
  <2> HIDE DEF p
  <2>4. x \div (2 * p) = Sign(x) \div 2
    BY <1>1, <2>2, <2>3, Halving
  <2>5. x \div 2^(15 + (j + 1)) = Sign(x)
    BY <2>2, <2>4 DEF Sign
  <2> QED BY <2>5
<1>4. \A j \in 0 .. 15 : j \in S
  <2> HIDE DEF S
  <2> QED BY <1>2, <1>3, Upward
<1>5. CASE y < 16
  BY <1>5, RightIsUpper DEF Upper
<1>6. CASE y >= 16
  <2>1. y - 15 \in 0 .. 15 /\ 15 + (y - 15) = y
    BY <1>6
  <2>2. x \div 2^y = Sign(x)
    BY <1>4, <2>1
  <2> QED BY <1>6, <2>2, RightIsUpper DEF Upper
<1> QED
  BY <1>5, <1>6

\* Or and and have together the bits of both operands, fit 16 bits, and an and
\* with a number that is not negative stays below it.
LEMMA OrAndBits ==
  ASSUME NEW x \in Int16, NEW y \in Int16
  PROVE  /\ BitOr(x, y) + BitAnd(x, y) = x + y
         /\ BitOr(x, y) \in Int16 /\ BitAnd(x, y) \in Int16
         /\ x >= 0 => BitAnd(x, y) \in 0 .. x
<1> DEFINE o == [i \in 0 .. 15 |-> IF Bit(x, i) + Bit(y, i) = 0 THEN 0 ELSE 1]
           a == [i \in 0 .. 15 |-> Bit(x, i) * Bit(y, i)]
<1>1. ASSUME NEW i \in 0 .. 15
      PROVE  /\ o[i] \in {0, 1} /\ a[i] \in {0, 1}
             /\ o[i] + a[i] = Bit(x, i) + Bit(y, i) /\ a[i] <= Bit(x, i)
             /\ Upper(x, i) \in Int /\ Upper(y, i) \in Int
             /\ Upper(x, i) = 2 * Upper(x, i + 1) + Bit(x, i)
             /\ Upper(y, i) = 2 * Upper(y, i + 1) + Bit(y, i)
             /\ Bit(x, i) \in {0, 1} /\ Bit(y, i) \in {0, 1}
  <2>1. i \in Nat
    OBVIOUS
  <2>2. /\ Upper(x, i) \in Int /\ Bit(x, i) \in {0, 1}
        /\ Upper(x, i) = 2 * Upper(x, i + 1) + Bit(x, i)
    BY <2>1, UpperBits
  <2>3. /\ Upper(y, i) \in Int /\ Bit(y, i) \in {0, 1}
        /\ Upper(y, i) = 2 * Upper(y, i + 1) + Bit(y, i)
    BY <2>1, UpperBits
  <2> QED BY <2>2, <2>3
<1>2. o \in [0 .. 15 -> {0, 1}] /\ a \in [0 .. 15 -> {0, 1}]
  BY <1>1
<1> HIDE DEF o, a
<1>3. PICK f \in [0 .. 15 -> Int] : /\ f[15] = -o[15]
                                    /\ \A i \in 0 .. 14 : f[i] = 2 * f[i + 1] + o[i]
                                    /\ Word(16, o) = f[0]
  BY <1>2, Word16
<1>4. PICK g \in [0 .. 15 -> Int] : /\ g[15] = -a[15]
                                    /\ \A i \in 0 .. 14 : g[i] = 2 * g[i + 1] + a[i]
                                    /\ Word(16, a) = g[0]
  BY <1>2, Word16
<1>5. Upper(x, 15) = -Bit(x, 15) /\ Upper(y, 15) = -Bit(y, 15)
  <2>1. \A z \in Int16 : Upper(z, 15) = Sign(z) /\ Bit(z, 15) = -Sign(z)
    BY UpperBits
  <2>2. \A z : Sign(z) = -1 \/ Sign(z) = 0
    BY DEF Sign
  <2> QED BY <2>1, <2>2
<1>6. f[0] + g[0] = x + y
  <2> DEFINE S == {i \in 0 .. 15 : f[i] + g[i] = Upper(x, i) + Upper(y, i)}
  <2>1. 15 \in S
    <3>1. o[15] + a[15] = Bit(x, 15) + Bit(y, 15) /\ o[15] \in Int /\ a[15] \in Int
          /\ Bit(x, 15) \in Int /\ Bit(y, 15) \in Int
      BY <1>1
    <3> QED BY <1>3, <1>4, <1>5, <3>1
  <2>2. ASSUME NEW i \in 0 .. 14, i + 1 \in S PROVE i \in S
    <3>1. i \in 0 .. 15 /\ i + 1 \in 0 .. 15
      OBVIOUS
    <3>2. f[i] = 2 * f[i + 1] + o[i] /\ g[i] = 2 * g[i + 1] + a[i]
      BY <1>3, <1>4
    <3>3. f[i + 1] + g[i + 1] = Upper(x, i + 1) + Upper(y, i + 1)
      BY <2>2
    <3>4. Upper(x, i + 1) \in Int /\ Upper(y, i + 1) \in Int /\ f[i + 1] \in Int /\ g[i + 1] \in Int
      BY <1>1, <3>1
    <3>5. /\ o[i] + a[i] = Bit(x, i) + Bit(y, i) /\ o[i] \in Int /\ a[i] \in Int
          /\ Upper(x, i) = 2 * Upper(x, i + 1) + Bit(x, i) /\ Bit(x, i) \in Int
          /\ Upper(y, i) = 2 * Upper(y, i + 1) + Bit(y, i) /\ Bit(y, i) \in Int
      BY <1>1, <3>1
    <3>6. f[i] + g[i] = Upper(x, i) + Upper(y, i)
      BY <3>2, <3>3, <3>4, <3>5
    <3> QED BY <3>1, <3>6
  <2>3. 0 \in S
    <3> HIDE DEF S
    <3> QED BY <2>1, <2>2, Down16
  <2> QED BY <2>3, UpperOfZero
<1>7. x >= 0 => g[0] \in 0 .. x
  <2> SUFFICES ASSUME x >= 0 PROVE g[0] \in 0 .. x
    OBVIOUS
  <2> DEFINE S == {i \in 0 .. 15 : 0 <= g[i] /\ g[i] <= Upper(x, i)}
  <2>1. 15 \in S
    <3>1. Upper(x, 15) = 0
      <4>1. Upper(x, 15) = Sign(x) /\ x \in Int
        BY UpperBits, Int16Range
      <4> QED BY <4>1 DEF Sign
    <3>2. a[15] = 0
      <4>1. Bit(x, 15) \in {0, 1} /\ a[15] \in {0, 1} /\ a[15] <= Bit(x, 15)
        BY <1>1
      <4> QED BY <1>5, <3>1, <4>1
    <3> QED BY <1>4, <3>1, <3>2
  <2>2. ASSUME NEW i \in 0 .. 14, i + 1 \in S PROVE i \in S
    <3>1. i \in 0 .. 15 /\ i + 1 \in 0 .. 15
      OBVIOUS
    <3>2. g[i] = 2 * g[i + 1] + a[i] /\ 0 <= g[i + 1] /\ g[i + 1] <= Upper(x, i + 1)
      BY <1>4, <2>2
    <3>3. Upper(x, i + 1) \in Int /\ g[i + 1] \in Int
      BY <1>1, <3>1
    <3> QED BY <1>1, <3>1, <3>2, <3>3
  <2>3. 0 \in S
    <3> HIDE DEF S
    <3> QED BY <2>1, <2>2, Down16
  <2> QED BY <2>3, UpperOfZero
<1>8. Word(16, o) \in Int16 /\ Word(16, a) \in Int16
  BY <1>2, Word16Fits
<1> QED
  BY <1>3, <1>4, <1>6, <1>7, <1>8 DEF BitOr, BitAnd, o, a

\* A left shift multiplies what the 32 bits keep of the operand: the bits from
\* 32 - y up fall off, and bit 31 - y becomes the sign.
LEMMA LeftShifted ==
  ASSUME NEW x \in Int16, NEW y \in 0 .. 30
  PROVE  ShiftLeft(x, y) = 2^y * (x - 2^(32 - y) * (Upper(x, 32 - y) + Bit(x, 31 - y)))
<1> DEFINE b == [i \in 0 .. 31 |-> IF i < y THEN 0 ELSE Bit(x, i - y)]
           K == Upper(x, 32 - y) + Bit(x, 31 - y)
           M == x - 2^(32 - y) * K
<1>1. b \in [0 .. 31 -> {0, 1}]
  <2> SUFFICES ASSUME NEW i \in 0 .. 31, i >= y PROVE Bit(x, i - y) \in {0, 1}
    OBVIOUS
  <2>1. i - y \in Nat
    OBVIOUS
  <2> QED BY <2>1, UpperBits
<1>2. PICK h \in [0 .. 31 -> Int] : /\ h[31] = -b[31]
                                    /\ \A i \in 0 .. 30 : h[i] = 2 * h[i + 1] + b[i]
                                    /\ Word(32, b) = h[0]
  <2> HIDE DEF b
  <2> QED BY <1>1, Word32
<1>3. x \in Int /\ K \in Int /\ 2^(32 - y) \in Int /\ M \in Int
  <2>1. 31 - y \in Nat /\ 32 - y \in Nat /\ 32 - y = (31 - y) + 1
    OBVIOUS
  <2>2. 2^(32 - y) \in Int
    BY <2>1, Powers
  <2>3. Upper(x, 32 - y) \in Int /\ Bit(x, 31 - y) \in Int
    BY <2>1, UpperBits
  <2> QED BY <2>2, <2>3, Int16Range
<1> DEFINE S == {i \in 0 .. 31 : h[i] = IF i >= y THEN Upper(x, i - y) - 2^(32 - i) * K
                                        ELSE 2^(y - i) * M}
<1>4. 31 \in S
  <2>1. b[31] = Bit(x, 31 - y)
    OBVIOUS
  <2>2. Upper(x, 31 - y) = 2 * Upper(x, 32 - y) + Bit(x, 31 - y) /\ Upper(x, 32 - y) \in Int
        /\ Bit(x, 31 - y) \in Int
    <3>1. 31 - y \in Nat /\ 32 - y \in Nat /\ 32 - y = (31 - y) + 1
      OBVIOUS
    <3> QED BY <3>1, UpperBits
  <2>3. 2^(32 - 31) = 2 /\ 31 >= y
    OBVIOUS
  <2>4. h[31] = Upper(x, 31 - y) - 2 * K
    BY <1>2, <2>1, <2>2
  <2> HIDE DEF K, b
  <2> QED BY <2>3, <2>4
<1>5. ASSUME NEW i \in 0 .. 30, i + 1 \in S PROVE i \in S
  <2>1. h[i] = 2 * h[i + 1] + b[i] /\ h[i + 1] \in Int
    <3>1. i + 1 \in 0 .. 31
      OBVIOUS
    <3> QED BY <1>2, <3>1
  <2>2. CASE i >= y
    <3>1. i - y \in Nat /\ (i + 1) - y = (i - y) + 1 /\ i + 1 >= y
      BY <2>2
    <3>2. /\ b[i] = Bit(x, i - y) /\ b[i] \in Int /\ Upper(x, (i + 1) - y) \in Int
          /\ Upper(x, i - y) = 2 * Upper(x, (i + 1) - y) + Bit(x, i - y)
      <4>1. b[i] = Bit(x, i - y)
        BY <2>2
      <4> DEFINE j == i - y
      <4>2. j \in Nat /\ (i + 1) - y = j + 1 /\ j + 1 \in Nat
        BY <3>1
      <4> HIDE DEF j
      <4>3. /\ Upper(x, j + 1) \in Int /\ Bit(x, j) \in {0, 1}
            /\ Upper(x, j) = 2 * Upper(x, j + 1) + Bit(x, j)
        BY <4>2, UpperBits
      <4>4. Bit(x, i - y) \in Int /\ Upper(x, (i + 1) - y) \in Int
            /\ Upper(x, i - y) = 2 * Upper(x, (i + 1) - y) + Bit(x, i - y)
        BY <4>2, <4>3 DEF j
      <4> QED BY <4>1, <4>4
    <3> DEFINE p == 2^(32 - (i + 1))
    <3>3. p \in Int /\ 2^(32 - i) = 2 * p
      <4> DEFINE e == 32 - (i + 1)
      <4>1. e \in 0 .. 31 /\ 32 - i = e + 1
        OBVIOUS
      <4> HIDE DEF e
      <4>2. 2^e \in Nat \ {0} /\ 2^(e + 1) = 2 * 2^e
        BY <4>1, Powers
      <4> QED BY <4>1, <4>2 DEF e
    <3>4. h[i + 1] = Upper(x, (i + 1) - y) - p * K
      BY <1>5, <3>1
    <3> HIDE DEF p, K, b
    <3>5. h[i] = Upper(x, i - y) - (2 * p) * K
      BY <1>3, <2>1, <3>2, <3>3, <3>4
    <3> QED BY <2>2, <3>3, <3>5
  <2>3. CASE i < y
    <3>1. b[i] = 0
      BY <2>3
    <3> DEFINE p == 2^(y - (i + 1))
    <3>2. p \in Int /\ 2^(y - i) = 2 * p
      <4> DEFINE e == y - (i + 1)
      <4>1. e \in 0 .. 31 /\ y - i = e + 1
        BY <2>3
      <4> HIDE DEF e
      <4>2. 2^e \in Nat \ {0} /\ 2^(e + 1) = 2 * 2^e
        BY <4>1, Powers
      <4> QED BY <4>1, <4>2 DEF e
    <3>3. h[i + 1] = p * M
      <4>1. CASE i + 1 = y
        <5>1. h[i + 1] = Upper(x, 0) - 2^(32 - y) * K
          BY <1>5, <4>1
        <5>2. p = 1
          <6>1. y - (i + 1) = 0 /\ 2^0 = 1
            BY <4>1
          <6> QED BY <6>1
        <5> HIDE DEF p, K
        <5> QED BY <1>3, <5>1, <5>2, UpperOfZero
      <4>2. CASE i + 1 < y
        BY <1>5, <4>2
      <4> QED BY <2>3, <4>1, <4>2
    <3> HIDE DEF p, M, b, K
    <3>4. h[i] = (2 * p) * M
      BY <1>3, <2>1, <3>1, <3>2, <3>3
    <3> QED BY <2>3, <3>2, <3>4
  <2> QED BY <2>2, <2>3
<1>6. 0 \in S
  <2> HIDE DEF S
  <2> QED BY <1>4, <1>5, Down32
<1>7. h[0] = 2^y * M
  <2>1. CASE y = 0
    <3>1. h[0] = Upper(x, 0) - 2^(32 - y) * K
      BY <1>6, <2>1
    <3>2. 2^y = 1
      BY <2>1
    <3> HIDE DEF K
    <3> QED BY <1>3, <3>1, <3>2, UpperOfZero
  <2>2. CASE y > 0
    <3>1. y - 0 = y /\ ~ (0 >= y)
      BY <2>2
    <3> HIDE DEF M, K
    <3> QED BY <1>6, <3>1
  <2> QED BY <2>1, <2>2
<1> QED
  BY <1>2, <1>7 DEF ShiftLeft

\* A left shift by up to 15 loses nothing.
LEMMA LeftSmall ==
  ASSUME NEW x \in Int16, NEW y \in 0 .. 15
  PROVE  ShiftLeft(x, y) = x * 2^y
<1>1. y \in 0 .. 30 /\ x \in Int
  BY Int16Range
<1>2. Upper(x, 32 - y) + Bit(x, 31 - y) = 0
  <2>1. 31 - y \in Nat /\ 31 - y >= 15 /\ 32 - y \in Nat /\ 32 - y >= 15
    OBVIOUS
  <2>2. Upper(x, 32 - y) = Sign(x) /\ Bit(x, 31 - y) = -Sign(x)
    BY <2>1, UpperBits
  <2> QED BY <2>2 DEF Sign
<1>3. 2^(32 - y) \in Int /\ 2^y \in Int
  <2> DEFINE e == 31 - y
  <2>1. e \in 0 .. 31 /\ 32 - y = e + 1 /\ y \in 0 .. 31
    OBVIOUS
  <2> HIDE DEF e
  <2>2. 2^e \in Nat \ {0} /\ 2^(e + 1) = 2 * 2^e /\ 2^y \in Nat \ {0}
    BY <2>1, Powers
  <2> QED BY <2>1, <2>2
<1>4. ShiftLeft(x, y) = 2^y * (x - 2^(32 - y) * 0)
  BY <1>1, <1>2, LeftShifted
<1> QED
  BY <1>1, <1>3, <1>4

\* A left shift by 16 and more is one of the low half word alone.
LEMMA LeftLarge ==
  ASSUME NEW x \in Int16, NEW y \in 16 .. 30
  PROVE  ShiftLeft(x, y) = Signed16((x % 2^(32 - y)) * 2^(y - 16)) * 2^16
<1> DEFINE r == 2^(y - 16)
           q == 2^(31 - y)
           bit == Bit(x, 31 - y)
           low == x % 2^(32 - y)
           top == x \div 2^(32 - y)
<1>1. x \in Int /\ y \in 0 .. 30
  BY Int16Range
<1>2. /\ q \in Nat \ {0} /\ r \in Nat \ {0} /\ 2^(32 - y) = 2 * q
      /\ r * q = 32768 /\ 2^y = 65536 * r
  <2> DEFINE j == y - 16
             e == 31 - y
  <2>1. j \in 0 .. 14 /\ j \in 0 .. 31 /\ e = 15 - j /\ e \in 0 .. 31 /\ 32 - y = e + 1 /\ y = j + 16
    OBVIOUS
  <2>2. 2^15 = 32768 /\ 2^16 = 65536
    OBVIOUS
  <2> HIDE DEF j, e
  <2>3. 2^j * 2^(15 - j) = 2^15 /\ 2^(j + 16) = 2^16 * 2^j
    BY <2>1, SplitPowers
  <2>4. 2^j \in Nat \ {0}
    BY <2>1, Powers
  <2>5. 2^e \in Nat \ {0} /\ 2^(e + 1) = 2 * 2^e
    BY <2>1, Powers
  <2>6. 2^j * 2^e = 32768
    BY <2>1, <2>2, <2>3
  <2>7. 2^(e + 1) = 2 * 2^e /\ 2^y = 65536 * 2^j
    BY <2>1, <2>2, <2>3, <2>5
  <2> QED BY <2>1, <2>4, <2>5, <2>6, <2>7 DEF j, e
<1>3. Upper(x, 32 - y) = top
  <2>1. CASE y = 16
    <3>1. Upper(x, 32 - y) = Sign(x) /\ 2^(32 - y) = 65536
      BY <2>1 DEF Upper
    <3>2. x \div 65536 = Sign(x)
      BY Int16Range DEF Sign
    <3> QED BY <3>1, <3>2
  <2>2. CASE y > 16
    <3>1. 32 - y < 16
      BY <2>2
    <3> QED BY <3>1 DEF Upper
  <2> QED BY <2>1, <2>2
<1>4. ShiftLeft(x, y) = 2^y * (x - 2^(32 - y) * (top + bit))
  <2>1. ShiftLeft(x, y) = 2^y * (x - 2^(32 - y) * (Upper(x, 32 - y) + Bit(x, 31 - y)))
    BY <1>1, LeftShifted
  <2> QED BY <1>3, <2>1
<1>5. bit = (x \div q) % 2 /\ bit \in {0, 1}
  <2>1. 31 - y < 16 /\ 31 - y \in Nat
    OBVIOUS
  <2> QED BY <2>1, UpperBits DEF Bit
<1>6. x = (2 * q) * top + low /\ top \in Int /\ low \in Int /\ 0 <= low /\ low < 2 * q
  <2> DEFINE d == 2^(32 - y)
  <2>1. d \in Nat \ {0}
    BY <1>2
  <2>2. x = d * (x \div d) + (x % d) /\ x \div d \in Int /\ x % d \in Int /\ 0 <= x % d /\ x % d < d
    <3> HIDE DEF d
    <3> QED BY <1>1, <2>1
  <2>3. d = 2 * q /\ top = x \div d /\ low = x % d
    BY <1>2
  <2> HIDE DEF d, q, top, low
  <2>4. x = d * top + low /\ top \in Int /\ low \in Int /\ 0 <= low /\ low < d
    BY ONLY <2>2, <2>3, Zenon
  <2> QED BY <2>3, <2>4
<1>7. x = q * (x \div q) + (x % q) /\ x \div q \in Int /\ x % q \in Int /\ 0 <= x % q /\ x % q < q
  <2> HIDE DEF q
  <2> QED BY <1>1, <1>2
<1>8. x \div q = 2 * top + bit
  <2>1. x \div (2 * q) = (x \div q) \div 2
    <3> HIDE DEF q
    <3>1. x \in Int /\ q \in Nat \ {0}
      BY <1>1, <1>2
    <3> QED BY <3>1, Halving
  <2>2. top = (x \div q) \div 2
    BY <1>2, <2>1
  <2> HIDE DEF q, top, bit
  <2> QED BY <1>5, <1>7, <2>2
<1> HIDE DEF q, r, bit, top
<1>9. low = q * bit + (x % q)
  <2> DEFINE w == x \div q
             z == x % q
  <2>1. x = q * w + z /\ w = 2 * top + bit /\ z \in Int
    BY <1>7, <1>8
  <2> HIDE DEF low, w, z
  <2>2. q * w = (2 * q) * top + q * bit
    BY <1>2, <1>5, <1>6, <2>1
  <2>3. (2 * q) * top \in Int /\ q * bit \in Int
    BY <1>2, <1>5, <1>6
  <2> DEFINE u == (2 * q) * top
             t == q * bit
  <2>4. x = u + low /\ x = (u + t) + z /\ u \in Int /\ t \in Int /\ low \in Int /\ z \in Int
    BY <1>6, <2>1, <2>2, <2>3
  <2>5. low = t + z
    <3> HIDE DEF u, t
    <3> QED BY <2>4
  <2> QED BY <2>5 DEF z
<1> DEFINE v == low * r
<1>10. v \in Int /\ 0 <= v /\ v < 65536 /\ (v < 32768 <=> bit = 0)
  <2> DEFINE z == x % q
  <2> HIDE DEF low, z
  <2>1. z \in Int /\ 0 <= z /\ z < q /\ low = q * bit + z
    BY <1>7, <1>9 DEF z
  <2>2. z * r \in Int /\ 0 <= z * r /\ z * r < r * q
    BY <1>2, <2>1
  <2>3. CASE bit = 0
    <3>1. v = z * r
      BY <1>2, <2>1, <2>3
    <3> QED BY <1>2, <2>2, <2>3, <3>1
  <2>4. CASE bit = 1
    <3>1. v = r * q + z * r
      BY <1>2, <2>1, <2>4
    <3> QED BY <1>2, <2>2, <2>4, <3>1
  <2> QED BY <1>5, <2>3, <2>4
<1>11. Signed16(v) = v - 65536 * bit
  <2> HIDE DEF v
  <2> QED BY <1>5, <1>10 DEF Signed16
<1>12. ShiftLeft(x, y) = (65536 * r) * (low - (2 * q) * bit)
  <2>1. x - (2 * q) * (top + bit) = low - (2 * q) * bit
    <3> HIDE DEF low
    <3> QED BY <1>2, <1>5, <1>6
  <2> QED BY <1>2, <1>4, <2>1
<1>13. (65536 * r) * (low - (2 * q) * bit) = (v - 65536 * bit) * 65536
  <2>1. low \in Int
    BY <1>6
  <2> HIDE DEF low
  <2>2. r * ((2 * q) * bit) = 65536 * bit
    BY <1>2, <1>5
  <2>3. r * (low - (2 * q) * bit) = v - 65536 * bit
    BY <1>2, <1>5, <2>1, <2>2
  <2> DEFINE w == low - (2 * q) * bit
  <2>4. w \in Int
    BY <1>2, <1>5, <2>1
  <2> HIDE DEF w
  <2>5. (65536 * r) * w = (r * w) * 65536
    BY <1>2, <2>4
  <2> QED BY <2>3, <2>5 DEF w
<1>14. 65536 = 2^16
  OBVIOUS
<1> QED
  BY <1>11, <1>12, <1>13, <1>14 DEF r

-----------------------------------------------------------------------------
(* The two servers.                                                        *)

\* Whatever count the Python server shifts by, the C server may shift alike:
\* by that count, or by 32, when all bits are out.
LEMMA ShiftsAgree ==
  ASSUME NEW x \in Int16, NEW n \in Nat
  PROVE  /\ ShiftRight(x, n) \in {ShiftRight(x, k) : k \in ShiftCounts(n)}
         /\ PacksShifted(x, n) => ShiftLeft(x, n) \in {ShiftLeft(x, k) : k \in ShiftCounts(n)}
<1>1. CASE n <= 31
  <2>1. n \in ShiftCounts(n)
    BY <1>1 DEF ShiftCounts
  <2> QED BY <2>1
<1>2. CASE n >= 32
  <2>1. 32 \in ShiftCounts(n)
    BY <1>2 DEF ShiftCounts
  <2>2. ShiftRight(x, n) = ShiftRight(x, 32)
    <3>1. Upper(x, n) = Sign(x) /\ Upper(x, 32) = Sign(x)
      BY <1>2 DEF Upper
    <3>2. ShiftRight(x, n) = Upper(x, n) /\ ShiftRight(x, 32) = Upper(x, 32)
      BY RightIsUpper
    <3> QED BY <3>1, <3>2
  <2>3. ShiftLeft(x, n) = ShiftLeft(x, 32)
    <3>1. [i \in 0 .. 31 |-> IF i < n THEN 0 ELSE Bit(x, i - n)] = [i \in 0 .. 31 |-> 0]
      BY <1>2
    <3>2. [i \in 0 .. 31 |-> IF i < 32 THEN 0 ELSE Bit(x, i - 32)] = [i \in 0 .. 31 |-> 0]
      OBVIOUS
    <3> QED BY <3>1, <3>2, Zenon DEF ShiftLeft
  <2> QED BY <2>1, <2>2, <2>3
<1> QED
  BY <1>1, <1>2

\* The Python server's result is one the C server may give, for every query.
LEMMA PythonIsWithinC ==
  ASSUME NEW q \in CalcQueries
  PROVE  format_response(q) \subseteq calcResult(q)
<1> USE DEF ADDOP, SUBOP, OROP, ANDOP, RSOP, LSOP, CalcQueries
<1>1. q.op \in Bytes /\ q.one \in Int16 /\ q.two \in Int16 /\ q.two \in Int
  BY Int16Range
<1>2. CASE q.op \in {ADDOP, SUBOP, OROP, ANDOP}
  BY <1>2 DEF format_response, calcResult
<1>3. CASE q.op = RSOP
  <2>1. CASE q.two >= 0
    <3>1. ShiftRight(q.one, q.two) \in {ShiftRight(q.one, k) : k \in ShiftCounts(q.two)}
      BY <1>1, <2>1, ShiftsAgree
    <3>2. format_response(q) = {ShiftRight(q.one, q.two)}
      BY <1>3, <2>1 DEF format_response
    <3>3. calcResult(q) = {ShiftRight(q.one, k) : k \in ShiftCounts(q.two)}
      BY <1>3 DEF calcResult
    <3> QED BY <3>1, <3>2, <3>3
  <2>2. CASE ~ (q.two >= 0)
    BY <1>3, <2>2 DEF format_response
  <2> QED BY <2>1, <2>2
<1>4. CASE q.op = LSOP
  <2>1. CASE q.two >= 0 /\ PacksShifted(q.one, q.two)
    <3>1. ShiftLeft(q.one, q.two) \in {ShiftLeft(q.one, k) : k \in ShiftCounts(q.two)}
      BY <1>1, <2>1, ShiftsAgree
    <3>2. format_response(q) = {ShiftLeft(q.one, q.two)}
      BY <1>4, <2>1 DEF format_response
    <3>3. calcResult(q) = {ShiftLeft(q.one, k) : k \in ShiftCounts(q.two)}
      BY <1>4 DEF calcResult
    <3> QED BY <3>1, <3>2, <3>3
  <2>2. CASE ~ (q.two >= 0 /\ PacksShifted(q.one, q.two))
    BY <1>4, <2>2 DEF format_response
  <2> QED BY <2>1, <2>2
<1>5. CASE q.op \notin 0 .. 5
  BY <1>5 DEF format_response
<1> QED
  BY <1>1, <1>2, <1>3, <1>4, <1>5

\* Every result the C server may give is an int32_t, the undefined ones too.
LEMMA ResultsFit ==
  ASSUME NEW q \in CalcQueries, NEW r \in calcResult(q)
  PROVE  Fits32(r)
<1> USE DEF ADDOP, SUBOP, OROP, ANDOP, RSOP, LSOP, CalcQueries
<1> DEFINE x == q.one
           y == q.two
<1>1. x \in Int16 /\ y \in Int16 /\ x \in Int /\ y \in Int /\ q.op \in Bytes
      /\ -32768 <= x /\ x <= 32767 /\ -32768 <= y /\ y <= 32767
  BY Int16Range
<1>2. \A z \in Int : -65536 <= z /\ z <= 65536 => Fits32(z)
  BY DEF Fits32
<1>3. \A z \in Int16 : Fits32(z)
  BY <1>2, Int16Range
<1>4. ShiftCounts(y) \subseteq Nat
  <2>1. y % 32 \in Nat
    BY <1>1
  <2> QED BY <2>1 DEF ShiftCounts
<1>5. CASE q.op = ADDOP
  <2>1. r = x + y
    BY <1>5 DEF calcResult
  <2> QED BY <1>1, <1>2, <2>1
<1>6. CASE q.op = SUBOP
  <2>1. r = x - y
    BY <1>6 DEF calcResult
  <2> QED BY <1>1, <1>2, <2>1
<1>7. CASE q.op = OROP \/ q.op = ANDOP
  <2>1. r \in {BitOr(x, y), BitAnd(x, y)}
    BY <1>7 DEF calcResult
  <2> QED BY <1>1, <1>3, <2>1, OrAndBits
<1>8. CASE q.op = RSOP
  <2>1. PICK k \in ShiftCounts(y) : r = ShiftRight(x, k)
    BY <1>8 DEF calcResult
  <2> DEFINE b == [i \in 0 .. 15 |-> Bit(x, i + k)]
  <2>2. b \in [0 .. 15 -> {0, 1}]
    <3> SUFFICES ASSUME NEW i \in 0 .. 15 PROVE Bit(x, i + k) \in {0, 1}
      OBVIOUS
    <3>1. i + k \in Nat
      BY <1>4
    <3> QED BY <1>1, <3>1, UpperBits
  <2>3. r = Word(16, b)
    BY <2>1 DEF ShiftRight
  <2> HIDE DEF b
  <2> QED BY <1>3, <2>2, <2>3, Word16Fits
<1>9. CASE q.op = LSOP
  <2>1. PICK k \in ShiftCounts(y) : r = ShiftLeft(x, k)
    BY <1>9 DEF calcResult
  <2> DEFINE b == [i \in 0 .. 31 |-> IF i < k THEN 0 ELSE Bit(x, i - k)]
  <2>2. b \in [0 .. 31 -> {0, 1}]
    <3> SUFFICES ASSUME NEW i \in 0 .. 31, i >= k PROVE Bit(x, i - k) \in {0, 1}
      BY <1>4
    <3>1. i - k \in Nat
      BY <1>4
    <3> QED BY <1>1, <3>1, UpperBits
  <2>3. r = Word(32, b)
    BY <2>1 DEF ShiftLeft
  <2> HIDE DEF b
  <2> QED BY <2>2, <2>3, Word32Fits
<1>10. CASE q.op \notin 0 .. 5
  <2>1. r \in Garbage
    BY <1>10 DEF calcResult
  <2> QED BY <2>1, GarbageAssumption
<1> QED
  BY <1>1, <1>5, <1>6, <1>7, <1>8, <1>9, <1>10
=============================================================================
