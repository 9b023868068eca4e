---------------------------- MODULE CodecProofs ----------------------------
(***************************************************************************)
(* What CodecCases checks of some inputs, for all of them: operands of 16  *)
(* bits, bytes, and datagrams of any length.  The properties of a state    *)
(* follow from its type alone; the sums of a whole datagram are inductions *)
(* over its length.                                                        *)
(***************************************************************************)
EXTENDS CodecCases, CalcProofs, SequenceTheorems

-----------------------------------------------------------------------------
(* The inputs.                                                             *)

\* The inputs: a query as a client can pack it, a datagram of bytes.
CasesType ==
  /\ kind \in {"query", "message"}
  /\ message \in Seq(Bytes)
  /\ query \in CalcQueries
  /\ id \in Bytes

\* Every input is one of these.
THEOREM CasesTypeCorrect == Spec => []CasesType
<1>1. Init => CasesType
  <2> SUFFICES ASSUME Init PROVE CasesType
    OBVIOUS
  <2>1. kind \in {"query", "message"} /\ message \in Seq(Bytes)
    BY DEF Init
  <2>2. CASE kind = "query"
    <3>1. query \in Queries /\ id \in Bytes
      BY <2>2, CasesAssumption DEF Init
    <3>2. 0 .. 6 \subseteq Bytes /\ Operands \subseteq Int16
      BY CasesAssumption DEF Bytes
    <3>3. query \in CalcQueries
      BY <3>1, <3>2 DEF Queries, CalcQueries
    <3> QED BY <2>1, <3>1, <3>3 DEF CasesType
  <2>3. CASE kind = "message"
    <3>1. 0 \in Int16 /\ 0 \in Bytes /\ ADDOP \in Bytes
      BY DEF Int16, Bytes, ADDOP
    <3>2. query = [op |-> ADDOP, one |-> 0, two |-> 0] /\ id = 0
      BY <2>3 DEF Init
    <3> QED BY <2>1, <3>1, <3>2 DEF CasesType, CalcQueries
  <2> QED BY <2>1, <2>2, <2>3
<1>2. CasesType /\ [Next]_vars => CasesType'
  BY CasesAssumption DEF CasesType, Next, Extend, vars
<1> QED
  BY <1>1, <1>2, PTL DEF Spec

-----------------------------------------------------------------------------
(* Numbers, requests and responses.                                        *)

\* The two bytes of a 16-bit operand give back the operand: get16FromBytes
\* undoes getBytesFrom16, sign included.
THEOREM RoundTrip16 == \A x \in Int16 : get16FromBytes(getBytesFrom16(x)) = x
<1> SUFFICES ASSUME NEW x \in Int16 PROVE get16FromBytes(getBytesFrom16(x)) = x
  OBVIOUS
<1>1. x \in Int /\ -32768 <= x /\ x <= 32767
  BY Int16Range
<1> DEFINE high == (x \div 256) % 256
           low  == x % 256
<1>2. x \div 256 \in Int
  BY <1>1
<1>3. high \in 0 .. 255 /\ low \in 0 .. 255
  BY <1>1, <1>2
<1>4. x % 65536 = high * 256 + low
  BY <1>1
<1>5. Signed16(high * 256 + low) = x
  BY <1>1, <1>3, <1>4 DEF Signed16
<1>6. ((Signed16(high * 256) \div 256) % 256) = high
  <2> HIDE DEF high
  <2> QED  BY <1>3 DEF Signed16
<1> QED
  BY <1>5, <1>6 DEF get16FromBytes, getBytesFrom16

\* The four bytes of a 32-bit result give back the result: the clients'
\* get32FromBytes undoes the servers' getBytesFrom32, sign included.
THEOREM RoundTrip32 == \A x : Fits32(x) => get32FromBytes(getBytesFrom32(x)) = x
<1> SUFFICES ASSUME NEW x, Fits32(x) PROVE get32FromBytes(getBytesFrom32(x)) = x
  OBVIOUS
<1>1. x \in Int /\ -32768 <= x \div 65536 /\ x \div 65536 <= 32767 /\ x \div 65536 \in Int
  BY DEF Fits32
<1> DEFINE a == x \div 2^24
           b == (x \div 2^16) % 256
           c == (x \div 2^8) % 256
           d == x % 256
<1>2. a \in Int /\ -128 <= a /\ a <= 127
  BY <1>1
<1>3. x \div 2^16 = 256 * a + b
  BY <1>1
<1>4. x \div 2^8 = 256 * (x \div 2^16) + c
  BY <1>1
<1>5. x = 256 * (x \div 2^8) + d
  BY <1>1
<1>6. Signed8(a % 256) = a
  <2> HIDE DEF a
  <2> QED BY <1>2 DEF Signed8
<1>7. getBytesFrom32(x) = << a % 256, b, c, d >>
  BY DEF getBytesFrom32
<1>8. b \in Int /\ c \in Int /\ d \in Int
  BY <1>1
<1>9. get32FromBytes(getBytesFrom32(x)) = a * 2^24 + b * 2^16 + c * 2^8 + d
  BY <1>6, <1>7 DEF get32FromBytes
<1>10. x = a * 2^24 + b * 2^16 + c * 2^8 + d
  <2> DEFINE u == x \div 2^16
             v == x \div 2^8
  <2>1. u = 256 * a + b /\ v = 256 * u + c /\ x = 256 * v + d
    BY <1>3, <1>4, <1>5
  <2> HIDE DEF a, b, c, d, u, v
  <2> QED BY <1>1, <1>2, <1>8, <2>1
<1> QED
  BY <1>9, <1>10

\* The length and the elements of two sequences joined.
LEMMA Joined ==
  ASSUME NEW s \in Seq(Int), NEW t \in Seq(Int)
  PROVE  /\ s \o t \in Seq(Int) /\ Len(s \o t) = Len(s) + Len(t)
         /\ \A i \in 1 .. Len(s) + Len(t) : (s \o t)[i] = IF i <= Len(s) THEN s[i] ELSE t[i - Len(s)]
  OBVIOUS

\* The elements of a part of a sequence.
LEMMA Part ==
  ASSUME NEW m \in Seq(Int), NEW j \in 1 .. Len(m), NEW k \in j .. Len(m), NEW i \in 1 .. k - j + 1
  PROVE  SubSeq(m, j, k)[i] = m[j + i - 1]
  OBVIOUS

\* The server unpacks the request that the client packed.
LEMMA RequestCarried ==
  ASSUME NEW i \in Bytes, NEW q \in CalcQueries
  PROVE  remakeRequest(getTotalMessage(i, q)) = [id |-> i, query |-> q]
<1> DEFINE h == << 8, i, q.op, 2 >>
           s == getBytesFrom16(q.one)
           t == getBytesFrom16(q.two)
           hs == h \o s
           m == hs \o t
<1>0. i \in Int /\ q.op \in Int /\ q.one \in Int16 /\ q.two \in Int16
  BY DEF Bytes, CalcQueries
<1>1. h \in Seq(Int) /\ Len(h) = 4 /\ h[2] = i /\ h[3] = q.op
  BY <1>0
<1>2. ASSUME NEW x \in Int16 PROVE getBytesFrom16(x) \in Seq(Int) /\ Len(getBytesFrom16(x)) = 2
  <2>1. (x \div 256) % 256 \in Int /\ x % 256 \in Int
    BY Int16Range
  <2> QED BY <2>1 DEF getBytesFrom16
<1>3. s \in Seq(Int) /\ Len(s) = 2 /\ t \in Seq(Int) /\ Len(t) = 2
  BY <1>0, <1>2
<1>4. getTotalMessage(i, q) = m
  BY DEF getTotalMessage
<1> HIDE DEF h, s, t
<1>5. /\ hs \in Seq(Int) /\ Len(hs) = 6
      /\ hs[2] = i /\ hs[3] = q.op /\ hs[5] = s[1] /\ hs[6] = s[2]
  <2>1. /\ hs \in Seq(Int) /\ Len(hs) = Len(h) + Len(s)
        /\ \A p \in 1 .. Len(h) + Len(s) : hs[p] = IF p <= Len(h) THEN h[p] ELSE s[p - Len(h)]
    BY <1>1, <1>3, Joined
  <2> HIDE DEF hs
  <2>2. \A p \in 1 .. 6 : hs[p] = IF p <= 4 THEN h[p] ELSE s[p - 4]
    BY <1>1, <1>3, <2>1
  <2>3. hs[2] = h[2] /\ hs[3] = h[3] /\ hs[5] = s[1] /\ hs[6] = s[2]
    BY <2>2
  <2> QED BY <1>1, <1>3, <2>1, <2>3
<1> HIDE DEF hs
<1>6. /\ m \in Seq(Int) /\ Len(m) = 8
      /\ m[2] = i /\ m[3] = q.op /\ m[5] = s[1] /\ m[6] = s[2] /\ m[7] = t[1] /\ m[8] = t[2]
  <2>1. /\ m \in Seq(Int) /\ Len(m) = Len(hs) + Len(t)
        /\ \A p \in 1 .. Len(hs) + Len(t) : m[p] = IF p <= Len(hs) THEN hs[p] ELSE t[p - Len(hs)]
    BY <1>3, <1>5, Joined
  <2> HIDE DEF m
  <2>2. \A p \in 1 .. 8 : m[p] = IF p <= 6 THEN hs[p] ELSE t[p - 6]
    BY <1>3, <1>5, <2>1
  <2>3. m[2] = hs[2] /\ m[3] = hs[3] /\ m[5] = hs[5] /\ m[6] = hs[6] /\ m[7] = t[1] /\ m[8] = t[2]
    BY <2>2
  <2> QED BY <1>3, <1>5, <2>1, <2>3
<1> HIDE DEF m
<1>7. /\ SubSeq(m, 5, 6)[1] = s[1] /\ SubSeq(m, 5, 6)[2] = s[2]
      /\ SubSeq(m, 7, 8)[1] = t[1] /\ SubSeq(m, 7, 8)[2] = t[2]
  <2>1. \A p \in 1 .. 6 - 5 + 1 : SubSeq(m, 5, 6)[p] = m[5 + p - 1]
    BY <1>6, Part
  <2>2. \A p \in 1 .. 8 - 7 + 1 : SubSeq(m, 7, 8)[p] = m[7 + p - 1]
    BY <1>6, Part
  <2> QED BY <1>6, <2>1, <2>2
<1>8. get16FromBytes(SubSeq(m, 5, 6)) = get16FromBytes(s) /\ get16FromBytes(SubSeq(m, 7, 8)) = get16FromBytes(t)
  BY <1>7 DEF get16FromBytes
<1>9. get16FromBytes(s) = q.one /\ get16FromBytes(t) = q.two
  BY <1>0, RoundTrip16 DEF s, t
<1>10. remakeRequest(m) = [id |-> i, query |-> [op |-> q.op, one |-> q.one, two |-> q.two]]
  BY <1>6, <1>8, <1>9 DEF remakeRequest
<1>11. q = [op |-> q.op, one |-> q.one, two |-> q.two]
  BY DEF CalcQueries
<1> QED
  BY <1>4, <1>10, <1>11

\* The client unpacks the response that the server packed.
LEMMA ResponseCarried ==
  ASSUME NEW i \in Bytes, NEW r, Fits32(r)
  PROVE  remakeResponse(unloadResponse(i, r)) = [id |-> i, result |-> r]
<1> DEFINE h == << 7, i, 0 >>
           s == getBytesFrom32(r)
           m == h \o s
<1>1. h \in Seq(Int) /\ Len(h) = 3 /\ h[2] = i
  BY DEF Bytes
<1>2. s \in Seq(Int) /\ Len(s) = 4
  <2>1. (r \div 2^24) % 256 \in Int /\ (r \div 2^16) % 256 \in Int /\ (r \div 2^8) % 256 \in Int
        /\ r % 256 \in Int
    BY DEF Fits32
  <2> QED BY <2>1 DEF getBytesFrom32
<1>3. unloadResponse(i, r) = m
  BY DEF unloadResponse
<1> HIDE DEF h, s
<1>4. /\ m \in Seq(Int) /\ Len(m) = 7 /\ m[2] = i
      /\ m[4] = s[1] /\ m[5] = s[2] /\ m[6] = s[3] /\ m[7] = s[4]
  <2>1. /\ m \in Seq(Int) /\ Len(m) = Len(h) + Len(s)
        /\ \A p \in 1 .. Len(h) + Len(s) : m[p] = IF p <= Len(h) THEN h[p] ELSE s[p - Len(h)]
    BY <1>1, <1>2, Joined
  <2> HIDE DEF m
  <2>2. \A p \in 1 .. 7 : m[p] = IF p <= 3 THEN h[p] ELSE s[p - 3]
    BY <1>1, <1>2, <2>1
  <2>3. m[2] = h[2] /\ m[4] = s[1] /\ m[5] = s[2] /\ m[6] = s[3] /\ m[7] = s[4]
    BY <2>2
  <2> QED BY <1>1, <1>2, <2>1, <2>3
<1> HIDE DEF m
<1>5. \A p \in 1 .. 7 - 4 + 1 : SubSeq(m, 4, 7)[p] = m[4 + p - 1]
  BY <1>4, Part
<1>6. /\ SubSeq(m, 4, 7)[1] = s[1] /\ SubSeq(m, 4, 7)[2] = s[2]
      /\ SubSeq(m, 4, 7)[3] = s[3] /\ SubSeq(m, 4, 7)[4] = s[4]
  BY <1>4, <1>5
<1>7. get32FromBytes(SubSeq(m, 4, 7)) = get32FromBytes(s)
  BY <1>6 DEF get32FromBytes
<1>8. get32FromBytes(s) = r
  BY RoundTrip32 DEF s
<1> QED
  BY <1>3, <1>4, <1>7, <1>8 DEF remakeResponse

\* Requests and responses arrive as they were sent: for every query and every
\* result a server may answer it with, undefined ones included.
THEOREM WireAlwaysFaithful == Spec => []WireFaithful
<1>1. CasesType => WireFaithful
  <2> SUFFICES ASSUME query \in CalcQueries, id \in Bytes
               PROVE  /\ remakeRequest(getTotalMessage(id, query)) = [id |-> id, query |-> query]
                      /\ \A r \in calcResult(query) \cup format_response(query) :
                            remakeResponse(unloadResponse(id, r)) = [id |-> id, result |-> r]
    BY DEF CasesType, WireFaithful
  <2>1. format_response(query) \subseteq calcResult(query)
    BY PythonIsWithinC
  <2>2. \A r \in calcResult(query) : Fits32(r)
    BY ResultsFit
  <2> QED BY <2>1, <2>2, RequestCarried, ResponseCarried
<1> QED
  BY <1>1, CasesTypeCorrect, PTL

\* The Python server answers only what the C server may answer.
THEOREM PythonAlwaysWithinC == Spec => []PythonWithinC
<1>1. CasesType => PythonWithinC
  BY PythonIsWithinC DEF CasesType, PythonWithinC
<1> QED
  BY <1>1, CasesTypeCorrect, PTL

\* The servers' bit operations are the arithmetic they are used as, for every
\* pair of 16-bit operands.
THEOREM ArithmeticAlwaysRight == Spec => []ArithmeticReference
<1>1. CasesType => ArithmeticReference
  <2> SUFFICES ASSUME NEW x \in Int16, NEW y \in Int16
               PROVE  /\ BitOr(x, y) + BitAnd(x, y) = x + y
                      /\ BitAnd(x, y) \in Int16 /\ (x >= 0 => BitAnd(x, y) \in 0 .. x)
                      /\ (y \in 0 .. 30) => ShiftRight(x, y) = x \div 2^y
                      /\ y \in 0 .. 15 => ShiftLeft(x, y) = x * 2^y
                      /\ y \in 16 .. 30 => ShiftLeft(x, y) = Signed16((x % 2^(32 - y)) * 2^(y - 16)) * 2^16
    BY DEF CasesType, CalcQueries, ArithmeticReference
  <2>1. (y \in 0 .. 30) => ShiftRight(x, y) = x \div 2^y
    BY RightIsQuotient
  <2>2. y \in 0 .. 15 => ShiftLeft(x, y) = x * 2^y
    BY LeftSmall
  <2>3. y \in 16 .. 30 => ShiftLeft(x, y) = Signed16((x % 2^(32 - y)) * 2^(y - 16)) * 2^16
    BY LeftLarge, Zenon
  <2> QED BY <2>1, <2>2, <2>3, OrAndBits
<1> QED
  BY <1>1, CasesTypeCorrect, PTL

-----------------------------------------------------------------------------
(* One step of a sum.                                                      *)

\* One step of master.py's raw_sum is one step of Lab3slave.c's checksum, and
\* leaves a byte: on every datagram the two carry the same running sum.
LEMMA SameStep ==
  \A sum \in Bytes, b \in Bytes : /\ Carry(sum + b) = AddByte(sum, b)
                                  /\ Carry(sum + b) \in Bytes
  BY DEF Bytes, Carry, AddByte

\* The last byte of form_datagram completes the sum: the complement of the
\* running sum leads to 0xFF, the one value verify_checksum accepts.
LEMMA ComplementSeals ==
  \A sum \in Bytes : 255 - sum \in Bytes /\ Carry(sum + (255 - sum)) = 255
  BY DEF Bytes, Carry

\* Bytes the sum may take for one another: it knows zero as 0x00 and as 0xFF.
Alike(x, y) == x = y \/ (x = 0 /\ y = 255) \/ (x = 255 /\ y = 0)

\* One byte added to two sums never hides that they differ; nor, the other way
\* round, do two bytes added to one sum.
LEMMA BytesTellApart ==
  ASSUME NEW x \in Bytes, NEW y \in Bytes, NEW b \in Bytes, Alike(Carry(x + b), Carry(y + b))
  PROVE  Alike(x, y)
<1>1. x \in 0 .. 255 /\ y \in 0 .. 255 /\ b \in 0 .. 255
  BY DEF Bytes
<1>2. CASE Carry(x + b) = Carry(y + b)
  <2>1. /\ x + b < 256 => Carry(x + b) = x + b
        /\ y + b < 256 => Carry(y + b) = y + b
    BY DEF Carry
  <2>2. x + b >= 256 => Carry(x + b) = x + b - 255
    BY <1>1 DEF Carry
  <2>3. y + b >= 256 => Carry(y + b) = y + b - 255
    BY <1>1 DEF Carry
  <2> QED BY <1>1, <1>2, <2>1, <2>2, <2>3 DEF Alike
<1>3. CASE Carry(x + b) = 0 /\ Carry(y + b) = 255
  BY <1>3 DEF Alike, Bytes, Carry
<1>4. CASE Carry(x + b) = 255 /\ Carry(y + b) = 0
  BY <1>4 DEF Alike, Bytes, Carry
<1> QED
  BY <1>2, <1>3, <1>4 DEF Alike

-----------------------------------------------------------------------------
(* The sum of a datagram.                                                  *)

\* The largest number of a set that holds its upper bound.
LEMMA MaxOfRange ==
  ASSUME NEW n \in Nat, NEW s \in SUBSET (1 .. n), n \in s
  PROVE  Max(s) = n
<1>1. \A x \in s : x \in Nat /\ x <= n
  OBVIOUS
<1>2. \A y \in s : n >= y
  BY <1>1
<1>3. \A x \in s : (\A y \in s : x >= y) => x = n
  BY <1>1
<1> QED
  BY <1>2, <1>3 DEF Max

\* A set of numbers up to n that is not empty has a largest one, which a fold
\* takes out first.
LEMMA MaxIsMember ==
  ASSUME NEW n \in Nat, NEW s \in SUBSET (1 .. n), s # {}
  PROVE  Max(s) \in s /\ \A y \in s : y <= Max(s)
<1> DEFINE bounds == {k \in Nat : \A y \in s : k >= y}
<1>1. n \in bounds /\ bounds \in SUBSET Nat
  OBVIOUS
<1>2. PICK k \in bounds : \A j \in bounds : k <= j
  BY <1>1, LeastNumber
<1>3. k \in s /\ \A y \in s : k >= y
  <2> SUFFICES ASSUME k \notin s PROVE FALSE
    OBVIOUS
  <2>1. \A y \in s : y \in Nat /\ y >= 1 /\ k >= y /\ k # y
    BY <1>2
  <2>2. PICK y \in s : TRUE
    OBVIOUS
  <2>3. k \in Nat /\ k - 1 \in Nat /\ \A z \in s : k - 1 >= z
    BY <2>1, <2>2
  <2>4. k - 1 \in bounds
    BY <2>3
  <2> QED
    BY <1>2, <2>3, <2>4
<1>4. Max(s) \in s /\ \A y \in s : Max(s) >= y
  BY <1>3 DEF Max
<1>5. s \subseteq Int
  OBVIOUS
<1> QED
  BY <1>4, <1>5

\* f gives every part of m its sum: how FoldLeft is defined, by the set of the
\* places still to be added.
IsSum(f, m, n) ==
  f = [s \in SUBSET (1 .. n) |-> IF s = {} THEN 0 ELSE Carry(f[s \ {Max(s)}] + m[Max(s)])]

\* There is such a function, by induction over the length of the datagram; it
\* adds the bytes from the first to the last.
LEMMA SumsExist ==
  ASSUME NEW m \in Seq(Bytes)
  PROVE  \E f \in [SUBSET (1 .. Len(m)) -> Bytes] : IsSum(f, m, Len(m))
<1> DEFINE N == Len(m)
           S == {n \in 0 .. N : \E f \in [SUBSET (1 .. n) -> Bytes] : IsSum(f, m, n)}
<1>0. N \in Nat /\ \A i \in 1 .. N : m[i] \in Bytes
  OBVIOUS
<1>1. 0 \in S
  <2> DEFINE f == [s \in SUBSET (1 .. 0) |-> 0]
  <2>1. \A s \in SUBSET (1 .. 0) : s = {}
    OBVIOUS
  <2>2. f \in [SUBSET (1 .. 0) -> Bytes]
    BY DEF Bytes
  <2>3. IsSum(f, m, 0)
    BY <2>1 DEF IsSum
  <2>4. 0 \in 0 .. N
    BY <1>0
  <2> HIDE DEF f, N
  <2> QED BY <2>2, <2>3, <2>4, Zenon
<1>2. ASSUME NEW k \in 0 .. N - 1, k \in S PROVE k + 1 \in S
  <2> DEFINE n == k + 1
  <2>1. n \in 1 .. N /\ n \in Nat /\ n - 1 = k
    BY <1>0
  <2>2. PICK f \in [SUBSET (1 .. k) -> Bytes] : IsSum(f, m, k)
    BY <1>2
  <2> HIDE DEF n
  <2> DEFINE g == [s \in SUBSET (1 .. n) |-> IF n \in s THEN Carry(f[s \ {n}] + m[n]) ELSE f[s]]
  <2>3. \A s \in SUBSET (1 .. n) : /\ s \ {n} \in SUBSET (1 .. k)
                                   /\ n \notin s => s \in SUBSET (1 .. k)
                                   /\ n \in s => Max(s) = n
    BY <2>1, MaxOfRange
  <2>4. m[n] \in Bytes
    BY <1>0, <2>1
  <2>5. g \in [SUBSET (1 .. n) -> Bytes]
    <3> SUFFICES ASSUME NEW s \in SUBSET (1 .. n)
                 PROVE  (IF n \in s THEN Carry(f[s \ {n}] + m[n]) ELSE f[s]) \in Bytes
      OBVIOUS
    <3>1. CASE n \in s
      <4>1. f[s \ {n}] \in Bytes
        BY <2>2, <2>3
      <4> QED BY <3>1, <4>1, <2>4, SameStep
    <3>2. CASE n \notin s
      BY <3>2, <2>2, <2>3
    <3> QED BY <3>1, <3>2
  <2>6. IsSum(g, m, n)
    <3> SUFFICES ASSUME NEW s \in SUBSET (1 .. n)
                 PROVE  g[s] = IF s = {} THEN 0 ELSE Carry(g[s \ {Max(s)}] + m[Max(s)])
      BY DEF IsSum
    <3>1. CASE n \in s
      <4>1. Max(s) = n
        BY <3>1, <2>3
      <4>2. s # {} /\ n \notin s \ {n} /\ s \ {n} \in SUBSET (1 .. n)
        BY <3>1
      <4>3. g[s \ {n}] = f[s \ {n}]
        BY <4>2
      <4> QED BY <3>1, <4>1, <4>2, <4>3
    <3>2. CASE n \notin s
      <4>1. s \in SUBSET (1 .. k) /\ g[s] = f[s]
        BY <3>2, <2>3
      <4>2. f[s] = IF s = {} THEN 0 ELSE Carry(f[s \ {Max(s)}] + m[Max(s)])
        BY <4>1, <2>2 DEF IsSum
      <4>3. s # {} => g[s \ {Max(s)}] = f[s \ {Max(s)}]
        BY <3>2
      <4> QED BY <4>1, <4>2, <4>3
    <3> QED BY <3>1, <3>2
  <2>7. n \in 0 .. N
    BY <2>1
  <2> HIDE DEF g
  <2> QED BY <2>5, <2>6, <2>7 DEF n
<1>3. \A n \in 0 .. N : n \in S
  <2> HIDE DEF S, N
  <2> QED BY <1>0, <1>1, <1>2, Upward
<1>4. N \in S
  <2> HIDE DEF S, N
  <2> QED BY <1>0, <1>3
<1> QED
  BY <1>4

\* Both sums of a datagram, the master's and the slaves', are its value.
LEMMA FoldsAreSums ==
  ASSUME NEW m \in Seq(Bytes), NEW f \in [SUBSET (1 .. Len(m)) -> Bytes], IsSum(f, m, Len(m))
  PROVE  raw_sum(m) = f[1 .. Len(m)] /\ FoldLeft(AddByte, 0, m) = f[1 .. Len(m)]
<1> DEFINE N == Len(m)
    Eq1(h) == h = [s \in SUBSET (1 .. N) |-> IF s = {} THEN 0 ELSE Carry(h[s \ {Max(s)}] + m[Max(s)])]
    Eq2(h) == h = [s \in SUBSET (1 .. N) |-> IF s = {} THEN 0 ELSE AddByte(h[s \ {Max(s)}], m[Max(s)])]
<1>0. N \in Nat /\ DOMAIN m = 1 .. N /\ \A i \in 1 .. N : m[i] \in Bytes
  OBVIOUS
<1>1. \A s \in SUBSET (1 .. N) : s # {} => Max(s) \in s
  BY <1>0, MaxIsMember
<1>3. Eq1(f)
  BY DEF IsSum
<1>4. \A s \in SUBSET (1 .. N) : s # {} => /\ s \ {Max(s)} \in SUBSET (1 .. N)
                                           /\ f[s \ {Max(s)}] \in Bytes
                                           /\ m[Max(s)] \in Bytes
  BY <1>0, <1>1
<1>5. Eq2(f)
  <2> SUFFICES ASSUME NEW s \in SUBSET (1 .. N)
               PROVE  f[s] = IF s = {} THEN 0 ELSE AddByte(f[s \ {Max(s)}], m[Max(s)])
    OBVIOUS
  <2>1. f[s] = IF s = {} THEN 0 ELSE Carry(f[s \ {Max(s)}] + m[Max(s)])
    BY <1>3
  <2> QED BY <2>1, <1>4, SameStep
<1>6. ASSUME NEW h, Eq1(h) \/ Eq2(h) PROVE h[1 .. N] = f[1 .. N]
  <2> DEFINE S == {k \in 0 .. N : \A s \in SUBSET (1 .. k) : h[s] = f[s]}
  <2>1. h[{}] = f[{}] /\ \A s \in SUBSET (1 .. 0) : s = {}
    <3>1. {} \in SUBSET (1 .. N)
      OBVIOUS
    <3>2. f[{}] = 0
      BY <1>3, <3>1
    <3>3. h[{}] = 0
      BY <1>6, <3>1
    <3> QED BY <3>2, <3>3
  <2>2. 0 \in S
    <3>1. \A s \in SUBSET (1 .. 0) : h[s] = f[s]
      BY <2>1, Zenon
    <3> QED BY <1>0, <3>1
  <2>3. ASSUME NEW k \in 0 .. N - 1, k \in S PROVE k + 1 \in S
    <3>0. k + 1 \in 0 .. N
      BY <1>0
    <3> SUFFICES ASSUME NEW s \in SUBSET (1 .. k + 1) PROVE h[s] = f[s]
      BY <3>0
    <3> SUFFICES ASSUME s # {} PROVE h[s] = f[s]
      BY <2>1, Zenon
    <3> DEFINE x == Max(s)
    <3>1. k + 1 \in Nat /\ s \in SUBSET (1 .. N)
      BY <1>0
    <3>2. x \in s /\ \A y \in s : y <= x
      BY <3>1, MaxIsMember
    <3>3. f[s \ {x}] \in Bytes /\ m[x] \in Bytes
      BY <1>4, <3>1
    <3>4. f[s] = Carry(f[s \ {x}] + m[x])
      BY <1>3, <3>1
    <3>5. h[s] = Carry(h[s \ {x}] + m[x]) \/ h[s] = AddByte(h[s \ {x}], m[x])
      BY <1>6, <3>1
    <3> HIDE DEF x
    <3>6. s \ {x} \in SUBSET (1 .. k)
      BY <1>0, <3>2
    <3>7. h[s \ {x}] = f[s \ {x}]
      BY <2>3, <3>6
    <3> QED BY <3>3, <3>4, <3>5, <3>7, SameStep
  <2>4. \A k \in 0 .. N : k \in S
    <3> HIDE DEF S, N
    <3> QED BY <1>0, <2>2, <2>3, Upward
  <2> QED BY <1>0, <2>4
<1>7. Eq1(CHOOSE h : Eq1(h)) /\ Eq2(CHOOSE h : Eq2(h))
  <2> HIDE DEF Eq1, Eq2
  <2> QED BY <1>3, <1>5
<1>8. raw_sum(m) = (CHOOSE h : Eq1(h))[1 .. N]
  BY <1>0 DEF raw_sum, FoldLeft, MapThenFoldSet
<1>9. FoldLeft(AddByte, 0, m) = (CHOOSE h : Eq2(h))[1 .. N]
  BY <1>0 DEF FoldLeft, MapThenFoldSet
<1> HIDE DEF Eq1, Eq2
<1> QED
  BY <1>6, <1>7, <1>8, <1>9

\* s[k] is the sum of the first k bytes of m.
Running(m, s) == /\ s \in [0 .. Len(m) -> Bytes] /\ s[0] = 0
                 /\ \A k \in 1 .. Len(m) : s[k] = Carry(s[k - 1] + m[k])

\* raw_sum and checksum are read off the running sums.
LEMMA RunningSums ==
  ASSUME NEW m \in Seq(Bytes)
  PROVE  \E s : /\ Running(m, s) /\ raw_sum(m) = s[Len(m)] /\ checksum(m) = 255 - s[Len(m)]
<1>1. PICK f \in [SUBSET (1 .. Len(m)) -> Bytes] : IsSum(f, m, Len(m))
  BY SumsExist
<1>2. raw_sum(m) = f[1 .. Len(m)] /\ FoldLeft(AddByte, 0, m) = f[1 .. Len(m)]
  BY <1>1, FoldsAreSums
<1>3. Len(m) \in Nat
  OBVIOUS
<1> DEFINE s == [k \in 0 .. Len(m) |-> f[1 .. k]]
<1>4. s \in [0 .. Len(m) -> Bytes]
  BY <1>3
<1>5. s[0] = 0
  <2>1. 1 .. 0 = {} /\ 1 .. 0 \in SUBSET (1 .. Len(m))
    OBVIOUS
  <2> QED BY <2>1, <1>1, <1>3 DEF IsSum
<1>6. ASSUME NEW k \in 1 .. Len(m) PROVE s[k] = Carry(s[k - 1] + m[k])
  <2>1. 1 .. k \in SUBSET (1 .. Len(m)) /\ k \in 1 .. k /\ k \in Nat
    BY <1>3
  <2>2. Max(1 .. k) = k /\ (1 .. k) \ {k} = 1 .. k - 1 /\ 1 .. k # {}
    BY <2>1, MaxOfRange
  <2>3. f[1 .. k] = Carry(f[1 .. k - 1] + m[k])
    BY <1>1, <2>1, <2>2 DEF IsSum
  <2> QED BY <2>3, <1>3
<1>7. raw_sum(m) = s[Len(m)] /\ checksum(m) = 255 - s[Len(m)]
  BY <1>2, <1>3 DEF checksum
<1> HIDE DEF s
<1> QED BY <1>4, <1>5, <1>6, <1>7 DEF Running

\* Datagrams that begin alike have the same sums as long as they do.
LEMMA SamePrefix ==
  ASSUME NEW m \in Seq(Bytes), NEW mm \in Seq(Bytes), NEW s, NEW t,
         Running(m, s), Running(mm, t),
         NEW n \in Nat, n <= Len(m), n <= Len(mm), \A i \in 1 .. n : m[i] = mm[i]
  PROVE  s[n] = t[n]
<1> DEFINE S == {k \in 0 .. n : s[k] = t[k]}
<1>1. 0 \in S
  BY DEF Running
<1>2. ASSUME NEW k \in 0 .. n - 1, k \in S PROVE k + 1 \in S
  <2>1. k + 1 \in 1 .. n /\ (k + 1) - 1 = k
    OBVIOUS
  <2>2. s[k + 1] = Carry(s[k] + m[k + 1]) /\ t[k + 1] = Carry(t[k] + mm[k + 1])
    BY <2>1 DEF Running
  <2> QED BY <1>2, <2>1, <2>2
<1>3. \A k \in 0 .. n : k \in S
  <2> HIDE DEF S
  <2> QED BY <1>1, <1>2, Upward
<1> QED
  BY <1>3

\* A sum is a byte, and the slaves' checksum is the complement of raw_sum.
LEMMA SumsAreBytes ==
  ASSUME NEW m \in Seq(Bytes)
  PROVE  raw_sum(m) \in Bytes /\ checksum(m) = 255 - raw_sum(m)
<1>1. PICK s : Running(m, s) /\ raw_sum(m) = s[Len(m)] /\ checksum(m) = 255 - s[Len(m)]
  BY RunningSums
<1>2. Len(m) \in 0 .. Len(m)
  OBVIOUS
<1> QED
  BY <1>1, <1>2 DEF Running

\* A byte more is a step more.
LEMMA SumOfAppend ==
  ASSUME NEW m \in Seq(Bytes), NEW b \in Bytes
  PROVE  raw_sum(Append(m, b)) = Carry(raw_sum(m) + b)
<1> DEFINE mm == Append(m, b)
<1>1. mm \in Seq(Bytes) /\ Len(mm) = Len(m) + 1 /\ Len(m) \in Nat /\ mm[Len(m) + 1] = b
      /\ \A i \in 1 .. Len(m) : m[i] = mm[i]
  OBVIOUS
<1>2. PICK s : Running(m, s) /\ raw_sum(m) = s[Len(m)] /\ checksum(m) = 255 - s[Len(m)]
  BY RunningSums
<1> HIDE DEF mm
<1>3. PICK t : Running(mm, t) /\ raw_sum(mm) = t[Len(mm)]
  BY <1>1, RunningSums
<1>4. s[Len(m)] = t[Len(m)]
  BY <1>1, <1>2, <1>3, SamePrefix
<1>5. t[Len(m) + 1] = Carry(t[Len(m)] + b)
  BY <1>1, <1>3 DEF Running
<1> QED
  BY <1>1, <1>2, <1>3, <1>4, <1>5 DEF Running, mm

\* A datagram closed with calculate_checksum sums to 0xFF at the master and to
\* 0 at the slaves.
LEMMA Sealed ==
  ASSUME NEW m \in Seq(Bytes)
  PROVE  /\ calculate_checksum(m) \in Bytes
         /\ Append(m, calculate_checksum(m)) \in Seq(Bytes)
         /\ raw_sum(Append(m, calculate_checksum(m))) = 255
         /\ checksum(Append(m, calculate_checksum(m))) = 0
<1>1. raw_sum(m) \in Bytes
  BY SumsAreBytes
<1>2. calculate_checksum(m) \in Bytes /\ Carry(raw_sum(m) + calculate_checksum(m)) = 255
  BY <1>1, ComplementSeals DEF calculate_checksum
<1>3. Append(m, calculate_checksum(m)) \in Seq(Bytes)
  BY <1>2
<1>4. raw_sum(Append(m, calculate_checksum(m))) = 255
  BY <1>2, SumOfAppend
<1>5. checksum(Append(m, calculate_checksum(m))) = 0
  <2>1. checksum(Append(m, calculate_checksum(m))) = 255 - raw_sum(Append(m, calculate_checksum(m)))
    BY <1>3, SumsAreBytes
  <2> QED BY <1>4, <2>1
<1> QED
  BY <1>2, <1>3, <1>4, <1>5

\* A changed byte changes the sum, unless 0x00 and 0xFF were exchanged: two
\* running sums that part at the byte never meet again.
LEMMA ChangeShows ==
  ASSUME NEW m \in Seq(Bytes), NEW i \in 1 .. Len(m), NEW b \in Bytes,
         raw_sum([m EXCEPT ![i] = b]) = raw_sum(m)
  PROVE  b = m[i] \/ {b, m[i]} = {0, 255}
<1> DEFINE mm == [m EXCEPT ![i] = b]
           n == Len(m)
<1>1. n \in Nat /\ i \in Nat /\ i >= 1 /\ i <= n /\ \A k \in 1 .. n : m[k] \in Bytes
  OBVIOUS
<1>2. mm \in Seq(Bytes) /\ Len(mm) = n /\ mm[i] = b /\ \A k \in 1 .. n : k # i => mm[k] = m[k]
  OBVIOUS
<1>3. raw_sum(mm) = raw_sum(m)
  OBVIOUS
<1> HIDE DEF mm
<1>4. PICK s : Running(m, s) /\ raw_sum(m) = s[n]
  BY RunningSums
<1>5. PICK t : Running(mm, t) /\ raw_sum(mm) = t[n]
  BY <1>2, RunningSums
<1>6. s[i - 1] = t[i - 1]
  BY <1>1, <1>2, <1>4, <1>5, SamePrefix
<1>7. \A k \in 1 .. n : s[k - 1] \in Bytes /\ s[k] \in Bytes /\ t[k - 1] \in Bytes /\ t[k] \in Bytes
  <2>1. s \in [0 .. n -> Bytes] /\ t \in [0 .. n -> Bytes]
    BY <1>2, <1>4, <1>5 DEF Running
  <2>2. \A k \in 1 .. n : k - 1 \in 0 .. n /\ k \in 0 .. n
    BY <1>1
  <2> QED BY <2>1, <2>2
<1>8. \A k \in 1 .. n : s[k] = Carry(s[k - 1] + m[k]) /\ t[k] = Carry(t[k - 1] + mm[k])
  BY <1>2, <1>4, <1>5 DEF Running
<1>9. Alike(s[i], t[i])
  <2> SUFFICES ASSUME ~ Alike(s[i], t[i]) PROVE FALSE
    OBVIOUS
  <2> DEFINE S == {k \in 0 .. n : k >= i => ~ Alike(s[k], t[k])}
  <2>1. 0 \in S
    BY <1>1
  <2>2. ASSUME NEW k \in 0 .. n - 1, k \in S PROVE k + 1 \in S
    <3>1. CASE k + 1 < i
      BY <1>1, <3>1
    <3>2. CASE k + 1 = i
      BY <1>1, <3>2
    <3>3. CASE k + 1 > i
      <4>1. k + 1 \in 1 .. n /\ k \in 1 .. n /\ k + 1 # i /\ (k + 1) - 1 = k /\ k >= i
        BY <1>1, <3>3
      <4>2. m[k + 1] \in Bytes /\ s[k] \in Bytes /\ t[k] \in Bytes
        BY <1>1, <1>7, <4>1
      <4>3. s[k + 1] = Carry(s[k] + m[k + 1]) /\ t[k + 1] = Carry(t[k] + m[k + 1])
        BY <1>2, <1>8, <4>1
      <4>4. ~ Alike(s[k], t[k])
        BY <2>2, <4>1
      <4> QED BY <4>1, <4>2, <4>3, <4>4, BytesTellApart
    <3> QED BY <1>1, <3>1, <3>2, <3>3
  <2>3. \A k \in 0 .. n : k \in S
    <3> HIDE DEF S
    <3> QED BY <1>1, <2>1, <2>2, Upward
  <2>4. ~ Alike(s[n], t[n])
    BY <1>1, <2>3
  <2> QED BY <1>3, <1>4, <1>5, <2>4 DEF Alike
<1>10. m[i] \in Bytes /\ s[i - 1] \in Bytes /\ s[i] = Carry(m[i] + s[i - 1]) /\ t[i] = Carry(b + s[i - 1])
  <2>1. m[i] \in Bytes /\ s[i - 1] \in Bytes /\ s[i] = Carry(s[i - 1] + m[i]) /\ t[i] = Carry(s[i - 1] + b)
    BY <1>1, <1>2, <1>6, <1>7, <1>8
  <2>2. \A x \in Bytes, y \in Bytes : x + y = y + x
    BY DEF Bytes
  <2> QED BY <2>1, <2>2
<1>11. Alike(m[i], b)
  BY <1>9, <1>10, BytesTellApart
<1> QED
  BY <1>11 DEF Alike

-----------------------------------------------------------------------------
(* Datagrams.                                                              *)

\* The slave's checksum accepts exactly the datagrams the master's verify_checksum
\* accepts, whatever their length and bytes.
THEOREM SumsAlwaysAgree == Spec => []SumsAgree
<1>1. CasesType => SumsAgree
  <2> SUFFICES ASSUME message \in Seq(Bytes)
               PROVE  checksum(message) = 0 <=> raw_sum(message) = 255
    BY DEF CasesType, SumsAgree, verify_checksum
  <2>1. raw_sum(message) \in Bytes /\ checksum(message) = 255 - raw_sum(message)
    BY SumsAreBytes
  <2>2. \A x \in Bytes : 255 - x = 0 <=> x = 255
    BY DEF Bytes
  <2> QED BY <2>1, <2>2
<1> QED
  BY <1>1, CasesTypeCorrect, PTL

\* form_datagram's last byte makes both ends accept any datagram.
THEOREM SealedAlwaysAccepted == Spec => []SealedAccepted
<1>1. CasesType => SealedAccepted
  BY Sealed DEF CasesType, SealedAccepted, verify_checksum
<1> QED
  BY <1>1, CasesTypeCorrect, PTL

\* No single changed byte of a sealed datagram gets past verify_checksum but
\* 0x00 for 0xFF and 0xFF for 0x00.
THEOREM OneByteAlwaysNoticed == Spec => []OneByteNoticed
<1>1. CasesType => OneByteNoticed
  <2> DEFINE sealed == Append(message, calculate_checksum(message))
  <2> SUFFICES ASSUME message \in Seq(Bytes), NEW i \in 1 .. Len(sealed), NEW b \in SomeBytes,
                      raw_sum([sealed EXCEPT ![i] = b]) = 255
               PROVE  b = sealed[i] \/ {b, sealed[i]} = {0, 255}
    BY DEF CasesType, OneByteNoticed, verify_checksum
  <2>1. sealed \in Seq(Bytes) /\ raw_sum(sealed) = 255
    BY Sealed
  <2>2. b \in Bytes
    BY CasesAssumption
  <2> HIDE DEF sealed
  <2>3. raw_sum([sealed EXCEPT ![i] = b]) = raw_sum(sealed)
    BY <2>1
  <2>4. i \in 1 .. Len(sealed)
    OBVIOUS
  <2> QED BY ONLY <2>1, <2>2, <2>3, <2>4, ChangeShows
<1> QED
  BY <1>1, CasesTypeCorrect, PTL

\* A slave's place in the ring, its ring ID and its next slave's address, is
\* read as master.py packed it by the Python and by the C slaves.
THEOREM PlaceAlwaysSurvives == Spec => []PlaceSurvives
<1>1. CasesType => PlaceSurvives
  <2> SUFFICES ASSUME message \in Seq(Bytes), Len(message) = 4, NEW rid \in SomeBytes
               PROVE  LET answer == pack_response(rid, message)
                      IN  /\ unpack_reply(answer).group_id = groupID /\ makeRing(answer).mastGID = groupID
                          /\ unpack_reply(answer).ring_id = rid      /\ makeRing(answer).rID = rid
                          /\ unpack_reply(answer).next_slave_ip = message
                          /\ makeRing(answer).nextSlave = message
    BY DEF CasesType, PlaceSurvives
  <2> DEFINE answer == pack_response(rid, message)
             head == << groupID, 18, 52, rid >>
  <2>1. head \in Seq(Bytes) /\ Len(head) = 4
    BY CasesAssumption DEF Bytes, groupID
  <2>2. /\ answer \in Seq(Bytes) /\ Len(answer) = 8
        /\ \A i \in 1 .. 8 : answer[i] = IF i <= 4 THEN head[i] ELSE message[i - 4]
    <3> HIDE DEF head
    <3>1. answer = head \o message
      BY DEF pack_response, head
    <3> HIDE DEF answer
    <3>2. answer \in Seq(Bytes) /\ Len(answer) = Len(head) + Len(message)
      BY <2>1, <3>1, ConcatProperties
    <3>3. \A i \in 1 .. Len(head) + Len(message) :
             answer[i] = IF i <= Len(head) THEN head[i] ELSE message[i - Len(head)]
      BY <2>1, <3>1, ConcatProperties
    <3> QED BY <2>1, <3>2, <3>3
  <2>3. answer[1] = groupID /\ answer[4] = rid
    BY <2>2
  <2> HIDE DEF answer, head
  <2>4. SubSeq(answer, 5, 8) = message
    <3>1. /\ SubSeq(answer, 5, 8) \in Seq(Bytes) /\ Len(SubSeq(answer, 5, 8)) = 4
          /\ \A i \in 1 .. 4 : SubSeq(answer, 5, 8)[i] = answer[5 + i - 1]
      <4>1. \A i \in 5 .. 8 : answer[i] \in Bytes
        <5>1. \A i \in 5 .. 8 : i \in 1 .. Len(answer)
          BY <2>2
        <5>2. answer \in Seq(Bytes)
          BY <2>2
        <5> QED BY <5>1, <5>2, ElementOfSeq
      <4>2. /\ SubSeq(answer, 5, 8) \in Seq(Bytes)
            /\ Len(SubSeq(answer, 5, 8)) = IF 5 <= 8 THEN 8 - 5 + 1 ELSE 0
            /\ \A i \in 1 .. 8 - 5 + 1 : SubSeq(answer, 5, 8)[i] = answer[5 + i - 1]
        BY <4>1, SubSeqProperties
      <4> QED BY <4>2
    <3>2. \A i \in 1 .. 4 : SubSeq(answer, 5, 8)[i] = message[i]
      BY <2>2, <3>1
    <3> QED BY <3>1, <3>2, SeqEqual
  <2> QED
    BY <2>3, <2>4 DEF answer, unpack_reply, makeRing
<1> QED
  BY <1>1, CasesTypeCorrect, PTL

\* printf("%s") prints a text that is closed with a NUL up to its first NUL.
LEMMA UpToNul ==
  ASSUME NEW text \in Seq(Bytes)
  PROVE  ShownOf(CString(Append(text, 0)), text)
<1> DEFINE array == Append(text, 0)
           n     == Len(text)
           Nuls  == {i \in 1 .. Len(array) : array[i] = 0}
<1>1. /\ n \in Nat /\ array \in Seq(Bytes) /\ Len(array) = n + 1 /\ array[n + 1] = 0
      /\ \A i \in 1 .. n : array[i] = text[i]
  BY DEF Bytes
<1> HIDE DEF array, n
<1>2. Nuls \in SUBSET Nat /\ n + 1 \in Nuls
  BY <1>1
<1>3. \E k \in Nuls : \A i \in Nuls : k <= i
  <2> HIDE DEF Nuls
  <2> QED BY <1>2, LeastNumber
<1>4. PICK k \in Nuls : k = Min(Nuls) /\ \A i \in Nuls : k <= i
  <2> HIDE DEF Nuls
  <2> QED BY <1>3 DEF Min
<1>5. CString(array) = SubSeq(array, 1, k - 1)
  <2>1. SelectInSeq(array, LAMBDA b : b = 0) = k
    BY <1>2, <1>4 DEF SelectInSeq
  <2> QED BY <2>1 DEF CString
<1>6. /\ k - 1 \in 0 .. n /\ array[k] = 0
      /\ \A i \in 1 .. k - 1 : i \in 1 .. n /\ array[i] = text[i] /\ array[i] # 0
  <2>1. k \in 1 .. n + 1 /\ array[k] = 0
    BY <1>1
  <2>2. ASSUME NEW i \in 1 .. k - 1 PROVE i \in 1 .. n /\ array[i] = text[i] /\ array[i] # 0
    <3>1. i \in 1 .. n /\ i \in 1 .. Len(array) /\ ~ (k <= i)
      BY <1>1, <2>1
    <3>2. i \notin Nuls
      <4> HIDE DEF Nuls
      <4> QED BY <1>4, <3>1
    <3> QED BY <1>1, <3>1, <3>2
  <2> QED BY <1>1, <2>1, <2>2
<1>7. /\ Len(CString(array)) = k - 1
      /\ \A i \in 1 .. k - 1 : CString(array)[i] = array[i]
  <2>1. \A i \in 1 .. k - 1 : array[i] \in Bytes
    BY <1>1, <1>6
  <2> QED BY <1>5, <1>6, <2>1, SubSeqProperties
<1>8. k - 1 < n => text[(k - 1) + 1] = 0
  BY <1>1, <1>6
<1> HIDE DEF Nuls
<1>9. ShownOf(CString(array), text)
  BY <1>6, <1>7, <1>8 DEF ShownOf, n
<1> QED
  BY <1>9 DEF array

\* form_datagram's datagram with a line of up to 64 bytes, at each of the
\* programs that may receive it.
LEMMA LineArrives ==
  ASSUME NEW text \in Seq(Bytes), Len(text) <= 64, NEW target \in Bytes
  PROVE  LET d == form_datagram(target, text)
         IN  /\ recv_handle_message(d) = (IF target = myRingID THEN Prints(text) ELSE Does("forward"))
             /\ handleMessage(d, target).does = "print"
             /\ ShownOf(handleMessage(d, target).text, text)
             /\ \A rID \in Bytes : rID # target => handleMessage(d, rID).does # "print"
<1> DEFINE head == << groupID, 18, 52, 255, target, myRingID >>
           body == head \o text
           d == Append(body, calculate_checksum(body))
           n == Len(text)
<1>1. head \in Seq(Bytes) /\ Len(head) = 6 /\ head[5] = target
  BY DEF Bytes, groupID, myRingID
<1> HIDE DEF head
<1>2. n \in Nat
  OBVIOUS
<1>3. /\ body \in Seq(Bytes) /\ Len(body) = n + 6
      /\ \A i \in 1 .. n + 6 : body[i] = IF i <= 6 THEN head[i] ELSE text[i - 6]
  <2>1. body \in Seq(Bytes) /\ Len(body) = Len(head) + n
    BY <1>1, ConcatProperties
  <2>2. \A i \in 1 .. Len(head) + n : body[i] = IF i <= Len(head) THEN head[i] ELSE text[i - Len(head)]
    BY <1>1, ConcatProperties
  <2> HIDE DEF body
  <2> QED BY <1>1, <1>2, <2>1, <2>2
<1> HIDE DEF body
<1>4. /\ d \in Seq(Bytes) /\ raw_sum(d) = 255 /\ checksum(d) = 0 /\ calculate_checksum(body) \in Bytes
  BY <1>3, Sealed
<1>5. Len(d) = n + 7 /\ \A i \in 1 .. n + 6 : d[i] = body[i]
  BY <1>2, <1>3, <1>4
<1>6. form_datagram(target, text) = d
  BY DEF form_datagram, body, head
<1> HIDE DEF d
<1>7. d[5] = target /\ \A i \in 1 .. n : d[i + 6] = text[i]
  <2>1. d[5] = target
    BY <1>1, <1>2, <1>3, <1>5
  <2>2. ASSUME NEW i \in 1 .. n PROVE d[i + 6] = text[i]
    <3>1. i + 6 \in 1 .. n + 6 /\ ~ (i + 6 <= 6) /\ (i + 6) - 6 = i
      BY <1>2
    <3> QED BY <3>1, <1>3, <1>5
  <2> QED BY <2>1, <2>2
<1>8. Received(d, 71) = d /\ Received(d, 74) = d
  BY <1>2, <1>5 DEF Received
<1>9. SubSeq(d, 7, Len(d) - 1) = text
  <2>1. /\ SubSeq(d, 7, n + 6) \in Seq(Bytes) /\ Len(SubSeq(d, 7, n + 6)) = n
        /\ \A i \in 1 .. n : SubSeq(d, 7, n + 6)[i] = d[7 + i - 1]
    <3>1. \A i \in 7 .. n + 6 : d[i] \in Bytes
      BY <1>2, <1>4, <1>5
    <3> QED BY <1>2, <3>1, SubSeqProperties
  <2>2. \A i \in 1 .. n : SubSeq(d, 7, n + 6)[i] = text[i]
    BY <1>2, <1>7, <2>1
  <2> QED BY <1>2, <1>5, <2>1, <2>2, SeqEqual
<1>10. /\ handleMessage(d, target) = Prints(CString(Append(text, 0)))
       /\ Prints(CString(Append(text, 0))).does = "print"
       /\ Prints(CString(Append(text, 0))).text = CString(Append(text, 0))
  <2>1. handleMessage(d, target) = Prints(CString(Append(text, 0)))
    BY <1>4, <1>7, <1>8, <1>9 DEF handleMessage
  <2> QED BY <2>1 DEF Prints
<1>11. recv_handle_message(d) = (IF target = myRingID THEN Prints(text) ELSE Does("forward"))
  BY <1>4, <1>7, <1>8, <1>9 DEF recv_handle_message, verify_checksum
<1>12. /\ handleMessage(d, target).does = "print"
       /\ ShownOf(handleMessage(d, target).text, text)
  BY <1>10, UpToNul
<1>13. ASSUME NEW rID \in Bytes, rID # target PROVE handleMessage(d, rID).does # "print"
  <2>1. handleMessage(d, rID) \in {Does("nothing"), Does("report time to live")}
    BY <1>4, <1>7, <1>8, <1>13 DEF handleMessage
  <2>2. Does("nothing").does = "nothing" /\ Does("report time to live").does = "report time to live"
    BY DEF Does
  <2> QED BY <2>1, <2>2
<1> QED
  BY <1>6, <1>11, <1>12, <1>13

\* The master prints a line for ring ID 0 as it was typed and forwards every
\* other; a Lab3 slave prints a line for its own ring ID up to its first NUL byte
\* and prints no other.
THEOREM TypedAlwaysPrinted == Spec => []TypedIsPrinted
<1>1. CasesType => TypedIsPrinted
  <2> SUFFICES ASSUME message \in Seq(Bytes),
                      NEW text \in {message, Filler \o message}, NEW target \in SomeBytes, Len(text) <= 64
               PROVE  LET d == form_datagram(target, text)
                      IN  /\ recv_handle_message(d) =
                               (IF target = myRingID THEN Prints(text) ELSE Does("forward"))
                          /\ \A rID \in SomeBytes :
                                LET done == handleMessage(d, rID)
                                IN  /\ done.does = "print" <=> rID = target
                                    /\ rID = target => ShownOf(done.text, text)
    BY DEF CasesType, TypedIsPrinted
  <2>1. target \in Bytes
    BY CasesAssumption
  <2>2. text \in Seq(Bytes)
    <3>1. Filler \in Seq(Bytes)
      BY CasesAssumption
    <3> QED BY <3>1, ConcatProperties
  <2> QED BY <2>1, <2>2, CasesAssumption, LineArrives
<1> QED
  BY <1>1, CasesTypeCorrect, PTL
=============================================================================
