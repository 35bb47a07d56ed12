----------------------------- MODULE WordProofs -----------------------------
(***************************************************************************)
(* The arithmetic that the instructions are written with: powers of two,   *)
(* sums, C++'s conversions, and what a hart is after a register, the PC or *)
(* the memory is written.                                                  *)
(***************************************************************************)
EXTENDS Word, TLAPS, WellFoundedInduction

----------------------------------------------------------------------------
(* Induction, as the least counterexample.                                 *)

LEMMA SmallestExists ==
  ASSUME NEW S, S \subseteq Nat, S # {}
  PROVE  \E m \in S : \A j \in S : m <= j
<1>1. PICK m \in S : \A j \in S : ~ (<<j, m>> \in OpToRel(<, Nat))
  BY NatLessThanWellFounded, WFMin, Zenon
<1>2. ASSUME NEW j \in S PROVE m <= j
  <2>1. ~(<<j, m>> \in {ss \in Nat \X Nat : ss[1] < ss[2]})
    BY <1>1, Zenon DEF OpToRel
  <2>2. j \in Nat /\ m \in Nat
    OBVIOUS
  <2> QED BY <2>1, <2>2
<1> QED BY <1>2

(* A set of numbers with 0 and, up to n, the successor of each, has n.     *)
LEMMA Induction ==
  ASSUME NEW S, NEW n \in Nat, 0 \in S, \A k \in 0 .. n - 1 : k \in S => k + 1 \in S
  PROVE  \A k \in 0 .. n : k \in S
<1> DEFINE T == {k \in 0 .. n : k \notin S}
<1> SUFFICES ASSUME T # {} PROVE FALSE
  OBVIOUS
<1>1. PICK m \in T : \A j \in T : m <= j
  <2>1. T \subseteq Nat
    OBVIOUS
  <2> HIDE DEF T
  <2> QED BY <2>1, SmallestExists
<1>2. m \in 1 .. n /\ m - 1 \notin T
  BY <1>1
<1>3. m - 1 \in 0 .. n - 1 /\ m - 1 \in S
  BY <1>2
<1>4. (m - 1) + 1 \in S /\ (m - 1) + 1 = m
  BY <1>2, <1>3
<1> QED BY <1>1, <1>4

----------------------------------------------------------------------------
(* Powers of two *)

LEMMA Widths ==
  /\ W \in Nat /\ W >= 4 /\ ByteBits \in Nat /\ ByteBits >= 1 /\ W = 4 * ByteBits
  /\ \A t : XLEN(t) \in {W, 2 * W}
BY WordAssumption DEF ByteBits, XLEN

LEMMA PowerType ==
  ASSUME NEW k \in 0 .. 2 * W + 1 PROVE 2^k \in Nat /\ 2^k >= 1
<1> DEFINE S == {j \in Nat : 2^j \in Nat /\ 2^j >= 1}
<1>1. 0 \in S
  BY PowersOfTwo
<1>2. ASSUME NEW j \in 0 .. 2 * W, j \in S PROVE j + 1 \in S
  <2>1. 2^(j + 1) = 2 * 2^j
    BY PowersOfTwo
  <2> QED BY <1>2, <2>1, Widths
<1>3. \A j \in 0 .. 2 * W + 1 : j \in S
  <2>1. 2 * W + 1 \in Nat /\ (2 * W + 1) - 1 = 2 * W
    BY Widths
  <2> HIDE DEF S
  <2> QED BY <1>1, <1>2, <2>1, Induction
<1> QED BY <1>3

LEMMA PowerSum ==
  ASSUME NEW a \in Nat, NEW b \in Nat, a + b <= 2 * W
  PROVE  2^(a + b) = 2^a * 2^b
<1> DEFINE S == {j \in Nat : a + j <= 2 * W => 2^(a + j) = 2^a * 2^j}
<1>0. a \in 0 .. 2 * W + 1 /\ 2^a \in Nat /\ W \in Nat
  BY Widths, PowerType
<1>1. 0 \in S
  <2>1. 2^a * 1 = 2^a /\ a + 0 = a
    BY <1>0
  <2> QED BY <2>1, PowersOfTwo
<1>2. ASSUME NEW j \in 0 .. b - 1, j \in S PROVE j + 1 \in S
  <2> SUFFICES ASSUME a + (j + 1) <= 2 * W PROVE 2^(a + (j + 1)) = 2^a * 2^(j + 1)
    OBVIOUS
  <2>1. 2^(a + j) = 2^a * 2^j
    BY <1>2, <1>0
  <2>2. a + j \in 0 .. 2 * W /\ j \in 0 .. 2 * W /\ (a + j) + 1 = a + (j + 1)
    BY <1>0
  <2>3. 2^(a + (j + 1)) = 2 * 2^(a + j) /\ 2^(j + 1) = 2 * 2^j
    BY <2>2, PowersOfTwo
  <2>4. 2^j \in Nat
    BY <2>2, <1>0, PowerType
  <2>5. 2 * (2^a * 2^j) = 2^a * (2 * 2^j)
    <3> DEFINE p == 2^a
               q == 2^j
    <3>1. p \in Nat /\ q \in Nat
      BY <1>0, <2>4
    <3> HIDE DEF p, q
    <3> QED BY <3>1
  <2> QED BY <2>1, <2>3, <2>5
<1>3. b \in S
  <2> HIDE DEF S
  <2> QED BY <1>1, <1>2, Induction
<1> QED BY <1>3

LEMMA PowerHalf ==
  ASSUME NEW n \in 1 .. 2 * W
  PROVE  2^n = 2 * 2^(n - 1) /\ 2^(n - 1) \in Nat /\ 2^(n - 1) >= 1 /\ 2^n \in Nat /\ 2^n >= 2
<1>1. W \in Nat /\ n - 1 \in 0 .. 2 * W /\ (n - 1) + 1 = n
  BY Widths
<1>2. 2^n = 2 * 2^(n - 1)
  BY <1>1, PowersOfTwo
<1>3. 2^(n - 1) \in Nat /\ 2^(n - 1) >= 1
  BY <1>1, PowerType
<1> QED BY <1>2, <1>3

----------------------------------------------------------------------------
(* Sums *)

IsTotal(s, f, n) == s = [k \in 0 .. n |-> IF k = 0 THEN 0 ELSE s[k - 1] + f[k - 1]]

LEMMA TotalExists ==
  ASSUME NEW f, NEW n \in Nat PROVE \E s : IsTotal(s, f, n)
<1> DEFINE S == {j \in Nat : \E s : IsTotal(s, f, j)}
<1>1. 0 \in S
  <2> DEFINE s == [k \in 0 .. 0 |-> 0]
  <2>1. IsTotal(s, f, 0)
    BY DEF IsTotal
  <2> QED BY <2>1
<1>2. ASSUME NEW j \in 0 .. n - 1, j \in S PROVE j + 1 \in S
  <2>1. PICK s : IsTotal(s, f, j)
    BY <1>2
  <2> DEFINE u == [k \in 0 .. j + 1 |-> IF k = j + 1 THEN s[j] + f[j] ELSE s[k]]
  <2>2. ASSUME NEW k \in 0 .. j + 1
        PROVE  u[k] = IF k = 0 THEN 0 ELSE u[k - 1] + f[k - 1]
    <3>1. CASE k = j + 1
      BY <3>1
    <3>2. CASE k \in 0 .. j
      <4>1. s[k] = IF k = 0 THEN 0 ELSE s[k - 1] + f[k - 1]
        BY <2>1, <3>2 DEF IsTotal
      <4>2. k # 0 => u[k - 1] = s[k - 1]
        BY <3>2
      <4>3. u[k] = s[k]
        BY <3>2
      <4> HIDE DEF u
      <4> QED BY <4>1, <4>2, <4>3
    <3> QED BY <3>1, <3>2
  <2>3. u = [k \in 0 .. j + 1 |-> u[k]]
    OBVIOUS
  <2>4. IsTotal(u, f, j + 1)
    <3> HIDE DEF u
    <3> QED BY <2>2, <2>3 DEF IsTotal
  <2> QED BY <2>4
<1>3. n \in S
  <2> HIDE DEF S
  <2> QED BY <1>1, <1>2, Induction
<1> QED BY <1>3

LEMMA TotalUnique ==
  ASSUME NEW f, NEW n \in Nat, NEW m \in Nat, n <= m, NEW s, NEW u, IsTotal(s, f, n), IsTotal(u, f, m)
  PROVE  s[n] = u[n]
<1> DEFINE S == {j \in Nat : j <= n => s[j] = u[j]}
<1>1. 0 \in S
  BY DEF IsTotal
<1>2. ASSUME NEW j \in 0 .. n - 1, j \in S PROVE j + 1 \in S
  <2>1. s[j] = u[j] /\ j + 1 \in 0 .. n /\ j + 1 \in 0 .. m /\ (j + 1) - 1 = j /\ j + 1 # 0
    BY <1>2
  <2>2. s[j + 1] = s[j] + f[j] /\ u[j + 1] = u[j] + f[j]
    BY <2>1 DEF IsTotal
  <2> QED BY <2>1, <2>2
<1>3. n \in S
  <2> HIDE DEF S
  <2> QED BY <1>1, <1>2, Induction
<1> QED BY <1>3

(* The equations of Total.                                                 *)
LEMMA TotalIs ==
  ASSUME NEW f, NEW n \in Nat
  PROVE  \E s : IsTotal(s, f, n) /\ Total(f, n) = s[n]
<1>1. PICK s : IsTotal(s, f, n)
  BY TotalExists
<1> DEFINE u == CHOOSE v : v = [k \in 0 .. n |-> IF k = 0 THEN 0 ELSE v[k - 1] + f[k - 1]]
<1>2. IsTotal(u, f, n)
  BY <1>1 DEF IsTotal
<1>3. Total(f, n) = u[n]
  BY DEF Total
<1> QED BY <1>2, <1>3

LEMMA TotalZero ==
  ASSUME NEW f PROVE Total(f, 0) = 0
BY TotalIs DEF IsTotal

LEMMA TotalNext ==
  ASSUME NEW f, NEW n \in Nat PROVE Total(f, n + 1) = Total(f, n) + f[n]
<1>1. PICK s : IsTotal(s, f, n) /\ Total(f, n) = s[n]
  BY TotalIs
<1>2. PICK u : IsTotal(u, f, n + 1) /\ Total(f, n + 1) = u[n + 1]
  BY TotalIs
<1>3. s[n] = u[n]
  BY <1>1, <1>2, TotalUnique
<1>4. u[n + 1] = u[n] + f[n]
  BY <1>2 DEF IsTotal
<1> QED BY <1>1, <1>2, <1>3, <1>4

----------------------------------------------------------------------------
(* Numbers that are the same in n bits *)

Congruent(a, b, M) == \E q \in Int : a = b + q * M

LEMMA DivisionUnique ==
  ASSUME NEW v \in Int, NEW M \in Nat, M >= 1, NEW q \in Int, NEW r \in 0 .. M - 1, v = M * q + r
  PROVE  v \div M = q /\ v % M = r
OBVIOUS

LEMMA Division ==
  ASSUME NEW v \in Int, NEW M \in Nat, M >= 1
  PROVE  v \div M \in Int /\ v % M \in 0 .. M - 1 /\ v = M * (v \div M) + (v % M)
OBVIOUS

LEMMA CongruentMod ==
  ASSUME NEW a \in Int, NEW b \in Int, NEW M \in Nat, M >= 1, Congruent(a, b, M)
  PROVE  a % M = b % M
<1>1. PICK q \in Int : a = b + q * M
  BY DEF Congruent
<1>2. b \div M \in Int /\ b % M \in 0 .. M - 1 /\ b = M * (b \div M) + (b % M)
  BY Division
<1> DEFINE d == b \div M
           r == b % M
<1> HIDE DEF d, r
<1>3. d \in Int /\ r \in 0 .. M - 1 /\ b = M * d + r
  BY <1>2 DEF d, r
<1>4. d + q \in Int /\ a = M * (d + q) + r
  BY <1>1, <1>3
<1>5. a % M = r
  BY <1>3, <1>4, DivisionUnique
<1> QED BY <1>5 DEF r

LEMMA ModCongruent ==
  ASSUME NEW v \in Int, NEW M \in Nat, M >= 1
  PROVE  Congruent(v % M, v, M)
<1> DEFINE d == v \div M
           r == v % M
<1>1. d \in Int /\ r \in 0 .. M - 1 /\ v = M * d + r
  BY Division
<1> HIDE DEF d, r
<1>2. -d \in Int /\ r = v + (-d) * M
  BY <1>1
<1>3. Congruent(r, v, M)
  BY <1>2 DEF Congruent
<1> QED BY <1>3 DEF r

LEMMA CongruentSelf ==
  ASSUME NEW a \in Int, NEW M \in Int PROVE Congruent(a, a, M)
<1>1. a = a + 0 * M
  OBVIOUS
<1> QED BY <1>1 DEF Congruent

LEMMA CongruentSwap ==
  ASSUME NEW a \in Int, NEW b \in Int, NEW M \in Int, Congruent(a, b, M)
  PROVE  Congruent(b, a, M)
<1>1. PICK q \in Int : a = b + q * M
  BY DEF Congruent
<1>2. -q \in Int /\ b = a + (-q) * M
  BY <1>1
<1> QED BY <1>2 DEF Congruent

LEMMA CongruentTrans ==
  ASSUME NEW a \in Int, NEW b \in Int, NEW c \in Int, NEW M \in Int,
         Congruent(a, b, M), Congruent(b, c, M)
  PROVE  Congruent(a, c, M)
<1>1. PICK q \in Int : a = b + q * M
  BY DEF Congruent
<1>2. PICK p \in Int : b = c + p * M
  BY DEF Congruent
<1>3. p + q \in Int /\ a = c + (p + q) * M
  BY <1>1, <1>2
<1> QED BY <1>3 DEF Congruent

LEMMA CongruentSum ==
  ASSUME NEW a \in Int, NEW b \in Int, NEW c \in Int, NEW d \in Int, NEW M \in Int,
         Congruent(a, b, M), Congruent(c, d, M)
  PROVE  Congruent(a + c, b + d, M) /\ Congruent(a - c, b - d, M) /\ Congruent(a * c, b * d, M)
<1>1. PICK q \in Int : a = b + q * M
  BY DEF Congruent
<1>2. PICK p \in Int : c = d + p * M
  BY DEF Congruent
<1>3. /\ p + q \in Int /\ a + c = (b + d) + (p + q) * M
      /\ q - p \in Int /\ a - c = (b - d) + (q - p) * M
  BY <1>1, <1>2
<1>4. /\ q * d + p * b + q * p * M \in Int
      /\ a * c = b * d + (q * d + p * b + q * p * M) * M
  BY <1>1, <1>2
<1> QED BY <1>3, <1>4 DEF Congruent

LEMMA CongruentLess ==
  ASSUME NEW a \in Int, NEW b \in Int, NEW M \in Int, NEW m \in Int, Congruent(a, b, M * m)
  PROVE  Congruent(a, b, M)
<1>1. PICK q \in Int : a = b + q * (M * m)
  BY DEF Congruent
<1>2. q * m \in Int /\ a = b + (q * m) * M
  BY <1>1
<1> QED BY <1>2 DEF Congruent

(* C++'s conversions *)
LEMMA UnsignedIs ==
  ASSUME NEW v \in Int, NEW n \in 1 .. 2 * W
  PROVE  Unsigned(v, n) \in 0 .. 2^n - 1 /\ Congruent(Unsigned(v, n), v, 2^n)
<1>1. 2^n \in Nat /\ 2^n >= 1
  BY PowerHalf
<1> QED BY <1>1, Division, ModCongruent DEF Unsigned

LEMMA UnsignedSame ==
  ASSUME NEW a \in Int, NEW b \in Int, NEW n \in 1 .. 2 * W, Congruent(a, b, 2^n)
  PROVE  Unsigned(a, n) = Unsigned(b, n) /\ Signed(a, n) = Signed(b, n)
<1>1. 2^n \in Nat /\ 2^n >= 1
  BY PowerHalf
<1>2. a % 2^n = b % 2^n
  BY <1>1, CongruentMod
<1> QED BY <1>2 DEF Unsigned, Signed

LEMMA SignedIs ==
  ASSUME NEW v \in Int, NEW n \in 1 .. 2 * W
  PROVE  /\ Signed(v, n) \in Int
         /\ -(2^(n - 1)) <= Signed(v, n) /\ Signed(v, n) < 2^(n - 1)
         /\ Congruent(Signed(v, n), v, 2^n)
<1> DEFINE P == 2^n
           H == 2^(n - 1)
           u == v % P
<1>1. P = 2 * H /\ H \in Nat /\ H >= 1 /\ P \in Nat /\ P >= 1
  BY PowerHalf
<1>2. u \in 0 .. P - 1 /\ Congruent(u, v, P)
  <2> HIDE DEF P
  <2> QED BY <1>1, Division, ModCongruent
<1>3. Signed(v, n) = IF u >= H THEN u - P ELSE u
  BY DEF Signed
<1> HIDE DEF P, H, u
<1>4. CASE u >= H
  <2>1. PICK q \in Int : u = v + q * P
    BY <1>2 DEF Congruent
  <2>2. q - 1 \in Int /\ u - P = v + (q - 1) * P
    BY <1>1, <2>1
  <2>3. Congruent(u - P, v, P)
    BY <2>2 DEF Congruent
  <2>4. u - P \in Int /\ -H <= u - P /\ u - P < H
    BY <1>1, <1>2, <1>4
  <2> QED BY <1>3, <1>4, <2>3, <2>4 DEF P, H
<1>5. CASE ~(u >= H)
  <2>1. u \in Int /\ -H <= u /\ u < H
    BY <1>1, <1>2, <1>5
  <2> QED BY <1>2, <1>3, <1>5, <2>1 DEF P, H
<1> QED BY <1>4, <1>5

(* A number that n bits can hold is converted to itself.                   *)
LEMMA UnsignedFits ==
  ASSUME NEW n \in 1 .. 2 * W, NEW v \in 0 .. 2^n - 1 PROVE Unsigned(v, n) = v
<1>1. 2^n \in Nat /\ 2^n >= 1 /\ v \in Int
  BY PowerHalf
<1>2. v = 2^n * 0 + v
  BY <1>1
<1> QED BY <1>1, <1>2, DivisionUnique DEF Unsigned

LEMMA SignedFits ==
  ASSUME NEW n \in 1 .. 2 * W, NEW v \in Int, -(2^(n - 1)) <= v, v < 2^(n - 1)
  PROVE  Signed(v, n) = v
<1> DEFINE P == 2^n
           H == 2^(n - 1)
<1>1. P = 2 * H /\ H \in Nat /\ H >= 1 /\ P \in Nat /\ P >= 1
  BY PowerHalf
<1>2. -H <= v /\ v < H
  OBVIOUS
<1>3. Signed(v, n) = IF v % P >= H THEN (v % P) - P ELSE v % P
  BY DEF Signed
<1> HIDE DEF P, H
<1>4. CASE v >= 0
  <2>1. v = P * 0 + v /\ v \in 0 .. P - 1
    BY <1>1, <1>2, <1>4
  <2>2. v % P = v
    BY <1>1, <2>1, DivisionUnique
  <2> QED BY <1>1, <1>2, <1>3, <2>2
<1>5. CASE v < 0
  <2>1. v = P * (-1) + (v + P) /\ v + P \in 0 .. P - 1
    BY <1>1, <1>2, <1>5
  <2>2. v % P = v + P
    BY <1>1, <2>1, DivisionUnique
  <2> QED BY <1>1, <1>2, <1>3, <2>2
<1> QED BY <1>4, <1>5

----------------------------------------------------------------------------
(* Bitwise operations and division *)

LEMMA NumberType ==
  ASSUME NEW bits, NEW n \in 0 .. 2 * W PROVE Number(bits, n) \in Nat
<1> DEFINE f == [k \in 0 .. n - 1 |-> IF k \in bits THEN 2^k ELSE 0]
           S == {j \in Nat : j <= n => Total(f, j) \in Nat}
<1>1. 0 \in S
  BY TotalZero
<1>2. ASSUME NEW j \in 0 .. n - 1, j \in S PROVE j + 1 \in S
  <2>1. j \in 0 .. 2 * W + 1
    BY Widths
  <2>2. f[j] \in Nat
    BY <2>1, PowerType
  <2>3. Total(f, j) \in Nat /\ j \in Nat
    BY <1>2
  <2> HIDE DEF f
  <2>4. Total(f, j + 1) = Total(f, j) + f[j]
    BY <2>3, TotalNext
  <2> QED BY <2>2, <2>3, <2>4
<1>3. n \in S
  <2> HIDE DEF S
  <2> QED BY <1>1, <1>2, Induction, Widths
<1> QED BY <1>3 DEF Number

LEMMA BitwiseType ==
  ASSUME NEW a \in Int, NEW b \in Int, NEW n \in 0 .. 2 * W
  PROVE  And(a, b, n) \in Int /\ Or(a, b, n) \in Int /\ Xor(a, b, n) \in Int
<1>1. And(a, b, n) \in Int /\ Or(a, b, n) \in Int
  BY NumberType DEF And, Or
<1> QED BY <1>1 DEF Xor

LEMMA AbsoluteIs ==
  ASSUME NEW a \in Int PROVE Max({a, -a}) = IF a < 0 THEN -a ELSE a
BY DEF Max

(* Division truncates: its result is at most the dividend, and the         *)
(* remainder smaller than the divisor.                                     *)
LEMMA QuotientIs ==
  ASSUME NEW a \in Int, NEW b \in Int, b # 0
  PROVE  LET m == IF a < 0 THEN -a ELSE a
             k == IF b < 0 THEN -b ELSE b
         IN  /\ m \div k \in 0 .. m
             /\ Quotient(a, b) = IF (a < 0) = (b < 0) THEN m \div k ELSE -(m \div k)
             /\ Quotient(a, b) \in Int /\ Remainder(a, b) \in Int
             /\ -k < Remainder(a, b) /\ Remainder(a, b) < k
<1> DEFINE m == IF a < 0 THEN -a ELSE a
           k == IF b < 0 THEN -b ELSE b
           q == m \div k
<1>1. m \in Nat /\ k \in Nat /\ k >= 1
  OBVIOUS
<1>2. Quotient(a, b) = IF (a < 0) = (b < 0) THEN q ELSE -q
  BY AbsoluteIs DEF Quotient
<1>3. q \in Int /\ m % k \in 0 .. k - 1 /\ m = k * q + (m % k)
  <2> HIDE DEF m, k
  <2> QED BY <1>1, Division DEF q
<1>4. q \in 0 .. m
  <2> DEFINE r == m % k
  <2> HIDE DEF q, m, k, r
  <2>1. q \in Int /\ r \in 0 .. k - 1 /\ m = k * q + r
    BY <1>3 DEF r
  <2>2. q >= 0
    <3> SUFFICES ASSUME q <= -1 PROVE FALSE
      BY <2>1
    <3>1. k * q <= -k
      BY <1>1, <2>1
    <3> QED BY <1>1, <2>1, <3>1
  <2>3. q <= k * q
    BY <1>1, <2>1, <2>2
  <2> QED BY <1>1, <2>1, <2>2, <2>3
<1>5. /\ Remainder(a, b) = IF a < 0 THEN -(m % k) ELSE m % k
  <2> DEFINE Q == Quotient(a, b)
             r == m % k
  <2>1. b * Q = IF a < 0 THEN -(k * q) ELSE k * q
    <3> HIDE DEF q
    <3>1. CASE a < 0 /\ b < 0
      BY <1>2, <1>3, <3>1
    <3>2. CASE a < 0 /\ ~(b < 0)
      BY <1>2, <1>3, <3>2
    <3>3. CASE ~(a < 0) /\ b < 0
      BY <1>2, <1>3, <3>3
    <3>4. CASE ~(a < 0) /\ ~(b < 0)
      BY <1>2, <1>3, <3>4
    <3> QED BY <3>1, <3>2, <3>3, <3>4
  <2>2. Remainder(a, b) = a - b * Q
    BY DEF Remainder
  <2> DEFINE kq == k * q
  <2>3. kq \in Int /\ r \in Int /\ m = kq + r
    BY <1>1, <1>3
  <2>4. a = IF a < 0 THEN -m ELSE m
    OBVIOUS
  <2> HIDE DEF kq, r, m, Q
  <2>5. b * Q = IF a < 0 THEN -kq ELSE kq
    BY <2>1 DEF kq, m
  <2>6. Remainder(a, b) = IF a < 0 THEN -r ELSE r
    BY <1>1, <2>2, <2>3, <2>4, <2>5
  <2> QED BY <2>6 DEF r, m
<1>6. -k < Remainder(a, b) /\ Remainder(a, b) < k /\ Remainder(a, b) \in Int
  <2> DEFINE r == m % k
  <2>1. r \in 0 .. k - 1
    BY <1>3
  <2>2. Remainder(a, b) = IF a < 0 THEN -r ELSE r
    BY <1>5
  <2> HIDE DEF r, m, k
  <2> QED BY <1>1, <2>1, <2>2
<1>7. Quotient(a, b) \in Int
  <2> HIDE DEF q
  <2> QED BY <1>2, <1>3
<1> QED BY <1>2, <1>4, <1>6, <1>7

LEMMA QuotientMinusOne ==
  ASSUME NEW a \in Int PROVE Quotient(a, -1) = -a /\ Remainder(a, -1) = 0
<1> DEFINE m == IF a < 0 THEN -a ELSE a
<1>1. Max({a, -a}) = m /\ Max({-1, -(-1)}) = 1
  BY AbsoluteIs
<1>2. m \div 1 = m
  OBVIOUS
<1>3. Quotient(a, -1) = IF (a < 0) = (-1 < 0) THEN m \div 1 ELSE -(m \div 1)
  BY <1>1 DEF Quotient
<1>4. Quotient(a, -1) = -a
  BY <1>2, <1>3
<1> QED BY <1>4 DEF Remainder

(* Only the most negative number over -1 has a quotient out of range.      *)
LEMMA QuotientFits ==
  ASSUME NEW H \in Nat, NEW a \in Int, NEW b \in Int, -H <= a, a < H, -H <= b, b < H, b # 0,
         ~(a = -H /\ b = -1)
  PROVE  -H <= Quotient(a, b) /\ Quotient(a, b) < H /\ -H <= Remainder(a, b) /\ Remainder(a, b) < H
<1> DEFINE m == IF a < 0 THEN -a ELSE a
           k == IF b < 0 THEN -b ELSE b
           q == m \div k
<1>1. /\ q \in 0 .. m /\ Quotient(a, b) = IF (a < 0) = (b < 0) THEN q ELSE -q
      /\ -k < Remainder(a, b) /\ Remainder(a, b) < k /\ Remainder(a, b) \in Int
  BY QuotientIs
<1>2. m \in 0 .. H /\ k \in 1 .. H
  OBVIOUS
<1>3. q = H => m = H /\ k = 1
  <2>1. m % k \in 0 .. k - 1 /\ m = k * q + (m % k)
    <3> HIDE DEF m, k
    <3> QED BY <1>2, Division DEF q
  <2> DEFINE r == m % k
  <2> HIDE DEF m, k, q, r
  <2>2. r \in 0 .. k - 1 /\ m = k * q + r
    BY <2>1 DEF r
  <2>3. m \in 0 .. H /\ k \in 1 .. H /\ q \in 0 .. m
    BY <1>1, <1>2
  <2> SUFFICES ASSUME q = H PROVE m = H /\ k = 1
    OBVIOUS
  <2>4. m = H /\ H >= 1 /\ k * H + r = H
    BY <2>2, <2>3
  <2>5. ASSUME k >= 2 PROVE FALSE
    <3>1. k * H >= 2 * H
      BY <2>3, <2>5
    <3> QED BY <2>2, <2>3, <2>4, <3>1
  <2> QED BY <2>3, <2>4, <2>5
<1>4. -H <= Quotient(a, b) /\ Quotient(a, b) < H
  <2> HIDE DEF q
  <2> QED BY <1>1, <1>2, <1>3
<1> QED BY <1>1, <1>2, <1>4

(* The n-bit numbers that stand for 0, -1 and the most negative number.    *)
LEMMA SignedOf ==
  ASSUME NEW n \in 1 .. 2 * W, NEW u \in 0 .. 2^n - 1
  PROVE  /\ Signed(u, n) = 0 <=> u = 0
         /\ Signed(u, n) = -1 <=> u = 2^n - 1
         /\ Signed(u, n) = -(2^(n - 1)) <=> u = 2^(n - 1)
<1> DEFINE P == 2^n
           H == 2^(n - 1)
<1>1. P = 2 * H /\ H \in Nat /\ H >= 1 /\ P \in Nat
  BY PowerHalf
<1>2. u % P = u
  BY UnsignedFits DEF Unsigned
<1>3. Signed(u, n) = IF u % P >= H THEN (u % P) - P ELSE u % P
  BY DEF Signed
<1>4. u \in 0 .. P - 1
  OBVIOUS
<1> HIDE DEF P, H
<1>5. /\ Signed(u, n) = 0 <=> u = 0
      /\ Signed(u, n) = -1 <=> u = P - 1
      /\ Signed(u, n) = -H <=> u = H
  BY <1>1, <1>2, <1>3, <1>4
<1> QED BY <1>5 DEF P, H

LEMMA SignedUnsigned ==
  ASSUME NEW v \in Int, NEW n \in 1 .. 2 * W
  PROVE  Signed(Unsigned(v, n), n) = Signed(v, n) /\ Unsigned(v, n) \in Int
BY UnsignedIs, UnsignedSame

----------------------------------------------------------------------------
(* The bytes of a number *)

LEMMA DivideSum ==
  ASSUME NEW u \in Int, NEW q \in Int, NEW K \in Nat, K >= 1
  PROVE  (u + q * K) \div K = (u \div K) + q
<1> DEFINE d == u \div K
           r == u % K
<1>1. d \in Int /\ r \in 0 .. K - 1 /\ u = K * d + r
  BY Division
<1> HIDE DEF d, r
<1>2. u + q * K = K * (d + q) + r /\ d + q \in Int /\ u + q * K \in Int
  BY <1>1
<1>3. (u + q * K) \div K = d + q
  BY <1>1, <1>2, DivisionUnique
<1> QED BY <1>3 DEF d

(* Numbers that are the same in n bits have the same bits below n.         *)
LEMMA SameBits ==
  ASSUME NEW v \in Int, NEW u \in Int, NEW n \in 0 .. 2 * W, NEW k \in Nat, NEW B \in Nat, k + B <= n,
         Congruent(v, u, 2^n)
  PROVE  (v \div 2^k) % 2^B = (u \div 2^k) % 2^B
<1> DEFINE c == n - (k + B)
           K == 2^k
           P == 2^B
           R == 2^c
<1>1. c \in Nat /\ W \in Nat /\ k \in 0 .. 2 * W + 1 /\ B \in 0 .. 2 * W + 1 /\ c \in 0 .. 2 * W + 1
  BY Widths
<1>2. K \in Nat /\ K >= 1 /\ P \in Nat /\ P >= 1 /\ R \in Nat
  BY <1>1, PowerType
<1>3. 2^n = (K * P) * R
  <2>1. 2^(k + B) = K * P
    BY <1>1, PowerSum
  <2>2. 2^((k + B) + c) = 2^(k + B) * R
    BY <1>1, PowerSum
  <2>3. (k + B) + c = n
    BY <1>1
  <2> QED BY <2>1, <2>2, <2>3
<1>4. PICK q \in Int : v = u + q * 2^n
  BY DEF Congruent
<1> HIDE DEF c, K, P, R
<1>5. v = u + (q * R * P) * K /\ q * R \in Int /\ q * R * P \in Int
  BY <1>2, <1>3, <1>4
<1>6. v \div K = (u \div K) + (q * R) * P
  BY <1>2, <1>5, DivideSum
<1>7. u \div K \in Int /\ v \div K \in Int
  BY <1>2, Division
<1>8. Congruent(v \div K, u \div K, P)
  BY <1>5, <1>6, <1>7 DEF Congruent
<1>9. (v \div K) % P = (u \div K) % P
  BY <1>2, <1>7, <1>8, CongruentMod
<1> QED BY <1>9 DEF K, P

LEMMA BytePosition ==
  ASSUME NEW j \in 0 .. 7
  PROVE  /\ j * ByteBits \in Nat /\ j * ByteBits \in 0 .. 2 * W + 1 /\ j * ByteBits + ByteBits <= 2 * W
         /\ j \in 0 .. 3 => j * ByteBits + ByteBits <= W
BY Widths

(* A byte of the memory is a number, and so is what is read of several.    *)
LEMMA readDataMem_Type ==
  ASSUME NEW h, HartOK(h), NEW addr \in Nat, NEW size \in 0 .. 8, Inside(addr, size)
  PROVE  readDataMem(h, addr, size) \in Nat
<1> DEFINE f == [k \in 0 .. size - 1 |-> h.mem[addr + k] * 2^(k * ByteBits)]
           S == {j \in Nat : j <= size => Total(f, j) \in Nat}
<1>1. 0 \in S
  BY TotalZero
<1>2. ASSUME NEW j \in 0 .. size - 1, j \in S PROVE j + 1 \in S
  <2>1. j * ByteBits \in 0 .. 2 * W + 1
    <3>1. j \in 0 .. 7
      OBVIOUS
    <3> QED BY <3>1, BytePosition
  <2>2. 2^(j * ByteBits) \in Nat
    BY <2>1, PowerType
  <2>3. addr + j \in 0 .. MemSize - 1
    BY WordAssumption DEF Inside
  <2>4. h.mem[addr + j] \in Nat
    <3>1. 2^ByteBits \in Nat
      BY Widths, PowerType
    <3>2. h.mem[addr + j] \in 0 .. 2^ByteBits - 1
      BY <2>3 DEF HartOK
    <3> QED BY <3>1, <3>2
  <2>5. f[j] = h.mem[addr + j] * 2^(j * ByteBits)
    OBVIOUS
  <2>6. f[j] \in Nat
    <3> DEFINE x == h.mem[addr + j]
               p == 2^(j * ByteBits)
    <3>1. x \in Nat /\ p \in Nat /\ f[j] = x * p
      BY <2>2, <2>4, <2>5
    <3> HIDE DEF f, x, p
    <3> QED BY <3>1
  <2>7. Total(f, j) \in Nat /\ j \in Nat
    BY <1>2
  <2> HIDE DEF f
  <2>8. Total(f, j + 1) = Total(f, j) + f[j]
    BY <2>7, TotalNext
  <2> QED BY <2>6, <2>7, <2>8
<1>3. size \in S
  <2> HIDE DEF S
  <2> QED BY <1>1, <1>2, Induction
<1> QED BY <1>3 DEF readDataMem

(* Only the bits that the bytes have are written.                          *)
LEMMA writeDataMem_Same ==
  ASSUME NEW h, NEW addr \in Int, NEW size \in {1, 2, 4, 8}, NEW n \in {W, 2 * W}, size * ByteBits <= n,
         NEW v \in Int, NEW u \in Int, Congruent(v, u, 2^n), DOMAIN h.mem \subseteq Int
  PROVE  writeDataMem(h, addr, v, size) = writeDataMem(h, addr, u, size)
<1>1. ASSUME NEW a \in DOMAIN h.mem, a \in addr .. addr + size - 1
      PROVE  (v \div 2^((a - addr) * ByteBits)) % 2^ByteBits
             = (u \div 2^((a - addr) * ByteBits)) % 2^ByteBits
  <2> DEFINE j == a - addr
  <2>1. j \in 0 .. size - 1 /\ j \in 0 .. 7
    BY <1>1
  <2> HIDE DEF j
  <2>2. j * ByteBits \in Nat /\ j * ByteBits + ByteBits <= n
    <3>1. j * ByteBits \in Nat
      BY <2>1, BytePosition
    <3>2. (j + 1) * ByteBits <= size * ByteBits
      BY <2>1, Widths
    <3>3. (j + 1) * ByteBits = j * ByteBits + ByteBits
      BY <2>1, Widths
    <3> QED BY <3>1, <3>2, <3>3, Widths
  <2>3. n \in 0 .. 2 * W /\ ByteBits \in Nat
    BY Widths
  <2>4. (v \div 2^(j * ByteBits)) % 2^ByteBits = (u \div 2^(j * ByteBits)) % 2^ByteBits
    <3> DEFINE k == j * ByteBits
    <3> HIDE DEF k
    <3>1. k \in Nat /\ k + ByteBits <= n
      BY <2>2 DEF k
    <3>2. (v \div 2^k) % 2^ByteBits = (u \div 2^k) % 2^ByteBits
      BY <2>3, <3>1, SameBits
    <3> QED BY <3>2 DEF k
  <2> QED BY <2>4 DEF j
<1> QED BY <1>1 DEF writeDataMem

(* The memory in two halves: a doubleword is two words.                    *)
LEMMA DivideTwice ==
  ASSUME NEW v \in Int, NEW x \in Nat, NEW y \in Nat, x >= 1, y >= 1
  PROVE  (v \div x) \div y = v \div (x * y)
<1> DEFINE d == v \div x
           r == v % x
           e == d \div y
           s == d % y
<1>1. d \in Int /\ r \in 0 .. x - 1 /\ v = x * d + r
  BY Division
<1>2. e \in Int /\ s \in 0 .. y - 1 /\ d = y * e + s
  <2> HIDE DEF d
  <2> QED BY <1>1, Division
<1> HIDE DEF d, r, e, s
<1>3. v = (x * y) * e + (x * s + r)
  BY <1>1, <1>2
<1>4. x * s + r \in 0 .. x * y - 1
  <2>1. x * s <= x * (y - 1)
    BY <1>1, <1>2
  <2>2. x * (y - 1) = x * y - x /\ x * y \in Int /\ x * s \in Nat
    BY <1>1, <1>2
  <2> QED BY <1>1, <1>2, <2>1, <2>2
<1>5. x * y \in Nat /\ x * y >= 1
  BY <1>1
<1>6. v \div (x * y) = e
  BY <1>2, <1>3, <1>4, <1>5, DivisionUnique
<1> QED BY <1>6 DEF d, e

LEMMA WriteTwoWords ==
  ASSUME NEW h, HartOK(h), NEW addr \in Nat, NEW v \in Int
  PROVE  writeDataMem(writeDataMem(h, addr, v % 2^W, 4), addr + 4, v \div 2^W, 4)
           = writeDataMem(h, addr, v, 8)
<1> DEFINE Byte(data, a, b) == (data \div 2^((b - a) * ByteBits)) % 2^ByteBits
           One(b) == IF b \in addr .. addr + 4 - 1 THEN Byte(v % 2^W, addr, b) ELSE h.mem[b]
           Two(b) == IF b \in addr + 4 .. (addr + 4) + 4 - 1 THEN Byte(v \div 2^W, addr + 4, b) ELSE One(b)
           All(b) == IF b \in addr .. addr + 8 - 1 THEN Byte(v, addr, b) ELSE h.mem[b]
<1>1. /\ DOMAIN h.mem = 0 .. MemSize - 1 /\ MemSize \in Nat /\ W \in 0 .. 2 * W /\ W \in Nat
      /\ ByteBits \in Nat /\ ByteBits >= 1 /\ 4 * ByteBits = W
  BY Widths, WordAssumption DEF HartOK
<1>2. 2^W \in Nat /\ 2^W >= 1 /\ v % 2^W \in Int /\ v \div 2^W \in Int /\ Congruent(v % 2^W, v, 2^W)
  BY <1>1, PowerType, Division, ModCongruent
<1>3. ASSUME NEW b \in 0 .. MemSize - 1 PROVE Two(b) = All(b)
  <2>1. CASE b \in addr .. addr + 3
    <3> DEFINE j == b - addr
               k == j * ByteBits
    <3>1. j \in 0 .. 3
      BY <1>1, <2>1
    <3>2. k \in Nat /\ k + ByteBits <= W
      <4> HIDE DEF j
      <4> QED BY <1>1, <3>1
    <3>3. ((v % 2^W) \div 2^k) % 2^ByteBits = (v \div 2^k) % 2^ByteBits
      <4> HIDE DEF k
      <4> QED BY <1>1, <1>2, <3>2, SameBits
    <3>4. b \notin addr + 4 .. (addr + 4) + 4 - 1 /\ b \in addr .. addr + 4 - 1 /\ b \in addr .. addr + 8 - 1
      BY <2>1
    <3> QED BY <3>3, <3>4
  <2>2. CASE b \in addr + 4 .. addr + 7
    <3> DEFINE j == b - (addr + 4)
               k == j * ByteBits
    <3>1. j \in 0 .. 3 /\ b - addr = j + 4
      BY <1>1, <2>2
    <3> HIDE DEF j
    <3>2. k \in Nat /\ k + W = (j + 4) * ByteBits /\ W + k <= 2 * W /\ k \in 0 .. 2 * W + 1
      BY <1>1, <3>1
    <3> HIDE DEF k
    <3>3. 2^k \in Nat /\ 2^k >= 1
      BY <3>2, PowerType
    <3>4. 2^(W + k) = 2^W * 2^k /\ W + k = (j + 4) * ByteBits
      BY <1>1, <3>2, PowerSum
    <3>5. (v \div 2^W) \div 2^k = v \div 2^(W + k)
      <4> DEFINE x == 2^W
                 y == 2^k
      <4> HIDE DEF x, y
      <4>1. x \in Nat /\ x >= 1 /\ y \in Nat /\ y >= 1
        BY <1>2, <3>3 DEF x, y
      <4>2. (v \div x) \div y = v \div (x * y)
        BY <4>1, DivideTwice
      <4> QED BY <3>4, <4>2 DEF x, y
    <3>6. (v \div 2^W) \div 2^((b - (addr + 4)) * ByteBits) = v \div 2^((b - addr) * ByteBits)
      BY <3>1, <3>4, <3>5 DEF j, k
    <3>7. b \in addr + 4 .. (addr + 4) + 4 - 1 /\ b \in addr .. addr + 8 - 1
      BY <2>2
    <3> QED BY <3>6, <3>7
  <2>3. CASE b \notin addr .. addr + 7
    <3>1. /\ b \notin addr + 4 .. (addr + 4) + 4 - 1
          /\ b \notin addr .. addr + 4 - 1 /\ b \notin addr .. addr + 8 - 1
      BY <1>1, <2>3
    <3> QED BY <3>1
  <2> QED BY <1>1, <2>1, <2>2, <2>3
<1> DEFINE g == writeDataMem(h, addr, v % 2^W, 4)
<1>4. g = [h EXCEPT !.mem = [b \in DOMAIN h.mem |-> One(b)]]
  BY DEF writeDataMem
<1>5. g.mem = [b \in DOMAIN h.mem |-> One(b)]
  <2> HIDE DEF g, One
  <2> QED BY <1>4 DEF HartOK
<1>6. writeDataMem(g, addr + 4, v \div 2^W, 4) = [h EXCEPT !.mem = [b \in DOMAIN h.mem |-> Two(b)]]
  <2>1. writeDataMem(g, addr + 4, v \div 2^W, 4)
          = [g EXCEPT !.mem = [b \in DOMAIN g.mem |->
                IF b \in addr + 4 .. (addr + 4) + 4 - 1 THEN Byte(v \div 2^W, addr + 4, b) ELSE g.mem[b]]]
    BY DEF writeDataMem
  <2> HIDE DEF g, One, Byte
  <2>2. DOMAIN g.mem = DOMAIN h.mem /\ \A b \in DOMAIN h.mem : g.mem[b] = One(b)
    BY <1>5
  <2>3. writeDataMem(g, addr + 4, v \div 2^W, 4) = [g EXCEPT !.mem = [b \in DOMAIN h.mem |-> Two(b)]]
    BY <2>1, <2>2
  <2> HIDE DEF Two
  <2> QED BY <1>4, <2>3 DEF HartOK
<1>7. writeDataMem(h, addr, v, 8) = [h EXCEPT !.mem = [b \in DOMAIN h.mem |-> All(b)]]
  BY DEF writeDataMem
<1>8. [b \in DOMAIN h.mem |-> Two(b)] = [b \in DOMAIN h.mem |-> All(b)]
  <2> HIDE DEF Two, All
  <2> QED BY <1>1, <1>3
<1> HIDE DEF g, Two, All
<1>9. writeDataMem(g, addr + 4, v \div 2^W, 4) = writeDataMem(h, addr, v, 8)
  BY <1>6, <1>7, <1>8
<1> QED BY <1>9 DEF g

LEMMA TotalFour ==
  ASSUME NEW f, f[0] \in Int, f[1] \in Int, f[2] \in Int, f[3] \in Int
  PROVE  Total(f, 4) = f[0] + f[1] + f[2] + f[3]
<1>1. Total(f, 0) = 0 /\ Total(f, 1) = Total(f, 0) + f[0]
  <2>1. Total(f, 0 + 1) = Total(f, 0) + f[0]
    BY TotalNext
  <2> QED BY <2>1, TotalZero
<1>2. Total(f, 2) = Total(f, 1) + f[1]
  <2>1. Total(f, 1 + 1) = Total(f, 1) + f[1]
    BY TotalNext
  <2> QED BY <2>1
<1>3. Total(f, 3) = Total(f, 2) + f[2]
  <2>1. Total(f, 2 + 1) = Total(f, 2) + f[2]
    BY TotalNext
  <2> QED BY <2>1
<1>4. Total(f, 4) = Total(f, 3) + f[3]
  <2>1. Total(f, 3 + 1) = Total(f, 3) + f[3]
    BY TotalNext
  <2> QED BY <2>1
<1> QED BY <1>1, <1>2, <1>3, <1>4

LEMMA TotalEight ==
  ASSUME NEW f, \A k \in 0 .. 7 : f[k] \in Int
  PROVE  Total(f, 8) = f[0] + f[1] + f[2] + f[3] + f[4] + f[5] + f[6] + f[7]
<1>1. Total(f, 4) = f[0] + f[1] + f[2] + f[3]
  BY TotalFour
<1>2. Total(f, 5) = Total(f, 4) + f[4]
  <2>1. Total(f, 4 + 1) = Total(f, 4) + f[4]
    BY TotalNext
  <2> QED BY <2>1
<1>3. Total(f, 6) = Total(f, 5) + f[5]
  <2>1. Total(f, 5 + 1) = Total(f, 5) + f[5]
    BY TotalNext
  <2> QED BY <2>1
<1>4. Total(f, 7) = Total(f, 6) + f[6]
  <2>1. Total(f, 6 + 1) = Total(f, 6) + f[6]
    BY TotalNext
  <2> QED BY <2>1
<1>5. Total(f, 8) = Total(f, 7) + f[7]
  <2>1. Total(f, 7 + 1) = Total(f, 7) + f[7]
    BY TotalNext
  <2> QED BY <2>1
<1> QED BY <1>1, <1>2, <1>3, <1>4, <1>5

LEMMA ReadTwoWords ==
  ASSUME NEW h, HartOK(h), NEW addr \in Nat, Inside(addr, 8)
  PROVE  readDataMem(h, addr, 4) + readDataMem(h, addr + 4, 4) * 2^W = readDataMem(h, addr, 8)
<1> DEFINE f == [k \in 0 .. 7 |-> h.mem[addr + k] * 2^(k * ByteBits)]
           lo == [k \in 0 .. 3 |-> h.mem[addr + k] * 2^(k * ByteBits)]
           hi == [k \in 0 .. 3 |-> h.mem[(addr + 4) + k] * 2^(k * ByteBits)]
           P == 2^W
<1>1. ASSUME NEW k \in 0 .. 7 PROVE h.mem[addr + k] \in Int /\ 2^(k * ByteBits) \in Int
  <2>1. addr + k \in 0 .. MemSize - 1
    BY WordAssumption DEF Inside
  <2>2. h.mem[addr + k] \in 0 .. 2^ByteBits - 1
    BY <2>1 DEF HartOK
  <2>3. 2^ByteBits \in Nat
    BY Widths, PowerType
  <2>4. k * ByteBits \in 0 .. 2 * W + 1
    BY BytePosition
  <2>5. 2^(k * ByteBits) \in Nat
    BY <2>4, PowerType
  <2> QED BY <2>2, <2>3, <2>5
<1>2. ASSUME NEW k \in 0 .. 3
      PROVE  f[k] = lo[k] /\ f[k + 4] = hi[k] * P /\ lo[k] \in Int /\ hi[k] \in Int
  <2> DEFINE x == h.mem[addr + (k + 4)]
             p == 2^(k * ByteBits)
  <2>1. k + 4 \in 0 .. 7 /\ k \in 0 .. 7 /\ (addr + 4) + k = addr + (k + 4)
    OBVIOUS
  <2>2. x \in Int /\ p \in Int /\ P \in Int /\ h.mem[addr + k] \in Int
    BY <1>1, <2>1, Widths, PowerType
  <2>3. /\ k * ByteBits \in Nat /\ W \in Nat /\ k * ByteBits + W <= 2 * W
        /\ (k + 4) * ByteBits = k * ByteBits + W
    BY Widths
  <2>4. 2^((k + 4) * ByteBits) = p * P
    BY <2>3, PowerSum
  <2>5. f[k] = h.mem[addr + k] * p /\ lo[k] = h.mem[addr + k] * p
    BY <2>1
  <2>6. f[k + 4] = x * 2^((k + 4) * ByteBits) /\ hi[k] = x * p
    BY <2>1
  <2> DEFINE y == h.mem[addr + k]
  <2> HIDE DEF f, lo, hi, x, p, P, y
  <2>7. f[k + 4] = x * (p * P)
    BY <2>4, <2>6
  <2>8. y \in Int /\ lo[k] = y * p /\ f[k] = y * p
    BY <2>2, <2>5 DEF y
  <2> QED BY <2>2, <2>6, <2>7, <2>8
<1>3. f[0] = lo[0] /\ f[1] = lo[1] /\ f[2] = lo[2] /\ f[3] = lo[3]
      /\ f[4] = hi[0] * P /\ f[5] = hi[1] * P /\ f[6] = hi[2] * P /\ f[7] = hi[3] * P
  <2> HIDE DEF f, lo, hi, P
  <2>1. f[0 + 4] = hi[0] * P /\ f[1 + 4] = hi[1] * P /\ f[2 + 4] = hi[2] * P /\ f[3 + 4] = hi[3] * P
    BY <1>2
  <2> QED BY <1>2, <2>1
<1>4. P \in Int
  BY Widths, PowerType
<1>5. /\ readDataMem(h, addr, 4) = Total(lo, 4)
      /\ readDataMem(h, addr + 4, 4) = Total(hi, 4)
      /\ readDataMem(h, addr, 8) = Total(f, 8)
  BY DEF readDataMem
<1> HIDE DEF f, lo, hi, P
<1>6. /\ lo[0] \in Int /\ lo[1] \in Int /\ lo[2] \in Int /\ lo[3] \in Int
      /\ hi[0] \in Int /\ hi[1] \in Int /\ hi[2] \in Int /\ hi[3] \in Int
  BY <1>2
<1>7. \A k \in 0 .. 7 : f[k] \in Int
  BY <1>3, <1>4, <1>6
<1>8. /\ Total(lo, 4) = lo[0] + lo[1] + lo[2] + lo[3]
      /\ Total(hi, 4) = hi[0] + hi[1] + hi[2] + hi[3]
      /\ Total(f, 8) = f[0] + f[1] + f[2] + f[3] + f[4] + f[5] + f[6] + f[7]
  BY <1>6, <1>7, TotalFour, TotalEight
<1>9. Total(lo, 4) + Total(hi, 4) * P = Total(f, 8)
  BY <1>3, <1>4, <1>6, <1>8
<1> QED BY <1>5, <1>9 DEF P

----------------------------------------------------------------------------
(* Shifts *)

LEMMA PowerAbove ==
  ASSUME NEW n \in 0 .. 2 * W PROVE n < 2^n
<1> DEFINE S == {j \in Nat : j <= n => j < 2^j}
<1>1. 0 \in S
  BY PowersOfTwo
<1>2. ASSUME NEW j \in 0 .. n - 1, j \in S PROVE j + 1 \in S
  <2>1. j \in 0 .. 2 * W /\ j \in 0 .. 2 * W + 1 /\ j < 2^j
    BY <1>2, Widths
  <2>2. 2^(j + 1) = 2 * 2^j /\ 2^j \in Nat
    BY <2>1, PowersOfTwo, PowerType
  <2> QED BY <2>1, <2>2
<1>3. n \in S
  <2>1. n \in Nat
    BY Widths
  <2> HIDE DEF S
  <2> QED BY <1>1, <1>2, <2>1, Induction
<1> QED BY <1>3

(* A shift takes the lower bits of its amount: the width is a power of two.*)
LEMMA WidthIsPower ==
  ASSUME NEW n \in {W, 2 * W}
  PROVE  \E m \in Nat : 2^n = n * m
<1>1. W >= 4 /\ W \in {4, 8, 16, 32}
  BY WordAssumption
<1>2. 2^1 = 2 /\ 2^2 = 4 /\ 2^3 = 8 /\ 2^4 = 16 /\ 2^5 = 32 /\ 2^6 = 64
  <2>1. 2^(0 + 1) = 2 * 2^0 /\ 2^(1 + 1) = 2 * 2^1 /\ 2^(2 + 1) = 2 * 2^2 /\ 2^(3 + 1) = 2 * 2^3
        /\ 2^(4 + 1) = 2 * 2^4 /\ 2^(5 + 1) = 2 * 2^5
    BY <1>1, PowersOfTwo
  <2> QED BY <2>1, PowersOfTwo
<1>3. PICK j \in 2 .. 6 : n = 2^j
  BY <1>1, <1>2
<1>4. n \in Nat /\ j <= n /\ n <= 2 * W
  <2>1. n \in Nat /\ n <= 2 * W
    BY <1>1
  <2>2. j \in 0 .. 2 * W
    BY <1>1
  <2>3. j < 2^j
    BY <2>2, PowerAbove
  <2> QED BY <1>3, <2>1, <2>3
<1>5. n - j \in Nat /\ j + (n - j) = n /\ n - j \in 0 .. 2 * W + 1
  BY <1>1, <1>4
<1>6. 2^n = 2^j * 2^(n - j)
  BY <1>4, <1>5, PowerSum
<1>7. 2^(n - j) \in Nat
  BY <1>5, PowerType
<1> QED BY <1>3, <1>6, <1>7

LEMMA ShiftAmount ==
  ASSUME NEW v \in Int, NEW n \in {W, 2 * W}
  PROVE  /\ v % n \in 0 .. n - 1 /\ Unsigned(v, n) % n = v % n
         /\ 2^(v % n) \in Nat /\ 2^(v % n) >= 1
<1>1. n \in Nat /\ n >= 1 /\ n \in 1 .. 2 * W /\ n - 1 \in 0 .. 2 * W /\ W \in Nat
  BY Widths
<1>2. PICK m \in Nat : 2^n = n * m
  BY WidthIsPower
<1>3. Unsigned(v, n) \in Int /\ Congruent(Unsigned(v, n), v, n * m)
  <2>1. Unsigned(v, n) \in 0 .. 2^n - 1 /\ Congruent(Unsigned(v, n), v, 2^n) /\ 2^n \in Nat
    BY <1>1, UnsignedIs, PowerHalf
  <2> QED BY <1>2, <2>1
<1>4. Congruent(Unsigned(v, n), v, n)
  <2> DEFINE u == Unsigned(v, n)
  <2> HIDE DEF u
  <2>1. u \in Int /\ Congruent(u, v, n * m) /\ n \in Int /\ m \in Int
    BY <1>1, <1>3 DEF u
  <2>2. Congruent(u, v, n)
    BY <2>1, CongruentLess
  <2> QED BY <2>2 DEF u
<1>5. Unsigned(v, n) % n = v % n
  BY <1>1, <1>3, <1>4, CongruentMod
<1>6. v % n \in 0 .. n - 1
  BY <1>1, Division
<1>7. v % n \in 0 .. 2 * W + 1
  <2> DEFINE r == v % n
  <2> HIDE DEF r
  <2>1. r \in 0 .. n - 1
    BY <1>6 DEF r
  <2>2. r \in 0 .. 2 * W + 1
    BY <1>1, <2>1
  <2> QED BY <2>2 DEF r
<1> QED BY <1>5, <1>6, <1>7, PowerType

(* The compressed shifts take the amount with the sign of its bit 5.       *)
LEMMA ShiftWraps ==
  ASSUME NEW v \in Int, NEW n \in {W, 2 * W} PROVE (v - 64) % n = v % n
<1>1. W \in {4, 8, 16, 32}
  BY WordAssumption
<1>2. n \in Nat /\ n >= 1 /\ \E q \in Int : 64 = q * n
  <2>1. n \in {4, 8, 16, 32, 64}
    BY <1>1
  <2>2. 64 = 16 * 4 /\ 64 = 8 * 8 /\ 64 = 4 * 16 /\ 64 = 2 * 32 /\ 64 = 1 * 64
    OBVIOUS
  <2> QED BY <2>1, <2>2
<1>3. PICK q \in Int : 64 = q * n
  BY <1>2
<1>4. -q \in Int /\ v - 64 = v + (-q) * n
  BY <1>2, <1>3
<1>5. Congruent(v - 64, v, n)
  BY <1>4 DEF Congruent
<1> QED BY <1>2, <1>5, CongruentMod

LEMMA ShiftFits ==
  ASSUME NEW H \in Nat, NEW s \in Int, -H <= s, s < H, NEW K \in Nat, K >= 1
  PROVE  s \div K \in Int /\ -H <= s \div K /\ s \div K < H
<1> DEFINE d == s \div K
           r == s % K
<1>1. d \in Int /\ r \in 0 .. K - 1 /\ s = K * d + r
  BY Division
<1> HIDE DEF d, r
<1>2. -H <= d
  <2> SUFFICES ASSUME d <= -H - 1 PROVE FALSE
    BY <1>1
  <2>1. K * d <= K * (-H - 1)
    BY <1>1
  <2>2. K * (-H - 1) = -(K * H) - K /\ K * H >= H
    OBVIOUS
  <2> QED BY <1>1, <2>1, <2>2
<1>3. d < H
  <2> SUFFICES ASSUME d >= H PROVE FALSE
    BY <1>1
  <2>1. K * d >= d
    BY <1>1
  <2> QED BY <1>1, <2>1
<1> QED BY <1>1, <1>2, <1>3 DEF d

(* The target of a jump through a register, whose lowest bit is cleared.   *)
LEMMA EvenSame ==
  ASSUME NEW x \in Int, NEW n \in 1 .. 2 * W
  PROVE  /\ 2 * (x \div 2) \in Int /\ 2 * (Unsigned(x, n) \div 2) \in Int
         /\ Congruent(2 * (x \div 2), 2 * (Unsigned(x, n) \div 2), 2^n)
<1> DEFINE P == 2^n
           H == 2^(n - 1)
           u == Unsigned(x, n)
<1>1. P = 2 * H /\ H \in Nat /\ P \in Nat
  BY PowerHalf
<1>2. u \in Int /\ Congruent(u, x, P)
  BY <1>1, UnsignedIs
<1> HIDE DEF P, H, u
<1>3. PICK q \in Int : u = x + q * P
  BY <1>2 DEF Congruent
<1>4. u = x + (q * H) * 2 /\ q * H \in Int
  BY <1>1, <1>2, <1>3
<1>5. u \div 2 = (x \div 2) + q * H
  <2> DEFINE p == q * H
  <2> HIDE DEF p
  <2>1. p \in Int /\ u = x + p * 2
    BY <1>4 DEF p
  <2>2. (x + p * 2) \div 2 = (x \div 2) + p
    BY <2>1
  <2> QED BY <2>1, <2>2 DEF p
<1>6. x \div 2 \in Int /\ u \div 2 \in Int
  BY <1>2
<1> DEFINE d == x \div 2
           e == u \div 2
<1> HIDE DEF d, e
<1>7. d \in Int /\ e \in Int /\ e = d + q * H
  BY <1>5, <1>6 DEF d, e
<1>8. 2 * d \in Int /\ 2 * e \in Int /\ -q \in Int /\ 2 * d = 2 * e + (-q) * P
  BY <1>1, <1>3, <1>7
<1>9. Congruent(2 * d, 2 * e, P)
  BY <1>8 DEF Congruent
<1> QED BY <1>8, <1>9 DEF d, e, u, P

(* The lower half of a doubleword is that of the number it holds.          *)
LEMMA LowerHalf ==
  ASSUME NEW v \in Int, NEW t
  PROVE  /\ Unsigned(Unsigned(v, XLEN(t)), W) = Unsigned(v, W)
         /\ Signed(Unsigned(v, XLEN(t)), W) = Signed(v, W)
         /\ Unsigned(v, XLEN(t)) \in Int /\ Congruent(Unsigned(v, XLEN(t)), v, 2^W)
<1> DEFINE n == XLEN(t)
           u == Unsigned(v, n)
           P == 2^W
<1>1. n \in {W, 2 * W} /\ W \in Nat /\ W \in 1 .. 2 * W /\ n \in 1 .. 2 * W /\ P \in Nat /\ 2^n \in Nat
  BY Widths, PowerHalf
<1>2. u \in Int /\ Congruent(u, v, 2^n)
  <2> HIDE DEF n
  <2>1. u \in 0 .. 2^n - 1 /\ Congruent(u, v, 2^n)
    BY <1>1, UnsignedIs
  <2> QED BY <1>1, <2>1
<1>3. Congruent(u, v, P)
  <2>1. CASE n = W
    BY <1>2, <2>1
  <2>2. CASE n = 2 * W
    <3>1. W + W = 2 * W
      BY <1>1
    <3>2. 2^(W + W) = P * P
      BY <1>1, PowerSum
    <3>3. Congruent(u, v, P * P)
      BY <1>2, <2>2, <3>1, <3>2
    <3> HIDE DEF P, u
    <3>4. P \in Int
      BY <1>1
    <3> QED BY <1>2, <3>3, <3>4, CongruentLess
  <2> QED BY <1>1, <2>1, <2>2
<1> HIDE DEF u
<1> QED BY <1>1, <1>2, <1>3, UnsignedSame DEF u
=============================================================================
