--------------------------- MODULE DecoderProofs ---------------------------
(***************************************************************************)
(* The decoder is the inverse of the manual's assembler, for every         *)
(* instruction, register and immediate: what the invariant                 *)
(* DecodesAsAssembled says, which TLC checks on one bit of each field at a *)
(* time.                                                                   *)
(*                                                                         *)
(* First, what a field of a word that Holds a number is read as (PartIs,   *)
(* FieldIs), with the sign (FillIs); then the 32-bit instructions, by      *)
(* format (Decodes32); then the compressed ones, by immediate (Imm_C_...), *)
(* by shape of the word (Shape_...) and by instruction (Decodes_C_...).    *)
(***************************************************************************)
EXTENDS IsaSpec, WordProofs

----------------------------------------------------------------------------
(* Bits of a number                                                        *)

LEMMA Powers ==
  /\ 2^0 = 1 /\ 2^1 = 2 /\ 2^2 = 4 /\ 2^3 = 8 /\ 2^4 = 16 /\ 2^5 = 32 /\ 2^6 = 64 /\ 2^7 = 128
  /\ 2^8 = 256 /\ 2^9 = 512 /\ 2^10 = 1024 /\ 2^11 = 2048 /\ 2^12 = 4096 /\ 2^13 = 8192
  /\ 2^14 = 16384 /\ 2^15 = 32768 /\ 2^16 = 65536 /\ 2^17 = 131072 /\ 2^18 = 262144
  /\ 2^19 = 524288 /\ 2^20 = 1048576 /\ 2^21 = 2097152
<1>1. \A k \in 0 .. 20 : 2^(k + 1) = 2 * 2^k
  BY PowersOfTwo
<1>2. /\ 2^0 = 1 /\ 2^1 = 2 /\ 2^2 = 4 /\ 2^3 = 8 /\ 2^4 = 16 /\ 2^5 = 32
  <2>1. 2^0 = 1 /\ 2^(0 + 1) = 2 * 2^0 /\ 2^(1 + 1) = 2 * 2^1 /\ 2^(2 + 1) = 2 * 2^2
        /\ 2^(3 + 1) = 2 * 2^3 /\ 2^(4 + 1) = 2 * 2^4
    BY <1>1, PowersOfTwo
  <2> QED BY <2>1
<1>3. /\ 2^6 = 64 /\ 2^7 = 128 /\ 2^8 = 256 /\ 2^9 = 512 /\ 2^10 = 1024
  <2>1. 2^(5 + 1) = 2 * 2^5 /\ 2^(6 + 1) = 2 * 2^6 /\ 2^(7 + 1) = 2 * 2^7 /\ 2^(8 + 1) = 2 * 2^8
        /\ 2^(9 + 1) = 2 * 2^9
    BY <1>1
  <2> QED BY <1>2, <2>1
<1>4. /\ 2^11 = 2048 /\ 2^12 = 4096 /\ 2^13 = 8192 /\ 2^14 = 16384 /\ 2^15 = 32768
  <2>1. 2^(10 + 1) = 2 * 2^10 /\ 2^(11 + 1) = 2 * 2^11 /\ 2^(12 + 1) = 2 * 2^12
        /\ 2^(13 + 1) = 2 * 2^13 /\ 2^(14 + 1) = 2 * 2^14
    BY <1>1
  <2> QED BY <1>3, <2>1
<1>5. /\ 2^16 = 65536 /\ 2^17 = 131072 /\ 2^18 = 262144 /\ 2^19 = 524288 /\ 2^20 = 1048576
      /\ 2^21 = 2097152
  <2>1. 2^(15 + 1) = 2 * 2^15 /\ 2^(16 + 1) = 2 * 2^16 /\ 2^(17 + 1) = 2 * 2^17
        /\ 2^(18 + 1) = 2 * 2^18 /\ 2^(19 + 1) = 2 * 2^19 /\ 2^(20 + 1) = 2 * 2^20
    BY <1>1
  <2> QED BY <1>4, <2>1
<1> QED BY <1>2, <1>3, <1>4, <1>5

LEMMA SmallPower ==
  ASSUME NEW k \in 0 .. 21 PROVE 2^k \in Nat /\ 2^k >= 1
<1> DEFINE S == {j \in 0 .. 21 : 2^j \in Nat /\ 2^j >= 1}
<1>1. 0 \in S
  BY PowersOfTwo
<1>2. ASSUME NEW j \in 0 .. 20, j \in S PROVE j + 1 \in S
  <2>1. 2^(j + 1) = 2 * 2^j
    BY PowersOfTwo
  <2> QED BY <1>2, <2>1
<1>3. \A j \in 0 .. 21 : j \in S
  <2> HIDE DEF S
  <2>1. \A j \in 0 .. 21 - 1 : j \in S => j + 1 \in S
    BY <1>2
  <2> QED BY <1>1, <2>1, Induction
<1> QED BY <1>3

LEMMA SmallPowerSum ==
  ASSUME NEW a \in Nat, NEW b \in Nat, a + b <= 21
  PROVE  2^(a + b) = 2^b * 2^a
<1> DEFINE S == {j \in 0 .. b : 2^(a + j) = 2^j * 2^a}
<1>1. 0 \in S
  <2>1. a + 0 = a /\ a \in 0 .. 21 /\ 2^0 = 1
    BY PowersOfTwo
  <2>2. 2^a \in Nat
    BY <2>1, SmallPower
  <2> QED BY <2>1, <2>2
<1>2. ASSUME NEW j \in 0 .. b - 1, j \in S PROVE j + 1 \in S
  <2>1. j \in 0 .. 20 /\ a + j \in 0 .. 20 /\ (a + j) + 1 = a + (j + 1) /\ a \in 0 .. 21
        /\ j \in 0 .. 21
    OBVIOUS
  <2>2. 2^(j + 1) = 2 * 2^j /\ 2^((a + j) + 1) = 2 * 2^(a + j)
    BY <2>1, PowersOfTwo
  <2>3. 2^j \in Nat /\ 2^a \in Nat
    BY <2>1, SmallPower
  <2>4. 2^(a + j) = 2^j * 2^a
    BY <1>2
  <2>5. 2^(a + (j + 1)) = 2^(j + 1) * 2^a
    BY <2>1, <2>2, <2>3, <2>4
  <2> QED BY <2>5
<1>3. \A j \in 0 .. b : j \in S
  <2> HIDE DEF S
  <2> QED BY <1>1, <1>2, Induction
<1> QED BY <1>3

(* Bits a to a + n - 1 of v, in their place.                               *)
LEMMA PieceIs ==
  ASSUME NEW v \in Int, NEW A \in Nat, NEW B \in Nat, A >= 1, B >= 1
  PROVE  ((v \div A) % B) * A = (v % (A * B)) - (v % A)
<1> DEFINE q == v \div A
           r == v % A
           p == q \div B
           s == q % B
<1>1. q \in Int /\ r \in 0 .. A - 1 /\ v = A * q + r
  BY Division
<1> HIDE DEF q, r
<1>2. p \in Int /\ s \in 0 .. B - 1 /\ q = B * p + s
  BY <1>1, Division
<1> HIDE DEF p, s
<1>3. v = (A * B) * p + (A * s + r)
  BY <1>1, <1>2
<1>4. A * s <= A * (B - 1)
  BY <1>2
<1>5. A * s + r \in 0 .. A * B - 1 /\ A * B \in Nat /\ A * B >= 1
  <2>1. A * s >= 0 /\ A * s \in Int /\ A * (B - 1) = A * B - A /\ A * B \in Nat
    BY <1>2
  <2>2. A * B >= 1
    BY <2>1
  <2> QED BY <1>1, <1>4, <2>1, <2>2
<1>6. v % (A * B) = A * s + r
  <2> DEFINE M == A * B
             z == A * s + r
  <2>1. M \in Nat /\ M >= 1 /\ z \in 0 .. M - 1 /\ v = M * p + z
    BY <1>3, <1>5
  <2> HIDE DEF M, z
  <2>2. v % M = z
    BY <1>2, <2>1, DivisionUnique
  <2> QED BY <2>2 DEF M, z
<1>7. s * A = A * s
  BY <1>2
<1> QED BY <1>6, <1>7, <1>1, <1>2 DEF q, r, s

(* The number with the bits of v from bit "from" on, in their place.       *)
LEMMA NumberIs ==
  ASSUME NEW v \in Int, NEW from \in Nat, NEW n \in Nat, from + n <= 21,
         NEW bits, \A k \in 0 .. n - 1 : k \in bits <=> Bit(v, from + k)
  PROVE  Number(bits, n) \in Nat /\ Number(bits, n) * 2^from = (v % 2^(from + n)) - (v % 2^from)
<1> DEFINE f == [k \in 0 .. n - 1 |-> IF k \in bits THEN 2^k ELSE 0]
           A == 2^from
           S == {k \in 0 .. n : Total(f, k) \in Nat /\ Total(f, k) * A = (v % 2^(from + k)) - (v % A)}
<1>1. A \in Nat /\ A >= 1
  <2>1. from \in 0 .. 21
    OBVIOUS
  <2> QED BY <2>1, SmallPower
<1>2. 0 \in S
  <2>1. from + 0 = from /\ v % A \in Int
    BY <1>1, Division
  <2> HIDE DEF A
  <2>2. 2^(from + 0) = A
    BY <2>1 DEF A
  <2> QED BY <1>1, <2>1, <2>2, TotalZero
<1>3. ASSUME NEW k \in 0 .. n - 1, k \in S PROVE k + 1 \in S
  <2> DEFINE P == 2^k
             b == (v \div 2^(from + k)) % 2
             Q == 2^(from + k)
  <2>1. P \in Nat /\ Q \in Nat /\ Q >= 1 /\ 2^(from + (k + 1)) = 2 * Q
    <3>1. (from + k) + 1 = from + (k + 1) /\ from + k \in 0 .. 20 /\ k \in 0 .. 21
          /\ from + k \in 0 .. 21
      OBVIOUS
    <3>2. 2^((from + k) + 1) = 2 * 2^(from + k)
      BY <3>1, PowersOfTwo
    <3>3. P \in Nat /\ Q \in Nat /\ Q >= 1
      BY <3>1, SmallPower
    <3> QED BY <3>1, <3>2, <3>3
  <2>2. b * Q = (v % (Q * 2)) - (v % Q) /\ b \in 0 .. 1
    <3> HIDE DEF Q
    <3>1. v \div Q \in Int
      BY <2>1, Division
    <3>2. (v \div Q) % 2 \in 0 .. 1
      BY <3>1
    <3>3. ((v \div Q) % 2) * Q = (v % (Q * 2)) - (v % Q)
      <4> DEFINE B == 2
      <4>1. B \in Nat /\ B >= 1
        OBVIOUS
      <4> HIDE DEF B
      <4>2. ((v \div Q) % B) * Q = (v % (Q * B)) - (v % Q)
        BY <2>1, <4>1, PieceIs
      <4> QED BY <4>2 DEF B
    <3> QED BY <3>2, <3>3 DEF Q
  <2>3. Q = P * A
    BY <1>1, <2>1, SmallPowerSum
  <2>4. f[k] = b * P
    <3>1. f[k] = IF b = 1 THEN P ELSE 0
      BY DEF Bit
    <3> HIDE DEF b, P, f
    <3> QED BY <2>1, <2>2, <3>1
  <2>5. Total(f, k + 1) = Total(f, k) + f[k]
    <3>1. k \in Nat
      OBVIOUS
    <3> HIDE DEF f
    <3> QED BY <3>1, TotalNext
  <2>6. v % Q \in Int /\ v % (Q * 2) \in Int /\ v % A \in Int
    <3> HIDE DEF Q, A
    <3>1. Q * 2 \in Nat /\ Q * 2 >= 1
      BY <2>1
    <3> QED BY <1>1, <2>1, <3>1, Division
  <2>7. Total(f, k) \in Nat /\ Total(f, k) * A = (v % Q) - (v % A)
    BY <1>3
  <2> DEFINE T == Total(f, k)
             U == Total(f, k + 1)
             x == v % Q
             y == v % (Q * 2)
             z == v % A
  <2>8. y = v % 2^(from + (k + 1))
    <3> HIDE DEF Q
    <3>1. Q * 2 = 2 * Q
      BY <2>1
    <3> QED BY <2>1, <3>1
  <2>9. U = T + b * P
    BY <2>4, <2>5
  <2> HIDE DEF T, U, x, y, z, b, P, Q, A
  <2>10. b * Q = y - x /\ T \in Nat /\ T * A = x - z /\ x \in Int /\ y \in Int /\ z \in Int /\ b \in 0 .. 1
    BY <2>2, <2>6, <2>7 DEF T, x, y, z
  <2>11. b * P \in Nat /\ (b * P) * A = b * Q
    BY <1>1, <2>1, <2>3, <2>10
  <2>12. U \in Nat /\ U * A = T * A + (b * P) * A
    BY <1>1, <2>9, <2>10, <2>11
  <2>13. U * A = y - z
    BY <2>10, <2>11, <2>12
  <2> QED BY <2>8, <2>12, <2>13 DEF U, z
<1>4. \A k \in 0 .. n : k \in S
  <2> HIDE DEF S
  <2> QED BY <1>2, <1>3, Induction
<1>5. n \in S
  BY <1>4
<1> QED BY <1>5 DEF Number

----------------------------------------------------------------------------
(* Fields of a word                                                        *)

(* Bits hi .. lo of word w are those of v, from its bit "from" on.         *)
Holds(w, hi, lo, v, from) ==
  w \subseteq Int /\ \A k \in lo .. hi : k \in w <=> Bit(v, from + (k - lo))

LEMMA LowBits ==
  ASSUME NEW v \in Int, NEW n \in 0 .. 21
  PROVE  /\ Unsigned(v, n) \in Nat /\ Unsigned(v, n) < 2^n
         /\ 0 <= v /\ v < 2^n => Unsigned(v, n) = v
<1> DEFINE N == 2^n
<1>1. N \in Nat /\ N >= 1
  BY SmallPower
<1> HIDE DEF N
<1>2. v % N \in 0 .. N - 1
  BY <1>1, Division
<1>3. 0 <= v /\ v < N => v % N = v
  BY <1>1
<1> QED BY <1>1, <1>2, <1>3 DEF Unsigned, N

LEMMA LowestBits ==
  ASSUME NEW v \in Int
  PROVE  Unsigned(v, 0) = 0 /\ Unsigned(v, 1) = v % 2 /\ Unsigned(v, 2) = v % 4
         /\ Unsigned(v, 3) = v % 8 /\ Unsigned(v, 4) = v % 16
<1>1. v % 1 = 0
  OBVIOUS
<1>2. 2^0 = 1 /\ 2^1 = 2 /\ 2^2 = 4 /\ 2^3 = 8 /\ 2^4 = 16
  BY Powers
<1> QED BY <1>1, <1>2 DEF Unsigned

(* What a getter makes of a field.                                         *)
LEMMA PartIs ==
  ASSUME NEW w, NEW hi \in Nat, NEW lo \in Nat, lo <= hi, NEW v \in Int, NEW from \in Nat,
         NEW to \in 0 .. 21, to = from + (hi - lo + 1), Holds(w, hi, lo, v, from)
  PROVE  Part(w, hi, lo, from) = Unsigned(v, to) - Unsigned(v, from)
<1> DEFINE n == hi - lo + 1
           bits == {k - lo : k \in {b \in w : lo <= b /\ b <= hi}}
<1>1. n \in Nat /\ from + n <= 21 /\ w \subseteq Int /\ to = from + n
  BY DEF Holds
<1>2. ASSUME NEW k \in 0 .. n - 1 PROVE k \in bits <=> Bit(v, from + k)
  <2>1. k + lo \in lo .. hi /\ (k + lo) - lo = k /\ \A b \in w : b - lo = k => b = k + lo
    BY <1>1
  <2>2. k + lo \in w <=> Bit(v, from + k)
    BY <2>1 DEF Holds
  <2>3. k \in bits <=> k + lo \in w
    BY <1>1, <2>1
  <2> QED BY <2>2, <2>3
<1>3. range(w, hi, lo) = Number(bits, n)
  BY DEF range
<1> HIDE DEF n, bits
<1>4. Number(bits, n) * 2^from = (v % 2^(from + n)) - (v % 2^from)
  BY <1>1, <1>2, NumberIs
<1> QED BY <1>1, <1>3, <1>4 DEF Part, Unsigned

LEMMA SmallNumberType ==
  ASSUME NEW bits, NEW n \in 0 .. 21 PROVE Number(bits, n) \in Nat
<1> DEFINE f == [k \in 0 .. n - 1 |-> IF k \in bits THEN 2^k ELSE 0]
           S == {k \in 0 .. n : Total(f, k) \in Nat}
<1>1. 0 \in S
  BY TotalZero
<1>2. ASSUME NEW k \in 0 .. n - 1, k \in S PROVE k + 1 \in S
  <2>1. Total(f, k + 1) = Total(f, k) + f[k]
    <3>1. k \in Nat
      OBVIOUS
    <3> HIDE DEF f
    <3> QED BY <3>1, TotalNext
  <2>2. 2^k \in Nat
    <3>1. k \in 0 .. 21
      OBVIOUS
    <3> QED BY <3>1, SmallPower
  <2>3. f[k] \in Nat
    BY <2>2
  <2> HIDE DEF f
  <2> QED BY <1>2, <2>1, <2>3
<1>3. \A k \in 0 .. n : k \in S
  <2> HIDE DEF S
  <2> QED BY <1>1, <1>2, Induction
<1> QED BY <1>3 DEF Number

LEMMA RangeType ==
  ASSUME NEW w, NEW hi \in Nat, NEW lo \in Nat, hi - lo + 1 \in 0 .. 21
  PROVE  range(w, hi, lo) \in Nat /\ Part(w, hi, lo, 0) = range(w, hi, lo)
<1> DEFINE r == range(w, hi, lo)
<1>1. r \in Nat
  BY SmallNumberType DEF range
<1>2. 2^0 = 1
  BY Powers
<1>3. Part(w, hi, lo, 0) = r * 2^0
  BY DEF Part
<1> HIDE DEF r
<1>4. r * 1 = r
  BY <1>1
<1> QED BY <1>1, <1>2, <1>3, <1>4 DEF r

LEMMA RangeIs ==
  ASSUME NEW w, NEW hi \in Nat, NEW lo \in Nat, lo <= hi, NEW v \in Int,
         NEW n \in 0 .. 21, n = hi - lo + 1, Holds(w, hi, lo, v, 0)
  PROVE  range(w, hi, lo) = Unsigned(v, n)
<1> DEFINE r == range(w, hi, lo)
           p == Part(w, hi, lo, 0)
           u == Unsigned(v, n)
           z == Unsigned(v, 0)
<1>1. n = 0 + (hi - lo + 1)
  OBVIOUS
<1>2. p = u - z
  BY <1>1, PartIs
<1>3. r \in Nat /\ p = r
  BY RangeType
<1>4. u \in Nat /\ z = 0
  BY LowBits, LowestBits
<1> HIDE DEF r, p, u, z
<1>5. r = u
  BY <1>2, <1>3, <1>4
<1> QED BY <1>5 DEF r, u

(* A value that fits into the field is read as it is.                      *)
LEMMA FieldIs ==
  ASSUME NEW w, NEW hi \in Nat, NEW lo \in Nat, lo <= hi, NEW v \in Int,
         NEW n \in 0 .. 21, n = hi - lo + 1, Holds(w, hi, lo, v, 0), 0 <= v, v < 2^n
  PROVE  range(w, hi, lo) = v
<1>1. range(w, hi, lo) = Unsigned(v, n)
  BY RangeIs
<1>2. Unsigned(v, n) = v
  BY LowBits
<1> QED BY <1>1, <1>2

(* A part of a field.                                                      *)
LEMMA SubField ==
  ASSUME NEW w, NEW hi \in Nat, NEW lo \in Nat, NEW v, NEW from \in Nat, Holds(w, hi, lo, v, from),
         NEW h \in Nat, NEW l \in Nat, lo <= l, h <= hi
  PROVE  Holds(w, h, l, v, from + (l - lo))
<1> SUFFICES ASSUME NEW k \in l .. h
             PROVE  k \in w <=> Bit(v, (from + (l - lo)) + (k - l))
  BY DEF Holds
<1>1. k \in lo .. hi /\ (from + (l - lo)) + (k - l) = from + (k - lo)
  OBVIOUS
<1> QED BY <1>1 DEF Holds

(* The sign and the fill of an immediate of n bits.                        *)
LEMMA SignIs ==
  ASSUME NEW v \in Int, NEW k \in 0 .. 20, -(2^k) <= v, v < 2^k, NEW n, n = k + 1,
         NEW from, from = k \/ from = n
  PROVE  v = IF Bit(v, k) THEN (Unsigned(v, n) % 2^from) - 2^from ELSE Unsigned(v, n)
<1> DEFINE H == 2^k
           F == 2^from
           N == 2^n
<1>1. H \in Nat /\ H >= 1 /\ N = 2 * H /\ F \in {H, N}
  <2>1. k \in 0 .. 21
    OBVIOUS
  <2>2. 2^n = 2 * 2^k
    BY PowersOfTwo
  <2> QED BY <2>1, <2>2, SmallPower
<1>2. (Bit(v, k) <=> (v \div H) % 2 = 1) /\ -H <= v /\ v < H /\ Unsigned(v, n) = v % N
  BY DEF Bit, Unsigned
<1> HIDE DEF H, N, F
<1>3. SUFFICES v = IF (v \div H) % 2 = 1 THEN ((v % N) % F) - F ELSE v % N
  BY <1>2 DEF F
<1>4. CASE v >= 0
  <2>1. v = H * 0 + v /\ v \in 0 .. H - 1 /\ 0 \in Int
    BY <1>1, <1>2, <1>4
  <2>2. v \div H = 0
    BY <1>1, <2>1, DivisionUnique
  <2>3. v % N = v
    BY <1>1, <1>2, <1>4
  <2> QED BY <2>2, <2>3
<1>5. CASE v < 0
  <2> DEFINE one == 1
             minus == -1
  <2>1. /\ v = H * minus + (v + H) /\ v + H \in 0 .. H - 1
        /\ v = N * minus + (v + N) /\ v + N \in 0 .. N - 1
        /\ minus \in Int /\ one \in Int /\ v + N = H * one + (v + H) /\ v + N \in Int
        /\ N \in Nat /\ N >= 1
    BY <1>1, <1>2, <1>5
  <2>2. minus % 2 = 1
    <3> DEFINE two == 2
    <3>1. two \in Nat /\ two >= 1 /\ one \in 0 .. two - 1 /\ minus = two * minus + one
      OBVIOUS
    <3> HIDE DEF two, one, minus
    <3>2. minus % two = one
      BY <2>1, <3>1, DivisionUnique
    <3> QED BY <3>2 DEF two, one
  <2> HIDE DEF one, minus
  <2>3. v \div H = minus
    <3> DEFINE r == v + H
    <3>1. r \in 0 .. H - 1 /\ v = H * minus + r
      BY <2>1
    <3> HIDE DEF r
    <3> QED BY <1>1, <2>1, <3>1, DivisionUnique
  <2>4. v % N = v + N
    <3> DEFINE r == v + N
    <3>1. r \in 0 .. N - 1 /\ v = N * minus + r
      BY <2>1
    <3> HIDE DEF r
    <3>2. v % N = r
      BY <2>1, <3>1, DivisionUnique
    <3> QED BY <3>2 DEF r
  <2>5. (v \div H) % 2 = 1
    BY <2>2, <2>3
  <2>6. (v + N) % F = v + F
    <3>1. (v + N) % H = v + H
      <4> DEFINE r == v + H
                 s == v + N
      <4>1. r \in 0 .. H - 1 /\ s = H * one + r /\ s \in Int
        BY <2>1
      <4> HIDE DEF r, s
      <4>2. s % H = r
        BY <1>1, <2>1, <4>1, DivisionUnique
      <4> QED BY <4>2 DEF r, s
    <3>2. (v + N) % N = v + N
      BY <2>1
    <3> QED BY <1>1, <3>1, <3>2
  <2>7. (v + F) - F = v
    BY <1>1, <2>1
  <2> QED BY <2>4, <2>5, <2>6, <2>7
<1> QED BY <1>4, <1>5

LEMMA FillIs ==
  ASSUME NEW v \in Int, NEW k \in 0 .. 20, -(2^k) <= v, v < 2^k, NEW n, n = k + 1,
         NEW from, from = k \/ from = n
  PROVE  Fill(Unsigned(v, n), from, Bit(v, k)) = v
BY SignIs DEF Fill

(* A field is zero when none of its bits is set.                           *)
LEMMA NonzeroRange ==
  ASSUME NEW w, NEW hi \in Nat, NEW lo \in Nat, hi - lo + 1 \in 0 .. 21, NEW b \in lo .. hi, b \in w
  PROVE  range(w, hi, lo) # 0
<1> DEFINE n == hi - lo + 1
           bits == {k - lo : k \in {k \in w : lo <= k /\ k <= hi}}
           f == [k \in 0 .. n - 1 |-> IF k \in bits THEN 2^k ELSE 0]
           S == {k \in 0 .. n : Total(f, k) \in Nat /\ (k > b - lo => Total(f, k) >= 1)}
<1>1. b - lo \in 0 .. n - 1 /\ b - lo \in bits /\ n \in 0 .. 21
  OBVIOUS
<1>2. range(w, hi, lo) = Total(f, n)
  BY DEF range, Number
<1> HIDE DEF n, bits
<1>3. 0 \in S
  BY <1>1, TotalZero
<1>4. ASSUME NEW k \in 0 .. n - 1, k \in S PROVE k + 1 \in S
  <2>1. Total(f, k + 1) = Total(f, k) + f[k]
    <3>1. k \in Nat
      BY <1>1
    <3> HIDE DEF f
    <3> QED BY <3>1, TotalNext
  <2> DEFINE P == 2^k
  <2>2. P \in Nat /\ P >= 1
    <3>1. k \in 0 .. 21
      BY <1>1
    <3> QED BY <3>1, SmallPower
  <2>3. f[k] \in Nat /\ (k = b - lo => f[k] >= 1)
    <3>1. f[k] = IF k \in bits THEN P ELSE 0
      OBVIOUS
    <3> HIDE DEF f, P
    <3> QED BY <1>1, <2>2, <3>1
  <2> HIDE DEF f
  <2>4. Total(f, k) \in Nat /\ (k > b - lo => Total(f, k) >= 1)
    BY <1>4
  <2>5. Total(f, k + 1) \in Nat /\ (k + 1 > b - lo => Total(f, k + 1) >= 1)
    BY <1>1, <2>1, <2>3, <2>4
  <2> QED BY <1>1, <2>5
<1>5. \A k \in 0 .. n : k \in S
  <2> HIDE DEF S
  <2> QED BY <1>1, <1>3, <1>4, Induction
<1>6. n \in S
  BY <1>1, <1>5
<1>7. Total(f, n) >= 1
  BY <1>1, <1>6
<1> QED BY <1>2, <1>6, <1>7

LEMMA RangeNonzero ==
  ASSUME NEW w, w \subseteq Int, NEW hi \in Nat, NEW lo \in Nat, lo <= hi, hi - lo + 1 \in 0 .. 21,
         range(w, hi, lo) # 0
  PROVE  \E b \in lo .. hi : b \in w
<1> SUFFICES ASSUME \A b \in lo .. hi : b \notin w PROVE FALSE
  OBVIOUS
<1> DEFINE n == hi - lo + 1
           zero == 0
<1>1. ASSUME NEW k \in 0 .. 20 PROVE ~Bit(zero, k)
  <2>1. 2^k \in Nat /\ 2^k >= 1
    <3>1. k \in 0 .. 21
      OBVIOUS
    <3> QED BY <3>1, SmallPower
  <2> DEFINE P == 2^k
  <2>2. P \in Nat /\ P >= 1
    BY <2>1
  <2>3. Bit(zero, k) <=> (0 \div P) % 2 = 1
    BY DEF Bit
  <2> HIDE DEF P, zero
  <2>4. 0 \div P = 0
    BY <2>2
  <2> QED BY <2>3, <2>4
<1>2. \A k \in lo .. hi : 0 + (k - lo) \in 0 .. 20
  OBVIOUS
<1>3. Holds(w, hi, lo, zero, 0)
  <2>1. ASSUME NEW k \in lo .. hi PROVE ~Bit(zero, 0 + (k - lo))
    <3> HIDE DEF zero
    <3> QED BY <1>1, <1>2
  <2> HIDE DEF zero
  <2> QED BY <2>1 DEF Holds
<1>4. zero \in Int /\ 0 <= zero /\ zero < 2^n /\ n \in 0 .. 21
  <2>1. n \in 0 .. 21
    OBVIOUS
  <2> HIDE DEF n
  <2>2. 2^n \in Nat /\ 2^n >= 1
    BY <2>1, SmallPower
  <2> QED BY <2>1, <2>2
<1>5. range(w, hi, lo) = zero
  <2> HIDE DEF zero
  <2> QED BY <1>3, <1>4, FieldIs
<1> QED BY <1>5

(* The low bits of a word are all ones in a 32-bit instruction only.       *)
LEMMA OpcodeIsNot32 ==
  ASSUME NEW w, 0 \notin w \/ 1 \notin w
  PROVE  range(w, 6, 0) % 4 # 3
<1> DEFINE bits == {k - 0 : k \in {b \in w : 0 <= b /\ b <= 6}}
           f == [k \in 0 .. 6 |-> IF k \in bits THEN 2^k ELSE 0]
<1>1. range(w, 6, 0) = Total(f, 7)
  BY DEF range, Number
<1>2. (0 \in bits => 0 \in w) /\ (1 \in bits => 1 \in w)
  OBVIOUS
<1> HIDE DEF bits
<1>3. f[0] + f[1] \in 0 .. 2 /\ f[0] \in 0 .. 1 /\ f[1] \in 0 .. 2
  BY <1>2, Powers
<1>4. f[2] \in {0, 4} /\ f[3] \in {0, 8} /\ f[4] \in {0, 16} /\ f[5] \in {0, 32} /\ f[6] \in {0, 64}
  BY Powers
<1> HIDE DEF f
<1>5. Total(f, 4) = f[0] + f[1] + f[2] + f[3]
  BY <1>3, <1>4, TotalFour
<1>6. Total(f, 5) = Total(f, 4) + f[4]
  <2>1. Total(f, 4 + 1) = Total(f, 4) + f[4]
    BY TotalNext
  <2> QED BY <2>1
<1>7. Total(f, 6) = Total(f, 5) + f[5]
  <2>1. Total(f, 5 + 1) = Total(f, 5) + f[5]
    BY TotalNext
  <2> QED BY <2>1
<1>8. Total(f, 7) = Total(f, 6) + f[6]
  <2>1. Total(f, 6 + 1) = Total(f, 6) + f[6]
    BY TotalNext
  <2> QED BY <2>1
<1>9. Total(f, 7) = f[0] + f[1] + f[2] + f[3] + f[4] + f[5] + f[6]
  BY <1>3, <1>4, <1>5, <1>6, <1>7, <1>8
<1>10. Total(f, 7) % 4 # 3
  BY <1>3, <1>4, <1>9
<1> QED BY <1>1, <1>10

----------------------------------------------------------------------------
(* The fields of a 32-bit instruction                                      *)

RegisterOps == BaseOps \cup MulDivOps \cup AmoOps
NoRegisters == UpperOps \cup {"JAL"}

LEMMA Groups ==
  ASSUME NEW op
  PROVE  /\ op \in RegisterOps => op \notin StoreOps /\ op \notin BranchOps /\ op \notin UpperOps /\ op # "JAL"
                                  /\ op \notin ITypeOps /\ op \notin ShiftOps
         /\ op \in ITypeOps => op \notin RegisterOps /\ op \notin StoreOps /\ op \notin BranchOps
                               /\ op \notin UpperOps /\ op # "JAL" /\ op \notin ShiftOps
         /\ op \in ShiftOps => op \notin RegisterOps /\ op \notin StoreOps /\ op \notin BranchOps
                               /\ op \notin UpperOps /\ op # "JAL" /\ op \notin ITypeOps
         /\ op \in StoreOps => op \notin RegisterOps /\ op \notin BranchOps /\ op \notin UpperOps /\ op # "JAL"
                               /\ op \notin ITypeOps /\ op \notin ShiftOps
         /\ op \in BranchOps => op \notin RegisterOps /\ op \notin StoreOps /\ op \notin UpperOps /\ op # "JAL"
                                /\ op \notin ITypeOps /\ op \notin ShiftOps
         /\ op \in UpperOps => op # "JAL"
         /\ op \in Ops => \/ op \in RegisterOps \/ op \in ITypeOps \/ op \in ShiftOps \/ op \in StoreOps
                          \/ op \in BranchOps \/ op \in UpperOps \/ op = "JAL"
<1> USE DEF RegisterOps, BaseOps, MulDivOps, AmoOps, ITypeOps, ImmOps, ShiftOps,
            LoadOps, StoreOps, BranchOps, UpperOps
<1>1. op \in RegisterOps => op \notin StoreOps /\ op \notin BranchOps /\ op \notin UpperOps /\ op # "JAL"
                            /\ op \notin ITypeOps /\ op \notin ShiftOps
  OBVIOUS
<1>2. op \in ITypeOps => op \notin StoreOps /\ op \notin BranchOps /\ op \notin UpperOps /\ op # "JAL"
                         /\ op \notin ShiftOps
  OBVIOUS
<1>3. op \in ShiftOps => op \notin StoreOps /\ op \notin BranchOps /\ op \notin UpperOps /\ op # "JAL"
  OBVIOUS
<1>4. (op \in StoreOps => op \notin BranchOps /\ op \notin UpperOps /\ op # "JAL")
      /\ (op \in BranchOps => op \notin UpperOps /\ op # "JAL") /\ (op \in UpperOps => op # "JAL")
  OBVIOUS
<1>5. op \in Ops => \/ op \in RegisterOps \/ op \in ITypeOps \/ op \in ShiftOps \/ op \in StoreOps
                    \/ op \in BranchOps \/ op \in UpperOps \/ op = "JAL"
  BY DEF Ops, ComputeOps, JumpOps
<1> HIDE DEF RegisterOps, BaseOps, MulDivOps, AmoOps, ITypeOps, ImmOps, ShiftOps,
             LoadOps, StoreOps, BranchOps, UpperOps
<1> QED BY <1>1, <1>2, <1>3, <1>4, <1>5

LEMMA CodesFit ==
  ASSUME NEW op \in Ops
  PROVE  /\ Opcode(op) \in 0 .. 127 /\ Opcode(op) % 4 = 3
         /\ op \notin NoRegisters => Funct3(op) \in 0 .. 7
         /\ op \in RegisterOps => Funct7(op) \in 0 .. 127
         /\ Funct6(op) \in 0 .. 63
<1>1. Opcode(op) \in 0 .. 127 /\ Opcode(op) % 4 = 3
  BY DEF Opcode, Ops, ComputeOps, BaseOps, MulDivOps, AmoOps, ImmOps, ShiftOps, LoadOps, StoreOps,
         BranchOps, JumpOps, UpperOps, WordOps
<1>2. op \notin NoRegisters => Funct3(op) \in 0 .. 7
  BY DEF Funct3, Ops, ComputeOps, BaseOps, MulDivOps, AmoOps, ImmOps, ShiftOps, LoadOps, StoreOps,
         BranchOps, JumpOps, UpperOps, NoRegisters
<1>3. op \in RegisterOps => Funct7(op) \in 0 .. 127
  BY DEF Funct7, RegisterOps, BaseOps, MulDivOps, AmoOps
<1> QED BY <1>1, <1>2, <1>3 DEF Funct6

LEMMA Fields32 ==
  ASSUME NEW i, i.op \in Ops, NEW w, w = Assemble32(i)
  PROVE  /\ Holds(w, 6, 0, Opcode(i.op), 0)
         /\ i.op \notin NoRegisters => Holds(w, 14, 12, Funct3(i.op), 0) /\ Holds(w, 19, 15, i.rs1, 0)
         /\ i.op \notin StoreOps \cup BranchOps => Holds(w, 11, 7, i.rd, 0)
         /\ i.op \in RegisterOps \cup StoreOps \cup BranchOps => Holds(w, 24, 20, i.rs2, 0)
         /\ i.op \in RegisterOps => Holds(w, 31, 25, Funct7(i.op), 0)
         /\ i.op \in ShiftOps => Holds(w, 31, 26, Funct6(i.op), 0) /\ Holds(w, 25, 20, i.imm, 0)
         /\ i.op \in ITypeOps => Holds(w, 31, 20, i.imm, 0)
         /\ i.op \in StoreOps => Holds(w, 31, 25, i.imm, 5) /\ Holds(w, 11, 7, i.imm, 0)
         /\ i.op \in BranchOps => Holds(w, 31, 31, i.imm, 12) /\ Holds(w, 30, 25, i.imm, 5)
                                  /\ Holds(w, 11, 8, i.imm, 1) /\ Holds(w, 7, 7, i.imm, 11)
         /\ i.op \in UpperOps => Holds(w, 31, 12, i.imm, 0)
         /\ i.op = "JAL" => Holds(w, 31, 31, i.imm, 20) /\ Holds(w, 30, 21, i.imm, 1)
                            /\ Holds(w, 20, 20, i.imm, 11) /\ Holds(w, 19, 12, i.imm, 12)
<1> DEFINE opcode == Field(6, 0, Opcode(i.op), 0)
           funct3 == Field(14, 12, Funct3(i.op), 0)
           rd == Field(11, 7, i.rd, 0)
           rs1 == Field(19, 15, i.rs1, 0)
           rs2 == Field(24, 20, i.rs2, 0)
<1>1. CASE i.op \in RegisterOps
  <2>1. w = opcode \cup funct3 \cup rd \cup rs1 \cup rs2 \cup Field(31, 25, Funct7(i.op), 0)
    BY <1>1, Groups DEF Assemble32, RegisterOps
  <2>2. /\ Holds(w, 6, 0, Opcode(i.op), 0) /\ Holds(w, 14, 12, Funct3(i.op), 0)
        /\ Holds(w, 19, 15, i.rs1, 0) /\ Holds(w, 11, 7, i.rd, 0) /\ Holds(w, 24, 20, i.rs2, 0)
        /\ Holds(w, 31, 25, Funct7(i.op), 0)
    BY <2>1 DEF Holds, Field
  <2> QED BY <1>1, <2>2, Groups DEF NoRegisters
<1>2. CASE i.op \in ITypeOps
  <2>1. w = opcode \cup funct3 \cup rd \cup rs1 \cup Field(31, 20, i.imm, 0)
    BY <1>2, Groups DEF Assemble32, RegisterOps
  <2>2. /\ Holds(w, 6, 0, Opcode(i.op), 0) /\ Holds(w, 14, 12, Funct3(i.op), 0)
        /\ Holds(w, 19, 15, i.rs1, 0) /\ Holds(w, 11, 7, i.rd, 0) /\ Holds(w, 31, 20, i.imm, 0)
    BY <2>1 DEF Holds, Field
  <2> QED BY <1>2, <2>2, Groups DEF NoRegisters
<1>3. CASE i.op \in ShiftOps
  <2>1. w = opcode \cup funct3 \cup rd \cup rs1 \cup Field(25, 20, i.imm, 0)
            \cup Field(31, 26, Funct6(i.op), 0)
    BY <1>3, Groups DEF Assemble32, RegisterOps
  <2>2. /\ Holds(w, 6, 0, Opcode(i.op), 0) /\ Holds(w, 14, 12, Funct3(i.op), 0)
        /\ Holds(w, 19, 15, i.rs1, 0) /\ Holds(w, 11, 7, i.rd, 0) /\ Holds(w, 25, 20, i.imm, 0)
        /\ Holds(w, 31, 26, Funct6(i.op), 0)
    BY <2>1 DEF Holds, Field
  <2> QED BY <1>3, <2>2, Groups DEF NoRegisters
<1>4. CASE i.op \in StoreOps
  <2>1. w = opcode \cup funct3 \cup rs1 \cup rs2 \cup Field(31, 25, i.imm, 5) \cup Field(11, 7, i.imm, 0)
    BY <1>4, Groups DEF Assemble32, RegisterOps
  <2>2. /\ Holds(w, 6, 0, Opcode(i.op), 0) /\ Holds(w, 14, 12, Funct3(i.op), 0)
        /\ Holds(w, 19, 15, i.rs1, 0) /\ Holds(w, 24, 20, i.rs2, 0) /\ Holds(w, 31, 25, i.imm, 5)
        /\ Holds(w, 11, 7, i.imm, 0)
    BY <2>1 DEF Holds, Field
  <2> QED BY <1>4, <2>2, Groups DEF NoRegisters
<1>5. CASE i.op \in BranchOps
  <2>1. w = opcode \cup funct3 \cup rs1 \cup rs2 \cup Field(31, 31, i.imm, 12) \cup Field(30, 25, i.imm, 5)
            \cup Field(11, 8, i.imm, 1) \cup Field(7, 7, i.imm, 11)
    BY <1>5, Groups DEF Assemble32, RegisterOps
  <2>2. /\ Holds(w, 6, 0, Opcode(i.op), 0) /\ Holds(w, 14, 12, Funct3(i.op), 0)
        /\ Holds(w, 19, 15, i.rs1, 0) /\ Holds(w, 24, 20, i.rs2, 0) /\ Holds(w, 31, 31, i.imm, 12)
        /\ Holds(w, 30, 25, i.imm, 5) /\ Holds(w, 11, 8, i.imm, 1) /\ Holds(w, 7, 7, i.imm, 11)
    BY <2>1 DEF Holds, Field
  <2> QED BY <1>5, <2>2, Groups DEF NoRegisters
<1>6. CASE i.op \in UpperOps
  <2>1. w = opcode \cup rd \cup Field(31, 12, i.imm, 0)
    BY <1>6, Groups DEF Assemble32, RegisterOps
  <2>2. Holds(w, 6, 0, Opcode(i.op), 0) /\ Holds(w, 11, 7, i.rd, 0) /\ Holds(w, 31, 12, i.imm, 0)
    BY <2>1 DEF Holds, Field
  <2> QED BY <1>6, <2>2, Groups DEF NoRegisters
<1>7. CASE i.op = "JAL"
  <2>1. w = opcode \cup rd \cup Field(31, 31, i.imm, 20) \cup Field(30, 21, i.imm, 1)
            \cup Field(20, 20, i.imm, 11) \cup Field(19, 12, i.imm, 12)
    BY <1>7, Groups DEF Assemble32, RegisterOps
  <2>2. /\ Holds(w, 6, 0, Opcode(i.op), 0) /\ Holds(w, 11, 7, i.rd, 0) /\ Holds(w, 31, 31, i.imm, 20)
        /\ Holds(w, 30, 21, i.imm, 1) /\ Holds(w, 20, 20, i.imm, 11) /\ Holds(w, 19, 12, i.imm, 12)
    BY <2>1 DEF Holds, Field
  <2> QED BY <1>7, <2>2, Groups DEF NoRegisters
<1> QED BY <1>1, <1>2, <1>3, <1>4, <1>5, <1>6, <1>7, Groups DEF NoRegisters

----------------------------------------------------------------------------
(* The immediates of a 32-bit instruction                                  *)

LEMMA Imm_I ==
  ASSUME NEW v \in Int, -(2^11) <= v, v < 2^11, NEW w, Holds(w, 31, 20, v, 0)
  PROVE  get_imm_I(w) = v
<1>1. Part(w, 31, 20, 0) = Unsigned(v, 12) - Unsigned(v, 0)
  BY PartIs
<1>2. Unsigned(v, 12) \in Nat
  BY LowBits
<1>3. Unsigned(v, 0) = 0
  BY LowestBits
<1>4. Part(w, 31, 20, 0) = Unsigned(v, 12)
  BY <1>1, <1>2, <1>3
<1>5. 31 \in w <=> Bit(v, 11)
  BY DEF Holds
<1>6. Fill(Unsigned(v, 12), 12, Bit(v, 11)) = v
  BY FillIs
<1> QED BY <1>4, <1>5, <1>6 DEF get_imm_I, Fill

LEMMA Imm_S ==
  ASSUME NEW v \in Int, -(2^11) <= v, v < 2^11, NEW w, Holds(w, 31, 25, v, 5), Holds(w, 11, 7, v, 0)
  PROVE  get_imm_S(w) = v
<1>1. Part(w, 31, 25, 5) = Unsigned(v, 12) - Unsigned(v, 5)
  BY PartIs
<1>2. Part(w, 11, 7, 0) = Unsigned(v, 5) - Unsigned(v, 0)
  BY PartIs
<1>3. Unsigned(v, 5) \in Nat /\ Unsigned(v, 12) \in Nat
  BY LowBits
<1>4. Unsigned(v, 0) = 0
  BY LowestBits
<1>5. Part(w, 31, 25, 5) + Part(w, 11, 7, 0) = Unsigned(v, 12)
  BY <1>1, <1>2, <1>3, <1>4
<1>6. 31 \in w <=> Bit(v, 11)
  BY DEF Holds
<1>7. Fill(Unsigned(v, 12), 12, Bit(v, 11)) = v
  BY FillIs
<1> QED BY <1>5, <1>6, <1>7 DEF get_imm_S, Fill

LEMMA Imm_B ==
  ASSUME NEW v \in Int, -(2^12) <= v, v < 2^12, Unsigned(v, 1) = 0, NEW w, Holds(w, 7, 7, v, 11),
         Holds(w, 30, 25, v, 5), Holds(w, 31, 31, v, 12), Holds(w, 11, 8, v, 1)
  PROVE  get_imm_B(w) = v
<1>1. Part(w, 7, 7, 11) = Unsigned(v, 12) - Unsigned(v, 11)
  BY PartIs
<1>2. Part(w, 30, 25, 5) = Unsigned(v, 11) - Unsigned(v, 5)
  BY PartIs
<1>3. Part(w, 31, 31, 12) = Unsigned(v, 13) - Unsigned(v, 12)
  BY PartIs
<1>4. Part(w, 11, 8, 1) = Unsigned(v, 5) - Unsigned(v, 1)
  BY PartIs
<1>5. Unsigned(v, 5) \in Nat /\ Unsigned(v, 11) \in Nat /\ Unsigned(v, 12) \in Nat /\
      Unsigned(v, 13) \in Nat
  BY LowBits
<1>6. Part(w, 7, 7, 11) + Part(w, 30, 25, 5) + Part(w, 31, 31, 12) + Part(w, 11, 8, 1) = Unsigned(v, 13)
  BY <1>1, <1>2, <1>3, <1>4, <1>5
<1>7. 31 \in w <=> Bit(v, 12)
  BY DEF Holds
<1>8. Fill(Unsigned(v, 13), 12, Bit(v, 12)) = v
  BY FillIs
<1> QED BY <1>6, <1>7, <1>8 DEF get_imm_B, Fill

LEMMA Imm_J ==
  ASSUME NEW v \in Int, -(2^20) <= v, v < 2^20, Unsigned(v, 1) = 0, NEW w, Holds(w, 31, 31, v, 20),
         Holds(w, 19, 12, v, 12), Holds(w, 20, 20, v, 11), Holds(w, 30, 21, v, 1)
  PROVE  get_imm_J(w) = v
<1>1. Part(w, 31, 31, 20) = Unsigned(v, 21) - Unsigned(v, 20)
  BY PartIs
<1>2. Part(w, 19, 12, 12) = Unsigned(v, 20) - Unsigned(v, 12)
  BY PartIs
<1>3. Part(w, 20, 20, 11) = Unsigned(v, 12) - Unsigned(v, 11)
  BY PartIs
<1>4. Part(w, 30, 21, 1) = Unsigned(v, 11) - Unsigned(v, 1)
  BY PartIs
<1>5. Unsigned(v, 11) \in Nat /\ Unsigned(v, 12) \in Nat /\ Unsigned(v, 20) \in Nat /\
      Unsigned(v, 21) \in Nat
  BY LowBits
<1>6. Part(w, 31, 31, 20) + Part(w, 19, 12, 12) + Part(w, 20, 20, 11) + Part(w, 30, 21, 1) = Unsigned(v, 21)
  BY <1>1, <1>2, <1>3, <1>4, <1>5
<1>7. 31 \in w <=> Bit(v, 20)
  BY DEF Holds
<1>8. Fill(Unsigned(v, 21), 20, Bit(v, 20)) = v
  BY FillIs
<1> QED BY <1>6, <1>7, <1>8 DEF get_imm_J, Fill

----------------------------------------------------------------------------
(* The decoders on a 32-bit instruction                                    *)

LEMMA decode_Register ==
  ASSUME NEW op \in BaseOps, NEW w, range(w, 6, 0) = Opcode(op), range(w, 14, 12) = Funct3(op),
         range(w, 31, 25) = Funct7(op), range(w, 31, 26) = Funct7(op) \div 2
  PROVE  decode(w) = op
<1> USE DEF BaseOps, MulDivOps, AmoOps, WordOps
<1>1. CASE op \notin WordOps
  <2>1. Opcode(op) = 51 /\ Funct7(op) \in {0, 32}
    BY <1>1 DEF Opcode, Funct7, ImmOps, ShiftOps, LoadOps, StoreOps, BranchOps
  <2>2. OpCode(Funct3(op), Funct7(op)) = op
    BY <1>1 DEF OpCode, Funct3, Funct7
  <2> HIDE DEF BaseOps, MulDivOps, AmoOps, WordOps
  <2> QED BY <2>1, <2>2 DEF decode
<1>2. CASE op \in WordOps
  <2>1. Opcode(op) = 59 /\ Funct7(op) \in {0, 32}
    BY <1>2 DEF Opcode, Funct7, ImmOps, ShiftOps, LoadOps, StoreOps, BranchOps
  <2>2. OpWCode(Funct3(op), Funct7(op) \div 2) = op
    <3>1. Funct7(op) = IF op \in {"SUBW", "SRAW"} THEN 32 ELSE 0
      BY <1>2 DEF Funct7
    <3>2. Funct7(op) \div 2 = IF op \in {"SUBW", "SRAW"} THEN 16 ELSE 0
      BY <3>1
    <3> QED BY <1>2, <3>2 DEF OpWCode, Funct3
  <2> HIDE DEF BaseOps, MulDivOps, AmoOps, WordOps
  <2> QED BY <2>1, <2>2 DEF decode
<1> QED BY <1>1, <1>2

LEMMA decode_Immediate ==
  ASSUME NEW op \in ImmOps, NEW w, range(w, 6, 0) = Opcode(op), range(w, 14, 12) = Funct3(op),
         op \in ShiftOps => range(w, 31, 26) = Funct6(op)
  PROVE  decode(w) = op
<1> USE DEF ImmOps, ShiftOps, WordOps
<1>1. CASE op \notin WordOps
  <2>1. Opcode(op) = 19
    BY <1>1 DEF Opcode, BaseOps, MulDivOps, AmoOps, LoadOps, StoreOps, BranchOps
  <2>2. ImmCode(Funct3(op), range(w, 31, 26)) = op
    BY <1>1 DEF ImmCode, Funct3, Funct6, AmoOps
  <2> HIDE DEF ImmOps, ShiftOps, WordOps
  <2> QED BY <2>1, <2>2 DEF decode
<1>2. CASE op \in WordOps
  <2>1. Opcode(op) = 27
    BY <1>2 DEF Opcode, BaseOps, MulDivOps, AmoOps, LoadOps, StoreOps, BranchOps
  <2>2. ImmWCode(Funct3(op), range(w, 31, 26)) = op
    BY <1>2 DEF ImmWCode, Funct3, Funct6, AmoOps
  <2> HIDE DEF ImmOps, ShiftOps, WordOps
  <2> QED BY <2>1, <2>2 DEF decode
<1> QED BY <1>1, <1>2

LEMMA decode_Other ==
  ASSUME NEW op, NEW w, range(w, 6, 0) = Opcode(op),
         op \notin NoRegisters => range(w, 14, 12) = Funct3(op)
  PROVE  op \in LoadOps \cup StoreOps \cup BranchOps \cup JumpOps \cup UpperOps \cup {"FENCE"}
            => decode(w) = op
<1>1. CASE op \in LoadOps
  <2>1. Opcode(op) = 3 /\ LoadCode(Funct3(op)) = op /\ op \notin NoRegisters
    BY <1>1 DEF Opcode, LoadCode, Funct3, NoRegisters, UpperOps, ImmOps, ShiftOps, WordOps, BaseOps, MulDivOps, AmoOps,
                LoadOps, StoreOps, BranchOps
  <2> QED BY <2>1 DEF decode
<1>2. CASE op \in StoreOps
  <2>1. Opcode(op) = 35 /\ StoreCode(Funct3(op)) = op /\ op \notin NoRegisters
    BY <1>2 DEF Opcode, StoreCode, Funct3, NoRegisters, UpperOps, ImmOps, ShiftOps, WordOps, BaseOps, MulDivOps, AmoOps,
                LoadOps, StoreOps, BranchOps
  <2> QED BY <2>1 DEF decode
<1>3. CASE op \in BranchOps
  <2>1. Opcode(op) = 99 /\ BranchCode(Funct3(op)) = op /\ op \notin NoRegisters
    BY <1>3 DEF Opcode, BranchCode, Funct3, NoRegisters, UpperOps, ImmOps, ShiftOps, WordOps, BaseOps, MulDivOps, AmoOps,
                LoadOps, StoreOps, BranchOps
  <2> QED BY <2>1 DEF decode
<1>4. CASE op \in JumpOps \cup UpperOps \cup {"FENCE"}
  BY <1>4 DEF decode, Opcode, JumpOps, UpperOps, ImmOps, ShiftOps, WordOps, BaseOps, MulDivOps, AmoOps,
              LoadOps, StoreOps, BranchOps
<1> QED BY <1>1, <1>2, <1>3, <1>4

(* CPU_step asks the M and the A extension last.                           *)
LEMMA Dispatch_MulDiv ==
  ASSUME NEW op \in MulDivOps, NEW t, NEW w, range(w, 6, 0) = Opcode(op), range(w, 1, 0) = 3,
         range(w, 14, 12) = Funct3(op), range(w, 31, 25) = Funct7(op)
  PROVE  Dispatch(t, w) = <<"M", op>>
<1> USE DEF BaseOps, MulDivOps, AmoOps, WordOps
<1>1. Opcode(op) \in {51, 59} /\ Funct7(op) = 1
  BY DEF Opcode, Funct7, ImmOps, ShiftOps, LoadOps, StoreOps, BranchOps
<1>2. M_decode(w) = op
  BY DEF M_decode, Opcode, Funct3, ImmOps, ShiftOps, LoadOps, StoreOps, BranchOps
<1>3. op # "ERROR"
  OBVIOUS
<1> HIDE DEF BaseOps, MulDivOps, AmoOps, WordOps
<1>4. decode(w) = "ERROR"
  BY <1>1 DEF decode
<1>5. C_decode(t, w) = "ERROR"
  BY DEF C_decode
<1> QED BY <1>2, <1>3, <1>4, <1>5 DEF Dispatch

LEMMA Dispatch_Amo ==
  ASSUME NEW op \in AmoOps, NEW t, NEW w, range(w, 6, 0) = Opcode(op), range(w, 1, 0) = 3,
         range(w, 14, 12) = Funct3(op), range(w, 31, 27) = Funct7(op) \div 4
  PROVE  Dispatch(t, w) = <<"A", IF op = "AMOADD_D" THEN "AMOADD" ELSE op>>
<1> USE DEF BaseOps, MulDivOps, AmoOps, WordOps
<1>1. Opcode(op) = 47 /\ Funct3(op) \in {2, 3}
  BY DEF Opcode, Funct3, ImmOps, ShiftOps, LoadOps, StoreOps, BranchOps
<1>2. A_decode(w) = IF op = "AMOADD_D" THEN "AMOADD" ELSE op
  BY DEF A_decode, Funct7
<1> HIDE DEF BaseOps, MulDivOps, AmoOps, WordOps
<1>3. decode(w) = "ERROR" /\ M_decode(w) = "ERROR"
  BY <1>1 DEF decode, M_decode
<1>4. C_decode(t, w) = "ERROR"
  BY DEF C_decode
<1> QED BY <1>2, <1>3, <1>4 DEF Dispatch

LEMMA Ranges32 ==
  ASSUME NEW i, Instruction(i), NEW w, w = Assemble32(i)
  PROVE  /\ range(w, 6, 0) = Opcode(i.op) /\ range(w, 1, 0) = 3
         /\ i.op \notin NoRegisters => range(w, 14, 12) = Funct3(i.op) /\ range(w, 19, 15) = i.rs1
         /\ i.op \notin StoreOps \cup BranchOps => range(w, 11, 7) = i.rd
         /\ i.op \in RegisterOps \cup StoreOps \cup BranchOps => range(w, 24, 20) = i.rs2
<1> DEFINE opcode == Opcode(i.op)
           funct3 == Funct3(i.op)
<1>1. i.op \in Ops /\ i.rd \in 0 .. 31 /\ i.rs1 \in 0 .. 31 /\ i.rs2 \in 0 .. 31
  BY WordAssumption DEF Instruction
<1>2. /\ Holds(w, 6, 0, opcode, 0)
      /\ i.op \notin NoRegisters => Holds(w, 14, 12, funct3, 0) /\ Holds(w, 19, 15, i.rs1, 0)
      /\ i.op \notin StoreOps \cup BranchOps => Holds(w, 11, 7, i.rd, 0)
      /\ i.op \in RegisterOps \cup StoreOps \cup BranchOps => Holds(w, 24, 20, i.rs2, 0)
  BY <1>1, Fields32
<1>3. /\ opcode \in Int /\ 0 <= opcode /\ opcode < 2^7 /\ opcode % 4 = 3
      /\ i.op \notin NoRegisters => funct3 \in Int /\ 0 <= funct3 /\ funct3 < 2^3
  BY <1>1, CodesFit, Powers
<1>4. \A r \in 0 .. 31 : r \in Int /\ 0 <= r /\ r < 2^5
  BY Powers
<1> HIDE DEF opcode, funct3
<1>5. range(w, 6, 0) = opcode
  BY <1>2, <1>3, FieldIs
<1>6. range(w, 1, 0) = 3
  <2>1. Holds(w, 1, 0, opcode, 0)
    BY <1>2 DEF Holds
  <2>2. range(w, 1, 0) = Unsigned(opcode, 2)
    BY <1>3, <2>1, RangeIs
  <2> QED BY <1>3, <2>2, LowestBits
<1>7. ASSUME i.op \notin NoRegisters PROVE range(w, 14, 12) = funct3
  BY <1>2, <1>3, <1>7, FieldIs
<1>8. ASSUME NEW r \in 0 .. 31, Holds(w, 19, 15, r, 0) PROVE range(w, 19, 15) = r
  BY <1>4, <1>8, FieldIs
<1>9. ASSUME NEW r \in 0 .. 31, Holds(w, 11, 7, r, 0) PROVE range(w, 11, 7) = r
  BY <1>4, <1>9, FieldIs
<1>10. ASSUME NEW r \in 0 .. 31, Holds(w, 24, 20, r, 0) PROVE range(w, 24, 20) = r
  BY <1>4, <1>10, FieldIs
<1> QED BY <1>1, <1>2, <1>5, <1>6, <1>7, <1>8, <1>9, <1>10 DEF opcode, funct3

LEMMA RangesFunct7 ==
  ASSUME NEW v \in 0 .. 127, NEW w, Holds(w, 31, 25, v, 0)
  PROVE  range(w, 31, 25) = v /\ range(w, 31, 26) = v \div 2 /\ range(w, 31, 27) = v \div 4
         /\ range(w, 30, 25) = v % 64
<1>1. v \in Int /\ 0 <= v /\ v < 2^7
  BY Powers
<1>2. Holds(w, 31, 26, v, 1) /\ Holds(w, 31, 27, v, 2) /\ Holds(w, 30, 25, v, 0)
  BY DEF Holds
<1>3. Unsigned(v, 7) = v /\ Unsigned(v, 1) = v % 2 /\ Unsigned(v, 2) = v % 4 /\ Unsigned(v, 6) = v % 64
  BY <1>1, LowBits, LowestBits, Powers DEF Unsigned
<1>4. range(w, 31, 25) = v
  BY <1>1, FieldIs
<1>5. range(w, 30, 25) = v % 64
  BY <1>1, <1>2, <1>3, RangeIs
<1>6. range(w, 31, 26) = v \div 2
  <2>1. Part(w, 31, 26, 1) = Unsigned(v, 7) - Unsigned(v, 1)
    BY <1>1, <1>2, PartIs
  <2>2. range(w, 31, 26) * 2 = v - (v % 2)
    BY <1>3, <2>1, Powers DEF Part
  <2>3. range(w, 31, 26) \in Nat
    BY RangeType
  <2> QED BY <2>2, <2>3
<1>7. range(w, 31, 27) = v \div 4
  <2>1. Part(w, 31, 27, 2) = Unsigned(v, 7) - Unsigned(v, 2)
    BY <1>1, <1>2, PartIs
  <2>2. range(w, 31, 27) * 4 = v - (v % 4)
    BY <1>3, <2>1, Powers DEF Part
  <2>3. range(w, 31, 27) \in Nat
    BY RangeType
  <2> QED BY <2>2, <2>3
<1> QED BY <1>4, <1>5, <1>6, <1>7

LEMMA Immediate32 ==
  ASSUME NEW i, Instruction(i), Encodable(i), i.c = "-"
  PROVE  /\ i.imm \in Int
         /\ i.op \in ITypeOps \cup StoreOps => -(2^11) <= i.imm /\ i.imm < 2^11
         /\ i.op \in BranchOps => -(2^12) <= i.imm /\ i.imm < 2^12 /\ Unsigned(i.imm, 1) = 0
         /\ i.op = "JAL" => -(2^20) <= i.imm /\ i.imm < 2^20 /\ Unsigned(i.imm, 1) = 0
         /\ i.op \in UpperOps => 0 <= i.imm /\ i.imm < 2^20
         /\ i.op \in ShiftOps => i.imm \in 0 .. 63
<1>1. i.imm \in Int /\ (i.op \in ShiftOps => i.imm \in 0 .. 63)
  BY DEF Instruction
<1>2. ASSUME i.op \in ITypeOps \cup StoreOps PROVE -(2^11) <= i.imm /\ i.imm < 2^11
  <2>1. i.imm \in -(2^(12 - 1)) .. 2^(12 - 1) - 1
    BY <1>2, Groups DEF Encodable
  <2> QED BY <1>1, <2>1, Powers
<1>3. ASSUME i.op \in BranchOps PROVE -(2^12) <= i.imm /\ i.imm < 2^12 /\ Unsigned(i.imm, 1) = 0
  <2>1. i.imm \in -(2^(13 - 1)) .. 2^(13 - 1) - 1 /\ i.imm % 2 = 0
    BY <1>3, Groups DEF Encodable
  <2> QED BY <1>1, <2>1, Powers, LowestBits
<1>4. ASSUME i.op = "JAL" PROVE -(2^20) <= i.imm /\ i.imm < 2^20 /\ Unsigned(i.imm, 1) = 0
  <2>1. i.imm \in -(2^(21 - 1)) .. 2^(21 - 1) - 1 /\ i.imm % 2 = 0
    BY <1>4, Groups DEF Encodable
  <2> QED BY <1>1, <2>1, Powers, LowestBits
<1>5. ASSUME i.op \in UpperOps PROVE 0 <= i.imm /\ i.imm < 2^20
  <2>1. i.imm \in 0 .. 2^20 - 1
    BY <1>5, Groups DEF Encodable
  <2> QED BY <1>1, <2>1, Powers
<1> QED BY <1>1, <1>2, <1>3, <1>4, <1>5

LEMMA Dispatch32 ==
  ASSUME NEW i, Instruction(i), i.c = "-", NEW w, w = Assemble32(i), NEW t
  PROVE  /\ Dispatch(t, w) = <<Extension(i), IF i.op = "AMOADD_D" THEN "AMOADD" ELSE i.op>>
         /\ check_extension(w) = Extension(i)
<1> DEFINE op == i.op
<1>1. /\ range(w, 6, 0) = Opcode(op) /\ range(w, 1, 0) = 3 /\ op \in Ops
      /\ op \notin NoRegisters => range(w, 14, 12) = Funct3(op)
  BY Ranges32 DEF Instruction
<1>2. op \in RegisterOps => /\ range(w, 31, 25) = Funct7(op) /\ range(w, 31, 26) = Funct7(op) \div 2
                            /\ range(w, 31, 27) = Funct7(op) \div 4 /\ range(w, 30, 25) = Funct7(op) % 64
  BY <1>1, Fields32, CodesFit, RangesFunct7
<1>3. op \in ShiftOps => range(w, 31, 26) = Funct6(op)
  <2>1. ASSUME op \in ShiftOps PROVE Holds(w, 31, 26, Funct6(op), 0)
    BY <1>1, <2>1, Fields32
  <2>2. Funct6(op) \in Int /\ 0 <= Funct6(op) /\ Funct6(op) < 2^6
    BY Powers DEF Funct6
  <2> QED BY <2>1, <2>2, FieldIs
<1>4. op \in RegisterOps <=> op \in BaseOps \/ op \in MulDivOps \/ op \in AmoOps
  BY DEF RegisterOps
<1>5. Extension(i) = (CASE op \in AmoOps -> "A" [] op \in MulDivOps -> "M" [] OTHER -> "base")
  BY DEF Extension
<1> HIDE DEF op
<1>6. CASE op \in MulDivOps
  <2>1. op \notin NoRegisters /\ op # "AMOADD_D" /\ op \notin AmoOps /\ Funct7(op) = 1
        /\ Opcode(op) \in {51, 59}
    BY <1>6 DEF MulDivOps, NoRegisters, UpperOps, AmoOps, Funct7, Opcode, WordOps, BaseOps, ImmOps, ShiftOps, LoadOps,
                StoreOps, BranchOps
  <2>2. Dispatch(t, w) = <<"M", op>>
    BY <1>1, <1>2, <1>4, <1>6, <2>1, Dispatch_MulDiv
  <2>3. check_extension(w) = "M"
    BY <1>1, <1>2, <1>4, <1>6, <2>1 DEF check_extension
  <2> QED BY <1>5, <1>6, <2>1, <2>2, <2>3 DEF op
<1>7. CASE op \in AmoOps
  <2>1. op \notin NoRegisters /\ op \notin MulDivOps /\ Opcode(op) = 47
    BY <1>7 DEF MulDivOps, NoRegisters, UpperOps, AmoOps, Opcode, WordOps, BaseOps, ImmOps, ShiftOps, LoadOps,
                StoreOps, BranchOps
  <2>2. Dispatch(t, w) = <<"A", IF op = "AMOADD_D" THEN "AMOADD" ELSE op>>
    BY <1>1, <1>2, <1>4, <1>7, <2>1, Dispatch_Amo
  <2>3. check_extension(w) = "A"
    BY <1>1, <2>1 DEF check_extension
  <2> QED BY <1>5, <1>7, <2>1, <2>2, <2>3 DEF op
<1>8. CASE op \notin MulDivOps /\ op \notin AmoOps
  <2>1. decode(w) = op /\ op # "ERROR" /\ op # "AMOADD_D"
    <3>1. op # "ERROR" /\ op # "AMOADD_D"
      BY <1>1, <1>8 DEF Ops, ComputeOps, BaseOps, MulDivOps, ImmOps, ShiftOps, AmoOps, LoadOps, StoreOps,
                        BranchOps, JumpOps, UpperOps
    <3>2. CASE op \in BaseOps
      BY <1>1, <1>2, <1>4, <3>1, <3>2, Groups, decode_Register DEF NoRegisters
    <3>3. CASE op \in ImmOps
      <4>1. op \in ITypeOps \/ op \in ShiftOps
        BY <3>3 DEF ITypeOps
      <4> QED BY <1>1, <1>3, <3>1, <3>3, <4>1, Groups, decode_Immediate DEF NoRegisters
    <3>4. CASE op \in LoadOps \cup StoreOps \cup BranchOps \cup JumpOps \cup UpperOps \cup {"FENCE"}
      BY <1>1, <3>1, <3>4, decode_Other
    <3> QED BY <1>1, <1>8, <3>2, <3>3, <3>4 DEF Ops, ComputeOps
  <2>2. Dispatch(t, w) = <<"base", op>>
    BY <2>1 DEF Dispatch
  <2>3. check_extension(w) = "base"
    <3>1. CASE op \in BaseOps
      <4>1. Funct7(op) \in {0, 32} /\ Opcode(op) # 47
        BY <3>1 DEF Funct7, Opcode, BaseOps, MulDivOps, AmoOps, WordOps, ImmOps, ShiftOps, LoadOps,
                    StoreOps, BranchOps
      <4>2. Funct7(op) % 64 # 1
        BY <4>1
      <4> QED BY <1>1, <1>2, <1>4, <3>1, <4>1, <4>2 DEF check_extension
    <3>2. CASE op \notin BaseOps
      <4>1. Opcode(op) \notin {51, 59, 47}
        BY <1>1, <1>8, <3>2 DEF Ops, ComputeOps, Opcode, BaseOps, MulDivOps, ImmOps, ShiftOps, AmoOps, LoadOps,
                                StoreOps, BranchOps, JumpOps, UpperOps, WordOps
      <4> QED BY <1>1, <4>1 DEF check_extension
    <3> QED BY <3>1, <3>2
  <2> QED BY <1>5, <1>8, <2>1, <2>2, <2>3 DEF op
<1> QED BY <1>6, <1>7, <1>8

LEMMA OperandsImm32 ==
  ASSUME NEW i, Instruction(i), Encodable(i), i.c = "-", NEW w, w = Assemble32(i),
         NEW t \in {"RV32", "RV64"}, Legal(t, i), i.op \notin RegisterOps
  PROVE  base_operands(t, w, i.op).imm = i.imm
<1> DEFINE op == i.op
           v == i.imm
<1>1. op \in Ops
  BY DEF Instruction
<1>2. v \in Int
  BY Immediate32
<1>3. CASE op \in ITypeOps
  <2>1. Holds(w, 31, 20, v, 0) /\ -(2^11) <= v /\ v < 2^11
    BY <1>1, <1>3, Fields32, Immediate32
  <2>2. get_imm_I(w) = v
    BY <1>2, <2>1, Imm_I
  <2>3. base_operands(t, w, op).imm = get_imm_I(w)
    BY <1>3 DEF base_operands, Operands, ITypeOps, ImmOps, ShiftOps, LoadOps
  <2> QED BY <2>2, <2>3
<1>4. CASE op \in StoreOps
  <2>1. Holds(w, 31, 25, v, 5) /\ Holds(w, 11, 7, v, 0) /\ -(2^11) <= v /\ v < 2^11
    BY <1>1, <1>4, Fields32, Immediate32
  <2>2. get_imm_S(w) = v
    BY <1>2, <2>1, Imm_S
  <2>3. base_operands(t, w, op).imm = get_imm_S(w)
    BY <1>4 DEF base_operands, Operands, StoreOps
  <2> QED BY <2>2, <2>3
<1>5. CASE op \in BranchOps
  <2>1. /\ Holds(w, 31, 31, v, 12) /\ Holds(w, 30, 25, v, 5) /\ Holds(w, 11, 8, v, 1)
        /\ Holds(w, 7, 7, v, 11) /\ -(2^12) <= v /\ v < 2^12 /\ Unsigned(v, 1) = 0
    BY <1>1, <1>5, Fields32, Immediate32
  <2>2. get_imm_B(w) = v
    BY <1>2, <2>1, Imm_B
  <2>3. base_operands(t, w, op).imm = get_imm_B(w)
    BY <1>5 DEF base_operands, Operands, BranchOps
  <2> QED BY <2>2, <2>3
<1>6. CASE op = "JAL"
  <2>1. /\ Holds(w, 31, 31, v, 20) /\ Holds(w, 30, 21, v, 1) /\ Holds(w, 20, 20, v, 11)
        /\ Holds(w, 19, 12, v, 12) /\ -(2^20) <= v /\ v < 2^20 /\ Unsigned(v, 1) = 0
    BY <1>1, <1>6, Fields32, Immediate32
  <2>2. get_imm_J(w) = v
    BY <1>2, <2>1, Imm_J
  <2>3. base_operands(t, w, op).imm = get_imm_J(w)
    BY <1>6 DEF base_operands, Operands
  <2> QED BY <2>2, <2>3
<1>7. CASE op \in UpperOps
  <2>1. Holds(w, 31, 12, v, 0) /\ 0 <= v /\ v < 2^20
    BY <1>1, <1>7, Fields32, Immediate32
  <2>2. get_imm_U(w) = v
    BY <1>2, <2>1, FieldIs DEF get_imm_U
  <2>3. base_operands(t, w, op).imm = get_imm_U(w)
    BY <1>7 DEF base_operands, Operands, UpperOps
  <2> QED BY <2>2, <2>3
<1>8. CASE op \in ShiftOps
  <2>1. Holds(w, 25, 20, v, 0) /\ v \in 0 .. 63
    BY <1>1, <1>8, Fields32, Immediate32
  <2>2. 0 <= v /\ v < 2^6
    BY <1>2, <2>1, Powers
  <2>3. range(w, 25, 20) = v
    BY <1>2, <2>1, <2>2, FieldIs
  <2>4. CASE op \in {"SRLI", "SRAI"} /\ t = "RV32"
    <3>1. v < 2^5
      BY <1>2, <2>4, Powers, WordAssumption DEF Legal, XLEN
    <3>2. Holds(w, 24, 20, v, 0)
      BY <2>1 DEF Holds
    <3>3. range(w, 24, 20) = v
      BY <1>2, <2>2, <3>1, <3>2, FieldIs
    <3> QED BY <2>4, <3>3 DEF base_operands, Operands
  <2>5. CASE ~(op \in {"SRLI", "SRAI"} /\ t = "RV32")
    <3>1. base_operands(t, w, op).imm = range(w, 25, 20)
      BY <1>8, <2>5 DEF base_operands, Operands, ShiftOps
    <3> QED BY <2>3, <3>1
  <2> QED BY <2>4, <2>5
<1> QED BY <1>1, <1>3, <1>4, <1>5, <1>6, <1>7, <1>8, Groups

LEMMA Decodes32 ==
  ASSUME NEW i, Instruction(i), Encodable(i), i.c = "-", NEW t \in {"RV32", "RV64"}, Legal(t, i)
  PROVE  DecodesTo(t, i)
<1> DEFINE w == Assemble32(i)
           op == IF i.op = "AMOADD_D" THEN "AMOADD" ELSE i.op
           d == base_operands(t, w, op)
<1>1. Fetches(i) = {w}
  BY DEF Fetches, Assemble
<1>2. Dispatch(t, w) = <<Extension(i), op>> /\ check_extension(w) = Extension(i)
  BY Dispatch32
<1>3. Extension(i) # "C"
  BY DEF Extension
<1>4. d.rd = range(w, 11, 7) /\ d.rs1 = range(w, 19, 15) /\ d.rs2 = range(w, 24, 20)
  BY DEF base_operands, Operands
<1>5. /\ i.op \notin NoRegisters => range(w, 19, 15) = i.rs1
      /\ i.op \notin StoreOps \cup BranchOps => range(w, 11, 7) = i.rd
      /\ i.op \in RegisterOps \cup StoreOps \cup BranchOps => range(w, 24, 20) = i.rs2
  BY Ranges32
<1>6. i.op \notin RegisterOps => d.imm = i.imm
  <2>1. i.op \notin RegisterOps => op = i.op
    BY DEF RegisterOps, AmoOps
  <2> QED BY <2>1, OperandsImm32
<1>7. i.op \in ShiftOps => i.op \notin RegisterOps
  BY Groups
<1> HIDE DEF w, d
<1>8. DecodedAs(i, Extension(i), op, d)
  BY <1>4, <1>5, <1>6, <1>7 DEF DecodedAs, RegisterOps, NoRegisters
<1>9. Dispatch(t, w)[1] = Extension(i) /\ Dispatch(t, w)[2] = op
  BY <1>2
<1> QED BY <1>1, <1>2, <1>3, <1>8, <1>9 DEF DecodesTo, d

----------------------------------------------------------------------------
(* The immediates of a compressed instruction                              *)

LEMMA Imm_C_J ==
  ASSUME NEW v \in Int, -(2^11) <= v, v < 2^11, Unsigned(v, 1) = 0, NEW w, Holds(w, 12, 12, v, 11),
         Holds(w, 11, 11, v, 4), Holds(w, 10, 10, v, 9), Holds(w, 9, 9, v, 8),
         Holds(w, 8, 8, v, 10), Holds(w, 7, 7, v, 6), Holds(w, 6, 6, v, 7), Holds(w, 5, 3, v, 1),
         Holds(w, 2, 2, v, 5)
  PROVE  C_get_imm_J(w) = v
<1>1. Part(w, 12, 12, 11) = Unsigned(v, 12) - Unsigned(v, 11)
  BY PartIs
<1>2. Part(w, 11, 11, 4) = Unsigned(v, 5) - Unsigned(v, 4)
  BY PartIs
<1>3. Part(w, 10, 10, 9) = Unsigned(v, 10) - Unsigned(v, 9)
  BY PartIs
<1>4. Part(w, 9, 9, 8) = Unsigned(v, 9) - Unsigned(v, 8)
  BY PartIs
<1>5. Part(w, 8, 8, 10) = Unsigned(v, 11) - Unsigned(v, 10)
  BY PartIs
<1>6. Part(w, 7, 7, 6) = Unsigned(v, 7) - Unsigned(v, 6)
  BY PartIs
<1>7. Part(w, 6, 6, 7) = Unsigned(v, 8) - Unsigned(v, 7)
  BY PartIs
<1>8. Part(w, 5, 3, 1) = Unsigned(v, 4) - Unsigned(v, 1)
  BY PartIs
<1>9. Part(w, 2, 2, 5) = Unsigned(v, 6) - Unsigned(v, 5)
  BY PartIs
<1>10. Unsigned(v, 4) \in Nat /\ Unsigned(v, 5) \in Nat /\ Unsigned(v, 6) \in Nat /\
      Unsigned(v, 7) \in Nat /\ Unsigned(v, 8) \in Nat /\ Unsigned(v, 9) \in Nat /\
      Unsigned(v, 10) \in Nat /\ Unsigned(v, 11) \in Nat /\ Unsigned(v, 12) \in Nat
  BY LowBits
<1>11. Part(w, 12, 12, 11) + Part(w, 11, 11, 4) + Part(w, 10, 10, 9) + Part(w, 9, 9, 8) +
      Part(w, 8, 8, 10) + Part(w, 7, 7, 6) + Part(w, 6, 6, 7) + Part(w, 5, 3, 1) + Part(w, 2, 2, 5) = Unsigned(v, 12)
  BY <1>1, <1>2, <1>3, <1>4, <1>5, <1>6, <1>7, <1>8, <1>9, <1>10
<1>12. 12 \in w <=> Bit(v, 11)
  BY DEF Holds
<1>13. Fill(Unsigned(v, 12), 12, Bit(v, 11)) = v
  BY FillIs
<1> QED BY <1>11, <1>12, <1>13 DEF C_get_imm_J, Fill

LEMMA Imm_C_L ==
  ASSUME NEW v \in Int, 0 <= v, v < 2^7, Unsigned(v, 2) = 0, NEW w, Holds(w, 12, 10, v, 3),
         Holds(w, 6, 6, v, 2), Holds(w, 5, 5, v, 6)
  PROVE  C_get_imm_L(w) = v
<1>1. Part(w, 12, 10, 3) = Unsigned(v, 6) - Unsigned(v, 3)
  BY PartIs
<1>2. Part(w, 6, 6, 2) = Unsigned(v, 3) - Unsigned(v, 2)
  BY PartIs
<1>3. Part(w, 5, 5, 6) = Unsigned(v, 7) - Unsigned(v, 6)
  BY PartIs
<1>4. Unsigned(v, 3) \in Nat /\ Unsigned(v, 6) \in Nat /\ Unsigned(v, 7) \in Nat
  BY LowBits
<1>5. Part(w, 12, 10, 3) + Part(w, 6, 6, 2) + Part(w, 5, 5, 6) = Unsigned(v, 7)
  BY <1>1, <1>2, <1>3, <1>4
<1>6. Unsigned(v, 7) = v
  BY LowBits
<1> QED BY <1>5, <1>6 DEF C_get_imm_L

LEMMA Imm_C_LWSP ==
  ASSUME NEW v \in Int, 0 <= v, v < 2^8, Unsigned(v, 2) = 0, NEW w, Holds(w, 12, 12, v, 5),
         Holds(w, 6, 4, v, 2), Holds(w, 3, 2, v, 6)
  PROVE  C_get_imm_LWSP(w) = v
<1>1. Part(w, 12, 12, 5) = Unsigned(v, 6) - Unsigned(v, 5)
  BY PartIs
<1>2. Part(w, 6, 4, 2) = Unsigned(v, 5) - Unsigned(v, 2)
  BY PartIs
<1>3. Part(w, 3, 2, 6) = Unsigned(v, 8) - Unsigned(v, 6)
  BY PartIs
<1>4. Unsigned(v, 5) \in Nat /\ Unsigned(v, 6) \in Nat /\ Unsigned(v, 8) \in Nat
  BY LowBits
<1>5. Part(w, 12, 12, 5) + Part(w, 6, 4, 2) + Part(w, 3, 2, 6) = Unsigned(v, 8)
  BY <1>1, <1>2, <1>3, <1>4
<1>6. Unsigned(v, 8) = v
  BY LowBits
<1> QED BY <1>5, <1>6 DEF C_get_imm_LWSP

LEMMA Imm_C_LDSP ==
  ASSUME NEW v \in Int, 0 <= v, v < 2^9, Unsigned(v, 3) = 0, NEW w, Holds(w, 12, 12, v, 5),
         Holds(w, 6, 5, v, 3), Holds(w, 4, 2, v, 6)
  PROVE  C_get_imm_LDSP(w) = v
<1>1. Part(w, 12, 12, 5) = Unsigned(v, 6) - Unsigned(v, 5)
  BY PartIs
<1>2. Part(w, 6, 5, 3) = Unsigned(v, 5) - Unsigned(v, 3)
  BY PartIs
<1>3. Part(w, 4, 2, 6) = Unsigned(v, 9) - Unsigned(v, 6)
  BY PartIs
<1>4. Unsigned(v, 5) \in Nat /\ Unsigned(v, 6) \in Nat /\ Unsigned(v, 9) \in Nat
  BY LowBits
<1>5. Part(w, 12, 12, 5) + Part(w, 6, 5, 3) + Part(w, 4, 2, 6) = Unsigned(v, 9)
  BY <1>1, <1>2, <1>3, <1>4
<1>6. Unsigned(v, 9) = v
  BY LowBits
<1> QED BY <1>5, <1>6 DEF C_get_imm_LDSP

LEMMA Imm_C_ADDI ==
  ASSUME NEW v \in Int, -(2^5) <= v, v < 2^5, NEW w, Holds(w, 12, 12, v, 5), Holds(w, 6, 2, v, 0)
  PROVE  C_get_imm_ADDI(w) = v
<1>1. Part(w, 12, 12, 5) = Unsigned(v, 6) - Unsigned(v, 5)
  BY PartIs
<1>2. Part(w, 6, 2, 0) = Unsigned(v, 5) - Unsigned(v, 0)
  BY PartIs
<1>3. Unsigned(v, 5) \in Nat /\ Unsigned(v, 6) \in Nat
  BY LowBits
<1>4. Unsigned(v, 0) = 0
  BY LowestBits
<1>5. Part(w, 12, 12, 5) + Part(w, 6, 2, 0) = Unsigned(v, 6)
  BY <1>1, <1>2, <1>3, <1>4
<1>6. 12 \in w <=> Bit(v, 5)
  BY DEF Holds
<1>7. Fill(Unsigned(v, 6), 6, Bit(v, 5)) = v
  BY FillIs
<1> QED BY <1>5, <1>6, <1>7 DEF C_get_imm_ADDI, Fill

LEMMA Imm_C_ADDI4SPN ==
  ASSUME NEW v \in Int, 0 <= v, v < 2^10, Unsigned(v, 2) = 0, NEW w, Holds(w, 12, 11, v, 4),
         Holds(w, 10, 7, v, 6), Holds(w, 6, 6, v, 2), Holds(w, 5, 5, v, 3)
  PROVE  C_get_imm_ADDI4SPN(w) = v
<1>1. Part(w, 12, 11, 4) = Unsigned(v, 6) - Unsigned(v, 4)
  BY PartIs
<1>2. Part(w, 10, 7, 6) = Unsigned(v, 10) - Unsigned(v, 6)
  BY PartIs
<1>3. Part(w, 6, 6, 2) = Unsigned(v, 3) - Unsigned(v, 2)
  BY PartIs
<1>4. Part(w, 5, 5, 3) = Unsigned(v, 4) - Unsigned(v, 3)
  BY PartIs
<1>5. Unsigned(v, 3) \in Nat /\ Unsigned(v, 4) \in Nat /\ Unsigned(v, 6) \in Nat /\
      Unsigned(v, 10) \in Nat
  BY LowBits
<1>6. Part(w, 12, 11, 4) + Part(w, 10, 7, 6) + Part(w, 6, 6, 2) + Part(w, 5, 5, 3) = Unsigned(v, 10)
  BY <1>1, <1>2, <1>3, <1>4, <1>5
<1>7. Unsigned(v, 10) = v
  BY LowBits
<1> QED BY <1>6, <1>7 DEF C_get_imm_ADDI4SPN

LEMMA Imm_C_ADDI16SP ==
  ASSUME NEW v \in Int, -(2^9) <= v, v < 2^9, Unsigned(v, 4) = 0, NEW w, Holds(w, 12, 12, v, 9),
         Holds(w, 6, 6, v, 4), Holds(w, 5, 5, v, 6), Holds(w, 4, 4, v, 8), Holds(w, 3, 3, v, 7),
         Holds(w, 2, 2, v, 5)
  PROVE  C_get_imm_ADDI16SP(w) = v
<1>1. Part(w, 12, 12, 9) = Unsigned(v, 10) - Unsigned(v, 9)
  BY PartIs
<1>2. Part(w, 6, 6, 4) = Unsigned(v, 5) - Unsigned(v, 4)
  BY PartIs
<1>3. Part(w, 5, 5, 6) = Unsigned(v, 7) - Unsigned(v, 6)
  BY PartIs
<1>4. Part(w, 4, 4, 8) = Unsigned(v, 9) - Unsigned(v, 8)
  BY PartIs
<1>5. Part(w, 3, 3, 7) = Unsigned(v, 8) - Unsigned(v, 7)
  BY PartIs
<1>6. Part(w, 2, 2, 5) = Unsigned(v, 6) - Unsigned(v, 5)
  BY PartIs
<1>7. Unsigned(v, 5) \in Nat /\ Unsigned(v, 6) \in Nat /\ Unsigned(v, 7) \in Nat /\
      Unsigned(v, 8) \in Nat /\ Unsigned(v, 9) \in Nat /\ Unsigned(v, 10) \in Nat
  BY LowBits
<1>8. Part(w, 12, 12, 9) + Part(w, 6, 6, 4) + Part(w, 5, 5, 6) + Part(w, 4, 4, 8) +
      Part(w, 3, 3, 7) + Part(w, 2, 2, 5) = Unsigned(v, 10)
  BY <1>1, <1>2, <1>3, <1>4, <1>5, <1>6, <1>7
<1>9. 12 \in w <=> Bit(v, 9)
  BY DEF Holds
<1>10. Fill(Unsigned(v, 10), 10, Bit(v, 9)) = v
  BY FillIs
<1> QED BY <1>8, <1>9, <1>10 DEF C_get_imm_ADDI16SP, Fill

LEMMA Imm_C_CSS ==
  ASSUME NEW v \in Int, 0 <= v, v < 2^8, Unsigned(v, 2) = 0, NEW w, Holds(w, 12, 9, v, 2),
         Holds(w, 8, 7, v, 6)
  PROVE  C_get_imm_CSS(w) = v
<1>1. Part(w, 12, 9, 2) = Unsigned(v, 6) - Unsigned(v, 2)
  BY PartIs
<1>2. Part(w, 8, 7, 6) = Unsigned(v, 8) - Unsigned(v, 6)
  BY PartIs
<1>3. Unsigned(v, 6) \in Nat /\ Unsigned(v, 8) \in Nat
  BY LowBits
<1>4. Part(w, 12, 9, 2) + Part(w, 8, 7, 6) = Unsigned(v, 8)
  BY <1>1, <1>2, <1>3
<1>5. Unsigned(v, 8) = v
  BY LowBits
<1> QED BY <1>4, <1>5 DEF C_get_imm_CSS

LEMMA Imm_C_CSDSP ==
  ASSUME NEW v \in Int, 0 <= v, v < 2^9, Unsigned(v, 3) = 0, NEW w, Holds(w, 12, 10, v, 3),
         Holds(w, 9, 7, v, 6)
  PROVE  C_get_imm_CSDSP(w) = v
<1>1. Part(w, 12, 10, 3) = Unsigned(v, 6) - Unsigned(v, 3)
  BY PartIs
<1>2. Part(w, 9, 7, 6) = Unsigned(v, 9) - Unsigned(v, 6)
  BY PartIs
<1>3. Unsigned(v, 6) \in Nat /\ Unsigned(v, 9) \in Nat
  BY LowBits
<1>4. Part(w, 12, 10, 3) + Part(w, 9, 7, 6) = Unsigned(v, 9)
  BY <1>1, <1>2, <1>3
<1>5. Unsigned(v, 9) = v
  BY LowBits
<1> QED BY <1>4, <1>5 DEF C_get_imm_CSDSP

LEMMA Imm_C_CB ==
  ASSUME NEW v \in Int, -(2^8) <= v, v < 2^8, Unsigned(v, 1) = 0, NEW w, Holds(w, 12, 12, v, 8),
         Holds(w, 11, 11, v, 4), Holds(w, 10, 10, v, 3), Holds(w, 6, 6, v, 7), Holds(w, 5, 5, v, 6),
         Holds(w, 4, 4, v, 2), Holds(w, 3, 3, v, 1), Holds(w, 2, 2, v, 5)
  PROVE  C_get_imm_CB(w) = v
<1>1. Part(w, 12, 12, 8) = Unsigned(v, 9) - Unsigned(v, 8)
  BY PartIs
<1>2. Part(w, 11, 11, 4) = Unsigned(v, 5) - Unsigned(v, 4)
  BY PartIs
<1>3. Part(w, 10, 10, 3) = Unsigned(v, 4) - Unsigned(v, 3)
  BY PartIs
<1>4. Part(w, 6, 6, 7) = Unsigned(v, 8) - Unsigned(v, 7)
  BY PartIs
<1>5. Part(w, 5, 5, 6) = Unsigned(v, 7) - Unsigned(v, 6)
  BY PartIs
<1>6. Part(w, 4, 4, 2) = Unsigned(v, 3) - Unsigned(v, 2)
  BY PartIs
<1>7. Part(w, 3, 3, 1) = Unsigned(v, 2) - Unsigned(v, 1)
  BY PartIs
<1>8. Part(w, 2, 2, 5) = Unsigned(v, 6) - Unsigned(v, 5)
  BY PartIs
<1>9. Unsigned(v, 2) \in Nat /\ Unsigned(v, 3) \in Nat /\ Unsigned(v, 4) \in Nat /\
      Unsigned(v, 5) \in Nat /\ Unsigned(v, 6) \in Nat /\ Unsigned(v, 7) \in Nat /\
      Unsigned(v, 8) \in Nat /\ Unsigned(v, 9) \in Nat
  BY LowBits
<1>10. Part(w, 12, 12, 8) + Part(w, 11, 11, 4) + Part(w, 10, 10, 3) + Part(w, 6, 6, 7) +
      Part(w, 5, 5, 6) + Part(w, 4, 4, 2) + Part(w, 3, 3, 1) + Part(w, 2, 2, 5) = Unsigned(v, 9)
  BY <1>1, <1>2, <1>3, <1>4, <1>5, <1>6, <1>7, <1>8, <1>9
<1>11. 12 \in w <=> Bit(v, 8)
  BY DEF Holds
<1>12. Fill(Unsigned(v, 9), 9, Bit(v, 8)) = v
  BY FillIs
<1> QED BY <1>10, <1>11, <1>12 DEF C_get_imm_CB, Fill

LEMMA Imm_C_CL ==
  ASSUME NEW v \in Int, 0 <= v, v < 2^8, Unsigned(v, 3) = 0, NEW w, Holds(w, 12, 10, v, 3),
         Holds(w, 6, 5, v, 6)
  PROVE  C_get_imm_CL(w) = v
<1>1. Part(w, 12, 10, 3) = Unsigned(v, 6) - Unsigned(v, 3)
  BY PartIs
<1>2. Part(w, 6, 5, 6) = Unsigned(v, 8) - Unsigned(v, 6)
  BY PartIs
<1>3. Unsigned(v, 6) \in Nat /\ Unsigned(v, 8) \in Nat
  BY LowBits
<1>4. Part(w, 12, 10, 3) + Part(w, 6, 5, 6) = Unsigned(v, 8)
  BY <1>1, <1>2, <1>3
<1>5. Unsigned(v, 8) = v
  BY LowBits
<1> QED BY <1>4, <1>5 DEF C_get_imm_CL

LEMMA Imm_C_LUI ==
  ASSUME NEW v \in Int, -(2^5) <= v, v < 2^5, NEW w, Holds(w, 12, 12, v, 5), Holds(w, 6, 2, v, 0)
  PROVE  C_get_imm_LUI(w) = v
<1>1. Part(w, 12, 12, 5) = Unsigned(v, 6) - Unsigned(v, 5)
  BY PartIs
<1>2. Part(w, 6, 2, 0) = Unsigned(v, 5) - Unsigned(v, 0)
  BY PartIs
<1>3. Unsigned(v, 5) \in Nat /\ Unsigned(v, 6) \in Nat
  BY LowBits
<1>4. Unsigned(v, 0) = 0
  BY LowestBits
<1>5. Part(w, 12, 12, 5) + Part(w, 6, 2, 0) = Unsigned(v, 6)
  BY <1>1, <1>2, <1>3, <1>4
<1>6. 12 \in w <=> Bit(v, 5)
  BY DEF Holds
<1>7. Fill(Unsigned(v, 6), 5, Bit(v, 5)) = v
  BY FillIs
<1> QED BY <1>5, <1>6, <1>7 DEF C_get_imm_LUI, Fill

(* The shift amount of a compressed shift, which the code extends like any *)
(* other immediate.                                                        *)
LEMMA Imm_C_Shift ==
  ASSUME NEW v \in Int, 0 <= v, v < 2^6, NEW w, Holds(w, 12, 12, v, 5), Holds(w, 6, 2, v, 0)
  PROVE  C_get_imm_ADDI(w) \in {v, v - 64}
<1>1. Part(w, 12, 12, 5) = Unsigned(v, 6) - Unsigned(v, 5)
  BY PartIs
<1>2. Part(w, 6, 2, 0) = Unsigned(v, 5) - Unsigned(v, 0)
  BY PartIs
<1>3. Unsigned(v, 5) \in Nat /\ Unsigned(v, 0) = 0 /\ Unsigned(v, 6) = v
  BY LowBits, LowestBits
<1>4. Part(w, 12, 12, 5) + Part(w, 6, 2, 0) = v
  BY <1>1, <1>2, <1>3
<1>5. v % 2^6 = v /\ 2^6 = 64
  BY <1>3, Powers DEF Unsigned
<1> QED BY <1>4, <1>5 DEF C_get_imm_ADDI, Fill

----------------------------------------------------------------------------
(* The fields of a compressed instruction                                  *)

LEMMA TwoBits ==
  ASSUME NEW w, w \subseteq Int, NEW lo \in Nat, NEW hi, hi = lo + 1
  PROVE  range(w, hi, lo) = (IF lo \in w THEN 1 ELSE 0) + (IF hi \in w THEN 2 ELSE 0)
<1> DEFINE bits == {k - lo : k \in {b \in w : lo <= b /\ b <= hi}}
           f == [k \in 0 .. 1 |-> IF k \in bits THEN 2^k ELSE 0]
<1>1. hi - lo + 1 = 2 /\ 2 - 1 = 1
  OBVIOUS
<1>2. range(w, hi, lo) = Total(f, 2)
  BY <1>1 DEF range, Number
<1>3. (0 \in bits <=> lo \in w) /\ (1 \in bits <=> hi \in w)
  OBVIOUS
<1> HIDE DEF bits
<1>4. f[0] = (IF lo \in w THEN 1 ELSE 0) /\ f[1] = (IF hi \in w THEN 2 ELSE 0)
  BY <1>3, Powers
<1> HIDE DEF f
<1>5. Total(f, 0) = 0 /\ Total(f, 0 + 1) = Total(f, 0) + f[0]
  BY TotalZero, TotalNext
<1>6. Total(f, 1 + 1) = Total(f, 1) + f[1]
  BY TotalNext
<1> QED BY <1>2, <1>4, <1>5, <1>6

Quadrant(q, f) == Field(1, 0, q, 0) \cup Field(15, 13, f, 0)
IsTail(tail) == \A k \in tail : k \in Int /\ k >= 16

LEMMA QuadrantIs ==
  ASSUME NEW w, NEW q \in 0 .. 2, NEW f \in 0 .. 7, Holds(w, 1, 0, q, 0), Holds(w, 15, 13, f, 0)
  PROVE  range(w, 1, 0) = q /\ range(w, 15, 13) = f
<1>1. q < 2^2 /\ f < 2^3 /\ q \in Int /\ f \in Int /\ 0 <= q /\ 0 <= f
  BY Powers
<1>2. range(w, 1, 0) = q
  BY <1>1, FieldIs
<1>3. range(w, 15, 13) = f
  BY <1>1, FieldIs
<1> QED BY <1>2, <1>3

LEMMA RegisterIs ==
  ASSUME NEW w, NEW r
  PROVE  /\ r \in 0 .. 31 /\ Holds(w, 11, 7, r, 0) => range(w, 11, 7) = r
         /\ r \in 0 .. 31 /\ Holds(w, 6, 2, r, 0) => range(w, 6, 2) = r
         /\ r \in 8 .. 15 /\ Holds(w, 4, 2, r - 8, 0) => range(w, 4, 2) + 8 = r
         /\ r \in 8 .. 15 /\ Holds(w, 9, 7, r - 8, 0) => range(w, 9, 7) + 8 = r
<1>1. r \in 0 .. 31 => r \in Int /\ 0 <= r /\ r < 2^5
  BY Powers
<1>2. r \in 8 .. 15 => r - 8 \in Int /\ 0 <= r - 8 /\ r - 8 < 2^3
  BY Powers
<1>3. r \in 0 .. 31 /\ Holds(w, 11, 7, r, 0) => range(w, 11, 7) = r
  BY <1>1, FieldIs
<1>4. r \in 0 .. 31 /\ Holds(w, 6, 2, r, 0) => range(w, 6, 2) = r
  BY <1>1, FieldIs
<1> DEFINE s == r - 8
<1>5. r \in 8 .. 15 => s \in Int /\ 0 <= s /\ s < 2^3 /\ s + 8 = r
  BY <1>2
<1> HIDE DEF s
<1>6. r \in 8 .. 15 /\ Holds(w, 4, 2, s, 0) => range(w, 4, 2) = s
  BY <1>5, FieldIs
<1>7. r \in 8 .. 15 /\ Holds(w, 9, 7, s, 0) => range(w, 9, 7) = s
  BY <1>5, FieldIs
<1> QED BY <1>3, <1>4, <1>5, <1>6, <1>7 DEF s

(* CPU_step asks the C extension second, and check_extension agrees.       *)
LEMMA Dispatch16 ==
  ASSUME NEW w, w \subseteq Int, range(w, 1, 0) # 3, NEW t, NEW op, C_decode(t, w) = op, op # "ERROR"
  PROVE  Dispatch(t, w) = <<"C", op>> /\ check_extension(w) = "C"
<1> DEFINE opcode == range(w, 6, 0)
<1>1. 0 \notin w \/ 1 \notin w
  <2>1. range(w, 1, 0) = (IF 0 \in w THEN 1 ELSE 0) + (IF 1 \in w THEN 2 ELSE 0)
    <3> DEFINE lo == 0
               hi == 1
    <3>1. lo \in Nat /\ hi = lo + 1
      OBVIOUS
    <3> HIDE DEF lo, hi
    <3>2. range(w, hi, lo) = (IF lo \in w THEN 1 ELSE 0) + (IF hi \in w THEN 2 ELSE 0)
      BY <3>1, TwoBits
    <3> QED BY <3>2 DEF lo, hi
  <2> QED BY <2>1
<1>2. opcode % 4 # 3
  BY <1>1, OpcodeIsNot32
<1>3. opcode \notin {3, 15, 19, 23, 27, 35, 47, 51, 55, 59, 99, 103, 111, 115}
  <2> HIDE DEF opcode
  <2> QED BY <1>2
<1>4. decode(w) = "ERROR"
  BY <1>3 DEF decode
<1>5. check_extension(w) = "C"
  BY <1>3 DEF check_extension
<1> QED BY <1>4, <1>5 DEF Dispatch

(* One register, six bits of immediate.                                    *)
Word_RdImm(q, f, r, v, tail) ==
  Quadrant(q, f) \cup Field(11, 7, r, 0) \cup Field(12, 12, v, 5) \cup Field(6, 2, v, 0) \cup tail

Reads_RdImm(w, q, f, r, v) ==
  /\ Holds(w, 1, 0, q, 0) /\ range(w, 1, 0) = q /\ range(w, 15, 13) = f /\ range(w, 11, 7) = r
  /\ Holds(w, 12, 12, v, 5) /\ Holds(w, 6, 2, v, 0)

LEMMA Shape_RdImm ==
  ASSUME NEW w, NEW tail, IsTail(tail), NEW q \in 0 .. 2, NEW f \in 0 .. 7, NEW r \in 0 .. 31,
         NEW v,
         w = Word_RdImm(q, f, r, v, tail)
  PROVE  Reads_RdImm(w, q, f, r, v)
<1>1. /\ Holds(w, 1, 0, q, 0) /\ Holds(w, 15, 13, f, 0) /\ Holds(w, 11, 7, r, 0)
      /\ Holds(w, 12, 12, v, 5) /\ Holds(w, 6, 2, v, 0)
  BY DEF Word_RdImm, Holds, Field, Quadrant, IsTail
<1> QED BY <1>1, QuadrantIs, RegisterIs DEF Reads_RdImm

(* A short register, six bits of immediate.                                *)
Word_ShortImm(q, f, r, v, x, tail) ==
  Quadrant(q, f) \cup Field(9, 7, r - 8, 0) \cup Field(12, 12, v, 5) \cup Field(6, 2, v, 0) \cup x
    \cup tail

Reads_ShortImm(w, q, f, r, v, x) ==
  /\ Holds(w, 1, 0, q, 0) /\ range(w, 1, 0) = q /\ range(w, 15, 13) = f /\ range(w, 9, 7) + 8 = r
  /\ Holds(w, 12, 12, v, 5) /\ Holds(w, 6, 2, v, 0) /\ \A k \in {10, 11} : k \in w <=> k \in x

LEMMA Shape_ShortImm ==
  ASSUME NEW w, NEW tail, IsTail(tail), NEW q \in 0 .. 2, NEW f \in 0 .. 7, NEW r \in 8 .. 15,
         NEW v, NEW x, \A k \in x : k \in {10, 11},
         w = Word_ShortImm(q, f, r, v, x, tail)
  PROVE  Reads_ShortImm(w, q, f, r, v, x)
<1>1. /\ Holds(w, 1, 0, q, 0) /\ Holds(w, 15, 13, f, 0) /\ Holds(w, 9, 7, r - 8, 0)
      /\ Holds(w, 12, 12, v, 5) /\ Holds(w, 6, 2, v, 0) /\ \A k \in {10, 11} : k \in w <=> k \in x
  BY DEF Word_ShortImm, Holds, Field, Quadrant, IsTail
<1> QED BY <1>1, QuadrantIs, RegisterIs DEF Reads_ShortImm

(* Two short registers.                                                    *)
Word_ShortShort(q, f, r, s, x, tail) ==
  Quadrant(q, f) \cup Field(9, 7, r - 8, 0) \cup Field(4, 2, s - 8, 0) \cup x \cup tail

Reads_ShortShort(w, q, f, r, s, x) ==
  /\ Holds(w, 1, 0, q, 0) /\ range(w, 1, 0) = q /\ range(w, 15, 13) = f /\ range(w, 9, 7) + 8 = r
  /\ range(w, 4, 2) + 8 = s /\ \A k \in {5, 6, 10, 11, 12} : k \in w <=> k \in x

LEMMA Shape_ShortShort ==
  ASSUME NEW w, NEW tail, IsTail(tail), NEW q \in 0 .. 2, NEW f \in 0 .. 7, NEW r \in 8 .. 15,
         NEW s \in 8 .. 15, NEW x, \A k \in x : k \in {5, 6, 10, 11, 12},
         w = Word_ShortShort(q, f, r, s, x, tail)
  PROVE  Reads_ShortShort(w, q, f, r, s, x)
<1>1. /\ Holds(w, 1, 0, q, 0) /\ Holds(w, 15, 13, f, 0) /\ Holds(w, 9, 7, r - 8, 0)
      /\ Holds(w, 4, 2, s - 8, 0) /\ \A k \in {5, 6, 10, 11, 12} : k \in w <=> k \in x
  BY DEF Word_ShortShort, Holds, Field, Quadrant, IsTail
<1> QED BY <1>1, QuadrantIs, RegisterIs DEF Reads_ShortShort

(* The offset of a jump.                                                   *)
Word_Jump(q, f, v, tail) ==
  Quadrant(q, f) \cup Field(12, 12, v, 11) \cup Field(11, 11, v, 4) \cup Field(10, 9, v, 8)
    \cup Field(8, 8, v, 10) \cup Field(7, 7, v, 6) \cup Field(6, 6, v, 7) \cup Field(5, 3, v, 1)
    \cup Field(2, 2, v, 5) \cup tail

Reads_Jump(w, q, f, v) ==
  /\ Holds(w, 1, 0, q, 0) /\ range(w, 1, 0) = q /\ range(w, 15, 13) = f /\ Holds(w, 12, 12, v, 11)
  /\ Holds(w, 11, 11, v, 4) /\ Holds(w, 10, 10, v, 9) /\ Holds(w, 9, 9, v, 8)
  /\ Holds(w, 8, 8, v, 10) /\ Holds(w, 7, 7, v, 6) /\ Holds(w, 6, 6, v, 7) /\ Holds(w, 5, 3, v, 1)
  /\ Holds(w, 2, 2, v, 5)

LEMMA Shape_Jump ==
  ASSUME NEW w, NEW tail, IsTail(tail), NEW q \in 0 .. 2, NEW f \in 0 .. 7, NEW v,
         w = Word_Jump(q, f, v, tail)
  PROVE  Reads_Jump(w, q, f, v)
<1>1. /\ Holds(w, 1, 0, q, 0) /\ Holds(w, 15, 13, f, 0) /\ Holds(w, 12, 12, v, 11)
      /\ Holds(w, 11, 11, v, 4) /\ Holds(w, 10, 9, v, 8) /\ Holds(w, 8, 8, v, 10)
      /\ Holds(w, 7, 7, v, 6) /\ Holds(w, 6, 6, v, 7) /\ Holds(w, 5, 3, v, 1)
      /\ Holds(w, 2, 2, v, 5)
  BY DEF Word_Jump, Holds, Field, Quadrant, IsTail
<1>2. /\ Holds(w, 12, 12, v, 11) /\ Holds(w, 11, 11, v, 4) /\ Holds(w, 10, 10, v, 9)
      /\ Holds(w, 9, 9, v, 8) /\ Holds(w, 8, 8, v, 10) /\ Holds(w, 7, 7, v, 6)
      /\ Holds(w, 6, 6, v, 7) /\ Holds(w, 5, 3, v, 1) /\ Holds(w, 2, 2, v, 5)
  BY <1>1 DEF Holds
<1> QED BY <1>1, <1>2, QuadrantIs DEF Reads_Jump

(* A short register and the offset of a branch.                            *)
Word_Branch(q, f, r, v, tail) ==
  Quadrant(q, f) \cup Field(9, 7, r - 8, 0) \cup Field(12, 12, v, 8) \cup Field(11, 10, v, 3)
    \cup Field(6, 5, v, 6) \cup Field(4, 3, v, 1) \cup Field(2, 2, v, 5) \cup tail

Reads_Branch(w, q, f, r, v) ==
  /\ Holds(w, 1, 0, q, 0) /\ range(w, 1, 0) = q /\ range(w, 15, 13) = f /\ range(w, 9, 7) + 8 = r
  /\ Holds(w, 12, 12, v, 8) /\ Holds(w, 11, 11, v, 4) /\ Holds(w, 10, 10, v, 3)
  /\ Holds(w, 6, 6, v, 7) /\ Holds(w, 5, 5, v, 6) /\ Holds(w, 4, 4, v, 2) /\ Holds(w, 3, 3, v, 1)
  /\ Holds(w, 2, 2, v, 5)

LEMMA Shape_Branch ==
  ASSUME NEW w, NEW tail, IsTail(tail), NEW q \in 0 .. 2, NEW f \in 0 .. 7, NEW r \in 8 .. 15,
         NEW v,
         w = Word_Branch(q, f, r, v, tail)
  PROVE  Reads_Branch(w, q, f, r, v)
<1>1. /\ Holds(w, 1, 0, q, 0) /\ Holds(w, 15, 13, f, 0) /\ Holds(w, 9, 7, r - 8, 0)
      /\ Holds(w, 12, 12, v, 8) /\ Holds(w, 11, 10, v, 3) /\ Holds(w, 6, 5, v, 6)
      /\ Holds(w, 4, 3, v, 1) /\ Holds(w, 2, 2, v, 5)
  BY DEF Word_Branch, Holds, Field, Quadrant, IsTail
<1>2. /\ Holds(w, 12, 12, v, 8) /\ Holds(w, 11, 11, v, 4) /\ Holds(w, 10, 10, v, 3)
      /\ Holds(w, 6, 6, v, 7) /\ Holds(w, 5, 5, v, 6) /\ Holds(w, 4, 4, v, 2)
      /\ Holds(w, 3, 3, v, 1) /\ Holds(w, 2, 2, v, 5)
  BY <1>1 DEF Holds
<1> QED BY <1>1, <1>2, QuadrantIs, RegisterIs DEF Reads_Branch

(* Two short registers and the offset of a word.                           *)
Word_Word(q, f, r, s, v, tail) ==
  Quadrant(q, f) \cup Field(9, 7, r - 8, 0) \cup Field(4, 2, s - 8, 0) \cup Field(12, 10, v, 3)
    \cup Field(6, 6, v, 2) \cup Field(5, 5, v, 6) \cup tail

Reads_Word(w, q, f, r, s, v) ==
  /\ Holds(w, 1, 0, q, 0) /\ range(w, 1, 0) = q /\ range(w, 15, 13) = f /\ range(w, 9, 7) + 8 = r
  /\ range(w, 4, 2) + 8 = s /\ Holds(w, 12, 10, v, 3) /\ Holds(w, 6, 6, v, 2)
  /\ Holds(w, 5, 5, v, 6)

LEMMA Shape_Word ==
  ASSUME NEW w, NEW tail, IsTail(tail), NEW q \in 0 .. 2, NEW f \in 0 .. 7, NEW r \in 8 .. 15,
         NEW s \in 8 .. 15, NEW v,
         w = Word_Word(q, f, r, s, v, tail)
  PROVE  Reads_Word(w, q, f, r, s, v)
<1>1. /\ Holds(w, 1, 0, q, 0) /\ Holds(w, 15, 13, f, 0) /\ Holds(w, 9, 7, r - 8, 0)
      /\ Holds(w, 4, 2, s - 8, 0) /\ Holds(w, 12, 10, v, 3) /\ Holds(w, 6, 6, v, 2)
      /\ Holds(w, 5, 5, v, 6)
  BY DEF Word_Word, Holds, Field, Quadrant, IsTail
<1> QED BY <1>1, QuadrantIs, RegisterIs DEF Reads_Word

(* Two short registers and the offset of a doubleword.                     *)
Word_Double(q, f, r, s, v, tail) ==
  Quadrant(q, f) \cup Field(9, 7, r - 8, 0) \cup Field(4, 2, s - 8, 0) \cup Field(12, 10, v, 3)
    \cup Field(6, 5, v, 6) \cup tail

Reads_Double(w, q, f, r, s, v) ==
  /\ Holds(w, 1, 0, q, 0) /\ range(w, 1, 0) = q /\ range(w, 15, 13) = f /\ range(w, 9, 7) + 8 = r
  /\ range(w, 4, 2) + 8 = s /\ Holds(w, 12, 10, v, 3) /\ Holds(w, 6, 5, v, 6)

LEMMA Shape_Double ==
  ASSUME NEW w, NEW tail, IsTail(tail), NEW q \in 0 .. 2, NEW f \in 0 .. 7, NEW r \in 8 .. 15,
         NEW s \in 8 .. 15, NEW v,
         w = Word_Double(q, f, r, s, v, tail)
  PROVE  Reads_Double(w, q, f, r, s, v)
<1>1. /\ Holds(w, 1, 0, q, 0) /\ Holds(w, 15, 13, f, 0) /\ Holds(w, 9, 7, r - 8, 0)
      /\ Holds(w, 4, 2, s - 8, 0) /\ Holds(w, 12, 10, v, 3) /\ Holds(w, 6, 5, v, 6)
  BY DEF Word_Double, Holds, Field, Quadrant, IsTail
<1> QED BY <1>1, QuadrantIs, RegisterIs DEF Reads_Double

(* A register and the offset of a word from sp.                            *)
Word_LWSP(q, f, r, v, tail) ==
  Quadrant(q, f) \cup Field(11, 7, r, 0) \cup Field(12, 12, v, 5) \cup Field(6, 4, v, 2)
    \cup Field(3, 2, v, 6) \cup tail

Reads_LWSP(w, q, f, r, v) ==
  /\ Holds(w, 1, 0, q, 0) /\ range(w, 1, 0) = q /\ range(w, 15, 13) = f /\ range(w, 11, 7) = r
  /\ Holds(w, 12, 12, v, 5) /\ Holds(w, 6, 4, v, 2) /\ Holds(w, 3, 2, v, 6)

LEMMA Shape_LWSP ==
  ASSUME NEW w, NEW tail, IsTail(tail), NEW q \in 0 .. 2, NEW f \in 0 .. 7, NEW r \in 0 .. 31,
         NEW v,
         w = Word_LWSP(q, f, r, v, tail)
  PROVE  Reads_LWSP(w, q, f, r, v)
<1>1. /\ Holds(w, 1, 0, q, 0) /\ Holds(w, 15, 13, f, 0) /\ Holds(w, 11, 7, r, 0)
      /\ Holds(w, 12, 12, v, 5) /\ Holds(w, 6, 4, v, 2) /\ Holds(w, 3, 2, v, 6)
  BY DEF Word_LWSP, Holds, Field, Quadrant, IsTail
<1> QED BY <1>1, QuadrantIs, RegisterIs DEF Reads_LWSP

(* A register and the offset of a doubleword from sp.                      *)
Word_LDSP(q, f, r, v, tail) ==
  Quadrant(q, f) \cup Field(11, 7, r, 0) \cup Field(12, 12, v, 5) \cup Field(6, 5, v, 3)
    \cup Field(4, 2, v, 6) \cup tail

Reads_LDSP(w, q, f, r, v) ==
  /\ Holds(w, 1, 0, q, 0) /\ range(w, 1, 0) = q /\ range(w, 15, 13) = f /\ range(w, 11, 7) = r
  /\ Holds(w, 12, 12, v, 5) /\ Holds(w, 6, 5, v, 3) /\ Holds(w, 4, 2, v, 6)

LEMMA Shape_LDSP ==
  ASSUME NEW w, NEW tail, IsTail(tail), NEW q \in 0 .. 2, NEW f \in 0 .. 7, NEW r \in 0 .. 31,
         NEW v,
         w = Word_LDSP(q, f, r, v, tail)
  PROVE  Reads_LDSP(w, q, f, r, v)
<1>1. /\ Holds(w, 1, 0, q, 0) /\ Holds(w, 15, 13, f, 0) /\ Holds(w, 11, 7, r, 0)
      /\ Holds(w, 12, 12, v, 5) /\ Holds(w, 6, 5, v, 3) /\ Holds(w, 4, 2, v, 6)
  BY DEF Word_LDSP, Holds, Field, Quadrant, IsTail
<1> QED BY <1>1, QuadrantIs, RegisterIs DEF Reads_LDSP

(* A register to store and the offset of a word from sp.                   *)
Word_SWSP(q, f, r, v, tail) ==
  Quadrant(q, f) \cup Field(6, 2, r, 0) \cup Field(12, 9, v, 2) \cup Field(8, 7, v, 6) \cup tail

Reads_SWSP(w, q, f, r, v) ==
  /\ Holds(w, 1, 0, q, 0) /\ range(w, 1, 0) = q /\ range(w, 15, 13) = f /\ range(w, 6, 2) = r
  /\ Holds(w, 12, 9, v, 2) /\ Holds(w, 8, 7, v, 6)

LEMMA Shape_SWSP ==
  ASSUME NEW w, NEW tail, IsTail(tail), NEW q \in 0 .. 2, NEW f \in 0 .. 7, NEW r \in 0 .. 31,
         NEW v,
         w = Word_SWSP(q, f, r, v, tail)
  PROVE  Reads_SWSP(w, q, f, r, v)
<1>1. /\ Holds(w, 1, 0, q, 0) /\ Holds(w, 15, 13, f, 0) /\ Holds(w, 6, 2, r, 0)
      /\ Holds(w, 12, 9, v, 2) /\ Holds(w, 8, 7, v, 6)
  BY DEF Word_SWSP, Holds, Field, Quadrant, IsTail
<1> QED BY <1>1, QuadrantIs, RegisterIs DEF Reads_SWSP

(* A register to store and the offset of a doubleword from sp.             *)
Word_SDSP(q, f, r, v, tail) ==
  Quadrant(q, f) \cup Field(6, 2, r, 0) \cup Field(12, 10, v, 3) \cup Field(9, 7, v, 6) \cup tail

Reads_SDSP(w, q, f, r, v) ==
  /\ Holds(w, 1, 0, q, 0) /\ range(w, 1, 0) = q /\ range(w, 15, 13) = f /\ range(w, 6, 2) = r
  /\ Holds(w, 12, 10, v, 3) /\ Holds(w, 9, 7, v, 6)

LEMMA Shape_SDSP ==
  ASSUME NEW w, NEW tail, IsTail(tail), NEW q \in 0 .. 2, NEW f \in 0 .. 7, NEW r \in 0 .. 31,
         NEW v,
         w = Word_SDSP(q, f, r, v, tail)
  PROVE  Reads_SDSP(w, q, f, r, v)
<1>1. /\ Holds(w, 1, 0, q, 0) /\ Holds(w, 15, 13, f, 0) /\ Holds(w, 6, 2, r, 0)
      /\ Holds(w, 12, 10, v, 3) /\ Holds(w, 9, 7, v, 6)
  BY DEF Word_SDSP, Holds, Field, Quadrant, IsTail
<1> QED BY <1>1, QuadrantIs, RegisterIs DEF Reads_SDSP

(* A short register and an offset from sp.                                 *)
Word_ADDI4SPN(q, f, s, v, tail) ==
  Quadrant(q, f) \cup Field(4, 2, s - 8, 0) \cup Field(12, 11, v, 4) \cup Field(10, 7, v, 6)
    \cup Field(6, 6, v, 2) \cup Field(5, 5, v, 3) \cup tail

Reads_ADDI4SPN(w, q, f, s, v) ==
  /\ Holds(w, 1, 0, q, 0) /\ range(w, 1, 0) = q /\ range(w, 15, 13) = f /\ range(w, 4, 2) + 8 = s
  /\ Holds(w, 12, 11, v, 4) /\ Holds(w, 10, 7, v, 6) /\ Holds(w, 6, 6, v, 2) /\ Holds(w, 5, 5, v, 3)

LEMMA Shape_ADDI4SPN ==
  ASSUME NEW w, NEW tail, IsTail(tail), NEW q \in 0 .. 2, NEW f \in 0 .. 7, NEW s \in 8 .. 15,
         NEW v,
         w = Word_ADDI4SPN(q, f, s, v, tail)
  PROVE  Reads_ADDI4SPN(w, q, f, s, v)
<1>1. /\ Holds(w, 1, 0, q, 0) /\ Holds(w, 15, 13, f, 0) /\ Holds(w, 4, 2, s - 8, 0)
      /\ Holds(w, 12, 11, v, 4) /\ Holds(w, 10, 7, v, 6) /\ Holds(w, 6, 6, v, 2)
      /\ Holds(w, 5, 5, v, 3)
  BY DEF Word_ADDI4SPN, Holds, Field, Quadrant, IsTail
<1> QED BY <1>1, QuadrantIs, RegisterIs DEF Reads_ADDI4SPN

(* Sp and its adjustment.                                                  *)
Word_ADDI16SP(q, f, r, v, tail) ==
  Quadrant(q, f) \cup Field(11, 7, r, 0) \cup Field(12, 12, v, 9) \cup Field(6, 6, v, 4)
    \cup Field(5, 5, v, 6) \cup Field(4, 3, v, 7) \cup Field(2, 2, v, 5) \cup tail

Reads_ADDI16SP(w, q, f, r, v) ==
  /\ Holds(w, 1, 0, q, 0) /\ range(w, 1, 0) = q /\ range(w, 15, 13) = f /\ range(w, 11, 7) = r
  /\ Holds(w, 12, 12, v, 9) /\ Holds(w, 6, 6, v, 4) /\ Holds(w, 5, 5, v, 6) /\ Holds(w, 4, 4, v, 8)
  /\ Holds(w, 3, 3, v, 7) /\ Holds(w, 2, 2, v, 5)

LEMMA Shape_ADDI16SP ==
  ASSUME NEW w, NEW tail, IsTail(tail), NEW q \in 0 .. 2, NEW f \in 0 .. 7, NEW r \in 0 .. 31,
         NEW v,
         w = Word_ADDI16SP(q, f, r, v, tail)
  PROVE  Reads_ADDI16SP(w, q, f, r, v)
<1>1. /\ Holds(w, 1, 0, q, 0) /\ Holds(w, 15, 13, f, 0) /\ Holds(w, 11, 7, r, 0)
      /\ Holds(w, 12, 12, v, 9) /\ Holds(w, 6, 6, v, 4) /\ Holds(w, 5, 5, v, 6)
      /\ Holds(w, 4, 3, v, 7) /\ Holds(w, 2, 2, v, 5)
  BY DEF Word_ADDI16SP, Holds, Field, Quadrant, IsTail
<1>2. /\ Holds(w, 12, 12, v, 9) /\ Holds(w, 6, 6, v, 4) /\ Holds(w, 5, 5, v, 6)
      /\ Holds(w, 4, 4, v, 8) /\ Holds(w, 3, 3, v, 7) /\ Holds(w, 2, 2, v, 5)
  BY <1>1 DEF Holds
<1> QED BY <1>1, <1>2, QuadrantIs, RegisterIs DEF Reads_ADDI16SP

(* One register, no immediate.                                             *)
Word_Rd(q, f, r, x, tail) ==
  Quadrant(q, f) \cup Field(11, 7, r, 0) \cup x \cup tail

Reads_Rd(w, q, f, r, x) ==
  /\ Holds(w, 1, 0, q, 0) /\ range(w, 1, 0) = q /\ range(w, 15, 13) = f /\ range(w, 11, 7) = r
  /\ (12 \in w <=> 12 \in x) /\ \A k \in 2 .. 6 : k \notin w

LEMMA Shape_Rd ==
  ASSUME NEW w, NEW tail, IsTail(tail), NEW q \in 0 .. 2, NEW f \in 0 .. 7, NEW r \in 0 .. 31,
         NEW x, \A k \in x : k \in {12},
         w = Word_Rd(q, f, r, x, tail)
  PROVE  Reads_Rd(w, q, f, r, x)
<1>1. /\ Holds(w, 1, 0, q, 0) /\ Holds(w, 15, 13, f, 0) /\ Holds(w, 11, 7, r, 0)
      /\ (12 \in w <=> 12 \in x) /\ \A k \in 2 .. 6 : k \notin w
  BY DEF Word_Rd, Holds, Field, Quadrant, IsTail
<1> QED BY <1>1, QuadrantIs, RegisterIs DEF Reads_Rd

(* Two registers.                                                          *)
Word_RdRs2(q, f, r, s, x, tail) ==
  Quadrant(q, f) \cup Field(11, 7, r, 0) \cup Field(6, 2, s, 0) \cup x \cup tail

Reads_RdRs2(w, q, f, r, s, x) ==
  /\ Holds(w, 1, 0, q, 0) /\ range(w, 1, 0) = q /\ range(w, 15, 13) = f /\ range(w, 11, 7) = r
  /\ range(w, 6, 2) = s /\ \A k \in {12} : k \in w <=> k \in x

LEMMA Shape_RdRs2 ==
  ASSUME NEW w, NEW tail, IsTail(tail), NEW q \in 0 .. 2, NEW f \in 0 .. 7, NEW r \in 0 .. 31,
         NEW s \in 0 .. 31, NEW x, \A k \in x : k \in {12},
         w = Word_RdRs2(q, f, r, s, x, tail)
  PROVE  Reads_RdRs2(w, q, f, r, s, x)
<1>1. /\ Holds(w, 1, 0, q, 0) /\ Holds(w, 15, 13, f, 0) /\ Holds(w, 11, 7, r, 0)
      /\ Holds(w, 6, 2, s, 0) /\ \A k \in {12} : k \in w <=> k \in x
  BY DEF Word_RdRs2, Holds, Field, Quadrant, IsTail
<1> QED BY <1>1, QuadrantIs, RegisterIs DEF Reads_RdRs2

----------------------------------------------------------------------------
(* The decoder on a compressed instruction                                 *)

Fetched16(t, i, tail, w) ==
  /\ t \in {"RV32", "RV64"} /\ Instruction(i) /\ Encodable(i) /\ Legal(t, i) /\ i.c # "-"
  /\ IsTail(tail) /\ w = Assemble16(i) \cup tail

Code(i) == IF i.c = "C_LUI" THEN "C_ADDI16SP" ELSE i.c

DecodesC(t, i, w) ==
  /\ w \subseteq Int /\ range(w, 1, 0) # 3 /\ C_decode(t, w) = Code(i) /\ Code(i) # "ERROR"
  /\ DecodedAs(i, "C", Code(i), C_operands(w, Code(i)))

(* The operands that the instruction has.                                  *)
OperandsMatch(i, rd, rs1, rs2, imm) ==
  /\ i.op \notin StoreOps \cup BranchOps => rd = i.rd
  /\ i.op \notin UpperOps \cup {"JAL"} => rs1 = i.rs1
  /\ i.op \in BaseOps \cup StoreOps \cup BranchOps => rs2 = i.rs2
  /\ i.op \notin MulDivOps \cup AmoOps
  /\ IF i.op \in ShiftOps THEN imm \in {i.imm, i.imm - 64} ELSE i.op \notin BaseOps => imm = i.imm

LEMMA DecodesC_Is ==
  ASSUME NEW t, NEW i, i.c # "-", NEW w, w \subseteq Int, NEW q, range(w, 1, 0) = q, q # 3,
         NEW op, op = Code(i), op # "ERROR", C_decode(t, w) = op,
         NEW rd, NEW rs1, NEW rs2, NEW imm, C_operands(w, op) = Operands(rd, rs1, rs2, imm),
         OperandsMatch(i, rd, rs1, rs2, imm)
  PROVE  DecodesC(t, i, w)
<1>1. Extension(i) = "C"
  BY DEF Extension
<1>2. op = (CASE i.c = "C_LUI" -> "C_ADDI16SP" [] i.c # "-" /\ i.c # "C_LUI" -> i.c
              [] i.op = "AMOADD_D" -> "AMOADD" [] OTHER -> i.op)
  <2>1. i.op # "AMOADD_D"
    BY DEF OperandsMatch, AmoOps
  <2> QED BY <2>1 DEF Code
<1> DEFINE d == C_operands(w, op)
<1>3. d.rd = rd /\ d.rs1 = rs1 /\ d.rs2 = rs2 /\ d.imm = imm
  BY DEF Operands
<1> HIDE DEF d
<1>4. DecodedAs(i, "C", op, d)
  BY <1>1, <1>2, <1>3 DEF DecodedAs, OperandsMatch
<1> QED BY <1>4 DEF DecodesC, d

LEMMA Decodes_C_ADDI4SPN ==
  ASSUME NEW t, NEW i, NEW tail, NEW w, Fetched16(t, i, tail, w), i.c = "C_ADDI4SPN"
  PROVE  DecodesC(t, i, w)
<1> DEFINE q == 0
           f == 0
<1>1. w = Word_ADDI4SPN(q, f, i.rd, i.imm, tail)
  BY DEF Fetched16, Assemble16, Quadrant, Word_ADDI4SPN
<1>2. /\ IsTail(tail) /\ i.op = "ADDI" /\ i.rd \in 8 .. 15 /\ i.imm \in Int /\ i.rs1 = 2
      /\ Code(i) = "C_ADDI4SPN" /\ q \in 0 .. 2 /\ f \in 0 .. 7
  BY WordAssumption DEF Fetched16, Instruction, Expansion, Encodable, ShiftOps, Code
<1>3. 0 <= i.imm /\ i.imm < 2^10 /\ Unsigned(i.imm, 2) = 0
  <2>1. i.imm \in 0 .. 2^10 - 1 /\ i.imm % 4 = 0
    BY DEF Fetched16, Encodable
  <2> QED BY <1>2, <2>1, Powers, LowestBits
<1>4. /\ Holds(w, 1, 0, q, 0) /\ range(w, 1, 0) = q /\ range(w, 15, 13) = f
      /\ range(w, 4, 2) + 8 = i.rd /\ Holds(w, 12, 11, i.imm, 4) /\ Holds(w, 10, 7, i.imm, 6)
      /\ Holds(w, 6, 6, i.imm, 2) /\ Holds(w, 5, 5, i.imm, 3)
  <2> HIDE DEF q, f
  <2>1. Reads_ADDI4SPN(w, q, f, i.rd, i.imm)
    BY <1>1, <1>2, Shape_ADDI4SPN
  <2> QED BY <2>1 DEF Reads_ADDI4SPN
<1>5. C_get_imm_ADDI4SPN(w) = i.imm
  BY <1>2, <1>3, <1>4, Imm_C_ADDI4SPN
<1>6. C_decode(t, w) = "C_ADDI4SPN"
  BY <1>2, <1>4 DEF Fetched16, C_decode, C_decode_Q0
<1>7. C_operands(w, "C_ADDI4SPN") = Operands(i.rd, 2, 0, i.imm)
  BY <1>2, <1>4, <1>5 DEF C_operands
<1>8. OperandsMatch(i, i.rd, 2, 0, i.imm)
  BY <1>2 DEF OperandsMatch, StoreOps, BranchOps, UpperOps, BaseOps, MulDivOps, AmoOps, ShiftOps
<1>9. w \subseteq Int
  BY <1>4 DEF Holds
<1> QED BY <1>2, <1>4, <1>6, <1>7, <1>8, <1>9, DecodesC_Is DEF Fetched16

LEMMA Decodes_C_LW ==
  ASSUME NEW t, NEW i, NEW tail, NEW w, Fetched16(t, i, tail, w), i.c = "C_LW"
  PROVE  DecodesC(t, i, w)
<1> DEFINE q == 0
           f == 2
<1>1. w = Word_Word(q, f, i.rs1, i.rd, i.imm, tail)
  BY DEF Fetched16, Assemble16, Quadrant, Word_Word
<1>2. /\ IsTail(tail) /\ i.op = "LW" /\ i.rs1 \in 8 .. 15 /\ i.rd \in 8 .. 15 /\ i.imm \in Int
      /\ Code(i) = "C_LW" /\ q \in 0 .. 2 /\ f \in 0 .. 7
  BY WordAssumption DEF Fetched16, Instruction, Expansion, Encodable, ShiftOps, Code
<1>3. 0 <= i.imm /\ i.imm < 2^7 /\ Unsigned(i.imm, 2) = 0
  <2>1. i.imm \in 0 .. 2^7 - 1 /\ i.imm % 4 = 0
    BY DEF Fetched16, Encodable
  <2> QED BY <1>2, <2>1, Powers, LowestBits
<1>4. /\ Holds(w, 1, 0, q, 0) /\ range(w, 1, 0) = q /\ range(w, 15, 13) = f
      /\ range(w, 9, 7) + 8 = i.rs1 /\ range(w, 4, 2) + 8 = i.rd /\ Holds(w, 12, 10, i.imm, 3)
      /\ Holds(w, 6, 6, i.imm, 2) /\ Holds(w, 5, 5, i.imm, 6)
  <2> HIDE DEF q, f
  <2>1. Reads_Word(w, q, f, i.rs1, i.rd, i.imm)
    BY <1>1, <1>2, Shape_Word
  <2> QED BY <2>1 DEF Reads_Word
<1>5. C_get_imm_L(w) = i.imm
  BY <1>2, <1>3, <1>4, Imm_C_L
<1>6. C_decode(t, w) = "C_LW"
  BY <1>2, <1>4 DEF Fetched16, C_decode, C_decode_Q0
<1>7. C_operands(w, "C_LW") = Operands(i.rd, i.rs1, 0, i.imm)
  BY <1>2, <1>4, <1>5 DEF C_operands
<1>8. OperandsMatch(i, i.rd, i.rs1, 0, i.imm)
  BY <1>2 DEF OperandsMatch, StoreOps, BranchOps, UpperOps, BaseOps, MulDivOps, AmoOps, ShiftOps
<1>9. w \subseteq Int
  BY <1>4 DEF Holds
<1> QED BY <1>2, <1>4, <1>6, <1>7, <1>8, <1>9, DecodesC_Is DEF Fetched16

LEMMA Decodes_C_LD ==
  ASSUME NEW t, NEW i, NEW tail, NEW w, Fetched16(t, i, tail, w), i.c = "C_LD"
  PROVE  DecodesC(t, i, w)
<1> DEFINE q == 0
           f == 3
<1>1. w = Word_Double(q, f, i.rs1, i.rd, i.imm, tail)
  BY DEF Fetched16, Assemble16, Quadrant, Word_Double
<1>2. /\ IsTail(tail) /\ i.op = "LD" /\ i.rs1 \in 8 .. 15 /\ i.rd \in 8 .. 15 /\ i.imm \in Int
      /\ Code(i) = "C_LD" /\ q \in 0 .. 2 /\ f \in 0 .. 7 /\ t # "RV32"
  BY WordAssumption DEF Fetched16, Instruction, Expansion, Encodable, ShiftOps, Code, Legal, Only64
<1>3. 0 <= i.imm /\ i.imm < 2^8 /\ Unsigned(i.imm, 3) = 0
  <2>1. i.imm \in 0 .. 2^8 - 1 /\ i.imm % 8 = 0
    BY DEF Fetched16, Encodable
  <2> QED BY <1>2, <2>1, Powers, LowestBits
<1>4. /\ Holds(w, 1, 0, q, 0) /\ range(w, 1, 0) = q /\ range(w, 15, 13) = f
      /\ range(w, 9, 7) + 8 = i.rs1 /\ range(w, 4, 2) + 8 = i.rd /\ Holds(w, 12, 10, i.imm, 3)
      /\ Holds(w, 6, 5, i.imm, 6)
  <2> HIDE DEF q, f
  <2>1. Reads_Double(w, q, f, i.rs1, i.rd, i.imm)
    BY <1>1, <1>2, Shape_Double
  <2> QED BY <2>1 DEF Reads_Double
<1>5. C_get_imm_CL(w) = i.imm
  BY <1>2, <1>3, <1>4, Imm_C_CL
<1>6. C_decode(t, w) = "C_LD"
  BY <1>2, <1>4 DEF Fetched16, C_decode, C_decode_Q0
<1>7. C_operands(w, "C_LD") = Operands(i.rd, i.rs1, 0, i.imm)
  BY <1>2, <1>4, <1>5 DEF C_operands
<1>8. OperandsMatch(i, i.rd, i.rs1, 0, i.imm)
  BY <1>2 DEF OperandsMatch, StoreOps, BranchOps, UpperOps, BaseOps, MulDivOps, AmoOps, ShiftOps
<1>9. w \subseteq Int
  BY <1>4 DEF Holds
<1> QED BY <1>2, <1>4, <1>6, <1>7, <1>8, <1>9, DecodesC_Is DEF Fetched16

LEMMA Decodes_C_SW ==
  ASSUME NEW t, NEW i, NEW tail, NEW w, Fetched16(t, i, tail, w), i.c = "C_SW"
  PROVE  DecodesC(t, i, w)
<1> DEFINE q == 0
           f == 6
<1>1. w = Word_Word(q, f, i.rs1, i.rs2, i.imm, tail)
  BY DEF Fetched16, Assemble16, Quadrant, Word_Word
<1>2. /\ IsTail(tail) /\ i.op = "SW" /\ i.rs1 \in 8 .. 15 /\ i.rs2 \in 8 .. 15 /\ i.imm \in Int
      /\ Code(i) = "C_SW" /\ q \in 0 .. 2 /\ f \in 0 .. 7
  BY WordAssumption DEF Fetched16, Instruction, Expansion, Encodable, ShiftOps, Code
<1>3. 0 <= i.imm /\ i.imm < 2^7 /\ Unsigned(i.imm, 2) = 0
  <2>1. i.imm \in 0 .. 2^7 - 1 /\ i.imm % 4 = 0
    BY DEF Fetched16, Encodable
  <2> QED BY <1>2, <2>1, Powers, LowestBits
<1>4. /\ Holds(w, 1, 0, q, 0) /\ range(w, 1, 0) = q /\ range(w, 15, 13) = f
      /\ range(w, 9, 7) + 8 = i.rs1 /\ range(w, 4, 2) + 8 = i.rs2 /\ Holds(w, 12, 10, i.imm, 3)
      /\ Holds(w, 6, 6, i.imm, 2) /\ Holds(w, 5, 5, i.imm, 6)
  <2> HIDE DEF q, f
  <2>1. Reads_Word(w, q, f, i.rs1, i.rs2, i.imm)
    BY <1>1, <1>2, Shape_Word
  <2> QED BY <2>1 DEF Reads_Word
<1>5. C_get_imm_L(w) = i.imm
  BY <1>2, <1>3, <1>4, Imm_C_L
<1>6. C_decode(t, w) = "C_SW"
  BY <1>2, <1>4 DEF Fetched16, C_decode, C_decode_Q0
<1>7. C_operands(w, "C_SW") = Operands(0, i.rs1, i.rs2, i.imm)
  BY <1>2, <1>4, <1>5 DEF C_operands
<1>8. OperandsMatch(i, 0, i.rs1, i.rs2, i.imm)
  BY <1>2 DEF OperandsMatch, StoreOps, BranchOps, UpperOps, BaseOps, MulDivOps, AmoOps, ShiftOps
<1>9. w \subseteq Int
  BY <1>4 DEF Holds
<1> QED BY <1>2, <1>4, <1>6, <1>7, <1>8, <1>9, DecodesC_Is DEF Fetched16

LEMMA Decodes_C_SD ==
  ASSUME NEW t, NEW i, NEW tail, NEW w, Fetched16(t, i, tail, w), i.c = "C_SD"
  PROVE  DecodesC(t, i, w)
<1> DEFINE q == 0
           f == 7
<1>1. w = Word_Double(q, f, i.rs1, i.rs2, i.imm, tail)
  BY DEF Fetched16, Assemble16, Quadrant, Word_Double
<1>2. /\ IsTail(tail) /\ i.op = "SD" /\ i.rs1 \in 8 .. 15 /\ i.rs2 \in 8 .. 15 /\ i.imm \in Int
      /\ Code(i) = "C_SD" /\ q \in 0 .. 2 /\ f \in 0 .. 7 /\ t # "RV32"
  BY WordAssumption DEF Fetched16, Instruction, Expansion, Encodable, ShiftOps, Code, Legal, Only64
<1>3. 0 <= i.imm /\ i.imm < 2^8 /\ Unsigned(i.imm, 3) = 0
  <2>1. i.imm \in 0 .. 2^8 - 1 /\ i.imm % 8 = 0
    BY DEF Fetched16, Encodable
  <2> QED BY <1>2, <2>1, Powers, LowestBits
<1>4. /\ Holds(w, 1, 0, q, 0) /\ range(w, 1, 0) = q /\ range(w, 15, 13) = f
      /\ range(w, 9, 7) + 8 = i.rs1 /\ range(w, 4, 2) + 8 = i.rs2 /\ Holds(w, 12, 10, i.imm, 3)
      /\ Holds(w, 6, 5, i.imm, 6)
  <2> HIDE DEF q, f
  <2>1. Reads_Double(w, q, f, i.rs1, i.rs2, i.imm)
    BY <1>1, <1>2, Shape_Double
  <2> QED BY <2>1 DEF Reads_Double
<1>5. C_get_imm_CL(w) = i.imm
  BY <1>2, <1>3, <1>4, Imm_C_CL
<1>6. C_decode(t, w) = "C_SD"
  BY <1>2, <1>4 DEF Fetched16, C_decode, C_decode_Q0
<1>7. C_operands(w, "C_SD") = Operands(0, i.rs1, i.rs2, i.imm)
  BY <1>2, <1>4, <1>5 DEF C_operands
<1>8. OperandsMatch(i, 0, i.rs1, i.rs2, i.imm)
  BY <1>2 DEF OperandsMatch, StoreOps, BranchOps, UpperOps, BaseOps, MulDivOps, AmoOps, ShiftOps
<1>9. w \subseteq Int
  BY <1>4 DEF Holds
<1> QED BY <1>2, <1>4, <1>6, <1>7, <1>8, <1>9, DecodesC_Is DEF Fetched16

LEMMA Decodes_C_ADDI ==
  ASSUME NEW t, NEW i, NEW tail, NEW w, Fetched16(t, i, tail, w), i.c = "C_ADDI"
  PROVE  DecodesC(t, i, w)
<1> DEFINE q == 1
           f == 0
<1>1. w = Word_RdImm(q, f, i.rd, i.imm, tail)
  BY DEF Fetched16, Assemble16, Quadrant, Word_RdImm
<1>2. /\ IsTail(tail) /\ i.op = "ADDI" /\ i.rd \in 0 .. 31 /\ i.imm \in Int /\ i.rd = i.rs1
      /\ Code(i) = "C_ADDI" /\ q \in 0 .. 2 /\ f \in 0 .. 7
  BY WordAssumption DEF Fetched16, Instruction, Expansion, Encodable, ShiftOps, Code
<1>3. -(2^5) <= i.imm /\ i.imm < 2^5
  <2>1. i.imm \in -(2^(6 - 1)) .. 2^(6 - 1) - 1
    BY DEF Fetched16, Encodable
  <2> QED BY <1>2, <2>1, Powers
<1>4. /\ Holds(w, 1, 0, q, 0) /\ range(w, 1, 0) = q /\ range(w, 15, 13) = f
      /\ range(w, 11, 7) = i.rd /\ Holds(w, 12, 12, i.imm, 5) /\ Holds(w, 6, 2, i.imm, 0)
  <2> HIDE DEF q, f
  <2>1. Reads_RdImm(w, q, f, i.rd, i.imm)
    BY <1>1, <1>2, Shape_RdImm
  <2> QED BY <2>1 DEF Reads_RdImm
<1>5. C_get_imm_ADDI(w) = i.imm
  BY <1>2, <1>3, <1>4, Imm_C_ADDI
<1>6. C_decode(t, w) = "C_ADDI"
  BY <1>2, <1>4 DEF Fetched16, C_decode, C_decode_Q1
<1>7. C_operands(w, "C_ADDI") = Operands(i.rd, i.rd, 0, i.imm)
  BY <1>2, <1>4, <1>5 DEF C_operands
<1>8. OperandsMatch(i, i.rd, i.rd, 0, i.imm)
  BY <1>2 DEF OperandsMatch, StoreOps, BranchOps, UpperOps, BaseOps, MulDivOps, AmoOps, ShiftOps
<1>9. w \subseteq Int
  BY <1>4 DEF Holds
<1> QED BY <1>2, <1>4, <1>6, <1>7, <1>8, <1>9, DecodesC_Is DEF Fetched16

LEMMA Decodes_C_ADDIW ==
  ASSUME NEW t, NEW i, NEW tail, NEW w, Fetched16(t, i, tail, w), i.c = "C_ADDIW"
  PROVE  DecodesC(t, i, w)
<1> DEFINE q == 1
           f == 1
<1>1. w = Word_RdImm(q, f, i.rd, i.imm, tail)
  BY DEF Fetched16, Assemble16, Quadrant, Word_RdImm
<1>2. /\ IsTail(tail) /\ i.op = "ADDIW" /\ i.rd \in 0 .. 31 /\ i.imm \in Int /\ i.rd = i.rs1
      /\ Code(i) = "C_ADDIW" /\ q \in 0 .. 2 /\ f \in 0 .. 7 /\ t # "RV32"
  BY WordAssumption DEF Fetched16, Instruction, Expansion, Encodable, ShiftOps, Code, Legal, Only64
<1>3. -(2^5) <= i.imm /\ i.imm < 2^5
  <2>1. i.imm \in -(2^(6 - 1)) .. 2^(6 - 1) - 1
    BY DEF Fetched16, Encodable
  <2> QED BY <1>2, <2>1, Powers
<1>4. /\ Holds(w, 1, 0, q, 0) /\ range(w, 1, 0) = q /\ range(w, 15, 13) = f
      /\ range(w, 11, 7) = i.rd /\ Holds(w, 12, 12, i.imm, 5) /\ Holds(w, 6, 2, i.imm, 0)
  <2> HIDE DEF q, f
  <2>1. Reads_RdImm(w, q, f, i.rd, i.imm)
    BY <1>1, <1>2, Shape_RdImm
  <2> QED BY <2>1 DEF Reads_RdImm
<1>5. C_get_imm_ADDI(w) = i.imm
  BY <1>2, <1>3, <1>4, Imm_C_ADDI
<1>6. C_decode(t, w) = "C_ADDIW"
  BY <1>2, <1>4 DEF Fetched16, C_decode, C_decode_Q1
<1>7. C_operands(w, "C_ADDIW") = Operands(i.rd, i.rd, 0, i.imm)
  BY <1>2, <1>4, <1>5 DEF C_operands
<1>8. OperandsMatch(i, i.rd, i.rd, 0, i.imm)
  BY <1>2 DEF OperandsMatch, StoreOps, BranchOps, UpperOps, BaseOps, MulDivOps, AmoOps, ShiftOps
<1>9. w \subseteq Int
  BY <1>4 DEF Holds
<1> QED BY <1>2, <1>4, <1>6, <1>7, <1>8, <1>9, DecodesC_Is DEF Fetched16

LEMMA Decodes_C_LI ==
  ASSUME NEW t, NEW i, NEW tail, NEW w, Fetched16(t, i, tail, w), i.c = "C_LI"
  PROVE  DecodesC(t, i, w)
<1> DEFINE q == 1
           f == 2
<1>1. w = Word_RdImm(q, f, i.rd, i.imm, tail)
  BY DEF Fetched16, Assemble16, Quadrant, Word_RdImm
<1>2. /\ IsTail(tail) /\ i.op = "ADDI" /\ i.rd \in 0 .. 31 /\ i.imm \in Int /\ i.rs1 = 0
      /\ Code(i) = "C_LI" /\ q \in 0 .. 2 /\ f \in 0 .. 7
  BY WordAssumption DEF Fetched16, Instruction, Expansion, Encodable, ShiftOps, Code
<1>3. -(2^5) <= i.imm /\ i.imm < 2^5
  <2>1. i.imm \in -(2^(6 - 1)) .. 2^(6 - 1) - 1
    BY DEF Fetched16, Encodable
  <2> QED BY <1>2, <2>1, Powers
<1>4. /\ Holds(w, 1, 0, q, 0) /\ range(w, 1, 0) = q /\ range(w, 15, 13) = f
      /\ range(w, 11, 7) = i.rd /\ Holds(w, 12, 12, i.imm, 5) /\ Holds(w, 6, 2, i.imm, 0)
  <2> HIDE DEF q, f
  <2>1. Reads_RdImm(w, q, f, i.rd, i.imm)
    BY <1>1, <1>2, Shape_RdImm
  <2> QED BY <2>1 DEF Reads_RdImm
<1>5. C_get_imm_ADDI(w) = i.imm
  BY <1>2, <1>3, <1>4, Imm_C_ADDI
<1>6. C_decode(t, w) = "C_LI"
  BY <1>2, <1>4 DEF Fetched16, C_decode, C_decode_Q1
<1>7. C_operands(w, "C_LI") = Operands(i.rd, 0, 0, i.imm)
  BY <1>2, <1>4, <1>5 DEF C_operands
<1>8. OperandsMatch(i, i.rd, 0, 0, i.imm)
  BY <1>2 DEF OperandsMatch, StoreOps, BranchOps, UpperOps, BaseOps, MulDivOps, AmoOps, ShiftOps
<1>9. w \subseteq Int
  BY <1>4 DEF Holds
<1> QED BY <1>2, <1>4, <1>6, <1>7, <1>8, <1>9, DecodesC_Is DEF Fetched16

LEMMA Decodes_C_LUI ==
  ASSUME NEW t, NEW i, NEW tail, NEW w, Fetched16(t, i, tail, w), i.c = "C_LUI"
  PROVE  DecodesC(t, i, w)
<1> DEFINE q == 1
           f == 3
<1>1. w = Word_RdImm(q, f, i.rd, i.imm, tail)
  BY DEF Fetched16, Assemble16, Quadrant, Word_RdImm
<1>2. /\ IsTail(tail) /\ i.op = "LUI" /\ i.rd \in 0 .. 31 /\ i.imm \in Int /\ i.rd # 2
      /\ Code(i) = "C_ADDI16SP" /\ q \in 0 .. 2 /\ f \in 0 .. 7
  BY WordAssumption DEF Fetched16, Instruction, Expansion, Encodable, ShiftOps, Code, Legal, Only64
<1>3. -(2^5) <= i.imm /\ i.imm < 2^5
  <2>1. i.imm \in -(2^(6 - 1)) .. 2^(6 - 1) - 1
    BY DEF Fetched16, Encodable
  <2> QED BY <1>2, <2>1, Powers
<1>4. /\ Holds(w, 1, 0, q, 0) /\ range(w, 1, 0) = q /\ range(w, 15, 13) = f
      /\ range(w, 11, 7) = i.rd /\ Holds(w, 12, 12, i.imm, 5) /\ Holds(w, 6, 2, i.imm, 0)
  <2> HIDE DEF q, f
  <2>1. Reads_RdImm(w, q, f, i.rd, i.imm)
    BY <1>1, <1>2, Shape_RdImm
  <2> QED BY <2>1 DEF Reads_RdImm
<1>5. C_get_imm_LUI(w) = i.imm
  BY <1>2, <1>3, <1>4, Imm_C_LUI
<1>6. C_decode(t, w) = "C_ADDI16SP"
  BY <1>2, <1>4 DEF Fetched16, C_decode, C_decode_Q1
<1>7. C_operands(w, "C_ADDI16SP") = Operands(i.rd, 0, 0, i.imm)
  BY <1>2, <1>4, <1>5 DEF C_operands
<1>8. OperandsMatch(i, i.rd, 0, 0, i.imm)
  BY <1>2 DEF OperandsMatch, StoreOps, BranchOps, UpperOps, BaseOps, MulDivOps, AmoOps, ShiftOps
<1>9. w \subseteq Int
  BY <1>4 DEF Holds
<1> QED BY <1>2, <1>4, <1>6, <1>7, <1>8, <1>9, DecodesC_Is DEF Fetched16

LEMMA Decodes_C_ADDI16SP ==
  ASSUME NEW t, NEW i, NEW tail, NEW w, Fetched16(t, i, tail, w), i.c = "C_ADDI16SP"
  PROVE  DecodesC(t, i, w)
<1> DEFINE q == 1
           f == 3
<1>1. w = Word_ADDI16SP(q, f, i.rd, i.imm, tail)
  BY DEF Fetched16, Assemble16, Quadrant, Word_ADDI16SP
<1>2. /\ IsTail(tail) /\ i.op = "ADDI" /\ i.rd \in 0 .. 31 /\ i.imm \in Int /\ i.rd = 2 /\ i.rs1 = 2
      /\ Code(i) = "C_ADDI16SP" /\ q \in 0 .. 2 /\ f \in 0 .. 7
  BY WordAssumption DEF Fetched16, Instruction, Expansion, Encodable, ShiftOps, Code
<1>3. -(2^9) <= i.imm /\ i.imm < 2^9 /\ Unsigned(i.imm, 4) = 0
  <2>1. i.imm \in -(2^(10 - 1)) .. 2^(10 - 1) - 1 /\ i.imm % 16 = 0
    BY DEF Fetched16, Encodable
  <2> QED BY <1>2, <2>1, Powers, LowestBits
<1>4. /\ Holds(w, 1, 0, q, 0) /\ range(w, 1, 0) = q /\ range(w, 15, 13) = f
      /\ range(w, 11, 7) = i.rd /\ Holds(w, 12, 12, i.imm, 9) /\ Holds(w, 6, 6, i.imm, 4)
      /\ Holds(w, 5, 5, i.imm, 6) /\ Holds(w, 4, 4, i.imm, 8) /\ Holds(w, 3, 3, i.imm, 7)
      /\ Holds(w, 2, 2, i.imm, 5)
  <2> HIDE DEF q, f
  <2>1. Reads_ADDI16SP(w, q, f, i.rd, i.imm)
    BY <1>1, <1>2, Shape_ADDI16SP
  <2> QED BY <2>1 DEF Reads_ADDI16SP
<1>5. C_get_imm_ADDI16SP(w) = i.imm
  BY <1>2, <1>3, <1>4, Imm_C_ADDI16SP
<1>6. C_decode(t, w) = "C_ADDI16SP"
  BY <1>2, <1>4 DEF Fetched16, C_decode, C_decode_Q1
<1>7. C_operands(w, "C_ADDI16SP") = Operands(2, 2, 0, i.imm)
  BY <1>2, <1>4, <1>5 DEF C_operands
<1>8. OperandsMatch(i, 2, 2, 0, i.imm)
  BY <1>2 DEF OperandsMatch, StoreOps, BranchOps, UpperOps, BaseOps, MulDivOps, AmoOps, ShiftOps
<1>9. w \subseteq Int
  BY <1>4 DEF Holds
<1> QED BY <1>2, <1>4, <1>6, <1>7, <1>8, <1>9, DecodesC_Is DEF Fetched16

LEMMA Decodes_C_J ==
  ASSUME NEW t, NEW i, NEW tail, NEW w, Fetched16(t, i, tail, w), i.c = "C_J"
  PROVE  DecodesC(t, i, w)
<1> DEFINE q == 1
           f == 5
<1>1. w = Word_Jump(q, f, i.imm, tail)
  BY DEF Fetched16, Assemble16, Quadrant, Word_Jump
<1>2. /\ IsTail(tail) /\ i.op = "JAL" /\ i.imm \in Int /\ i.rd = 0 /\ Code(i) = "C_J"
      /\ q \in 0 .. 2 /\ f \in 0 .. 7
  BY WordAssumption DEF Fetched16, Instruction, Expansion, Encodable, ShiftOps, Code
<1>3. -(2^11) <= i.imm /\ i.imm < 2^11 /\ Unsigned(i.imm, 1) = 0
  <2>1. i.imm \in -(2^(12 - 1)) .. 2^(12 - 1) - 1 /\ i.imm % 2 = 0
    BY DEF Fetched16, Encodable
  <2> QED BY <1>2, <2>1, Powers, LowestBits
<1>4. /\ Holds(w, 1, 0, q, 0) /\ range(w, 1, 0) = q /\ range(w, 15, 13) = f
      /\ Holds(w, 12, 12, i.imm, 11) /\ Holds(w, 11, 11, i.imm, 4) /\ Holds(w, 10, 10, i.imm, 9)
      /\ Holds(w, 9, 9, i.imm, 8) /\ Holds(w, 8, 8, i.imm, 10) /\ Holds(w, 7, 7, i.imm, 6)
      /\ Holds(w, 6, 6, i.imm, 7) /\ Holds(w, 5, 3, i.imm, 1) /\ Holds(w, 2, 2, i.imm, 5)
  <2> HIDE DEF q, f
  <2>1. Reads_Jump(w, q, f, i.imm)
    BY <1>1, <1>2, Shape_Jump
  <2> QED BY <2>1 DEF Reads_Jump
<1>5. C_get_imm_J(w) = i.imm
  BY <1>2, <1>3, <1>4, Imm_C_J
<1>6. C_decode(t, w) = "C_J"
  BY <1>2, <1>4 DEF Fetched16, C_decode, C_decode_Q1
<1>7. C_operands(w, "C_J") = Operands(0, 0, 0, i.imm)
  BY <1>2, <1>4, <1>5 DEF C_operands
<1>8. OperandsMatch(i, 0, 0, 0, i.imm)
  BY <1>2 DEF OperandsMatch, StoreOps, BranchOps, UpperOps, BaseOps, MulDivOps, AmoOps, ShiftOps
<1>9. w \subseteq Int
  BY <1>4 DEF Holds
<1> QED BY <1>2, <1>4, <1>6, <1>7, <1>8, <1>9, DecodesC_Is DEF Fetched16

LEMMA Decodes_C_JAL ==
  ASSUME NEW t, NEW i, NEW tail, NEW w, Fetched16(t, i, tail, w), i.c = "C_JAL"
  PROVE  DecodesC(t, i, w)
<1> DEFINE q == 1
           f == 1
<1>1. w = Word_Jump(q, f, i.imm, tail)
  BY DEF Fetched16, Assemble16, Quadrant, Word_Jump
<1>2. /\ IsTail(tail) /\ i.op = "JAL" /\ i.imm \in Int /\ i.rd = 1 /\ Code(i) = "C_JAL"
      /\ q \in 0 .. 2 /\ f \in 0 .. 7 /\ t = "RV32"
  BY WordAssumption DEF Fetched16, Instruction, Expansion, Encodable, ShiftOps, Code, Legal, Only64
<1>3. -(2^11) <= i.imm /\ i.imm < 2^11 /\ Unsigned(i.imm, 1) = 0
  <2>1. i.imm \in -(2^(12 - 1)) .. 2^(12 - 1) - 1 /\ i.imm % 2 = 0
    BY DEF Fetched16, Encodable
  <2> QED BY <1>2, <2>1, Powers, LowestBits
<1>4. /\ Holds(w, 1, 0, q, 0) /\ range(w, 1, 0) = q /\ range(w, 15, 13) = f
      /\ Holds(w, 12, 12, i.imm, 11) /\ Holds(w, 11, 11, i.imm, 4) /\ Holds(w, 10, 10, i.imm, 9)
      /\ Holds(w, 9, 9, i.imm, 8) /\ Holds(w, 8, 8, i.imm, 10) /\ Holds(w, 7, 7, i.imm, 6)
      /\ Holds(w, 6, 6, i.imm, 7) /\ Holds(w, 5, 3, i.imm, 1) /\ Holds(w, 2, 2, i.imm, 5)
  <2> HIDE DEF q, f
  <2>1. Reads_Jump(w, q, f, i.imm)
    BY <1>1, <1>2, Shape_Jump
  <2> QED BY <2>1 DEF Reads_Jump
<1>5. C_get_imm_J(w) = i.imm
  BY <1>2, <1>3, <1>4, Imm_C_J
<1>6. C_decode(t, w) = "C_JAL"
  BY <1>2, <1>4 DEF Fetched16, C_decode, C_decode_Q1
<1>7. C_operands(w, "C_JAL") = Operands(1, 0, 0, i.imm)
  BY <1>2, <1>4, <1>5 DEF C_operands
<1>8. OperandsMatch(i, 1, 0, 0, i.imm)
  BY <1>2 DEF OperandsMatch, StoreOps, BranchOps, UpperOps, BaseOps, MulDivOps, AmoOps, ShiftOps
<1>9. w \subseteq Int
  BY <1>4 DEF Holds
<1> QED BY <1>2, <1>4, <1>6, <1>7, <1>8, <1>9, DecodesC_Is DEF Fetched16

LEMMA Decodes_C_BEQZ ==
  ASSUME NEW t, NEW i, NEW tail, NEW w, Fetched16(t, i, tail, w), i.c = "C_BEQZ"
  PROVE  DecodesC(t, i, w)
<1> DEFINE q == 1
           f == 6
<1>1. w = Word_Branch(q, f, i.rs1, i.imm, tail)
  BY DEF Fetched16, Assemble16, Quadrant, Word_Branch
<1>2. /\ IsTail(tail) /\ i.op = "BEQ" /\ i.rs1 \in 8 .. 15 /\ i.imm \in Int /\ i.rs2 = 0
      /\ Code(i) = "C_BEQZ" /\ q \in 0 .. 2 /\ f \in 0 .. 7
  BY WordAssumption DEF Fetched16, Instruction, Expansion, Encodable, ShiftOps, Code
<1>3. -(2^8) <= i.imm /\ i.imm < 2^8 /\ Unsigned(i.imm, 1) = 0
  <2>1. i.imm \in -(2^(9 - 1)) .. 2^(9 - 1) - 1 /\ i.imm % 2 = 0
    BY DEF Fetched16, Encodable
  <2> QED BY <1>2, <2>1, Powers, LowestBits
<1>4. /\ Holds(w, 1, 0, q, 0) /\ range(w, 1, 0) = q /\ range(w, 15, 13) = f
      /\ range(w, 9, 7) + 8 = i.rs1 /\ Holds(w, 12, 12, i.imm, 8) /\ Holds(w, 11, 11, i.imm, 4)
      /\ Holds(w, 10, 10, i.imm, 3) /\ Holds(w, 6, 6, i.imm, 7) /\ Holds(w, 5, 5, i.imm, 6)
      /\ Holds(w, 4, 4, i.imm, 2) /\ Holds(w, 3, 3, i.imm, 1) /\ Holds(w, 2, 2, i.imm, 5)
  <2> HIDE DEF q, f
  <2>1. Reads_Branch(w, q, f, i.rs1, i.imm)
    BY <1>1, <1>2, Shape_Branch
  <2> QED BY <2>1 DEF Reads_Branch
<1>5. C_get_imm_CB(w) = i.imm
  BY <1>2, <1>3, <1>4, Imm_C_CB
<1>6. C_decode(t, w) = "C_BEQZ"
  BY <1>2, <1>4 DEF Fetched16, C_decode, C_decode_Q1
<1>7. C_operands(w, "C_BEQZ") = Operands(0, i.rs1, 0, i.imm)
  BY <1>2, <1>4, <1>5 DEF C_operands
<1>8. OperandsMatch(i, 0, i.rs1, 0, i.imm)
  BY <1>2 DEF OperandsMatch, StoreOps, BranchOps, UpperOps, BaseOps, MulDivOps, AmoOps, ShiftOps
<1>9. w \subseteq Int
  BY <1>4 DEF Holds
<1> QED BY <1>2, <1>4, <1>6, <1>7, <1>8, <1>9, DecodesC_Is DEF Fetched16

LEMMA Decodes_C_BNEZ ==
  ASSUME NEW t, NEW i, NEW tail, NEW w, Fetched16(t, i, tail, w), i.c = "C_BNEZ"
  PROVE  DecodesC(t, i, w)
<1> DEFINE q == 1
           f == 7
<1>1. w = Word_Branch(q, f, i.rs1, i.imm, tail)
  BY DEF Fetched16, Assemble16, Quadrant, Word_Branch
<1>2. /\ IsTail(tail) /\ i.op = "BNE" /\ i.rs1 \in 8 .. 15 /\ i.imm \in Int /\ i.rs2 = 0
      /\ Code(i) = "C_BNEZ" /\ q \in 0 .. 2 /\ f \in 0 .. 7
  BY WordAssumption DEF Fetched16, Instruction, Expansion, Encodable, ShiftOps, Code
<1>3. -(2^8) <= i.imm /\ i.imm < 2^8 /\ Unsigned(i.imm, 1) = 0
  <2>1. i.imm \in -(2^(9 - 1)) .. 2^(9 - 1) - 1 /\ i.imm % 2 = 0
    BY DEF Fetched16, Encodable
  <2> QED BY <1>2, <2>1, Powers, LowestBits
<1>4. /\ Holds(w, 1, 0, q, 0) /\ range(w, 1, 0) = q /\ range(w, 15, 13) = f
      /\ range(w, 9, 7) + 8 = i.rs1 /\ Holds(w, 12, 12, i.imm, 8) /\ Holds(w, 11, 11, i.imm, 4)
      /\ Holds(w, 10, 10, i.imm, 3) /\ Holds(w, 6, 6, i.imm, 7) /\ Holds(w, 5, 5, i.imm, 6)
      /\ Holds(w, 4, 4, i.imm, 2) /\ Holds(w, 3, 3, i.imm, 1) /\ Holds(w, 2, 2, i.imm, 5)
  <2> HIDE DEF q, f
  <2>1. Reads_Branch(w, q, f, i.rs1, i.imm)
    BY <1>1, <1>2, Shape_Branch
  <2> QED BY <2>1 DEF Reads_Branch
<1>5. C_get_imm_CB(w) = i.imm
  BY <1>2, <1>3, <1>4, Imm_C_CB
<1>6. C_decode(t, w) = "C_BNEZ"
  BY <1>2, <1>4 DEF Fetched16, C_decode, C_decode_Q1
<1>7. C_operands(w, "C_BNEZ") = Operands(0, i.rs1, 0, i.imm)
  BY <1>2, <1>4, <1>5 DEF C_operands
<1>8. OperandsMatch(i, 0, i.rs1, 0, i.imm)
  BY <1>2 DEF OperandsMatch, StoreOps, BranchOps, UpperOps, BaseOps, MulDivOps, AmoOps, ShiftOps
<1>9. w \subseteq Int
  BY <1>4 DEF Holds
<1> QED BY <1>2, <1>4, <1>6, <1>7, <1>8, <1>9, DecodesC_Is DEF Fetched16

LEMMA Decodes_C_LWSP ==
  ASSUME NEW t, NEW i, NEW tail, NEW w, Fetched16(t, i, tail, w), i.c = "C_LWSP"
  PROVE  DecodesC(t, i, w)
<1> DEFINE q == 2
           f == 2
<1>1. w = Word_LWSP(q, f, i.rd, i.imm, tail)
  BY DEF Fetched16, Assemble16, Quadrant, Word_LWSP
<1>2. /\ IsTail(tail) /\ i.op = "LW" /\ i.rd \in 0 .. 31 /\ i.imm \in Int /\ i.rs1 = 2
      /\ Code(i) = "C_LWSP" /\ q \in 0 .. 2 /\ f \in 0 .. 7
  BY WordAssumption DEF Fetched16, Instruction, Expansion, Encodable, ShiftOps, Code
<1>3. 0 <= i.imm /\ i.imm < 2^8 /\ Unsigned(i.imm, 2) = 0
  <2>1. i.imm \in 0 .. 2^8 - 1 /\ i.imm % 4 = 0
    BY DEF Fetched16, Encodable
  <2> QED BY <1>2, <2>1, Powers, LowestBits
<1>4. /\ Holds(w, 1, 0, q, 0) /\ range(w, 1, 0) = q /\ range(w, 15, 13) = f
      /\ range(w, 11, 7) = i.rd /\ Holds(w, 12, 12, i.imm, 5) /\ Holds(w, 6, 4, i.imm, 2)
      /\ Holds(w, 3, 2, i.imm, 6)
  <2> HIDE DEF q, f
  <2>1. Reads_LWSP(w, q, f, i.rd, i.imm)
    BY <1>1, <1>2, Shape_LWSP
  <2> QED BY <2>1 DEF Reads_LWSP
<1>5. C_get_imm_LWSP(w) = i.imm
  BY <1>2, <1>3, <1>4, Imm_C_LWSP
<1>6. C_decode(t, w) = "C_LWSP"
  BY <1>2, <1>4 DEF Fetched16, C_decode, C_decode_Q2
<1>7. C_operands(w, "C_LWSP") = Operands(i.rd, 2, 0, i.imm)
  BY <1>2, <1>4, <1>5 DEF C_operands
<1>8. OperandsMatch(i, i.rd, 2, 0, i.imm)
  BY <1>2 DEF OperandsMatch, StoreOps, BranchOps, UpperOps, BaseOps, MulDivOps, AmoOps, ShiftOps
<1>9. w \subseteq Int
  BY <1>4 DEF Holds
<1> QED BY <1>2, <1>4, <1>6, <1>7, <1>8, <1>9, DecodesC_Is DEF Fetched16

LEMMA Decodes_C_LDSP ==
  ASSUME NEW t, NEW i, NEW tail, NEW w, Fetched16(t, i, tail, w), i.c = "C_LDSP"
  PROVE  DecodesC(t, i, w)
<1> DEFINE q == 2
           f == 3
<1>1. w = Word_LDSP(q, f, i.rd, i.imm, tail)
  BY DEF Fetched16, Assemble16, Quadrant, Word_LDSP
<1>2. /\ IsTail(tail) /\ i.op = "LD" /\ i.rd \in 0 .. 31 /\ i.imm \in Int /\ i.rs1 = 2
      /\ Code(i) = "C_LDSP" /\ q \in 0 .. 2 /\ f \in 0 .. 7 /\ t # "RV32"
  BY WordAssumption DEF Fetched16, Instruction, Expansion, Encodable, ShiftOps, Code, Legal, Only64
<1>3. 0 <= i.imm /\ i.imm < 2^9 /\ Unsigned(i.imm, 3) = 0
  <2>1. i.imm \in 0 .. 2^9 - 1 /\ i.imm % 8 = 0
    BY DEF Fetched16, Encodable
  <2> QED BY <1>2, <2>1, Powers, LowestBits
<1>4. /\ Holds(w, 1, 0, q, 0) /\ range(w, 1, 0) = q /\ range(w, 15, 13) = f
      /\ range(w, 11, 7) = i.rd /\ Holds(w, 12, 12, i.imm, 5) /\ Holds(w, 6, 5, i.imm, 3)
      /\ Holds(w, 4, 2, i.imm, 6)
  <2> HIDE DEF q, f
  <2>1. Reads_LDSP(w, q, f, i.rd, i.imm)
    BY <1>1, <1>2, Shape_LDSP
  <2> QED BY <2>1 DEF Reads_LDSP
<1>5. C_get_imm_LDSP(w) = i.imm
  BY <1>2, <1>3, <1>4, Imm_C_LDSP
<1>6. C_decode(t, w) = "C_LDSP"
  BY <1>2, <1>4 DEF Fetched16, C_decode, C_decode_Q2
<1>7. C_operands(w, "C_LDSP") = Operands(i.rd, 2, 0, i.imm)
  BY <1>2, <1>4, <1>5 DEF C_operands
<1>8. OperandsMatch(i, i.rd, 2, 0, i.imm)
  BY <1>2 DEF OperandsMatch, StoreOps, BranchOps, UpperOps, BaseOps, MulDivOps, AmoOps, ShiftOps
<1>9. w \subseteq Int
  BY <1>4 DEF Holds
<1> QED BY <1>2, <1>4, <1>6, <1>7, <1>8, <1>9, DecodesC_Is DEF Fetched16

LEMMA Decodes_C_SWSP ==
  ASSUME NEW t, NEW i, NEW tail, NEW w, Fetched16(t, i, tail, w), i.c = "C_SWSP"
  PROVE  DecodesC(t, i, w)
<1> DEFINE q == 2
           f == 6
<1>1. w = Word_SWSP(q, f, i.rs2, i.imm, tail)
  BY DEF Fetched16, Assemble16, Quadrant, Word_SWSP
<1>2. /\ IsTail(tail) /\ i.op = "SW" /\ i.rs2 \in 0 .. 31 /\ i.imm \in Int /\ i.rs1 = 2
      /\ Code(i) = "C_SWSP" /\ q \in 0 .. 2 /\ f \in 0 .. 7
  BY WordAssumption DEF Fetched16, Instruction, Expansion, Encodable, ShiftOps, Code
<1>3. 0 <= i.imm /\ i.imm < 2^8 /\ Unsigned(i.imm, 2) = 0
  <2>1. i.imm \in 0 .. 2^8 - 1 /\ i.imm % 4 = 0
    BY DEF Fetched16, Encodable
  <2> QED BY <1>2, <2>1, Powers, LowestBits
<1>4. /\ Holds(w, 1, 0, q, 0) /\ range(w, 1, 0) = q /\ range(w, 15, 13) = f
      /\ range(w, 6, 2) = i.rs2 /\ Holds(w, 12, 9, i.imm, 2) /\ Holds(w, 8, 7, i.imm, 6)
  <2> HIDE DEF q, f
  <2>1. Reads_SWSP(w, q, f, i.rs2, i.imm)
    BY <1>1, <1>2, Shape_SWSP
  <2> QED BY <2>1 DEF Reads_SWSP
<1>5. C_get_imm_CSS(w) = i.imm
  BY <1>2, <1>3, <1>4, Imm_C_CSS
<1>6. C_decode(t, w) = "C_SWSP"
  BY <1>2, <1>4 DEF Fetched16, C_decode, C_decode_Q2
<1>7. C_operands(w, "C_SWSP") = Operands(0, 2, i.rs2, i.imm)
  BY <1>2, <1>4, <1>5 DEF C_operands
<1>8. OperandsMatch(i, 0, 2, i.rs2, i.imm)
  BY <1>2 DEF OperandsMatch, StoreOps, BranchOps, UpperOps, BaseOps, MulDivOps, AmoOps, ShiftOps
<1>9. w \subseteq Int
  BY <1>4 DEF Holds
<1> QED BY <1>2, <1>4, <1>6, <1>7, <1>8, <1>9, DecodesC_Is DEF Fetched16

LEMMA Decodes_C_SDSP ==
  ASSUME NEW t, NEW i, NEW tail, NEW w, Fetched16(t, i, tail, w), i.c = "C_SDSP"
  PROVE  DecodesC(t, i, w)
<1> DEFINE q == 2
           f == 7
<1>1. w = Word_SDSP(q, f, i.rs2, i.imm, tail)
  BY DEF Fetched16, Assemble16, Quadrant, Word_SDSP
<1>2. /\ IsTail(tail) /\ i.op = "SD" /\ i.rs2 \in 0 .. 31 /\ i.imm \in Int /\ i.rs1 = 2
      /\ Code(i) = "C_SDSP" /\ q \in 0 .. 2 /\ f \in 0 .. 7 /\ t # "RV32"
  BY WordAssumption DEF Fetched16, Instruction, Expansion, Encodable, ShiftOps, Code, Legal, Only64
<1>3. 0 <= i.imm /\ i.imm < 2^9 /\ Unsigned(i.imm, 3) = 0
  <2>1. i.imm \in 0 .. 2^9 - 1 /\ i.imm % 8 = 0
    BY DEF Fetched16, Encodable
  <2> QED BY <1>2, <2>1, Powers, LowestBits
<1>4. /\ Holds(w, 1, 0, q, 0) /\ range(w, 1, 0) = q /\ range(w, 15, 13) = f
      /\ range(w, 6, 2) = i.rs2 /\ Holds(w, 12, 10, i.imm, 3) /\ Holds(w, 9, 7, i.imm, 6)
  <2> HIDE DEF q, f
  <2>1. Reads_SDSP(w, q, f, i.rs2, i.imm)
    BY <1>1, <1>2, Shape_SDSP
  <2> QED BY <2>1 DEF Reads_SDSP
<1>5. C_get_imm_CSDSP(w) = i.imm
  BY <1>2, <1>3, <1>4, Imm_C_CSDSP
<1>6. C_decode(t, w) = "C_SDSP"
  BY <1>2, <1>4 DEF Fetched16, C_decode, C_decode_Q2
<1>7. C_operands(w, "C_SDSP") = Operands(0, 2, i.rs2, i.imm)
  BY <1>2, <1>4, <1>5 DEF C_operands
<1>8. OperandsMatch(i, 0, 2, i.rs2, i.imm)
  BY <1>2 DEF OperandsMatch, StoreOps, BranchOps, UpperOps, BaseOps, MulDivOps, AmoOps, ShiftOps
<1>9. w \subseteq Int
  BY <1>4 DEF Holds
<1> QED BY <1>2, <1>4, <1>6, <1>7, <1>8, <1>9, DecodesC_Is DEF Fetched16

(* The bits that tell apart the instructions of one funct3.                *)
LEMMA ArithBits ==
  ASSUME NEW w, w \subseteq Int
  PROVE  /\ range(w, 11, 10) = (IF 10 \in w THEN 1 ELSE 0) + (IF 11 \in w THEN 2 ELSE 0)
         /\ range(w, 6, 5) = (IF 5 \in w THEN 1 ELSE 0) + (IF 6 \in w THEN 2 ELSE 0)
<1>1. range(w, 11, 10) = (IF 10 \in w THEN 1 ELSE 0) + (IF 11 \in w THEN 2 ELSE 0)
  <2> DEFINE lo == 10
             hi == 11
  <2>1. lo \in Nat /\ hi = lo + 1
    OBVIOUS
  <2> HIDE DEF lo, hi
  <2>2. range(w, hi, lo) = (IF lo \in w THEN 1 ELSE 0) + (IF hi \in w THEN 2 ELSE 0)
    BY <2>1, TwoBits
  <2> QED BY <2>2 DEF lo, hi
<1>2. range(w, 6, 5) = (IF 5 \in w THEN 1 ELSE 0) + (IF 6 \in w THEN 2 ELSE 0)
  <2> DEFINE lo == 5
             hi == 6
  <2>1. lo \in Nat /\ hi = lo + 1
    OBVIOUS
  <2> HIDE DEF lo, hi
  <2>2. range(w, hi, lo) = (IF lo \in w THEN 1 ELSE 0) + (IF hi \in w THEN 2 ELSE 0)
    BY <2>1, TwoBits
  <2> QED BY <2>2 DEF lo, hi
<1> QED BY <1>1, <1>2

LEMMA JumpBits ==
  ASSUME NEW w, w \subseteq Int
  PROVE  /\ (\A k \in 2 .. 6 : k \notin w) => range(w, 6, 2) = 0
         /\ range(w, 11, 7) # 0 => range(w, 11, 2) # 0
         /\ range(w, 6, 2) # 0 => range(w, 11, 2) # 0
<1>1. (\A k \in 2 .. 6 : k \notin w) => range(w, 6, 2) = 0
  <2> DEFINE lo == 2
             hi == 6
  <2>1. lo \in Nat /\ hi \in Nat /\ lo <= hi /\ hi - lo + 1 \in 0 .. 21
    OBVIOUS
  <2> HIDE DEF lo, hi
  <2>2. range(w, hi, lo) # 0 => \E b \in lo .. hi : b \in w
    BY <2>1, RangeNonzero
  <2> QED BY <2>2 DEF lo, hi
<1>2. ASSUME range(w, 11, 7) # 0 PROVE range(w, 11, 2) # 0
  <2> DEFINE lo == 7
             hi == 11
             base == 2
  <2>1. /\ lo \in Nat /\ hi \in Nat /\ lo <= hi /\ hi - lo + 1 \in 0 .. 21
        /\ base \in Nat /\ base <= lo /\ hi - base + 1 \in 0 .. 21
    OBVIOUS
  <2>2. range(w, hi, lo) # 0
    BY <1>2
  <2> HIDE DEF lo, hi, base
  <2>3. PICK b \in lo .. hi : b \in w
    BY <2>1, <2>2, RangeNonzero
  <2>4. b \in base .. hi
    BY <2>1
  <2>5. range(w, hi, base) # 0
    BY <2>1, <2>3, <2>4, NonzeroRange
  <2> QED BY <2>5 DEF hi, base
<1>3. ASSUME range(w, 6, 2) # 0 PROVE range(w, 11, 2) # 0
  <2> DEFINE lo == 2
             mid == 6
             hi == 11
  <2>1. /\ lo \in Nat /\ mid \in Nat /\ lo <= mid /\ mid - lo + 1 \in 0 .. 21
        /\ hi \in Nat /\ mid <= hi /\ hi - lo + 1 \in 0 .. 21
    OBVIOUS
  <2>2. range(w, mid, lo) # 0
    BY <1>3
  <2> HIDE DEF lo, mid, hi
  <2>3. PICK b \in lo .. mid : b \in w
    BY <2>1, <2>2, RangeNonzero
  <2>4. b \in lo .. hi
    BY <2>1
  <2>5. range(w, hi, lo) # 0
    BY <2>1, <2>3, <2>4, NonzeroRange
  <2> QED BY <2>5 DEF lo, hi
<1> QED BY <1>1, <1>2, <1>3

LEMMA Decodes_C_SLLI ==
  ASSUME NEW t, NEW i, NEW tail, NEW w, Fetched16(t, i, tail, w), i.c = "C_SLLI"
  PROVE  DecodesC(t, i, w)
<1> DEFINE q == 2
           f == 0
<1>1. w = Word_RdImm(q, f, i.rd, i.imm, tail)
  BY DEF Fetched16, Assemble16, Quadrant, Word_RdImm
<1>2. /\ IsTail(tail) /\ i.op = "SLLI" /\ i.rd \in 0 .. 31 /\ i.imm \in Int /\ i.rd = i.rs1
      /\ Code(i) = "C_SLLI" /\ q \in 0 .. 2 /\ f \in 0 .. 7
  BY WordAssumption DEF Fetched16, Instruction, Expansion, Encodable, ShiftOps, Code
<1>3. 0 <= i.imm /\ i.imm < 2^6
  <2>1. i.imm \in 0 .. 2^6 - 1
    BY DEF Fetched16, Encodable
  <2> QED BY <1>2, <2>1, Powers
<1>4. /\ Holds(w, 1, 0, q, 0) /\ range(w, 1, 0) = q /\ range(w, 15, 13) = f
      /\ range(w, 11, 7) = i.rd /\ Holds(w, 12, 12, i.imm, 5) /\ Holds(w, 6, 2, i.imm, 0)
  <2>1. Reads_RdImm(w, q, f, i.rd, i.imm)
    <3> HIDE DEF q, f
    <3> QED BY <1>1, <1>2, Shape_RdImm
  <2> HIDE DEF q, f
  <2> QED BY <2>1 DEF Reads_RdImm
<1>5. w \subseteq Int
  BY <1>4 DEF Holds
<1>6. C_decode(t, w) = "C_SLLI"
  BY <1>2, <1>4 DEF C_decode, C_decode_Q2
<1>7. C_get_imm_ADDI(w) \in {i.imm, i.imm - 64}
  BY <1>2, <1>3, <1>4, Imm_C_Shift
<1>8. C_operands(w, "C_SLLI") = Operands(i.rd, i.rd, 0, C_get_imm_ADDI(w))
  BY <1>2, <1>4 DEF C_operands
<1>9. OperandsMatch(i, i.rd, i.rd, 0, C_get_imm_ADDI(w))
  BY <1>2, <1>7 DEF OperandsMatch, StoreOps, BranchOps, UpperOps, BaseOps, MulDivOps, AmoOps, ShiftOps
<1> QED BY <1>2, <1>4, <1>5, <1>6, <1>8, <1>9, DecodesC_Is DEF Fetched16

LEMMA Decodes_C_SRLI ==
  ASSUME NEW t, NEW i, NEW tail, NEW w, Fetched16(t, i, tail, w), i.c = "C_SRLI"
  PROVE  DecodesC(t, i, w)
<1> DEFINE q == 1
           f == 4
           x == {}
<1>1. w = Word_ShortImm(q, f, i.rs1, i.imm, x, tail)
  BY DEF Fetched16, Assemble16, Quadrant, Word_ShortImm
<1>2. /\ IsTail(tail) /\ i.op = "SRLI" /\ i.rs1 \in 8 .. 15 /\ i.imm \in Int /\ i.rd = i.rs1
      /\ Code(i) = "C_SRLI" /\ q \in 0 .. 2 /\ f \in 0 .. 7
  BY WordAssumption DEF Fetched16, Instruction, Expansion, Encodable, ShiftOps, Code
<1>3. 0 <= i.imm /\ i.imm < 2^6
  <2>1. i.imm \in 0 .. 2^6 - 1
    BY DEF Fetched16, Encodable
  <2> QED BY <1>2, <2>1, Powers
<1>4. /\ Holds(w, 1, 0, q, 0) /\ range(w, 1, 0) = q /\ range(w, 15, 13) = f
      /\ range(w, 9, 7) + 8 = i.rs1 /\ Holds(w, 12, 12, i.imm, 5) /\ Holds(w, 6, 2, i.imm, 0)
      /\ 10 \notin w /\ 11 \notin w
  <2>1. \A k \in x : k \in {10, 11}
    OBVIOUS
  <2>2. Reads_ShortImm(w, q, f, i.rs1, i.imm, x)
    <3> HIDE DEF q, f, x
    <3> QED BY <1>1, <1>2, <2>1, Shape_ShortImm
  <2> HIDE DEF q, f
  <2> QED BY <2>2 DEF Reads_ShortImm
<1>5. w \subseteq Int
  BY <1>4 DEF Holds
<1>6. range(w, 11, 10) = (IF 10 \in w THEN 1 ELSE 0) + (IF 11 \in w THEN 2 ELSE 0) /\
      range(w, 6, 5) = (IF 5 \in w THEN 1 ELSE 0) + (IF 6 \in w THEN 2 ELSE 0)
  BY <1>5, ArithBits
<1>7. C_decode(t, w) = "C_SRLI"
  BY <1>2, <1>4, <1>6 DEF C_decode, C_decode_Q1, C_decode_Arith
<1>8. C_get_imm_ADDI(w) \in {i.imm, i.imm - 64}
  BY <1>2, <1>3, <1>4, Imm_C_Shift
<1>9. C_operands(w, "C_SRLI") = Operands(i.rs1, i.rs1, 0, C_get_imm_ADDI(w))
  BY <1>2, <1>4 DEF C_operands
<1>10. OperandsMatch(i, i.rs1, i.rs1, 0, C_get_imm_ADDI(w))
  BY <1>2, <1>8 DEF OperandsMatch, StoreOps, BranchOps, UpperOps, BaseOps, MulDivOps, AmoOps, ShiftOps
<1> QED BY <1>2, <1>4, <1>5, <1>7, <1>9, <1>10, DecodesC_Is DEF Fetched16

LEMMA Decodes_C_SRAI ==
  ASSUME NEW t, NEW i, NEW tail, NEW w, Fetched16(t, i, tail, w), i.c = "C_SRAI"
  PROVE  DecodesC(t, i, w)
<1> DEFINE q == 1
           f == 4
           x == {10}
<1>1. w = Word_ShortImm(q, f, i.rs1, i.imm, x, tail)
  BY DEF Fetched16, Assemble16, Quadrant, Word_ShortImm
<1>2. /\ IsTail(tail) /\ i.op = "SRAI" /\ i.rs1 \in 8 .. 15 /\ i.imm \in Int /\ i.rd = i.rs1
      /\ Code(i) = "C_SRAI" /\ q \in 0 .. 2 /\ f \in 0 .. 7
  BY WordAssumption DEF Fetched16, Instruction, Expansion, Encodable, ShiftOps, Code
<1>3. 0 <= i.imm /\ i.imm < 2^6
  <2>1. i.imm \in 0 .. 2^6 - 1
    BY DEF Fetched16, Encodable
  <2> QED BY <1>2, <2>1, Powers
<1>4. /\ Holds(w, 1, 0, q, 0) /\ range(w, 1, 0) = q /\ range(w, 15, 13) = f
      /\ range(w, 9, 7) + 8 = i.rs1 /\ Holds(w, 12, 12, i.imm, 5) /\ Holds(w, 6, 2, i.imm, 0)
      /\ 10 \in w /\ 11 \notin w
  <2>1. \A k \in x : k \in {10, 11}
    OBVIOUS
  <2>2. Reads_ShortImm(w, q, f, i.rs1, i.imm, x)
    <3> HIDE DEF q, f, x
    <3> QED BY <1>1, <1>2, <2>1, Shape_ShortImm
  <2> HIDE DEF q, f
  <2> QED BY <2>2 DEF Reads_ShortImm
<1>5. w \subseteq Int
  BY <1>4 DEF Holds
<1>6. range(w, 11, 10) = (IF 10 \in w THEN 1 ELSE 0) + (IF 11 \in w THEN 2 ELSE 0) /\
      range(w, 6, 5) = (IF 5 \in w THEN 1 ELSE 0) + (IF 6 \in w THEN 2 ELSE 0)
  BY <1>5, ArithBits
<1>7. C_decode(t, w) = "C_SRAI"
  BY <1>2, <1>4, <1>6 DEF C_decode, C_decode_Q1, C_decode_Arith
<1>8. C_get_imm_ADDI(w) \in {i.imm, i.imm - 64}
  BY <1>2, <1>3, <1>4, Imm_C_Shift
<1>9. C_operands(w, "C_SRAI") = Operands(i.rs1, i.rs1, 0, C_get_imm_ADDI(w))
  BY <1>2, <1>4 DEF C_operands
<1>10. OperandsMatch(i, i.rs1, i.rs1, 0, C_get_imm_ADDI(w))
  BY <1>2, <1>8 DEF OperandsMatch, StoreOps, BranchOps, UpperOps, BaseOps, MulDivOps, AmoOps, ShiftOps
<1> QED BY <1>2, <1>4, <1>5, <1>7, <1>9, <1>10, DecodesC_Is DEF Fetched16

LEMMA Decodes_C_ANDI ==
  ASSUME NEW t, NEW i, NEW tail, NEW w, Fetched16(t, i, tail, w), i.c = "C_ANDI"
  PROVE  DecodesC(t, i, w)
<1> DEFINE q == 1
           f == 4
           x == {11}
<1>1. w = Word_ShortImm(q, f, i.rs1, i.imm, x, tail)
  BY DEF Fetched16, Assemble16, Quadrant, Word_ShortImm
<1>2. /\ IsTail(tail) /\ i.op = "ANDI" /\ i.rs1 \in 8 .. 15 /\ i.imm \in Int /\ i.rd = i.rs1
      /\ Code(i) = "C_ANDI" /\ q \in 0 .. 2 /\ f \in 0 .. 7
  BY WordAssumption DEF Fetched16, Instruction, Expansion, Encodable, ShiftOps, Code
<1>3. -(2^5) <= i.imm /\ i.imm < 2^5
  <2>1. i.imm \in -(2^(6 - 1)) .. 2^(6 - 1) - 1
    BY DEF Fetched16, Encodable
  <2> QED BY <1>2, <2>1, Powers
<1>4. /\ Holds(w, 1, 0, q, 0) /\ range(w, 1, 0) = q /\ range(w, 15, 13) = f
      /\ range(w, 9, 7) + 8 = i.rs1 /\ Holds(w, 12, 12, i.imm, 5) /\ Holds(w, 6, 2, i.imm, 0)
      /\ 10 \notin w /\ 11 \in w
  <2>1. \A k \in x : k \in {10, 11}
    OBVIOUS
  <2>2. Reads_ShortImm(w, q, f, i.rs1, i.imm, x)
    <3> HIDE DEF q, f, x
    <3> QED BY <1>1, <1>2, <2>1, Shape_ShortImm
  <2> HIDE DEF q, f
  <2> QED BY <2>2 DEF Reads_ShortImm
<1>5. w \subseteq Int
  BY <1>4 DEF Holds
<1>6. range(w, 11, 10) = (IF 10 \in w THEN 1 ELSE 0) + (IF 11 \in w THEN 2 ELSE 0) /\
      range(w, 6, 5) = (IF 5 \in w THEN 1 ELSE 0) + (IF 6 \in w THEN 2 ELSE 0)
  BY <1>5, ArithBits
<1>7. C_decode(t, w) = "C_ANDI"
  BY <1>2, <1>4, <1>6 DEF C_decode, C_decode_Q1, C_decode_Arith
<1>8. C_get_imm_ADDI(w) = i.imm
  BY <1>2, <1>3, <1>4, Imm_C_ADDI
<1>9. C_operands(w, "C_ANDI") = Operands(i.rs1, i.rs1, 0, i.imm)
  BY <1>2, <1>4, <1>8 DEF C_operands
<1>10. OperandsMatch(i, i.rs1, i.rs1, 0, i.imm)
  BY <1>2 DEF OperandsMatch, StoreOps, BranchOps, UpperOps, BaseOps, MulDivOps, AmoOps, ShiftOps
<1> QED BY <1>2, <1>4, <1>5, <1>7, <1>9, <1>10, DecodesC_Is DEF Fetched16

LEMMA Decodes_C_SUB ==
  ASSUME NEW t, NEW i, NEW tail, NEW w, Fetched16(t, i, tail, w), i.c = "C_SUB"
  PROVE  DecodesC(t, i, w)
<1> DEFINE q == 1
           f == 4
           x == {11, 10}
<1>1. w = Word_ShortShort(q, f, i.rs1, i.rs2, x, tail)
  BY DEF Fetched16, Assemble16, Quadrant, Word_ShortShort
<1>2. /\ IsTail(tail) /\ i.op = "SUB" /\ i.rs1 \in 8 .. 15 /\ i.rs2 \in 8 .. 15 /\ i.rd = i.rs1
      /\ Code(i) = "C_SUB" /\ q \in 0 .. 2 /\ f \in 0 .. 7
  BY WordAssumption DEF Fetched16, Instruction, Expansion, Encodable, ShiftOps, Code
<1>3. /\ Holds(w, 1, 0, q, 0) /\ range(w, 1, 0) = q /\ range(w, 15, 13) = f
      /\ range(w, 9, 7) + 8 = i.rs1 /\ range(w, 4, 2) + 8 = i.rs2 /\ 5 \notin w /\ 6 \notin w
      /\ 10 \in w /\ 11 \in w /\ 12 \notin w
  <2>1. \A k \in x : k \in {5, 6, 10, 11, 12}
    OBVIOUS
  <2>2. Reads_ShortShort(w, q, f, i.rs1, i.rs2, x)
    <3> HIDE DEF q, f, x
    <3> QED BY <1>1, <1>2, <2>1, Shape_ShortShort
  <2> HIDE DEF q, f
  <2> QED BY <2>2 DEF Reads_ShortShort
<1>4. w \subseteq Int
  BY <1>3 DEF Holds
<1>5. range(w, 11, 10) = (IF 10 \in w THEN 1 ELSE 0) + (IF 11 \in w THEN 2 ELSE 0) /\
      range(w, 6, 5) = (IF 5 \in w THEN 1 ELSE 0) + (IF 6 \in w THEN 2 ELSE 0)
  BY <1>4, ArithBits
<1>6. C_decode(t, w) = "C_SUB"
  BY <1>2, <1>3, <1>5 DEF C_decode, C_decode_Q1, C_decode_Arith
<1>7. C_operands(w, "C_SUB") = Operands(i.rs1, i.rs1, i.rs2, 0)
  BY <1>2, <1>3 DEF C_operands
<1>8. OperandsMatch(i, i.rs1, i.rs1, i.rs2, 0)
  BY <1>2 DEF OperandsMatch, StoreOps, BranchOps, UpperOps, BaseOps, MulDivOps, AmoOps, ShiftOps
<1> QED BY <1>2, <1>3, <1>4, <1>6, <1>7, <1>8, DecodesC_Is DEF Fetched16

LEMMA Decodes_C_XOR ==
  ASSUME NEW t, NEW i, NEW tail, NEW w, Fetched16(t, i, tail, w), i.c = "C_XOR"
  PROVE  DecodesC(t, i, w)
<1> DEFINE q == 1
           f == 4
           x == {11, 10, 5}
<1>1. w = Word_ShortShort(q, f, i.rs1, i.rs2, x, tail)
  BY DEF Fetched16, Assemble16, Quadrant, Word_ShortShort
<1>2. /\ IsTail(tail) /\ i.op = "XOR" /\ i.rs1 \in 8 .. 15 /\ i.rs2 \in 8 .. 15 /\ i.rd = i.rs1
      /\ Code(i) = "C_XOR" /\ q \in 0 .. 2 /\ f \in 0 .. 7
  BY WordAssumption DEF Fetched16, Instruction, Expansion, Encodable, ShiftOps, Code
<1>3. /\ Holds(w, 1, 0, q, 0) /\ range(w, 1, 0) = q /\ range(w, 15, 13) = f
      /\ range(w, 9, 7) + 8 = i.rs1 /\ range(w, 4, 2) + 8 = i.rs2 /\ 5 \in w /\ 6 \notin w
      /\ 10 \in w /\ 11 \in w /\ 12 \notin w
  <2>1. \A k \in x : k \in {5, 6, 10, 11, 12}
    OBVIOUS
  <2>2. Reads_ShortShort(w, q, f, i.rs1, i.rs2, x)
    <3> HIDE DEF q, f, x
    <3> QED BY <1>1, <1>2, <2>1, Shape_ShortShort
  <2> HIDE DEF q, f
  <2> QED BY <2>2 DEF Reads_ShortShort
<1>4. w \subseteq Int
  BY <1>3 DEF Holds
<1>5. range(w, 11, 10) = (IF 10 \in w THEN 1 ELSE 0) + (IF 11 \in w THEN 2 ELSE 0) /\
      range(w, 6, 5) = (IF 5 \in w THEN 1 ELSE 0) + (IF 6 \in w THEN 2 ELSE 0)
  BY <1>4, ArithBits
<1>6. C_decode(t, w) = "C_XOR"
  BY <1>2, <1>3, <1>5 DEF C_decode, C_decode_Q1, C_decode_Arith
<1>7. C_operands(w, "C_XOR") = Operands(i.rs1, i.rs1, i.rs2, 0)
  BY <1>2, <1>3 DEF C_operands
<1>8. OperandsMatch(i, i.rs1, i.rs1, i.rs2, 0)
  BY <1>2 DEF OperandsMatch, StoreOps, BranchOps, UpperOps, BaseOps, MulDivOps, AmoOps, ShiftOps
<1> QED BY <1>2, <1>3, <1>4, <1>6, <1>7, <1>8, DecodesC_Is DEF Fetched16

LEMMA Decodes_C_OR ==
  ASSUME NEW t, NEW i, NEW tail, NEW w, Fetched16(t, i, tail, w), i.c = "C_OR"
  PROVE  DecodesC(t, i, w)
<1> DEFINE q == 1
           f == 4
           x == {11, 10, 6}
<1>1. w = Word_ShortShort(q, f, i.rs1, i.rs2, x, tail)
  BY DEF Fetched16, Assemble16, Quadrant, Word_ShortShort
<1>2. /\ IsTail(tail) /\ i.op = "OR" /\ i.rs1 \in 8 .. 15 /\ i.rs2 \in 8 .. 15 /\ i.rd = i.rs1
      /\ Code(i) = "C_OR" /\ q \in 0 .. 2 /\ f \in 0 .. 7
  BY WordAssumption DEF Fetched16, Instruction, Expansion, Encodable, ShiftOps, Code
<1>3. /\ Holds(w, 1, 0, q, 0) /\ range(w, 1, 0) = q /\ range(w, 15, 13) = f
      /\ range(w, 9, 7) + 8 = i.rs1 /\ range(w, 4, 2) + 8 = i.rs2 /\ 5 \notin w /\ 6 \in w
      /\ 10 \in w /\ 11 \in w /\ 12 \notin w
  <2>1. \A k \in x : k \in {5, 6, 10, 11, 12}
    OBVIOUS
  <2>2. Reads_ShortShort(w, q, f, i.rs1, i.rs2, x)
    <3> HIDE DEF q, f, x
    <3> QED BY <1>1, <1>2, <2>1, Shape_ShortShort
  <2> HIDE DEF q, f
  <2> QED BY <2>2 DEF Reads_ShortShort
<1>4. w \subseteq Int
  BY <1>3 DEF Holds
<1>5. range(w, 11, 10) = (IF 10 \in w THEN 1 ELSE 0) + (IF 11 \in w THEN 2 ELSE 0) /\
      range(w, 6, 5) = (IF 5 \in w THEN 1 ELSE 0) + (IF 6 \in w THEN 2 ELSE 0)
  BY <1>4, ArithBits
<1>6. C_decode(t, w) = "C_OR"
  BY <1>2, <1>3, <1>5 DEF C_decode, C_decode_Q1, C_decode_Arith
<1>7. C_operands(w, "C_OR") = Operands(i.rs1, i.rs1, i.rs2, 0)
  BY <1>2, <1>3 DEF C_operands
<1>8. OperandsMatch(i, i.rs1, i.rs1, i.rs2, 0)
  BY <1>2 DEF OperandsMatch, StoreOps, BranchOps, UpperOps, BaseOps, MulDivOps, AmoOps, ShiftOps
<1> QED BY <1>2, <1>3, <1>4, <1>6, <1>7, <1>8, DecodesC_Is DEF Fetched16

LEMMA Decodes_C_AND ==
  ASSUME NEW t, NEW i, NEW tail, NEW w, Fetched16(t, i, tail, w), i.c = "C_AND"
  PROVE  DecodesC(t, i, w)
<1> DEFINE q == 1
           f == 4
           x == {11, 10, 6, 5}
<1>1. w = Word_ShortShort(q, f, i.rs1, i.rs2, x, tail)
  BY DEF Fetched16, Assemble16, Quadrant, Word_ShortShort
<1>2. /\ IsTail(tail) /\ i.op = "AND" /\ i.rs1 \in 8 .. 15 /\ i.rs2 \in 8 .. 15 /\ i.rd = i.rs1
      /\ Code(i) = "C_AND" /\ q \in 0 .. 2 /\ f \in 0 .. 7
  BY WordAssumption DEF Fetched16, Instruction, Expansion, Encodable, ShiftOps, Code
<1>3. /\ Holds(w, 1, 0, q, 0) /\ range(w, 1, 0) = q /\ range(w, 15, 13) = f
      /\ range(w, 9, 7) + 8 = i.rs1 /\ range(w, 4, 2) + 8 = i.rs2 /\ 5 \in w /\ 6 \in w /\ 10 \in w
      /\ 11 \in w /\ 12 \notin w
  <2>1. \A k \in x : k \in {5, 6, 10, 11, 12}
    OBVIOUS
  <2>2. Reads_ShortShort(w, q, f, i.rs1, i.rs2, x)
    <3> HIDE DEF q, f, x
    <3> QED BY <1>1, <1>2, <2>1, Shape_ShortShort
  <2> HIDE DEF q, f
  <2> QED BY <2>2 DEF Reads_ShortShort
<1>4. w \subseteq Int
  BY <1>3 DEF Holds
<1>5. range(w, 11, 10) = (IF 10 \in w THEN 1 ELSE 0) + (IF 11 \in w THEN 2 ELSE 0) /\
      range(w, 6, 5) = (IF 5 \in w THEN 1 ELSE 0) + (IF 6 \in w THEN 2 ELSE 0)
  BY <1>4, ArithBits
<1>6. C_decode(t, w) = "C_AND"
  BY <1>2, <1>3, <1>5 DEF C_decode, C_decode_Q1, C_decode_Arith
<1>7. C_operands(w, "C_AND") = Operands(i.rs1, i.rs1, i.rs2, 0)
  BY <1>2, <1>3 DEF C_operands
<1>8. OperandsMatch(i, i.rs1, i.rs1, i.rs2, 0)
  BY <1>2 DEF OperandsMatch, StoreOps, BranchOps, UpperOps, BaseOps, MulDivOps, AmoOps, ShiftOps
<1> QED BY <1>2, <1>3, <1>4, <1>6, <1>7, <1>8, DecodesC_Is DEF Fetched16

LEMMA Decodes_C_SUBW ==
  ASSUME NEW t, NEW i, NEW tail, NEW w, Fetched16(t, i, tail, w), i.c = "C_SUBW"
  PROVE  DecodesC(t, i, w)
<1> DEFINE q == 1
           f == 4
           x == {12, 11, 10}
<1>1. w = Word_ShortShort(q, f, i.rs1, i.rs2, x, tail)
  BY DEF Fetched16, Assemble16, Quadrant, Word_ShortShort
<1>2. /\ IsTail(tail) /\ i.op = "SUBW" /\ i.rs1 \in 8 .. 15 /\ i.rs2 \in 8 .. 15 /\ i.rd = i.rs1
      /\ Code(i) = "C_SUBW" /\ q \in 0 .. 2 /\ f \in 0 .. 7
  BY WordAssumption DEF Fetched16, Instruction, Expansion, Encodable, ShiftOps, Code
<1>3. /\ Holds(w, 1, 0, q, 0) /\ range(w, 1, 0) = q /\ range(w, 15, 13) = f
      /\ range(w, 9, 7) + 8 = i.rs1 /\ range(w, 4, 2) + 8 = i.rs2 /\ 5 \notin w /\ 6 \notin w
      /\ 10 \in w /\ 11 \in w /\ 12 \in w
  <2>1. \A k \in x : k \in {5, 6, 10, 11, 12}
    OBVIOUS
  <2>2. Reads_ShortShort(w, q, f, i.rs1, i.rs2, x)
    <3> HIDE DEF q, f, x
    <3> QED BY <1>1, <1>2, <2>1, Shape_ShortShort
  <2> HIDE DEF q, f
  <2> QED BY <2>2 DEF Reads_ShortShort
<1>4. w \subseteq Int
  BY <1>3 DEF Holds
<1>5. range(w, 11, 10) = (IF 10 \in w THEN 1 ELSE 0) + (IF 11 \in w THEN 2 ELSE 0) /\
      range(w, 6, 5) = (IF 5 \in w THEN 1 ELSE 0) + (IF 6 \in w THEN 2 ELSE 0)
  BY <1>4, ArithBits
<1>6. C_decode(t, w) = "C_SUBW"
  BY <1>2, <1>3, <1>5 DEF C_decode, C_decode_Q1, C_decode_Arith
<1>7. C_operands(w, "C_SUBW") = Operands(i.rs1, i.rs1, i.rs2, 0)
  BY <1>2, <1>3 DEF C_operands
<1>8. OperandsMatch(i, i.rs1, i.rs1, i.rs2, 0)
  BY <1>2 DEF OperandsMatch, StoreOps, BranchOps, UpperOps, BaseOps, MulDivOps, AmoOps, ShiftOps
<1> QED BY <1>2, <1>3, <1>4, <1>6, <1>7, <1>8, DecodesC_Is DEF Fetched16

LEMMA Decodes_C_ADDW ==
  ASSUME NEW t, NEW i, NEW tail, NEW w, Fetched16(t, i, tail, w), i.c = "C_ADDW"
  PROVE  DecodesC(t, i, w)
<1> DEFINE q == 1
           f == 4
           x == {12, 11, 10, 5}
<1>1. w = Word_ShortShort(q, f, i.rs1, i.rs2, x, tail)
  BY DEF Fetched16, Assemble16, Quadrant, Word_ShortShort
<1>2. /\ IsTail(tail) /\ i.op = "ADDW" /\ i.rs1 \in 8 .. 15 /\ i.rs2 \in 8 .. 15 /\ i.rd = i.rs1
      /\ Code(i) = "C_ADDW" /\ q \in 0 .. 2 /\ f \in 0 .. 7
  BY WordAssumption DEF Fetched16, Instruction, Expansion, Encodable, ShiftOps, Code
<1>3. /\ Holds(w, 1, 0, q, 0) /\ range(w, 1, 0) = q /\ range(w, 15, 13) = f
      /\ range(w, 9, 7) + 8 = i.rs1 /\ range(w, 4, 2) + 8 = i.rs2 /\ 5 \in w /\ 6 \notin w
      /\ 10 \in w /\ 11 \in w /\ 12 \in w
  <2>1. \A k \in x : k \in {5, 6, 10, 11, 12}
    OBVIOUS
  <2>2. Reads_ShortShort(w, q, f, i.rs1, i.rs2, x)
    <3> HIDE DEF q, f, x
    <3> QED BY <1>1, <1>2, <2>1, Shape_ShortShort
  <2> HIDE DEF q, f
  <2> QED BY <2>2 DEF Reads_ShortShort
<1>4. w \subseteq Int
  BY <1>3 DEF Holds
<1>5. range(w, 11, 10) = (IF 10 \in w THEN 1 ELSE 0) + (IF 11 \in w THEN 2 ELSE 0) /\
      range(w, 6, 5) = (IF 5 \in w THEN 1 ELSE 0) + (IF 6 \in w THEN 2 ELSE 0)
  BY <1>4, ArithBits
<1>6. C_decode(t, w) = "C_ADDW"
  BY <1>2, <1>3, <1>5 DEF C_decode, C_decode_Q1, C_decode_Arith
<1>7. C_operands(w, "C_ADDW") = Operands(i.rs1, i.rs1, i.rs2, 0)
  BY <1>2, <1>3 DEF C_operands
<1>8. OperandsMatch(i, i.rs1, i.rs1, i.rs2, 0)
  BY <1>2 DEF OperandsMatch, StoreOps, BranchOps, UpperOps, BaseOps, MulDivOps, AmoOps, ShiftOps
<1> QED BY <1>2, <1>3, <1>4, <1>6, <1>7, <1>8, DecodesC_Is DEF Fetched16

LEMMA Decodes_C_JR ==
  ASSUME NEW t, NEW i, NEW tail, NEW w, Fetched16(t, i, tail, w), i.c = "C_JR"
  PROVE  DecodesC(t, i, w)
<1> DEFINE q == 2
           f == 4
           x == {}
<1>1. w = Word_Rd(q, f, i.rs1, x, tail)
  BY DEF Fetched16, Assemble16, Quadrant, Word_Rd
<1>2. /\ IsTail(tail) /\ i.op = "JALR" /\ i.rs1 \in 0 .. 31 /\ i.rd = 0 /\ i.imm = 0
      /\ Code(i) = "C_JR" /\ q \in 0 .. 2 /\ f \in 0 .. 7
  BY WordAssumption DEF Fetched16, Instruction, Expansion, Encodable, ShiftOps, Code
<1>3. /\ Holds(w, 1, 0, q, 0) /\ range(w, 1, 0) = q /\ range(w, 15, 13) = f
      /\ range(w, 11, 7) = i.rs1 /\ 12 \notin w /\ (\A k \in 2 .. 6 : k \notin w)
  <2>1. \A k \in x : k \in {12}
    OBVIOUS
  <2>2. Reads_Rd(w, q, f, i.rs1, x)
    <3> HIDE DEF q, f, x
    <3> QED BY <1>1, <1>2, <2>1, Shape_Rd
  <2> HIDE DEF q, f
  <2> QED BY <2>2 DEF Reads_Rd
<1>4. w \subseteq Int
  BY <1>3 DEF Holds
<1>5. range(w, 6, 2) = 0
  BY <1>2, <1>3, <1>4, JumpBits
<1>6. C_decode(t, w) = "C_JR"
  BY <1>2, <1>3, <1>5 DEF C_decode, C_decode_Q2, C_decode_Jump
<1>7. C_operands(w, "C_JR") = Operands(0, i.rs1, 0, 0)
  BY <1>2, <1>3 DEF C_operands
<1>8. OperandsMatch(i, 0, i.rs1, 0, 0)
  BY <1>2 DEF OperandsMatch, StoreOps, BranchOps, UpperOps, BaseOps, MulDivOps, AmoOps, ShiftOps
<1> QED BY <1>2, <1>3, <1>4, <1>6, <1>7, <1>8, DecodesC_Is DEF Fetched16

LEMMA Decodes_C_JALR ==
  ASSUME NEW t, NEW i, NEW tail, NEW w, Fetched16(t, i, tail, w), i.c = "C_JALR"
  PROVE  DecodesC(t, i, w)
<1> DEFINE q == 2
           f == 4
           x == {12}
<1>1. w = Word_Rd(q, f, i.rs1, x, tail)
  BY DEF Fetched16, Assemble16, Quadrant, Word_Rd
<1>2. /\ IsTail(tail) /\ i.op = "JALR" /\ i.rs1 \in 0 .. 31 /\ i.rd = 1 /\ i.imm = 0 /\ i.rs1 # 0
      /\ Code(i) = "C_JALR" /\ q \in 0 .. 2 /\ f \in 0 .. 7
  BY WordAssumption DEF Fetched16, Instruction, Expansion, Encodable, ShiftOps, Code
<1>3. /\ Holds(w, 1, 0, q, 0) /\ range(w, 1, 0) = q /\ range(w, 15, 13) = f
      /\ range(w, 11, 7) = i.rs1 /\ 12 \in w /\ (\A k \in 2 .. 6 : k \notin w)
  <2>1. \A k \in x : k \in {12}
    OBVIOUS
  <2>2. Reads_Rd(w, q, f, i.rs1, x)
    <3> HIDE DEF q, f, x
    <3> QED BY <1>1, <1>2, <2>1, Shape_Rd
  <2> HIDE DEF q, f
  <2> QED BY <2>2 DEF Reads_Rd
<1>4. w \subseteq Int
  BY <1>3 DEF Holds
<1>5. range(w, 6, 2) = 0 /\ range(w, 11, 2) # 0
  BY <1>2, <1>3, <1>4, JumpBits
<1>6. C_decode(t, w) = "C_JALR"
  BY <1>2, <1>3, <1>5 DEF C_decode, C_decode_Q2, C_decode_Jump
<1>7. C_operands(w, "C_JALR") = Operands(1, i.rs1, 0, 0)
  BY <1>2, <1>3 DEF C_operands
<1>8. OperandsMatch(i, 1, i.rs1, 0, 0)
  BY <1>2 DEF OperandsMatch, StoreOps, BranchOps, UpperOps, BaseOps, MulDivOps, AmoOps, ShiftOps
<1> QED BY <1>2, <1>3, <1>4, <1>6, <1>7, <1>8, DecodesC_Is DEF Fetched16

LEMMA Decodes_C_MV ==
  ASSUME NEW t, NEW i, NEW tail, NEW w, Fetched16(t, i, tail, w), i.c = "C_MV"
  PROVE  DecodesC(t, i, w)
<1> DEFINE q == 2
           f == 4
           x == {}
<1>1. w = Word_RdRs2(q, f, i.rd, i.rs2, x, tail)
  BY DEF Fetched16, Assemble16, Quadrant, Word_RdRs2
<1>2. /\ IsTail(tail) /\ i.op = "ADD" /\ i.rd \in 0 .. 31 /\ i.rs2 \in 0 .. 31 /\ i.rs1 = 0
      /\ i.rs2 # 0 /\ Code(i) = "C_MV" /\ q \in 0 .. 2 /\ f \in 0 .. 7
  BY WordAssumption DEF Fetched16, Instruction, Expansion, Encodable, ShiftOps, Code
<1>3. /\ Holds(w, 1, 0, q, 0) /\ range(w, 1, 0) = q /\ range(w, 15, 13) = f
      /\ range(w, 11, 7) = i.rd /\ range(w, 6, 2) = i.rs2 /\ 12 \notin w
  <2>1. \A k \in x : k \in {12}
    OBVIOUS
  <2>2. Reads_RdRs2(w, q, f, i.rd, i.rs2, x)
    <3> HIDE DEF q, f, x
    <3> QED BY <1>1, <1>2, <2>1, Shape_RdRs2
  <2> HIDE DEF q, f
  <2> QED BY <2>2 DEF Reads_RdRs2
<1>4. w \subseteq Int
  BY <1>3 DEF Holds
<1>5. range(w, 6, 2) # 0
  BY <1>2, <1>3, <1>4, JumpBits
<1>6. C_decode(t, w) = "C_MV"
  BY <1>2, <1>3, <1>5 DEF C_decode, C_decode_Q2, C_decode_Jump
<1>7. C_operands(w, "C_MV") = Operands(i.rd, 0, i.rs2, 0)
  BY <1>2, <1>3 DEF C_operands
<1>8. OperandsMatch(i, i.rd, 0, i.rs2, 0)
  BY <1>2 DEF OperandsMatch, StoreOps, BranchOps, UpperOps, BaseOps, MulDivOps, AmoOps, ShiftOps
<1> QED BY <1>2, <1>3, <1>4, <1>6, <1>7, <1>8, DecodesC_Is DEF Fetched16

LEMMA Decodes_C_ADD ==
  ASSUME NEW t, NEW i, NEW tail, NEW w, Fetched16(t, i, tail, w), i.c = "C_ADD"
  PROVE  DecodesC(t, i, w)
<1> DEFINE q == 2
           f == 4
           x == {12}
<1>1. w = Word_RdRs2(q, f, i.rd, i.rs2, x, tail)
  BY DEF Fetched16, Assemble16, Quadrant, Word_RdRs2
<1>2. /\ IsTail(tail) /\ i.op = "ADD" /\ i.rd \in 0 .. 31 /\ i.rs2 \in 0 .. 31 /\ i.rd = i.rs1
      /\ i.rs2 # 0 /\ Code(i) = "C_ADD" /\ q \in 0 .. 2 /\ f \in 0 .. 7
  BY WordAssumption DEF Fetched16, Instruction, Expansion, Encodable, ShiftOps, Code
<1>3. /\ Holds(w, 1, 0, q, 0) /\ range(w, 1, 0) = q /\ range(w, 15, 13) = f
      /\ range(w, 11, 7) = i.rd /\ range(w, 6, 2) = i.rs2 /\ 12 \in w
  <2>1. \A k \in x : k \in {12}
    OBVIOUS
  <2>2. Reads_RdRs2(w, q, f, i.rd, i.rs2, x)
    <3> HIDE DEF q, f, x
    <3> QED BY <1>1, <1>2, <2>1, Shape_RdRs2
  <2> HIDE DEF q, f
  <2> QED BY <2>2 DEF Reads_RdRs2
<1>4. w \subseteq Int
  BY <1>3 DEF Holds
<1>5. range(w, 6, 2) # 0 /\ range(w, 11, 2) # 0
  BY <1>2, <1>3, <1>4, JumpBits
<1>6. C_decode(t, w) = "C_ADD"
  BY <1>2, <1>3, <1>5 DEF C_decode, C_decode_Q2, C_decode_Jump
<1>7. C_operands(w, "C_ADD") = Operands(i.rd, i.rd, i.rs2, 0)
  BY <1>2, <1>3 DEF C_operands
<1>8. OperandsMatch(i, i.rd, i.rd, i.rs2, 0)
  BY <1>2 DEF OperandsMatch, StoreOps, BranchOps, UpperOps, BaseOps, MulDivOps, AmoOps, ShiftOps
<1> QED BY <1>2, <1>3, <1>4, <1>6, <1>7, <1>8, DecodesC_Is DEF Fetched16

(* C_extension::decode on a compressed instruction, whatever follows it.   *)
LEMMA DecodesCompressed ==
  ASSUME NEW t, NEW i, NEW tail, NEW w, Fetched16(t, i, tail, w)
  PROVE  DecodesC(t, i, w)
<1>1. CASE i.c \in {"C_ADDI4SPN", "C_LW", "C_LD", "C_SW", "C_SD"}
  BY <1>1, Decodes_C_ADDI4SPN, Decodes_C_LW, Decodes_C_LD, Decodes_C_SW, Decodes_C_SD
<1>2. CASE i.c \in {"C_ADDI", "C_ADDIW", "C_LI", "C_LUI", "C_ADDI16SP"}
  BY <1>2, Decodes_C_ADDI, Decodes_C_ADDIW, Decodes_C_LI, Decodes_C_LUI, Decodes_C_ADDI16SP
<1>3. CASE i.c \in {"C_J", "C_JAL", "C_BEQZ", "C_BNEZ"}
  BY <1>3, Decodes_C_J, Decodes_C_JAL, Decodes_C_BEQZ, Decodes_C_BNEZ
<1>4. CASE i.c \in {"C_LWSP", "C_LDSP", "C_SWSP", "C_SDSP"}
  BY <1>4, Decodes_C_LWSP, Decodes_C_LDSP, Decodes_C_SWSP, Decodes_C_SDSP
<1>5. CASE i.c \in {"C_SLLI", "C_SRLI", "C_SRAI", "C_ANDI"}
  BY <1>5, Decodes_C_SLLI, Decodes_C_SRLI, Decodes_C_SRAI, Decodes_C_ANDI
<1>6. CASE i.c \in {"C_SUB", "C_XOR", "C_OR", "C_AND", "C_SUBW", "C_ADDW"}
  BY <1>6, Decodes_C_SUB, Decodes_C_XOR, Decodes_C_OR, Decodes_C_AND, Decodes_C_SUBW,
     Decodes_C_ADDW
<1>7. CASE i.c \in {"C_JR", "C_JALR", "C_MV", "C_ADD"}
  BY <1>7, Decodes_C_JR, Decodes_C_JALR, Decodes_C_MV, Decodes_C_ADD
<1>8. Expansion(i.c) # "none"
  <2>1. "none" \notin Ops
    BY DEF Ops, ComputeOps, BaseOps, MulDivOps, ImmOps, ShiftOps, AmoOps, LoadOps, StoreOps,
           BranchOps, JumpOps, UpperOps
  <2> QED BY <2>1 DEF Fetched16, Instruction
<1> QED BY <1>1, <1>2, <1>3, <1>4, <1>5, <1>6, <1>7, <1>8 DEF Expansion

LEMMA Decodes16 ==
  ASSUME NEW i, Instruction(i), Encodable(i), i.c # "-", NEW t \in {"RV32", "RV64"}, Legal(t, i)
  PROVE  DecodesTo(t, i)
<1> SUFFICES ASSUME NEW w \in Fetches(i)
             PROVE  LET how == Dispatch(t, w)
                    IN  /\ DecodedAs(i, how[1], how[2],
                                     IF how[1] = "C" THEN C_operands(w, how[2])
                                     ELSE base_operands(t, w, how[2]))
                        /\ check_extension(w) = how[1]
  BY DEF DecodesTo
<1>1. PICK tail \in Tails : w = Assemble16(i) \cup tail
  BY DEF Fetches, Assemble
<1>2. IsTail(tail)
  BY IsaAssumption DEF IsTail
<1>3. DecodesC(t, i, w)
  BY <1>1, <1>2, DecodesCompressed DEF Fetched16
<1>4. /\ w \subseteq Int /\ range(w, 1, 0) # 3 /\ C_decode(t, w) = Code(i) /\ Code(i) # "ERROR"
      /\ DecodedAs(i, "C", Code(i), C_operands(w, Code(i)))
  BY <1>3 DEF DecodesC
<1>5. Dispatch(t, w) = <<"C", Code(i)>> /\ check_extension(w) = "C"
  BY <1>4, Dispatch16
<1> QED BY <1>4, <1>5

(* Decoding inverts assembling, for every instruction of the workloads on  *)
(* both widths.                                                            *)
LEMMA DecoderInverts ==
  ASSUME NEW wl \in Workloads, NEW i \in wl.code, NEW t \in {"RV32", "RV64"}, Legal(t, i)
  PROVE  DecodesTo(t, i)
<1>1. Instruction(i) /\ Encodable(i)
  BY IsaAssumption
<1>2. CASE i.c = "-"
  BY <1>1, <1>2, Decodes32
<1>3. CASE i.c # "-"
  BY <1>1, <1>3, Decodes16
<1> QED BY <1>2, <1>3

(* Every word that CPU_step fetches is decoded to the extension, the       *)
(* operation and the operands that the manual's encoding put into it: the  *)
(* switches of BASE_ISA, C_extension, M_extension and A_extension, the     *)
(* order in which CPU_step asks them, and every get_imm getter, for all    *)
(* registers, all immediates and whatever follows a compressed             *)
(* instruction.                                                            *)
THEOREM DecoderCorrect == IsaSpec => []DecodesAsAssembled
<1> DEFINE Inv == instr = NoInstr \/ \E wl \in Workloads : instr \in wl.code
<1>1. IsaInit => Inv
  BY DEF IsaInit
<1>2. Inv /\ [IsaNext]_isaVars => Inv'
  BY DEF IsaNext, isaVars, StepBase, StepC, StepM, StepA, Step
<1>3. Inv => DecodesAsAssembled
  BY DecoderInverts DEF DecodesAsAssembled
<1> QED BY <1>1, <1>2, <1>3, PTL DEF IsaSpec
=============================================================================
