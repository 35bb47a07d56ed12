-------------------------------- MODULE Word --------------------------------
(***************************************************************************)
(* What the instruction models are written with: the bits of an            *)
(* instruction word, C++'s integer conversions, and a hart, the state      *)
(* that one instruction reads and writes.                                  *)
(*                                                                         *)
(* An instruction word is the set of the positions of its one bits, 0 to   *)
(* 31, at its full width.  The data is scaled: a word has W bits instead   *)
(* of 32, so a byte has W \div 4 and a register W (RV32) or 2 * W (RV64),  *)
(* and the upper immediate of LUI starts at bit UShift instead of 12.      *)
(***************************************************************************)
EXTENDS Integers, FiniteSets, FiniteSetsExt

CONSTANTS
    W,          \* bits of a word (32)
    UShift,     \* bits below an upper immediate (12)
    MemSize,    \* bytes of memory
    Regs        \* the registers that the instructions name

ASSUME WordAssumption ==
    /\ W \in {4, 8, 16, 32}
    /\ UShift \in 0 .. W - 1
    /\ MemSize \in Nat
    /\ Regs \subseteq 0 .. 31 /\ 0 \in Regs

(* What ^ means, for the exponents that occur: the provers have no rule.   *)
ASSUME PowersOfTwo ==
    /\ 2^0 = 1
    /\ \A k \in (0 .. 2 * W) \cup (0 .. 20) : 2^(k + 1) = 2 * 2^k

ByteBits == W \div 4
XLEN(t) == IF t = "RV32" THEN W ELSE 2 * W

(* v as an unsigned and as a signed integer of n bits *)
Unsigned(v, n) == v % 2^n
Signed(v, n) == LET u == v % 2^n IN IF u >= 2^(n - 1) THEN u - 2^n ELSE u

(* f[0] + ... + f[n - 1] *)
Total(f, n) == LET s[k \in 0 .. n] == IF k = 0 THEN 0 ELSE s[k - 1] + f[k - 1] IN s[n]

(* The one bits of v, and the number of n bits with given one bits. *)
BitSet(v, n) == {k \in 0 .. n - 1 : (v \div 2^k) % 2 = 1}
Number(bits, n) == Total([k \in 0 .. n - 1 |-> IF k \in bits THEN 2^k ELSE 0], n)

And(a, b, n) == Number(BitSet(a, n) \cap BitSet(b, n), n)
Or(a, b, n)  == Number(BitSet(a, n) \cup BitSet(b, n), n)
Xor(a, b, n) == a + b - 2 * And(a, b, n)

(* Integer division as C++ and the manual have it, rounded towards zero. *)
Quotient(a, b) ==
    LET q == Max({a, -a}) \div Max({b, -b})
    IN  IF (a < 0) = (b < 0) THEN q ELSE -q
Remainder(a, b) == a - b * Quotient(a, b)

(* sc_uint::range(hi, lo) of an instruction word *)
range(w, hi, lo) ==
    Number({k - lo : k \in {b \in w : lo <= b /\ b <= hi}}, hi - lo + 1)

(***************************************************************************)
(* A hart.  fault is "none" unless the instruction raised the illegal      *)
(* instruction exception, killed the process, or made an access that is    *)
(* not wholly inside the memory.                                           *)
(***************************************************************************)
Faults == {"none", "illegal", "crash", "outside"}

Hart(t, x, pc, mem) == [t |-> t, x |-> x, pc |-> pc, mem |-> mem, fault |-> "none"]

HartOK(h) ==
    /\ h \in [t : {"RV32", "RV64"}, x : [Regs -> Nat], pc : Nat,
              mem : [0 .. MemSize - 1 -> 0 .. 2^ByteBits - 1], fault : Faults]
    /\ \A r \in Regs : h.x[r] < 2^XLEN(h.t)
    /\ h.pc < 2^XLEN(h.t)
    /\ h.x[0] = 0

Fault(h, f) == [h EXCEPT !.fault = f]
setPC(h, v) == [h EXCEPT !.pc = Unsigned(v, XLEN(h.t))]

(* Mutant: x0 can be written. *)
setValue_X0Too(h, rd, v) == [h EXCEPT !.x[rd] = Unsigned(v, XLEN(h.t))]

(* Registers::setValue: x0 stays 0. *)
setValue(h, rd, v) ==
    IF rd = 0 THEN h ELSE [h EXCEPT !.x[rd] = Unsigned(v, XLEN(h.t))]

Inside(addr, size) == addr + size <= MemSize

(* size bytes of the memory, the first one lowest; Bus has what lies between *)
readDataMem(h, addr, size) ==
    Total([k \in 0 .. size - 1 |-> h.mem[addr + k] * 2^(k * ByteBits)], size)

writeDataMem(h, addr, data, size) ==
    [h EXCEPT !.mem = [a \in DOMAIN h.mem |->
        IF a \in addr .. addr + size - 1
        THEN (data \div 2^((a - addr) * ByteBits)) % 2^ByteBits
        ELSE h.mem[a]]]
=============================================================================
