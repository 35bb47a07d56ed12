----------------------------- MODULE IsaProofs -----------------------------
(***************************************************************************)
(* What TLC checks of IsaSpec on registers of 4 and 8 bits, proved for     *)
(* every contents of the registers, the PC and the memory, and for         *)
(* registers of up to 32 and 64 bits: the Exec functions of BASE_ISA and   *)
(* of the C, M and A extensions do what the manual says of the instruction *)
(* they were given, except where the properties name an exception.         *)
(*                                                                         *)
(* First, what Result says by the kind of an instruction; then one lemma   *)
(* per Exec function (or kind of instruction in it), that it Writes what   *)
(* Result writes, each an argument about congruence modulo the width; then *)
(* one lemma per extension (base_exec, C_exec, M_exec, A_exec); and last   *)
(* the steps of IsaSpec.                                                   *)
(***************************************************************************)
EXTENDS DecoderProofs

----------------------------------------------------------------------------
(* A hart and what is written into it                                      *)

(* A hart in which rd is written and the PC steps over the instruction.    *)
Computes(h, rd, v, length) == setPC(setValue(h, rd, v), h.pc + length)

LEMMA HartWidth ==
  ASSUME NEW h, HartOK(h)
  PROVE  /\ XLEN(h.t) \in {W, 2 * W} /\ XLEN(h.t) \in 1 .. 2 * W /\ XLEN(h.t) \in Nat
         /\ W \in 1 .. 2 * W /\ W \in Nat /\ h.pc \in Nat /\ h.pc < 2^XLEN(h.t)
         /\ \A r \in Regs : /\ h.x[r] \in Nat /\ h.x[r] \in Int
                            /\ h.x[r] \in 0 .. 2^XLEN(h.t) - 1
<1>1. XLEN(h.t) \in {W, 2 * W} /\ W \in Nat /\ W >= 4
  BY Widths
<1>2. /\ h.pc \in Nat /\ h.pc < 2^XLEN(h.t)
      /\ \A r \in Regs : h.x[r] \in Nat /\ h.x[r] < 2^XLEN(h.t)
  BY DEF HartOK
<1>3. XLEN(h.t) \in 1 .. 2 * W
  BY <1>1
<1>4. 2^XLEN(h.t) \in Nat
  BY <1>3, PowerHalf
<1> QED BY <1>1, <1>2, <1>3, <1>4

LEMMA HartMemory ==
  ASSUME NEW h, HartOK(h) PROVE DOMAIN h.mem = 0 .. MemSize - 1 /\ DOMAIN h.mem \subseteq Int
BY WordAssumption DEF HartOK

LEMMA setPC_OK ==
  ASSUME NEW h, HartOK(h), NEW v \in Int
  PROVE  HartOK(setPC(h, v)) /\ setPC(h, v).t = h.t /\ setPC(h, v).x = h.x /\ setPC(h, v).mem = h.mem
         /\ setPC(h, v).fault = h.fault /\ setPC(h, v).pc = Unsigned(v, XLEN(h.t))
<1> DEFINE u == Unsigned(v, XLEN(h.t))
<1>1. u \in Nat /\ u < 2^XLEN(h.t)
  BY HartWidth, UnsignedIs, PowerHalf
<1> HIDE DEF u
<1> QED BY <1>1 DEF HartOK, setPC, u

LEMMA setValue_OK ==
  ASSUME NEW h, HartOK(h), NEW rd, NEW v \in Int
  PROVE  HartOK(setValue(h, rd, v)) /\ setValue(h, rd, v).t = h.t /\ setValue(h, rd, v).pc = h.pc
         /\ setValue(h, rd, v).mem = h.mem /\ setValue(h, rd, v).fault = h.fault
         /\ \A r \in Regs : r # rd => setValue(h, rd, v).x[r] = h.x[r]
<1> DEFINE u == Unsigned(v, XLEN(h.t))
<1>1. u \in Nat /\ u < 2^XLEN(h.t)
  BY HartWidth, UnsignedIs, PowerHalf
<1> HIDE DEF u
<1>2. 0 \in Regs
  BY WordAssumption
<1> QED BY <1>1, <1>2 DEF HartOK, setValue, u

LEMMA writeDataMem_OK ==
  ASSUME NEW h, HartOK(h), NEW addr \in Int, NEW data \in Int, NEW size \in 0 .. 8
  PROVE  HartOK(writeDataMem(h, addr, data, size))
<1> DEFINE B == 2^ByteBits
           New(a) == IF a \in addr .. addr + size - 1
                     THEN (data \div 2^((a - addr) * ByteBits)) % B ELSE h.mem[a]
           mem == [a \in DOMAIN h.mem |-> New(a)]
<1>1. B \in Nat /\ B >= 1
  BY Widths, PowerType
<1>2. h.mem \in [0 .. MemSize - 1 -> 0 .. B - 1]
  BY DEF HartOK
<1>3. ASSUME NEW a \in 0 .. MemSize - 1 PROVE New(a) \in 0 .. B - 1
  <2>1. CASE a \in addr .. addr + size - 1
    <3>1. a - addr \in 0 .. 7 /\ MemSize \in Nat
      BY <2>1, WordAssumption
    <3>2. (a - addr) * ByteBits \in 0 .. 2 * W + 1
      <4> DEFINE j == a - addr
      <4> HIDE DEF j
      <4>1. j \in 0 .. 7
        BY <3>1 DEF j
      <4>2. j * ByteBits \in 0 .. 2 * W + 1
        BY <4>1, Widths
      <4> QED BY <4>2 DEF j
    <3> DEFINE k == (a - addr) * ByteBits
    <3> HIDE DEF k, B
    <3>3. 2^k \in Nat /\ 2^k >= 1
      BY <3>2, PowerType DEF k
    <3>4. data \div 2^k \in Int
      BY <3>3, Division
    <3>5. (data \div 2^k) % B \in 0 .. B - 1
      BY <1>1, <3>4, Division
    <3> QED BY <2>1, <3>5 DEF k
  <2>2. CASE a \notin addr .. addr + size - 1
    BY <1>2, <2>2
  <2> QED BY <2>1, <2>2
<1>4. mem \in [0 .. MemSize - 1 -> 0 .. B - 1]
  <2> HIDE DEF New, B
  <2> QED BY <1>2, <1>3
<1>5. writeDataMem(h, addr, data, size) = [h EXCEPT !.mem = mem]
  BY DEF writeDataMem
<1> HIDE DEF mem
<1> QED BY <1>4, <1>5 DEF HartOK

----------------------------------------------------------------------------
(* What the manual says, by the kind of instruction.                       *)

Length(i) == IF i.c = "-" THEN 4 ELSE 2

OtherOps == JumpOps \cup UpperOps \cup {"FENCE"}

(* An instruction is of one kind only.                                     *)
LEMMA Kinds ==
  ASSUME NEW op
  PROVE  /\ op \in ComputeOps \cup WordOps =>
                op \notin AmoOps \cup LoadOps \cup StoreOps \cup BranchOps \cup OtherOps
         /\ op \in AmoOps => op \notin LoadOps \cup StoreOps \cup BranchOps \cup OtherOps
         /\ op \in LoadOps => op \notin StoreOps \cup BranchOps \cup OtherOps
         /\ op \in StoreOps => op \notin BranchOps \cup OtherOps
         /\ op \in BranchOps => op \notin OtherOps
         /\ op \in WordOps \cup ImmOps => op \in ComputeOps
BY DEF ComputeOps, BaseOps, MulDivOps, ImmOps, ShiftOps, WordOps, AmoOps, LoadOps, StoreOps,
       BranchOps, OtherOps, JumpOps, UpperOps

LEMMA ResultCompute ==
  ASSUME NEW h, HartOK(h), NEW i, i.op \in ComputeOps \ WordOps
  PROVE  Result(h, i) =
           Computes(h, i.rd, ALU(Function(i.op), XLEN(h.t), h.x[i.rs1],
                                 IF i.op \in ImmOps THEN Unsigned(i.imm, XLEN(h.t)) ELSE h.x[i.rs2]),
                    Length(i))
BY Kinds DEF Result, Computes, Length, OtherOps, JumpOps, UpperOps

LEMMA ResultWord ==
  ASSUME NEW h, HartOK(h), NEW i, i.op \in WordOps
  PROVE  Result(h, i) =
           Computes(h, i.rd, Signed(ALU(Function(i.op), W, Unsigned(h.x[i.rs1], W),
                        Unsigned(IF i.op \in ImmOps THEN Unsigned(i.imm, XLEN(h.t)) ELSE h.x[i.rs2], W)), W),
                    Length(i))
BY Kinds DEF Result, Computes, Length, OtherOps, JumpOps, UpperOps

LEMMA ResultLoad ==
  ASSUME NEW h, HartOK(h), NEW i, i.op \in LoadOps, NEW addr, addr = Unsigned(h.x[i.rs1] + i.imm, XLEN(h.t))
  PROVE  Result(h, i) =
           IF Inside(addr, Bytes(i.op))
           THEN Computes(h, i.rd,
                    IF i.op \in {"LBU", "LHU", "LWU"} THEN readDataMem(h, addr, Bytes(i.op))
                    ELSE Signed(readDataMem(h, addr, Bytes(i.op)), Bytes(i.op) * ByteBits), Length(i))
           ELSE Fault(h, "outside")
BY Kinds DEF Result, Computes, Length, OtherOps, JumpOps, UpperOps

LEMMA ResultStore ==
  ASSUME NEW h, HartOK(h), NEW i, i.op \in StoreOps, NEW addr, addr = Unsigned(h.x[i.rs1] + i.imm, XLEN(h.t))
  PROVE  Result(h, i) =
           IF Inside(addr, Bytes(i.op))
           THEN setPC(writeDataMem(h, addr, h.x[i.rs2], Bytes(i.op)), h.pc + Length(i))
           ELSE Fault(h, "outside")
BY Kinds DEF Result, Length, OtherOps, JumpOps, UpperOps

LEMMA ResultAmo ==
  ASSUME NEW h, HartOK(h), NEW i, i.op \in AmoOps, NEW m, m = Bytes(i.op) * ByteBits,
         NEW old, old = readDataMem(h, h.x[i.rs1], Bytes(i.op))
  PROVE  Result(h, i) =
           IF Inside(h.x[i.rs1], Bytes(i.op))
           THEN setPC(setValue(writeDataMem(h, h.x[i.rs1],
                          Unsigned(ALU(Function(i.op), m, old, Unsigned(h.x[i.rs2], m)), m), Bytes(i.op)),
                        i.rd, Signed(old, m)), h.pc + Length(i))
           ELSE Fault(h, "outside")
BY Kinds DEF Result, Length, OtherOps, JumpOps, UpperOps

Taken(op, a, b, n) ==
  \/ op = "BEQ" /\ a = b
  \/ op = "BNE" /\ a # b
  \/ op = "BLT" /\ Signed(a, n) < Signed(b, n)
  \/ op = "BGE" /\ Signed(a, n) >= Signed(b, n)
  \/ op = "BLTU" /\ a < b
  \/ op = "BGEU" /\ a >= b

LEMMA ResultBranch ==
  ASSUME NEW h, HartOK(h), NEW i, i.op \in BranchOps
  PROVE  Result(h, i) =
           setPC(h, h.pc + (IF Taken(i.op, h.x[i.rs1], h.x[i.rs2], XLEN(h.t)) THEN i.imm ELSE Length(i)))
<1> DEFINE n == XLEN(h.t)
           a == h.x[i.rs1]
           b == h.x[i.rs2]
           taken == CASE i.op = "BEQ" -> a = b [] i.op = "BNE" -> a # b
                      [] i.op = "BLT" -> Signed(a, n) < Signed(b, n)
                      [] i.op = "BGE" -> Signed(a, n) >= Signed(b, n)
                      [] i.op = "BLTU" -> a < b [] i.op = "BGEU" -> a >= b
<1>1. Result(h, i) = setPC(h, h.pc + (IF taken THEN i.imm ELSE Length(i)))
  BY Kinds DEF Result, Length, OtherOps, JumpOps, UpperOps
<1>2. taken <=> Taken(i.op, a, b, n)
  <2>1. CASE i.op = "BEQ"
    BY <2>1 DEF Taken
  <2>2. CASE i.op = "BNE"
    BY <2>2 DEF Taken
  <2>3. CASE i.op = "BLT"
    BY <2>3 DEF Taken
  <2>4. CASE i.op = "BGE"
    BY <2>4 DEF Taken
  <2>5. CASE i.op = "BLTU"
    BY <2>5 DEF Taken
  <2>6. CASE i.op = "BGEU"
    BY <2>6 DEF Taken
  <2> QED BY <2>1, <2>2, <2>3, <2>4, <2>5, <2>6 DEF BranchOps
<1> QED BY <1>1, <1>2

LEMMA ResultJump ==
  ASSUME NEW h, HartOK(h), NEW i
  PROVE  /\ i.op = "JAL" => Result(h, i) = setPC(setValue(h, i.rd, h.pc + Length(i)), h.pc + i.imm)
         /\ i.op = "JALR" =>
                Result(h, i) = setPC(setValue(h, i.rd, h.pc + Length(i)),
                                     2 * (Unsigned(h.x[i.rs1] + i.imm, XLEN(h.t)) \div 2))
<1>1. CASE i.op = "JAL"
  BY <1>1, Kinds DEF Result, Length, OtherOps, JumpOps, UpperOps
<1>2. CASE i.op = "JALR"
  BY <1>2, Kinds DEF Result, Length, OtherOps, JumpOps, UpperOps
<1> QED BY <1>1, <1>2

LEMMA ResultUpper ==
  ASSUME NEW h, HartOK(h), NEW i
  PROVE  /\ i.op = "LUI" =>
                Result(h, i) = Computes(h, i.rd, Signed(i.imm * 2^UShift,
                                    IF i.c = "-" THEN W ELSE XLEN(h.t)), Length(i))
         /\ i.op = "AUIPC" =>
                Result(h, i) = Computes(h, i.rd, h.pc + Signed(i.imm * 2^UShift, W), Length(i))
         /\ i.op = "FENCE" => Result(h, i) = setPC(h, h.pc + Length(i))
<1>1. CASE i.op = "LUI"
  BY <1>1, Kinds DEF Result, Computes, Length, OtherOps, JumpOps, UpperOps
<1>2. CASE i.op = "AUIPC"
  BY <1>2, Kinds DEF Result, Computes, Length, OtherOps, JumpOps, UpperOps
<1>3. CASE i.op = "FENCE"
  BY <1>3, Kinds DEF Result, Length, OtherOps, JumpOps, UpperOps
<1> QED BY <1>1, <1>2, <1>3

----------------------------------------------------------------------------
(* Writing a register and stepping over the instruction.                   *)

LEMMA Computes_OK ==
  ASSUME NEW h, HartOK(h), NEW rd, NEW v \in Int, NEW length \in {2, 4}
  PROVE  HartOK(Computes(h, rd, v, length)) /\ Computes(h, rd, v, length).fault = h.fault
<1>1. HartOK(setValue(h, rd, v)) /\ setValue(h, rd, v).fault = h.fault
  BY setValue_OK
<1>2. h.pc + length \in Int
  BY HartWidth
<1> QED BY <1>1, <1>2, setPC_OK DEF Computes

(* g is h with v in rd, length bytes further on.                           *)
Writes(g, h, rd, v, length) == v \in Int /\ g = Computes(h, rd, v, length)

LEMMA WritesBy ==
  ASSUME NEW h, HartOK(h), NEW rd, NEW v \in Int
  PROVE  /\ Writes(incPC(setValue(h, rd, v)), h, rd, v, 4)
         /\ Writes(incPCby2(setValue(h, rd, v)), h, rd, v, 2)
BY setValue_OK DEF incPC, incPCby2, Computes, Writes

LEMMA WritesSame ==
  ASSUME NEW h, HartOK(h), NEW g, NEW rd, NEW length, NEW v, NEW u \in Int,
         Writes(g, h, rd, v, length), Congruent(v, u, 2^XLEN(h.t))
  PROVE  Writes(g, h, rd, u, length)
<1>1. Unsigned(v, XLEN(h.t)) = Unsigned(u, XLEN(h.t))
  BY HartWidth, UnsignedSame DEF Writes
<1> QED BY <1>1 DEF Writes, Computes, setValue

(* The operands of a W instruction are the lower halves of the registers,  *)
(* its result the sign-extended word.                                      *)
WordValue(f, a, b) == Signed(ALU(f, W, Unsigned(a, W), Unsigned(b, W)), W)

LEMMA WordOperands ==
  ASSUME NEW h, HartOK(h), NEW r \in Regs
  PROVE  LET u == Unsigned(h.x[r], W)
             s == Signed(h.x[r], W)
         IN  /\ u \in Nat /\ u \in Int /\ u \in 0 .. 2^W - 1
             /\ s \in Int /\ -(2^(W - 1)) <= s /\ s < 2^(W - 1) /\ Signed(u, W) = s
             /\ s = 0 <=> u = 0
             /\ s = -1 <=> u = 2^W - 1
             /\ s = -(2^(W - 1)) <=> u = 2^(W - 1)
<1> DEFINE u == Unsigned(h.x[r], W)
           s == Signed(h.x[r], W)
<1>1. h.x[r] \in Int /\ W \in 1 .. 2 * W /\ 2^W \in Nat
  BY HartWidth, PowerHalf
<1>2. u \in 0 .. 2^W - 1 /\ Signed(u, W) = s
  BY <1>1, UnsignedIs, SignedUnsigned
<1>3. u \in Nat /\ u \in Int
  BY <1>1, <1>2
<1>4. s \in Int /\ -(2^(W - 1)) <= s /\ s < 2^(W - 1)
  BY <1>1, SignedIs
<1>5. /\ s = 0 <=> u = 0
      /\ s = -1 <=> u = 2^W - 1
      /\ s = -(2^(W - 1)) <=> u = 2^(W - 1)
  BY <1>1, <1>2, SignedOf
<1> QED BY <1>2, <1>3, <1>4, <1>5

----------------------------------------------------------------------------
(* BASE_ISA: the instructions that compute                                 *)

BaseFunctions == {"ADD", "SUB", "SLL", "SRL", "SRA", "SLT", "SLTU", "XOR", "OR", "AND"}

LEMMA ALU_Type ==
  ASSUME NEW n \in {W, 2 * W}, NEW a \in Nat, NEW b \in Nat, NEW f \in BaseFunctions
  PROVE  ALU(f, n, a, b) \in Int
<1>1. n \in 1 .. 2 * W /\ n \in 0 .. 2 * W /\ a \in Int /\ b \in Int
  BY Widths
<1>2. And(a, b, n) \in Int /\ Or(a, b, n) \in Int /\ Xor(a, b, n) \in Int
  BY <1>1, BitwiseType
<1>3. Signed(a, n) \in Int
  BY <1>1, SignedIs
<1> DEFINE p == 2^(b % n)
           sa == Signed(a, n)
<1>4. p \in Nat /\ p >= 1
  BY <1>1, ShiftAmount
<1>5. CASE f \in {"XOR", "OR", "AND"}
  BY <1>2, <1>5 DEF ALU
<1>6. CASE f \in {"ADD", "SUB", "SLT", "SLTU"}
  BY <1>6 DEF ALU
<1>7. CASE f \in {"SLL", "SRL", "SRA"}
  <2>1. ALU(f, n, a, b) = (CASE f = "SLL" -> a * p [] f = "SRL" -> a \div p [] f = "SRA" -> sa \div p)
    BY <1>7 DEF ALU
  <2> HIDE DEF p, sa
  <2>2. a * p \in Int /\ a \div p \in Int /\ sa \div p \in Int
    BY <1>1, <1>3, <1>4, Division DEF sa
  <2> QED BY <1>7, <2>1, <2>2
<1> QED BY <1>5, <1>6, <1>7 DEF BaseFunctions

LEMMA OpImmValue ==
  ASSUME NEW h, HartOK(h), NEW op \in {"ADDI", "SLTI", "SLTIU", "XORI", "ORI", "ANDI"}, NEW d,
         d.rs1 \in Regs, d.imm \in Int
  PROVE  Writes(Exec_OpImm(h, op, d), h, d.rd,
                ALU(Function(op), XLEN(h.t), h.x[d.rs1], Unsigned(d.imm, XLEN(h.t))), 4)
<1> DEFINE n == XLEN(h.t)
           a == h.x[d.rs1]
           imm == Unsigned(d.imm, n)
           v == ALU(Function(op), n, a, imm)
<1>1. n \in {W, 2 * W} /\ n \in 1 .. 2 * W /\ a \in Nat /\ 2^n \in Nat
  BY HartWidth, PowerHalf
<1>2. imm \in Nat /\ Signed(imm, n) = Signed(d.imm, n)
  BY <1>1, UnsignedIs, SignedUnsigned
<1>3. Function(op) \in BaseFunctions
  BY DEF Function, BaseFunctions
<1>4. v \in Int
  <2> HIDE DEF n, a, imm
  <2> QED BY <1>1, <1>2, <1>3, ALU_Type
<1>5. Exec_OpImm(h, op, d) = incPC(setValue(h, d.rd, v))
  <2>1. CASE op = "SLTI"
    BY <1>2, <2>1 DEF Exec_OpImm, ALU, Function, Sx
  <2>2. CASE op = "ADDI"
    BY <2>2 DEF Exec_OpImm, ALU, Function
  <2>3. CASE op = "SLTIU"
    BY <2>3 DEF Exec_OpImm, ALU, Function
  <2>4. CASE op = "XORI"
    BY <2>4 DEF Exec_OpImm, ALU, Function
  <2>5. CASE op = "ORI"
    BY <2>5 DEF Exec_OpImm, ALU, Function
  <2>6. CASE op = "ANDI"
    BY <2>6 DEF Exec_OpImm, ALU, Function
  <2> QED BY <2>1, <2>2, <2>3, <2>4, <2>5, <2>6
<1> HIDE DEF v
<1>6. Writes(Exec_OpImm(h, op, d), h, d.rd, v, 4)
  BY <1>4, <1>5, WritesBy
<1> QED BY <1>6 DEF v

LEMMA OpValue ==
  ASSUME NEW h, HartOK(h), NEW op \in {"ADD", "SUB", "SLT", "SLTU", "XOR", "OR", "AND"}, NEW d,
         d.rs1 \in Regs, d.rs2 \in Regs
  PROVE  Writes(Exec_Op(h, op, d), h, d.rd, ALU(op, XLEN(h.t), h.x[d.rs1], h.x[d.rs2]), 4)
<1> DEFINE n == XLEN(h.t)
           a == h.x[d.rs1]
           b == h.x[d.rs2]
           sa == Signed(a, n)
           sb == Signed(b, n)
           v == ALU(op, n, a, b)
<1>1. n \in {W, 2 * W} /\ n \in 1 .. 2 * W /\ a \in Nat /\ b \in Nat /\ 2^n \in Nat
  BY HartWidth, PowerHalf
<1>2. v \in Int
  <2> HIDE DEF n, a, b
  <2> QED BY <1>1, ALU_Type DEF BaseFunctions
<1>3. CASE op \in {"ADD", "SUB"}
  <2> DEFINE s == IF op = "ADD" THEN sa + sb ELSE sa - sb
  <2>1. Exec_Op(h, op, d) = incPC(setValue(h, d.rd, s))
    BY <1>3 DEF Exec_Op, Sx
  <2>2. v = IF op = "ADD" THEN a + b ELSE a - b
    BY <1>3 DEF ALU
  <2>3. s \in Int /\ Congruent(s, v, 2^n)
    <3>1. sa \in Int /\ sb \in Int /\ Congruent(sa, a, 2^n) /\ Congruent(sb, b, 2^n)
      BY <1>1, SignedIs
    <3> HIDE DEF n, a, b, sa, sb, v
    <3>2. a \in Int /\ b \in Int /\ 2^n \in Int
      BY <1>1
    <3>3. Congruent(sa + sb, a + b, 2^n) /\ Congruent(sa - sb, a - b, 2^n)
      BY <3>1, <3>2, CongruentSum
    <3> QED BY <2>2, <3>1, <3>3
  <2> HIDE DEF s, v
  <2>4. Writes(Exec_Op(h, op, d), h, d.rd, s, 4)
    BY <2>1, <2>3, WritesBy
  <2>5. Writes(Exec_Op(h, op, d), h, d.rd, v, 4)
    BY <1>2, <2>3, <2>4, WritesSame
  <2> QED BY <2>5 DEF v
<1>4. CASE op \notin {"ADD", "SUB"}
  <2>1. Exec_Op(h, op, d) = incPC(setValue(h, d.rd, v))
    BY <1>4 DEF Exec_Op, ALU, Sx
  <2> HIDE DEF v
  <2>2. Writes(Exec_Op(h, op, d), h, d.rd, v, 4)
    BY <1>2, <2>1, WritesBy
  <2> QED BY <2>2 DEF v
<1> QED BY <1>3, <1>4

LEMMA ShiftValue ==
  ASSUME NEW h, HartOK(h), NEW op \in {"SLL", "SRL", "SRA"}, NEW d, d.rs1 \in Regs, d.rs2 \in Regs
  PROVE  Writes(Exec_Shift(h, op, d), h, d.rd, ALU(op, XLEN(h.t), h.x[d.rs1], h.x[d.rs2]), 4)
<1> DEFINE v == ALU(op, XLEN(h.t), h.x[d.rs1], h.x[d.rs2])
<1>1. v \in Int
  BY HartWidth, ALU_Type DEF BaseFunctions
<1>2. Exec_Shift(h, op, d) = incPC(setValue(h, d.rd, v))
  BY DEF Exec_Shift, ALU, Sx
<1> HIDE DEF v
<1>3. Writes(Exec_Shift(h, op, d), h, d.rd, v, 4)
  BY <1>1, <1>2, WritesBy
<1> QED BY <1>3 DEF v

(* The amount of a shift by an immediate, which is below the width n.      *)
LEMMA SmallAmount ==
  ASSUME NEW n \in {W, 2 * W}, NEW m \in {W, 2 * W}, n <= m, NEW imm \in Nat, imm < n
  PROVE  Unsigned(imm, m) = imm /\ imm % n = imm
<1>1. m \in 0 .. 2 * W /\ m \in 1 .. 2 * W /\ n \in Nat /\ m \in Nat /\ n >= 1
  BY Widths
<1>2. m < 2^m /\ 2^m \in Nat
  BY <1>1, PowerAbove, PowerHalf
<1>3. imm \in 0 .. 2^m - 1
  BY <1>1, <1>2
<1>4. imm = n * 0 + imm
  BY <1>1
<1> QED BY <1>1, <1>3, <1>4, UnsignedFits, DivisionUnique

LEMMA ShiftImmValue ==
  ASSUME NEW h, HartOK(h), NEW op \in {"SLLI", "SRLI", "SRAI"}, NEW d,
         d.rs1 \in Regs, d.imm \in Nat, d.imm < XLEN(h.t)
  PROVE  Writes(Exec_ShiftImm(h, op, d), h, d.rd,
                ALU(Function(op), XLEN(h.t), h.x[d.rs1], Unsigned(d.imm, XLEN(h.t))), 4)
<1> DEFINE n == XLEN(h.t)
           v == ALU(Function(op), n, h.x[d.rs1], d.imm)
<1>1. n \in {W, 2 * W} /\ n \in Nat /\ h.x[d.rs1] \in Nat
  BY HartWidth
<1>2. Unsigned(d.imm, n) = d.imm
  <2> HIDE DEF n
  <2> QED BY <1>1, SmallAmount DEF n
<1>3. v \in Int
  <2>1. Function(op) \in BaseFunctions
    BY DEF Function, BaseFunctions
  <2> HIDE DEF n
  <2> QED BY <1>1, <2>1, ALU_Type
<1>4. Exec_ShiftImm(h, op, d) = incPC(setValue(h, d.rd, v))
  <2>1. ~(d.imm >= n)
    BY <1>1
  <2> QED BY <2>1 DEF Exec_ShiftImm, ALU, Function, Sx
<1> HIDE DEF v
<1>5. Writes(Exec_ShiftImm(h, op, d), h, d.rd, v, 4)
  BY <1>3, <1>4, WritesBy
<1> QED BY <1>2, <1>5 DEF v

(* A W instruction writes the word that its function makes of two words    *)
(* that are the same as the operands in W bits.                            *)
LEMMA WordSame ==
  ASSUME NEW h, HartOK(h), NEW g, NEW rd, NEW length, NEW v, NEW u \in Int,
         Writes(g, h, rd, Signed(v, W), length), v \in Int, Congruent(v, u, 2^W)
  PROVE  Writes(g, h, rd, Signed(u, W), length)
<1>1. W \in 1 .. 2 * W
  BY HartWidth
<1>2. Signed(v, W) = Signed(u, W)
  BY <1>1, UnsignedSame
<1> QED BY <1>2

LEMMA SumsSame ==
  ASSUME NEW a \in Int, NEW b \in Int
  PROVE  LET u == Unsigned(a, W)
             k == Unsigned(b, W)
             s == Signed(a, W)
         IN  /\ u \in Int /\ k \in Int /\ s \in Int
             /\ Congruent(a + b, u + k, 2^W) /\ Congruent(a - b, u - k, 2^W)
             /\ Congruent(s + b, u + k, 2^W)
             /\ \A p \in Int : Congruent(s * p, u * p, 2^W)
<1> DEFINE u == Unsigned(a, W)
           k == Unsigned(b, W)
           s == Signed(a, W)
           P == 2^W
<1>1. W \in 1 .. 2 * W /\ P \in Nat /\ P \in Int
  BY Widths, PowerHalf
<1>2. u \in Int /\ k \in Int /\ Congruent(u, a, P) /\ Congruent(k, b, P)
  BY <1>1, UnsignedIs
<1>3. s \in Int /\ Congruent(s, a, P)
  BY <1>1, SignedIs
<1> HIDE DEF u, k, s, P
<1>4. Congruent(a, u, P) /\ Congruent(b, k, P)
  BY <1>1, <1>2, CongruentSwap
<1>5. Congruent(s, u, P)
  BY <1>1, <1>2, <1>3, <1>4, CongruentTrans
<1>6. Congruent(a + b, u + k, P) /\ Congruent(a - b, u - k, P) /\ Congruent(s + b, u + k, P)
  BY <1>1, <1>2, <1>3, <1>4, <1>5, CongruentSum
<1>7. ASSUME NEW p \in Int PROVE Congruent(s * p, u * p, P)
  BY <1>1, <1>2, <1>3, <1>5, CongruentSelf, CongruentSum
<1> QED BY <1>2, <1>3, <1>6, <1>7 DEF u, k, s, P

LEMMA OpWordValue ==
  ASSUME NEW h, HartOK(h), NEW op \in {"ADDW", "SUBW", "SLLW", "SRLW", "SRAW"}, NEW d,
         d.rs1 \in Regs, d.rs2 \in Regs
  PROVE  Writes(Exec_OpW(h, op, d), h, d.rd, WordValue(Function(op), h.x[d.rs1], h.x[d.rs2]), 4)
<1> DEFINE a == h.x[d.rs1]
           b == h.x[d.rs2]
           ua == Unsigned(a, W)
           ub == Unsigned(b, W)
           sa == Signed(a, W)
           p == 2^(b % W)
<1>1. a \in Int /\ b \in Int /\ W \in 1 .. 2 * W /\ W \in {W, 2 * W}
  BY HartWidth
<1>2. ua \in Nat /\ ub \in Nat /\ Signed(ua, W) = sa /\ sa \in Int /\ -(2^(W - 1)) <= sa /\ sa < 2^(W - 1)
  BY WordOperands
<1>3. ub % W = b % W /\ p \in Nat /\ p >= 1
  BY <1>1, ShiftAmount
<1>4. CASE op \in {"ADDW", "SUBW"}
  <2> DEFINE v == IF op = "ADDW" THEN a + b ELSE a - b
             u == IF op = "ADDW" THEN ua + ub ELSE ua - ub
  <2>1. Exec_OpW(h, op, d) = incPC(setValue(h, d.rd, Signed(v, W)))
    BY <1>4 DEF Exec_OpW
  <2>2. WordValue(Function(op), a, b) = Signed(u, W)
    BY <1>4 DEF WordValue, Function, ALU
  <2>3. v \in Int /\ u \in Int /\ Congruent(v, u, 2^W)
    <3> HIDE DEF a, b
    <3>1. /\ ua \in Int /\ ub \in Int
          /\ Congruent(a + b, ua + ub, 2^W) /\ Congruent(a - b, ua - ub, 2^W)
      BY <1>1, SumsSame
    <3> HIDE DEF ua, ub
    <3> QED BY <1>1, <1>4, <3>1
  <2> HIDE DEF a, b, v, u
  <2>4. Signed(v, W) \in Int
    BY <1>1, <2>3, SignedIs
  <2>5. Writes(Exec_OpW(h, op, d), h, d.rd, Signed(u, W), 4)
    BY <2>1, <2>3, <2>4, WritesBy, WordSame
  <2> QED BY <2>2, <2>5 DEF a, b
<1>5. CASE op = "SLLW"
  <2>1. Exec_OpW(h, op, d) = incPC(setValue(h, d.rd, Signed(sa * p, W)))
    BY <1>5 DEF Exec_OpW
  <2>2. WordValue(Function(op), a, b) = Signed(ua * p, W)
    BY <1>3, <1>5 DEF WordValue, Function, ALU
  <2>3. sa * p \in Int /\ ua * p \in Int /\ Congruent(sa * p, ua * p, 2^W)
    <3>1. p \in Int
      BY <1>3
    <3> HIDE DEF a, b, p
    <3>2. ua * p \in Int /\ sa * p \in Int
      <4> HIDE DEF ua, sa
      <4> QED BY <1>2, <3>1
    <3> QED BY <1>1, <3>1, <3>2, SumsSame
  <2> DEFINE v == sa * p
             u == ua * p
  <2> HIDE DEF a, b, v, u
  <2>4. Signed(v, W) \in Int
    BY <1>1, <2>3, SignedIs DEF v
  <2>5. Writes(Exec_OpW(h, op, d), h, d.rd, Signed(u, W), 4)
    BY <2>1, <2>3, <2>4, WritesBy, WordSame DEF u, v
  <2> QED BY <2>2, <2>5 DEF a, b, u
<1>6. CASE op = "SRLW"
  <2> DEFINE v == ua \div p
  <2>1. Exec_OpW(h, op, d) = incPC(setValue(h, d.rd, Signed(v, W)))
    BY <1>6 DEF Exec_OpW
  <2>2. WordValue(Function(op), a, b) = Signed(v, W)
    BY <1>3, <1>6 DEF WordValue, Function, ALU
  <2>3. v \in Int
    <3> HIDE DEF p, ua
    <3> QED BY <1>2, <1>3, Division
  <2> HIDE DEF a, b, v
  <2>4. Signed(v, W) \in Int
    BY <1>1, <2>3, SignedIs
  <2> QED BY <2>1, <2>2, <2>4, WritesBy DEF a, b
<1>7. CASE op = "SRAW"
  <2> DEFINE v == sa \div p
  <2>1. Exec_OpW(h, op, d) = incPC(setValue(h, d.rd, v))
    BY <1>7 DEF Exec_OpW
  <2>2. WordValue(Function(op), a, b) = Signed(v, W)
    BY <1>2, <1>3, <1>7 DEF WordValue, Function, ALU
  <2>3. v \in Int /\ Signed(v, W) = v
    <3>1. 2^(W - 1) \in Nat
      BY <1>1, PowerHalf
    <3> HIDE DEF p, sa
    <3>2. v \in Int /\ -(2^(W - 1)) <= v /\ v < 2^(W - 1)
      BY <1>2, <1>3, <3>1, ShiftFits
    <3> QED BY <1>1, <3>2, SignedFits
  <2> HIDE DEF a, b, v
  <2> QED BY <2>1, <2>2, <2>3, WritesBy DEF a, b
<1> QED BY <1>4, <1>5, <1>6, <1>7

LEMMA AddImmWordValue ==
  ASSUME NEW h, HartOK(h), NEW d, d.rs1 \in Regs, d.imm \in Int
  PROVE  Writes(Exec_OpImm(h, "ADDIW", d), h, d.rd,
                WordValue("ADD", h.x[d.rs1], Unsigned(d.imm, XLEN(h.t))), 4)
<1> DEFINE a == h.x[d.rs1]
           b == Unsigned(d.imm, XLEN(h.t))
           v == Signed(a, W) + d.imm
           u == Unsigned(a, W) + Unsigned(b, W)
<1>1. a \in Int /\ W \in 1 .. 2 * W /\ XLEN(h.t) \in 1 .. 2 * W
  BY HartWidth
<1>2. Exec_OpImm(h, "ADDIW", d) = incPC(setValue(h, d.rd, Signed(v, W)))
  BY DEF Exec_OpImm
<1>3. WordValue("ADD", a, b) = Signed(u, W)
  BY DEF WordValue, ALU
<1>4. Unsigned(b, W) = Unsigned(d.imm, W)
  BY LowerHalf
<1>5. v \in Int /\ u \in Int /\ Congruent(v, u, 2^W)
  <2> DEFINE ua == Unsigned(a, W)
             ub == Unsigned(d.imm, W)
             sa == Signed(a, W)
  <2> HIDE DEF a, b
  <2>1. ua \in Int /\ ub \in Int /\ sa \in Int /\ Congruent(sa + d.imm, ua + ub, 2^W)
    BY <1>1, SumsSame
  <2>2. v = sa + d.imm /\ u = ua + ub
    BY <1>4
  <2> HIDE DEF ua, ub, sa, u, v
  <2> QED BY <2>1, <2>2
<1> HIDE DEF a, b, u, v
<1>6. Signed(v, W) \in Int
  BY <1>1, <1>5, SignedIs
<1>7. Writes(Exec_OpImm(h, "ADDIW", d), h, d.rd, Signed(u, W), 4)
  BY <1>2, <1>5, <1>6, WritesBy, WordSame
<1> QED BY <1>3, <1>7 DEF a, b

LEMMA ShiftImmWordValue ==
  ASSUME NEW h, HartOK(h), NEW op \in {"SLLIW", "SRLIW", "SRAIW"}, NEW d,
         d.rs1 \in Regs, d.imm \in Nat, d.imm < W
  PROVE  Writes(Exec_ShiftImm(h, op, d), h, d.rd,
                WordValue(Function(op), h.x[d.rs1], Unsigned(d.imm, XLEN(h.t))), 4)
<1> DEFINE a == h.x[d.rs1]
           ua == Unsigned(a, W)
           sa == Signed(a, W)
           p == 2^(d.imm % W)
           r == IF op = "SLLIW" THEN ua * p ELSE IF op = "SRLIW" THEN ua \div p ELSE sa \div p
           v == IF op = "SRAIW" THEN r ELSE Signed(r, W)
<1>1. W \in 1 .. 2 * W /\ W \in {W, 2 * W} /\ W \in Nat /\ XLEN(h.t) \in {W, 2 * W} /\ W <= XLEN(h.t)
      /\ 2^(W - 1) \in Nat
  BY HartWidth, PowerHalf
<1>2. ua \in Nat /\ Signed(ua, W) = sa /\ sa \in Int /\ -(2^(W - 1)) <= sa /\ sa < 2^(W - 1)
  BY WordOperands
<1>3. Unsigned(d.imm, XLEN(h.t)) = d.imm /\ Unsigned(d.imm, W) = d.imm
  BY <1>1, SmallAmount
<1>4. p \in Nat /\ p >= 1
  <2>1. d.imm \in Int
    OBVIOUS
  <2> QED BY <1>1, <2>1, ShiftAmount
<1>5. Exec_ShiftImm(h, op, d) = incPC(setValue(h, d.rd, v))
  <2>1. ~(d.imm >= W)
    BY <1>1
  <2> QED BY <2>1 DEF Exec_ShiftImm
<1>6. WordValue(Function(op), a, Unsigned(d.imm, XLEN(h.t))) = Signed(r, W)
  BY <1>2, <1>3 DEF WordValue, Function, ALU
<1> HIDE DEF a, ua, sa, p
<1>7. r \in Int
  BY <1>2, <1>4, Division
<1>8. v \in Int /\ v = Signed(r, W)
  <2>1. CASE op = "SRAIW"
    <3>1. r = sa \div p
      BY <2>1
    <3>2. -(2^(W - 1)) <= r /\ r < 2^(W - 1)
      BY <1>1, <1>2, <1>4, <3>1, ShiftFits
    <3> HIDE DEF r
    <3> QED BY <1>1, <1>7, <2>1, <3>2, SignedFits
  <2>2. CASE op # "SRAIW"
    <3> HIDE DEF r
    <3> QED BY <1>1, <1>7, <2>2, SignedIs
  <2> QED BY <2>1, <2>2
<1> HIDE DEF v, r
<1> QED BY <1>5, <1>6, <1>8, WritesBy DEF a

----------------------------------------------------------------------------
(* BASE_ISA: upper immediates, jumps and branches                          *)

LEMMA UpperValue ==
  ASSUME NEW h, HartOK(h), NEW op \in {"LUI", "AUIPC"}, NEW d, d.imm \in Int
  PROVE  Writes(Exec_LUI_AUIPC(h, op, d), h, d.rd,
                IF op = "LUI" THEN Signed(d.imm * 2^UShift, W) ELSE h.pc + Signed(d.imm * 2^UShift, W), 4)
<1> DEFINE p == 2^UShift
           imm == Signed(d.imm * p, W)
           v == IF op = "LUI" THEN imm ELSE h.pc + imm
<1>1. W \in 1 .. 2 * W /\ h.pc \in Nat
  BY HartWidth
<1>2. UShift \in 0 .. 2 * W + 1
  BY WordAssumption
<1>3. p \in Nat
  BY <1>2, PowerType
<1>4. d.imm * p \in Int
  <2> HIDE DEF p
  <2> QED BY <1>3
<1>5. imm \in Int
  <2> HIDE DEF p
  <2> QED BY <1>1, <1>4, SignedIs
<1>6. Exec_LUI_AUIPC(h, op, d) = incPC(setValue(h, d.rd, v))
  BY DEF Exec_LUI_AUIPC
<1> HIDE DEF imm
<1>7. v \in Int
  BY <1>1, <1>5
<1> HIDE DEF v
<1>8. Writes(Exec_LUI_AUIPC(h, op, d), h, d.rd, v, 4)
  BY <1>6, <1>7, WritesBy
<1> QED BY <1>8 DEF v, imm

(* The link register and the PC are written in either order.               *)
LEMMA JumpCommutes ==
  ASSUME NEW h, HartOK(h), NEW rd, NEW link, NEW target
  PROVE  setValue(setPC(h, target), rd, link) = setPC(setValue(h, rd, link), target)
BY DEF setValue, setPC, HartOK

LEMMA JumpSame ==
  ASSUME NEW h, HartOK(h), NEW rd, NEW link \in Int, NEW l2 \in Int, NEW target \in Int, NEW t2 \in Int,
         Congruent(link, l2, 2^XLEN(h.t)), Congruent(target, t2, 2^XLEN(h.t))
  PROVE  /\ setPC(setValue(h, rd, link), target) = setPC(setValue(h, rd, l2), t2)
         /\ HartOK(setPC(setValue(h, rd, link), target))
<1> DEFINE g == setValue(h, rd, link)
           n == XLEN(h.t)
<1>1. Unsigned(link, n) = Unsigned(l2, n) /\ Unsigned(target, n) = Unsigned(t2, n)
  BY HartWidth, UnsignedSame
<1>2. g = setValue(h, rd, l2)
  BY <1>1 DEF setValue
<1>3. HartOK(g) /\ g.t = h.t
  BY setValue_OK
<1> HIDE DEF g
<1>4. setPC(g, target) = setPC(g, t2)
  BY <1>1, <1>3 DEF setPC
<1>5. HartOK(setPC(g, target))
  BY <1>3, setPC_OK
<1> QED BY <1>2, <1>4, <1>5 DEF g

LEMMA JumpIs ==
  ASSUME NEW h, HartOK(h), NEW i, Instruction(i), i.c = "-", i.op \in JumpOps, NEW d,
         d.rd = i.rd, d.imm = i.imm, i.op = "JALR" => d.rs1 = i.rs1
  PROVE  /\ HartOK(base_exec_instruction(h, i.op, d))
         /\ base_exec_instruction(h, i.op, d) = Result(h, i)
<1> DEFINE n == XLEN(h.t)
           link == h.pc + 4
<1>1. n \in 1 .. 2 * W /\ h.pc \in Nat /\ i.imm \in Int /\ link \in Int /\ 2^n \in Nat /\ 2^n \in Int
  BY HartWidth, PowerHalf DEF Instruction, JumpOps, ShiftOps
<1>2. Congruent(link, link, 2^n)
  <2> HIDE DEF n, link
  <2> QED BY <1>1, CongruentSelf
<1>3. CASE i.op = "JAL"
  <2> DEFINE target == h.pc + i.imm
  <2>1. base_exec_instruction(h, i.op, d) = setValue(setPC(h, target), i.rd, link)
    BY <1>3 DEF base_exec_instruction, Exec_JAL
  <2>2. target \in Int
    BY <1>1
  <2>3. Result(h, i) = setPC(setValue(h, i.rd, link), target)
    BY <1>3, ResultJump DEF Length
  <2> HIDE DEF target, link
  <2>4. Congruent(target, target, 2^n)
    BY <1>1, <2>2, CongruentSelf
  <2>5. HartOK(setPC(setValue(h, i.rd, link), target))
    BY <1>1, <1>2, <2>2, <2>4, JumpSame
  <2> QED BY <2>1, <2>3, <2>5, JumpCommutes
<1>4. CASE i.op = "JALR"
  <2> DEFINE x == h.x[i.rs1] + i.imm
             target == 2 * (x \div 2)
             t2 == 2 * (Unsigned(x, n) \div 2)
  <2>1. base_exec_instruction(h, i.op, d) = setPC(setValue(h, i.rd, link), target)
    BY <1>4 DEF base_exec_instruction, Exec_JALR
  <2>2. Result(h, i) = setPC(setValue(h, i.rd, link), t2)
    BY <1>4, ResultJump DEF Length
  <2>3. x \in Int
    BY <1>1, HartWidth DEF Instruction
  <2>4. target \in Int /\ t2 \in Int /\ Congruent(target, t2, 2^n)
    <3> HIDE DEF x, n
    <3> QED BY <1>1, <2>3, EvenSame
  <2> HIDE DEF target, t2, link
  <2> QED BY <1>1, <1>2, <2>1, <2>2, <2>4, JumpSame
<1> QED BY <1>3, <1>4 DEF JumpOps

LEMMA BranchIs ==
  ASSUME NEW h, HartOK(h), NEW i, Instruction(i), i.c = "-", i.op \in BranchOps, NEW d,
         d.rs1 = i.rs1, d.rs2 = i.rs2, d.imm = i.imm
  PROVE  /\ HartOK(base_exec_instruction(h, i.op, d))
         /\ base_exec_instruction(h, i.op, d) = Result(h, i)
<1> DEFINE n == XLEN(h.t)
           a == h.x[d.rs1]
           b == h.x[d.rs2]
           taken == CASE i.op = "BEQ" -> a = b [] i.op = "BNE" -> a # b
                      [] i.op = "BLT" -> Sx(h, d.rs1) < Sx(h, d.rs2)
                      [] i.op = "BGE" -> Sx(h, d.rs1) >= Sx(h, d.rs2)
                      [] i.op = "BLTU" -> a < b [] i.op = "BGEU" -> a >= b
           yes == Taken(i.op, a, b, n)
<1>1. base_exec_instruction(h, i.op, d) = IF taken THEN setPC(h, h.pc + d.imm) ELSE incPC(h)
  BY DEF base_exec_instruction, Exec_Branch, BranchOps
<1>2. taken <=> yes
  <2>1. CASE i.op = "BEQ"
    BY <2>1 DEF Taken
  <2>2. CASE i.op = "BNE"
    BY <2>2 DEF Taken
  <2>3. CASE i.op = "BLT"
    BY <2>3 DEF Taken, Sx
  <2>4. CASE i.op = "BGE"
    BY <2>4 DEF Taken, Sx
  <2>5. CASE i.op = "BLTU"
    BY <2>5 DEF Taken
  <2>6. CASE i.op = "BGEU"
    BY <2>6 DEF Taken
  <2> QED BY <2>1, <2>2, <2>3, <2>4, <2>5, <2>6 DEF BranchOps
<1>3. Result(h, i) = setPC(h, h.pc + (IF yes THEN i.imm ELSE 4))
  BY ResultBranch DEF Length
<1>4. h.pc + i.imm \in Int /\ h.pc + 4 \in Int
  BY HartWidth DEF Instruction, BranchOps, ShiftOps
<1>5. HartOK(setPC(h, h.pc + i.imm)) /\ HartOK(setPC(h, h.pc + 4))
  BY <1>4, setPC_OK
<1> HIDE DEF taken, yes
<1> QED BY <1>1, <1>2, <1>3, <1>5 DEF incPC

----------------------------------------------------------------------------
(* BASE_ISA: loads and stores                                              *)

LEMMA OutsideOK ==
  ASSUME NEW h, HartOK(h), NEW f \in Faults PROVE HartOK(Fault(h, f))
BY DEF HartOK, Fault

LEMMA AddressIs ==
  ASSUME NEW h, HartOK(h), NEW r \in Regs, NEW imm \in Int
  PROVE  /\ Unsigned(imm + h.x[r], XLEN(h.t)) = Unsigned(h.x[r] + imm, XLEN(h.t))
         /\ Unsigned(h.x[r] + imm, XLEN(h.t)) \in Nat
<1>1. imm + h.x[r] = h.x[r] + imm /\ h.x[r] + imm \in Int /\ XLEN(h.t) \in 1 .. 2 * W
  BY HartWidth
<1>2. 2^XLEN(h.t) \in Nat
  BY <1>1, PowerHalf
<1> QED BY <1>1, <1>2, UnsignedIs

(* What a load finds in memory, as the manual extends it.                  *)
LoadValue(h, op, addr) ==
  IF op \in {"LBU", "LHU", "LWU"} THEN readDataMem(h, addr, Bytes(op))
  ELSE Signed(readDataMem(h, addr, Bytes(op)), Bytes(op) * ByteBits)

LEMMA LoadValueType ==
  ASSUME NEW h, HartOK(h), NEW op \in LoadOps, NEW addr \in Nat, Inside(addr, Bytes(op))
  PROVE  LoadValue(h, op, addr) \in Int
<1> DEFINE s == Bytes(op)
           v == readDataMem(h, addr, s)
<1>1. s \in {1, 2, 4, 8}
  BY DEF Bytes, LoadOps
<1> HIDE DEF s
<1>2. v \in Int
  <2>1. s \in 0 .. 8
    BY <1>1
  <2> QED BY <2>1, readDataMem_Type DEF s
<1>3. s * ByteBits \in 1 .. 2 * W
  BY <1>1, Widths
<1> HIDE DEF v
<1>4. Signed(v, s * ByteBits) \in Int
  BY <1>2, <1>3, SignedIs
<1> QED BY <1>2, <1>4 DEF LoadValue, v, s

(* A doubleword fills a register of RV64: its sign makes no difference.    *)
LEMMA DoubleValue ==
  ASSUME NEW h, HartOK(h), h.t = "RV64", NEW addr \in Nat, Inside(addr, 8)
  PROVE  /\ ReadDouble(h, addr) \in Int
         /\ Congruent(ReadDouble(h, addr), LoadValue(h, "LD", addr), 2^XLEN(h.t))
<1> DEFINE v == readDataMem(h, addr, 8)
           n == XLEN(h.t)
<1>1. ReadDouble(h, addr) = v
  BY ReadTwoWords DEF ReadDouble
<1>2. v \in Int
  BY readDataMem_Type
<1>3. LoadValue(h, "LD", addr) = Signed(v, n)
  <2>1. Bytes("LD") = 8
    BY DEF Bytes, AmoOps
  <2>2. 8 * ByteBits = n
    BY Widths DEF XLEN
  <2> QED BY <2>1, <2>2 DEF LoadValue
<1>4. n \in 1 .. 2 * W /\ 2^n \in Int
  BY HartWidth, PowerHalf
<1> HIDE DEF v, n
<1>5. Signed(v, n) \in Int /\ Congruent(Signed(v, n), v, 2^n)
  BY <1>2, <1>4, SignedIs
<1>6. Congruent(v, Signed(v, n), 2^n)
  BY <1>2, <1>4, <1>5, CongruentSwap
<1> QED BY <1>1, <1>2, <1>3, <1>6 DEF n

LEMMA LoadIs ==
  ASSUME NEW h, HartOK(h), NEW i, Instruction(i), Legal(h.t, i), i.c = "-", i.op \in LoadOps, NEW d,
         d.rd = i.rd, d.rs1 = i.rs1, d.imm = i.imm
  PROVE  /\ HartOK(base_exec_instruction(h, i.op, d))
         /\ base_exec_instruction(h, i.op, d) = Result(h, i)
<1> DEFINE addr == Unsigned(h.x[i.rs1] + i.imm, XLEN(h.t))
           s == Bytes(i.op)
           u == LoadValue(h, i.op, addr)
           v == IF i.op = "LD" THEN ReadDouble(h, addr) ELSE u
<1>1. i.rs1 \in Regs /\ i.imm \in Int
  BY DEF Instruction, LoadOps, ShiftOps
<1>2. addr \in Nat /\ Unsigned(i.imm + h.x[i.rs1], XLEN(h.t)) = addr
  BY <1>1, AddressIs
<1> HIDE DEF addr
<1>3. base_exec_instruction(h, i.op, d) =
        IF Inside(addr, s) THEN incPC(setValue(h, i.rd, v)) ELSE Fault(h, "outside")
  <2>1. base_exec_instruction(h, i.op, d) = Exec_Load(h, i.op, d)
    BY DEF base_exec_instruction, LoadOps
  <2>2. CASE i.op = "LB"
    BY <1>2, <2>1, <2>2 DEF Exec_Load, LoadValue, Bytes, AmoOps
  <2>3. CASE i.op = "LH"
    BY <1>2, <2>1, <2>3 DEF Exec_Load, LoadValue, Bytes, AmoOps
  <2>4. CASE i.op = "LW"
    BY <1>2, <2>1, <2>4 DEF Exec_Load, LoadValue, Bytes, AmoOps
  <2>5. CASE i.op = "LD"
    BY <1>2, <2>1, <2>5 DEF Exec_Load, LoadValue, Bytes, AmoOps
  <2>6. CASE i.op \in {"LBU", "LHU", "LWU"}
    BY <1>2, <2>1, <2>6 DEF Exec_Load, LoadValue, Bytes, AmoOps
  <2> QED BY <2>2, <2>3, <2>4, <2>5, <2>6 DEF LoadOps
<1>4. Result(h, i) = IF Inside(addr, s) THEN Computes(h, i.rd, u, 4) ELSE Fault(h, "outside")
  BY ResultLoad DEF LoadValue, Length, addr
<1>5. CASE ~Inside(addr, s)
  BY <1>3, <1>4, <1>5, OutsideOK DEF Faults
<1>6. CASE Inside(addr, s)
  <2>1. u \in Int
    BY <1>2, <1>6, LoadValueType
  <2>2. v \in Int /\ Congruent(v, u, 2^XLEN(h.t))
    <3>1. CASE i.op = "LD"
      <4>1. h.t = "RV64"
        BY <3>1 DEF Legal, Only64, HartOK
      <4>2. s = 8
        BY <3>1 DEF Bytes, AmoOps
      <4> QED BY <1>2, <1>6, <3>1, <4>1, <4>2, DoubleValue
    <3>2. CASE i.op # "LD"
      <4>1. 2^XLEN(h.t) \in Int
        BY HartWidth, PowerHalf
      <4> HIDE DEF u
      <4> QED BY <2>1, <3>2, <4>1, CongruentSelf
    <3> QED BY <3>1, <3>2
  <2> HIDE DEF u, v
  <2>3. Writes(base_exec_instruction(h, i.op, d), h, i.rd, u, 4)
    BY <1>3, <1>6, <2>1, <2>2, WritesBy, WritesSame
  <2> QED BY <1>4, <1>6, <2>1, <2>3, Computes_OK DEF Writes
<1> QED BY <1>5, <1>6

LEMMA StoreIs ==
  ASSUME NEW h, HartOK(h), NEW i, Instruction(i), i.c = "-", i.op \in StoreOps, NEW d,
         d.rs1 = i.rs1, d.rs2 = i.rs2, d.imm = i.imm
  PROVE  /\ HartOK(base_exec_instruction(h, i.op, d))
         /\ base_exec_instruction(h, i.op, d) = Result(h, i)
<1> DEFINE addr == Unsigned(h.x[i.rs1] + i.imm, XLEN(h.t))
           s == Bytes(i.op)
           b == h.x[i.rs2]
           u == writeDataMem(h, addr, b, s)
<1>1. i.rs1 \in Regs /\ i.rs2 \in Regs /\ i.imm \in Int /\ b \in Int /\ h.pc \in Nat /\ W \in 1 .. 2 * W
  BY HartWidth DEF Instruction, StoreOps, ShiftOps
<1>2. addr \in Nat /\ Unsigned(i.imm + h.x[i.rs1], XLEN(h.t)) = addr
  BY <1>1, AddressIs
<1> HIDE DEF addr
<1>3. base_exec_instruction(h, i.op, d) =
        IF ~Inside(addr, s) THEN Fault(h, "outside")
        ELSE IF i.op = "SD" THEN incPC(WriteDouble(h, addr, b))
        ELSE incPC(writeDataMem(h, addr, Unsigned(b, W), s))
  <2>1. base_exec_instruction(h, i.op, d) = Exec_Store(h, i.op, d)
    BY DEF base_exec_instruction, StoreOps
  <2>2. CASE i.op = "SD"
    BY <1>2, <2>1, <2>2 DEF Exec_Store, Bytes, AmoOps
  <2>3. CASE i.op = "SB"
    BY <1>2, <2>1, <2>3 DEF Exec_Store, Bytes, AmoOps
  <2>4. CASE i.op = "SH"
    BY <1>2, <2>1, <2>4 DEF Exec_Store, Bytes, AmoOps
  <2>5. CASE i.op = "SW"
    BY <1>2, <2>1, <2>5 DEF Exec_Store, Bytes, AmoOps
  <2> QED BY <2>2, <2>3, <2>4, <2>5 DEF StoreOps
<1>4. Result(h, i) = IF Inside(addr, s) THEN setPC(u, h.pc + 4) ELSE Fault(h, "outside")
  BY ResultStore DEF Length, addr
<1>5. s \in {1, 2, 4, 8} /\ (i.op = "SD" <=> s = 8)
  BY DEF Bytes, StoreOps, AmoOps
<1> HIDE DEF s, b
<1>6. HartOK(u) /\ u.pc = h.pc
  <2>1. s \in 0 .. 8 /\ addr \in Int
    BY <1>2, <1>5
  <2>2. HartOK(u)
    BY <1>1, <1>2, <2>1, writeDataMem_OK
  <2> QED BY <2>2 DEF writeDataMem, HartOK
<1>7. i.op = "SD" => WriteDouble(h, addr, b) = u
  BY <1>1, <1>2, <1>5, WriteTwoWords DEF WriteDouble
<1>8. i.op # "SD" => writeDataMem(h, addr, Unsigned(b, W), s) = u
  <2>1. Unsigned(b, W) \in Int /\ Congruent(Unsigned(b, W), b, 2^W)
    BY <1>1, UnsignedIs, SignedUnsigned
  <2>2. s # 8 => s * ByteBits <= W
    BY <1>5, Widths
  <2>3. DOMAIN h.mem \subseteq Int /\ W \in {W, 2 * W}
    BY HartMemory
  <2> QED BY <1>1, <1>2, <1>5, <2>1, <2>2, <2>3, writeDataMem_Same
<1> HIDE DEF u
<1>9. HartOK(setPC(u, h.pc + 4)) /\ incPC(u) = setPC(u, h.pc + 4)
  <2>1. h.pc + 4 \in Int
    BY <1>1
  <2> QED BY <1>6, <2>1, setPC_OK DEF incPC
<1> QED BY <1>3, <1>4, <1>7, <1>8, <1>9, OutsideOK DEF Faults

(* Every base instruction, with the operands it was assembled with, does   *)
(* what the manual says.                                                   *)
LEMMA base_exec ==
  ASSUME NEW h, HartOK(h), NEW i, Instruction(i), Legal(h.t, i), i.c = "-",
         i.op \notin MulDivOps \cup AmoOps, NEW d,
         i.op \notin StoreOps \cup BranchOps => d.rd = i.rd,
         i.op \notin UpperOps \cup {"JAL"} => d.rs1 = i.rs1,
         i.op \in BaseOps \cup StoreOps \cup BranchOps => d.rs2 = i.rs2,
         i.op \notin BaseOps => d.imm = i.imm
  PROVE  /\ HartOK(base_exec_instruction(h, i.op, d))
         /\ base_exec_instruction(h, i.op, d) = Result(h, i)
<1> DEFINE g == base_exec_instruction(h, i.op, d)
           n == XLEN(h.t)
           a == h.x[i.rs1]
           b == h.x[i.rs2]
           imm == Unsigned(i.imm, n)
<1> SUFFICES HartOK(g) /\ g = Result(h, i)
  OBVIOUS
<1>1. i.rd \in Regs /\ i.rs1 \in Regs /\ i.rs2 \in Regs /\ i.imm \in Int
  BY DEF Instruction
<1>2. ASSUME NEW v, Writes(g, h, i.rd, v, 4), Result(h, i) = Computes(h, i.rd, v, 4)
      PROVE  HartOK(g) /\ g = Result(h, i)
  <2> HIDE DEF g
  <2> QED BY <1>2, Computes_OK DEF Writes
<1>3. CASE i.op \in BaseOps \ WordOps
  <2> DEFINE v == ALU(i.op, n, a, b)
  <2>1. d.rd = i.rd /\ d.rs1 = i.rs1 /\ d.rs2 = i.rs2
    BY <1>3 DEF BaseOps, StoreOps, BranchOps, UpperOps
  <2>2. Result(h, i) = Computes(h, i.rd, v, 4)
    <3>1. i.op \in ComputeOps \ WordOps /\ i.op \notin ImmOps /\ Function(i.op) = i.op
      BY <1>3 DEF ComputeOps, BaseOps, WordOps, ImmOps, ShiftOps, Function
    <3> QED BY <3>1, ResultCompute DEF Length
  <2>3. CASE i.op \in {"ADD", "SUB", "SLT", "SLTU", "XOR", "OR", "AND"}
    <3>1. g = Exec_Op(h, i.op, d)
      BY <2>3 DEF base_exec_instruction
    <3> HIDE DEF g
    <3> QED BY <1>1, <1>2, <2>1, <2>2, <2>3, <3>1, OpValue
  <2>4. CASE i.op \in {"SLL", "SRL", "SRA"}
    <3>1. g = Exec_Shift(h, i.op, d)
      BY <2>4 DEF base_exec_instruction
    <3> HIDE DEF g
    <3> QED BY <1>1, <1>2, <2>1, <2>2, <2>4, <3>1, ShiftValue
  <2> QED BY <1>3, <2>3, <2>4 DEF BaseOps, WordOps
<1>4. CASE i.op \in BaseOps \cap WordOps
  <2>1. d.rd = i.rd /\ d.rs1 = i.rs1 /\ d.rs2 = i.rs2
    BY <1>4 DEF BaseOps, StoreOps, BranchOps, UpperOps
  <2>2. i.op \in {"ADDW", "SUBW", "SLLW", "SRLW", "SRAW"}
    BY <1>4 DEF BaseOps, WordOps
  <2>3. Result(h, i) = Computes(h, i.rd, WordValue(Function(i.op), a, b), 4)
    <3>1. i.op \notin ImmOps
      BY <1>4 DEF BaseOps, ImmOps, ShiftOps
    <3> QED BY <1>4, <3>1, ResultWord DEF Length, WordValue
  <2>4. g = Exec_OpW(h, i.op, d)
    BY <2>2 DEF base_exec_instruction
  <2> HIDE DEF g
  <2> QED BY <1>1, <1>2, <2>1, <2>2, <2>3, <2>4, OpWordValue
<1>5. CASE i.op \in ImmOps \ WordOps
  <2> DEFINE v == ALU(Function(i.op), n, a, imm)
  <2>1. d.rd = i.rd /\ d.rs1 = i.rs1 /\ d.imm = i.imm
    BY <1>5 DEF ImmOps, ShiftOps, BaseOps, StoreOps, BranchOps, UpperOps
  <2>2. Result(h, i) = Computes(h, i.rd, v, 4)
    <3>1. i.op \in ComputeOps \ WordOps
      BY <1>5 DEF ComputeOps
    <3> QED BY <1>5, <3>1, ResultCompute DEF Length
  <2>3. CASE i.op \in {"ADDI", "SLTI", "SLTIU", "XORI", "ORI", "ANDI"}
    <3>1. g = Exec_OpImm(h, i.op, d)
      BY <2>3 DEF base_exec_instruction
    <3> HIDE DEF g
    <3> QED BY <1>1, <1>2, <2>1, <2>2, <2>3, <3>1, OpImmValue
  <2>4. CASE i.op \in {"SLLI", "SRLI", "SRAI"}
    <3>1. g = Exec_ShiftImm(h, i.op, d)
      BY <2>4 DEF base_exec_instruction
    <3>2. i.imm \in Nat /\ i.imm < n
      BY <2>4 DEF Instruction, ShiftOps, Legal
    <3> HIDE DEF g
    <3> QED BY <1>1, <1>2, <2>1, <2>2, <2>4, <3>1, <3>2, ShiftImmValue
  <2> QED BY <1>5, <2>3, <2>4 DEF ImmOps, ShiftOps, WordOps
<1>6. CASE i.op \in ImmOps \cap WordOps
  <2>1. d.rd = i.rd /\ d.rs1 = i.rs1 /\ d.imm = i.imm
    BY <1>6 DEF ImmOps, ShiftOps, BaseOps, StoreOps, BranchOps, UpperOps
  <2>2. Result(h, i) = Computes(h, i.rd, WordValue(Function(i.op), a, imm), 4)
    BY <1>6, ResultWord DEF Length, WordValue
  <2>3. CASE i.op = "ADDIW"
    <3>1. g = Exec_OpImm(h, "ADDIW", d) /\ Function(i.op) = "ADD"
      BY <2>3 DEF base_exec_instruction, Function
    <3> HIDE DEF g
    <3> QED BY <1>1, <1>2, <2>1, <2>2, <3>1, AddImmWordValue
  <2>4. CASE i.op \in {"SLLIW", "SRLIW", "SRAIW"}
    <3>1. g = Exec_ShiftImm(h, i.op, d)
      BY <2>4 DEF base_exec_instruction
    <3>2. i.imm \in Nat /\ i.imm < W
      BY <2>4 DEF Instruction, ShiftOps, Legal
    <3> HIDE DEF g
    <3> QED BY <1>1, <1>2, <2>1, <2>2, <2>4, <3>1, <3>2, ShiftImmWordValue
  <2> QED BY <1>6, <2>3, <2>4 DEF ImmOps, ShiftOps, WordOps
<1>7. CASE i.op \in UpperOps
  <2> DEFINE w == Signed(i.imm * 2^UShift, W)
             v == IF i.op = "LUI" THEN w ELSE h.pc + w
  <2>1. d.rd = i.rd /\ d.imm = i.imm /\ g = Exec_LUI_AUIPC(h, i.op, d)
    BY <1>7 DEF UpperOps, BaseOps, StoreOps, BranchOps, base_exec_instruction
  <2>2. Result(h, i) = Computes(h, i.rd, v, 4)
    BY <1>7, ResultUpper DEF Length, UpperOps
  <2>3. Writes(g, h, i.rd, v, 4)
    <3> HIDE DEF g
    <3> QED BY <1>1, <1>7, <2>1, UpperValue DEF UpperOps
  <2> HIDE DEF g, v
  <2> QED BY <1>2, <2>2, <2>3
<1>8. CASE i.op \in JumpOps
  <2>1. d.rd = i.rd /\ d.imm = i.imm /\ (i.op = "JALR" => d.rs1 = i.rs1)
    BY <1>8 DEF JumpOps, BaseOps, StoreOps, BranchOps, UpperOps
  <2> QED BY <1>8, <2>1, JumpIs
<1>9. CASE i.op \in BranchOps
  <2>1. d.rs1 = i.rs1 /\ d.rs2 = i.rs2 /\ d.imm = i.imm
    BY <1>9 DEF BranchOps, BaseOps, UpperOps
  <2> QED BY <1>9, <2>1, BranchIs
<1>10. CASE i.op \in LoadOps
  <2>1. d.rd = i.rd /\ d.rs1 = i.rs1 /\ d.imm = i.imm
    BY <1>10 DEF LoadOps, BaseOps, StoreOps, BranchOps, UpperOps
  <2> QED BY <1>10, <2>1, LoadIs
<1>11. CASE i.op \in StoreOps
  <2>1. d.rs1 = i.rs1 /\ d.rs2 = i.rs2 /\ d.imm = i.imm
    BY <1>11 DEF StoreOps, BaseOps, UpperOps
  <2> QED BY <1>11, <2>1, StoreIs
<1>12. CASE i.op = "FENCE"
  <2>1. g = setPC(h, h.pc + 4)
    BY <1>12 DEF base_exec_instruction, incPC
  <2>2. h.pc + 4 \in Int
    BY HartWidth
  <2> QED BY <1>12, <2>1, <2>2, ResultUpper, setPC_OK DEF Length
<1> QED BY <1>3, <1>4, <1>5, <1>6, <1>7, <1>8, <1>9, <1>10, <1>11, <1>12 DEF Instruction, Ops, ComputeOps

----------------------------------------------------------------------------
(* C_extension                                                             *)

(* The compressed instructions, by the code that executes them.            *)
CImmOps == {"C_ADDI4SPN", "C_ADDI", "C_LI", "C_ADDI16SP", "C_LUI", "C_ADDIW", "C_ANDI"}
CRegOps == {"C_MV", "C_ADD", "C_SUB", "C_SUBW", "C_ADDW", "C_XOR", "C_OR", "C_AND"}
CShiftOps == {"C_SLLI", "C_SRLI", "C_SRAI"}
CLoadOps == {"C_LW", "C_LD", "C_LWSP", "C_LDSP"}
CStoreOps == {"C_SW", "C_SD", "C_SWSP", "C_SDSP"}
CJumpOps == {"C_J", "C_JAL", "C_JR", "C_JALR"}
CBranchOps == {"C_BEQZ", "C_BNEZ"}

LEMMA CompressedKinds ==
  ASSUME NEW i, Instruction(i), i.c # "-"
  PROVE  i.c \in CImmOps \cup CRegOps \cup CShiftOps \cup CLoadOps \cup CStoreOps \cup CJumpOps
                   \cup CBranchOps
<1>1. "none" \notin Ops
  BY DEF Ops, ComputeOps, BaseOps, MulDivOps, ImmOps, ShiftOps, AmoOps, LoadOps, StoreOps,
         BranchOps, JumpOps, UpperOps
<1>2. Expansion(i.c) # "none"
  BY <1>1 DEF Instruction
<1> QED BY <1>2 DEF Expansion, CImmOps, CRegOps, CShiftOps, CLoadOps, CStoreOps, CJumpOps, CBranchOps

LEMMA AddImmSame ==
  ASSUME NEW h, HartOK(h), NEW r \in Regs, NEW imm \in Int
  PROVE  /\ h.x[r] + imm \in Int /\ h.x[r] + Unsigned(imm, XLEN(h.t)) \in Int
         /\ Congruent(h.x[r] + imm, h.x[r] + Unsigned(imm, XLEN(h.t)), 2^XLEN(h.t))
<1> DEFINE n == XLEN(h.t)
           a == h.x[r]
           u == Unsigned(imm, n)
<1>1. a \in Int /\ n \in 1 .. 2 * W /\ 2^n \in Nat /\ 2^n \in Int
  BY HartWidth, PowerHalf
<1>2. u \in Int /\ Congruent(u, imm, 2^n)
  BY <1>1, UnsignedIs
<1> HIDE DEF n, a, u
<1>3. Congruent(imm, u, 2^n) /\ Congruent(a, a, 2^n)
  BY <1>1, <1>2, CongruentSwap, CongruentSelf
<1>4. Congruent(a + imm, a + u, 2^n)
  BY <1>1, <1>2, <1>3, CongruentSum
<1> QED BY <1>1, <1>2, <1>4 DEF n, a, u

(* What C_exec_instruction makes of an instruction with its operands.      *)
CompressedIs(h, i, d) ==
  LET g == C_exec_instruction(h, IF i.c = "C_LUI" THEN "C_ADDI16SP" ELSE i.c, d)
  IN  HartOK(g) /\ (~DropsUpperHalf(h, i) => g = Result(h, i))

LEMMA CompressedWrites ==
  ASSUME NEW h, HartOK(h), NEW i, NEW d, NEW v,
         Writes(C_exec_instruction(h, IF i.c = "C_LUI" THEN "C_ADDI16SP" ELSE i.c, d), h, i.rd, v, 2),
         Result(h, i) = Computes(h, i.rd, v, 2)
  PROVE  CompressedIs(h, i, d)
BY Computes_OK DEF Writes, CompressedIs

LEMMA C_ImmIs ==
  ASSUME NEW h, HartOK(h), NEW i, Instruction(i), Legal(h.t, i), i.c \in CImmOps, NEW d,
         d.rd = i.rd, i.c # "C_LUI" => d.rs1 = i.rs1, d.imm = i.imm
  PROVE  CompressedIs(h, i, d)
<1> DEFINE g == C_exec_instruction(h, IF i.c = "C_LUI" THEN "C_ADDI16SP" ELSE i.c, d)
           n == XLEN(h.t)
           a == h.x[i.rs1]
           imm == Unsigned(i.imm, n)
<1>1. i.rs1 \in Regs /\ i.imm \in Int /\ i.c # "-"
  BY DEF Instruction, CImmOps
<1>2. n \in 1 .. 2 * W /\ n \in 0 .. 2 * W /\ a \in Int /\ W \in 1 .. 2 * W /\ 2^n \in Nat /\ 2^n \in Int
  BY <1>1, HartWidth, PowerHalf
<1>3. imm \in Int
  BY <1>1, <1>2, SignedUnsigned
<1>4. CASE i.c \in {"C_ADDI4SPN", "C_ADDI", "C_LI", "C_ADDI16SP"}
  <2>1. i.op = "ADDI" /\ (i.c = "C_ADDI4SPN" => i.imm # 0) /\ (i.c = "C_ADDI16SP" => i.rd = 2)
    BY <1>1, <1>4 DEF Instruction, Expansion, Legal
  <2>2. g = incPCby2(setValue(h, i.rd, a + i.imm))
    BY <1>4, <2>1 DEF C_exec_instruction, Exec_C_Imm
  <2>3. Result(h, i) = Computes(h, i.rd, a + imm, 2)
    <3>1. i.op \in ComputeOps \ WordOps /\ i.op \in ImmOps /\ ALU(Function(i.op), n, a, imm) = a + imm
      BY <2>1 DEF ComputeOps, WordOps, ImmOps, Function, ALU
    <3> QED BY <1>1, <3>1, ResultCompute DEF Length
  <2>4. a + i.imm \in Int /\ a + imm \in Int /\ Congruent(a + i.imm, a + imm, 2^n)
    BY <1>1, AddImmSame
  <2> HIDE DEF g
  <2>5. Writes(g, h, i.rd, a + imm, 2)
    BY <2>2, <2>4, WritesBy, WritesSame
  <2> QED BY <2>3, <2>5, CompressedWrites DEF g
<1>5. CASE i.c = "C_LUI"
  <2> DEFINE p == 2^UShift
             v == i.imm * p
  <2>1. i.op = "LUI" /\ i.rd # 2
    BY <1>1, <1>5 DEF Instruction, Expansion, Legal
  <2>2. g = incPCby2(setValue(h, i.rd, v))
    BY <1>5, <2>1 DEF C_exec_instruction, Exec_C_Imm
  <2>3. Result(h, i) = Computes(h, i.rd, Signed(v, n), 2)
    BY <1>1, <2>1, ResultUpper DEF Length
  <2>4. v \in Int
    <3>1. UShift \in 0 .. 2 * W + 1
      BY WordAssumption
    <3>2. p \in Nat
      BY <3>1, PowerType
    <3> HIDE DEF p
    <3> QED BY <1>1, <3>2
  <2> HIDE DEF g, v
  <2>5. Signed(v, n) \in Int /\ Congruent(v, Signed(v, n), 2^n)
    BY <1>2, <2>4, SignedIs, CongruentSwap
  <2>6. Writes(g, h, i.rd, Signed(v, n), 2)
    BY <2>2, <2>4, <2>5, WritesBy, WritesSame
  <2> QED BY <2>3, <2>6, CompressedWrites DEF g
<1>6. CASE i.c = "C_ADDIW"
  <2> DEFINE v == Signed(a, W) + i.imm
             u == Unsigned(a, W) + Unsigned(i.imm, W)
  <2>1. i.op = "ADDIW"
    BY <1>1, <1>6 DEF Instruction, Expansion
  <2>2. g = incPCby2(setValue(h, i.rd, Signed(v, W)))
    BY <1>6 DEF C_exec_instruction, Exec_C_Imm
  <2>3. Result(h, i) = Computes(h, i.rd, Signed(u, W), 2)
    <3>1. i.op \in WordOps /\ i.op \in ImmOps
      BY <2>1 DEF WordOps, ImmOps
    <3>2. Unsigned(imm, W) = Unsigned(i.imm, W)
      BY <1>1, LowerHalf
    <3>3. ALU(Function(i.op), W, Unsigned(a, W), Unsigned(imm, W)) = u
      BY <2>1, <3>2 DEF Function, ALU
    <3> QED BY <1>1, <3>1, <3>3, ResultWord DEF Length
  <2>4. v \in Int /\ u \in Int /\ Congruent(v, u, 2^W)
    <3> DEFINE ua == Unsigned(a, W)
               ub == Unsigned(i.imm, W)
               sa == Signed(a, W)
    <3> HIDE DEF a
    <3>1. ua \in Int /\ ub \in Int /\ sa \in Int /\ Congruent(sa + i.imm, ua + ub, 2^W)
      BY <1>1, <1>2, SumsSame
    <3> HIDE DEF ua, ub, sa
    <3>2. v = sa + i.imm /\ u = ua + ub
      BY DEF ua, ub, sa
    <3> QED BY <1>1, <3>1, <3>2
  <2> HIDE DEF g, v, u
  <2>5. Signed(v, W) \in Int
    BY <1>2, <2>4, SignedIs
  <2>6. Writes(g, h, i.rd, Signed(u, W), 2)
    BY <2>2, <2>4, <2>5, WritesBy, WordSame
  <2> QED BY <2>3, <2>6, CompressedWrites DEF g
<1>7. CASE i.c = "C_ANDI"
  <2> DEFINE v == And(a, imm, n)
  <2>1. i.op = "ANDI"
    BY <1>1, <1>7 DEF Instruction, Expansion
  <2>2. g = incPCby2(setValue(h, i.rd, v))
    BY <1>7 DEF C_exec_instruction, Exec_C_Imm
  <2>3. Result(h, i) = Computes(h, i.rd, v, 2)
    <3>1. i.op \in ComputeOps \ WordOps /\ i.op \in ImmOps /\ ALU(Function(i.op), n, a, imm) = v
      BY <2>1 DEF ComputeOps, WordOps, ImmOps, Function, ALU
    <3> QED BY <1>1, <3>1, ResultCompute DEF Length
  <2>4. v \in Int
    BY <1>2, <1>3, BitwiseType
  <2> HIDE DEF g, v
  <2> QED BY <2>2, <2>3, <2>4, WritesBy, CompressedWrites DEF g
<1> QED BY <1>4, <1>5, <1>6, <1>7 DEF CImmOps

LEMMA C_RegIs ==
  ASSUME NEW h, HartOK(h), NEW i, Instruction(i), i.c \in CRegOps, NEW d,
         d.rd = i.rd, d.rs1 = i.rs1, d.rs2 = i.rs2
  PROVE  CompressedIs(h, i, d)
<1> DEFINE g == C_exec_instruction(h, IF i.c = "C_LUI" THEN "C_ADDI16SP" ELSE i.c, d)
           n == XLEN(h.t)
           a == h.x[i.rs1]
           b == h.x[i.rs2]
<1>1. i.rs1 \in Regs /\ i.rs2 \in Regs /\ i.c # "-" /\ i.c # "C_LUI" /\ i.op = Expansion(i.c)
  BY DEF Instruction, CRegOps
<1>2. a \in Nat /\ b \in Nat /\ a \in Int /\ b \in Int /\ n \in {W, 2 * W} /\ W \in 1 .. 2 * W
  BY <1>1, HartWidth
<1>3. CASE i.c \in {"C_SUBW", "C_ADDW"}
  <2> DEFINE v == IF i.c = "C_ADDW" THEN a + b ELSE a - b
             u == IF i.c = "C_ADDW" THEN Unsigned(a, W) + Unsigned(b, W) ELSE Unsigned(a, W) - Unsigned(b, W)
  <2>1. i.op = IF i.c = "C_ADDW" THEN "ADDW" ELSE "SUBW"
    BY <1>1, <1>3 DEF Expansion
  <2>2. g = incPCby2(setValue(h, i.rd, Signed(v, W)))
    BY <1>3 DEF C_exec_instruction, Exec_C_Op
  <2>3. Result(h, i) = Computes(h, i.rd, Signed(u, W), 2)
    <3>1. i.op \in WordOps /\ i.op \notin ImmOps
      BY <2>1 DEF WordOps, ImmOps, ShiftOps
    <3>2. ALU(Function(i.op), W, Unsigned(a, W), Unsigned(b, W)) = u
      BY <1>3, <2>1 DEF Function, ALU
    <3> QED BY <1>1, <3>1, <3>2, ResultWord DEF Length
  <2>4. v \in Int /\ u \in Int /\ Congruent(v, u, 2^W)
    <3> DEFINE ua == Unsigned(a, W)
               ub == Unsigned(b, W)
    <3> HIDE DEF a, b
    <3>1. /\ ua \in Int /\ ub \in Int
          /\ Congruent(a + b, ua + ub, 2^W) /\ Congruent(a - b, ua - ub, 2^W)
      BY <1>2, SumsSame
    <3> HIDE DEF ua, ub
    <3>2. u = IF i.c = "C_ADDW" THEN ua + ub ELSE ua - ub
      BY DEF ua, ub
    <3> QED BY <1>2, <3>1, <3>2
  <2> HIDE DEF g, v, u
  <2>5. Signed(v, W) \in Int
    BY <1>2, <2>4, SignedIs
  <2>6. Writes(g, h, i.rd, Signed(u, W), 2)
    BY <2>2, <2>4, <2>5, WritesBy, WordSame
  <2> QED BY <2>3, <2>6, CompressedWrites DEF g
<1>4. CASE i.c \notin {"C_SUBW", "C_ADDW"}
  <2> DEFINE v == ALU(Function(i.op), n, a, b)
  <2>1. /\ i.op \in {"ADD", "SUB", "XOR", "OR", "AND"}
        /\ i.op = (CASE i.c \in {"C_MV", "C_ADD"} -> "ADD" [] i.c = "C_SUB" -> "SUB"
                    [] i.c = "C_XOR" -> "XOR" [] i.c = "C_OR" -> "OR" [] i.c = "C_AND" -> "AND")
    BY <1>1, <1>4 DEF Expansion, CRegOps
  <2>2. i.c = "C_MV" => a + b = b
    <3>1. h.x[0] = 0
      BY DEF HartOK
    <3> QED BY <1>2, <3>1 DEF Instruction
  <2>3. g = incPCby2(setValue(h, i.rd, v))
    <3>1. CASE i.c \in {"C_MV", "C_ADD"}
      <4>1. i.op = "ADD"
        BY <2>1, <3>1
      <4> QED BY <2>2, <3>1, <4>1 DEF C_exec_instruction, Exec_C_Op, Function, ALU
    <3>2. CASE i.c = "C_SUB"
      <4>1. i.op = "SUB"
        BY <1>1, <3>2 DEF Expansion
      <4> QED BY <3>2, <4>1 DEF C_exec_instruction, Exec_C_Op, Function, ALU
    <3>3. CASE i.c = "C_XOR"
      <4>1. i.op = "XOR"
        BY <1>1, <3>3 DEF Expansion
      <4> QED BY <3>3, <4>1 DEF C_exec_instruction, Exec_C_Op, Function, ALU
    <3>4. CASE i.c = "C_OR"
      <4>1. i.op = "OR"
        BY <1>1, <3>4 DEF Expansion
      <4> QED BY <3>4, <4>1 DEF C_exec_instruction, Exec_C_Op, Function, ALU
    <3>5. CASE i.c = "C_AND"
      <4>1. i.op = "AND"
        BY <1>1, <3>5 DEF Expansion
      <4> QED BY <3>5, <4>1 DEF C_exec_instruction, Exec_C_Op, Function, ALU
    <3> QED BY <1>4, <3>1, <3>2, <3>3, <3>4, <3>5 DEF CRegOps
  <2>4. Result(h, i) = Computes(h, i.rd, v, 2)
    <3>1. i.op \in ComputeOps \ WordOps /\ i.op \notin ImmOps
      BY <2>1 DEF ComputeOps, BaseOps, WordOps, ImmOps, ShiftOps
    <3> QED BY <1>1, <3>1, ResultCompute DEF Length
  <2>5. v \in Int
    <3>1. Function(i.op) \in BaseFunctions
      BY <2>1 DEF Function, BaseFunctions
    <3> HIDE DEF n, a, b
    <3> QED BY <1>2, <3>1, ALU_Type
  <2> HIDE DEF g, v
  <2> QED BY <2>3, <2>4, <2>5, WritesBy, CompressedWrites DEF g
<1> QED BY <1>3, <1>4

LEMMA C_ShiftIs ==
  ASSUME NEW h, HartOK(h), NEW i, Instruction(i), Legal(h.t, i), i.c \in CShiftOps, NEW d,
         d.rd = i.rd, d.rs1 = i.rs1, d.imm \in {i.imm, i.imm - 64}
  PROVE  CompressedIs(h, i, d)
<1> DEFINE g == C_exec_instruction(h, IF i.c = "C_LUI" THEN "C_ADDI16SP" ELSE i.c, d)
           n == XLEN(h.t)
           a == h.x[i.rs1]
           v == ALU(Function(i.op), n, a, i.imm)
<1>1. i.rs1 \in Regs /\ i.c # "-" /\ i.c # "C_LUI" /\ i.op = Expansion(i.c)
  BY DEF Instruction, CShiftOps
<1>2. i.op \in {"SLLI", "SRLI", "SRAI"}
  BY <1>1 DEF Expansion, CShiftOps
<1>3. i.imm \in Nat /\ i.imm < n /\ i.imm \in Int
  BY <1>2 DEF Instruction, Legal, ShiftOps
<1>4. a \in Nat /\ n \in {W, 2 * W} /\ n \in Nat
  BY <1>1, HartWidth
<1>5. d.imm % n = i.imm % n
  <2> HIDE DEF n
  <2> QED BY <1>3, <1>4, ShiftWraps
<1>6. Unsigned(i.imm, n) = i.imm
  <2> HIDE DEF n
  <2> QED BY <1>3, <1>4, SmallAmount
<1>7. g = incPCby2(setValue(h, i.rd, v))
  <2>1. CASE i.c = "C_SLLI"
    <3>1. i.op = "SLLI"
      BY <1>1, <2>1 DEF Expansion
    <3> QED BY <1>5, <2>1, <3>1 DEF C_exec_instruction, Exec_C_Shift, Function, ALU
  <2>2. CASE i.c = "C_SRLI"
    <3>1. i.op = "SRLI"
      BY <1>1, <2>2 DEF Expansion
    <3> QED BY <1>5, <2>2, <3>1 DEF C_exec_instruction, Exec_C_Shift, Function, ALU
  <2>3. CASE i.c = "C_SRAI"
    <3>1. i.op = "SRAI"
      BY <1>1, <2>3 DEF Expansion
    <3> QED BY <1>5, <2>3, <3>1 DEF C_exec_instruction, Exec_C_Shift, Function, ALU, Sx
  <2> QED BY <2>1, <2>2, <2>3 DEF CShiftOps
<1>8. Result(h, i) = Computes(h, i.rd, v, 2)
  <2>1. i.op \in ComputeOps \ WordOps /\ i.op \in ImmOps
    BY <1>2 DEF ComputeOps, WordOps, ImmOps, ShiftOps
  <2> QED BY <1>1, <1>6, <2>1, ResultCompute DEF Length
<1>9. v \in Int
  <2>1. Function(i.op) \in BaseFunctions
    BY <1>2 DEF Function, BaseFunctions
  <2> HIDE DEF n, a
  <2> QED BY <1>3, <1>4, <2>1, ALU_Type
<1> HIDE DEF g, v
<1> QED BY <1>7, <1>8, <1>9, WritesBy, CompressedWrites DEF g

LEMMA C_LoadIs ==
  ASSUME NEW h, HartOK(h), NEW i, Instruction(i), Legal(h.t, i), i.c \in CLoadOps, NEW d,
         d.rd = i.rd, d.rs1 = i.rs1, d.imm = i.imm
  PROVE  CompressedIs(h, i, d)
<1> DEFINE g == C_exec_instruction(h, IF i.c = "C_LUI" THEN "C_ADDI16SP" ELSE i.c, d)
           addr == Unsigned(h.x[i.rs1] + i.imm, XLEN(h.t))
           s == Bytes(i.op)
           u == LoadValue(h, i.op, addr)
           v == IF i.op = "LD" THEN ReadDouble(h, addr) ELSE u
<1>1. /\ i.rs1 \in Regs /\ i.c # "-" /\ i.c # "C_LUI"
      /\ i.op = IF i.c \in {"C_LD", "C_LDSP"} THEN "LD" ELSE "LW"
  BY DEF Instruction, CLoadOps, Expansion
<1>2. i.imm \in Int /\ i.op \in LoadOps
  BY <1>1 DEF Instruction, LoadOps, ShiftOps
<1>3. addr \in Nat /\ Unsigned(i.imm + h.x[i.rs1], XLEN(h.t)) = addr
  BY <1>1, <1>2, AddressIs
<1> HIDE DEF addr
<1>4. s = IF i.op = "LD" THEN 8 ELSE 4
  BY <1>1 DEF Bytes, AmoOps
<1>5. g = IF Inside(addr, s) THEN incPCby2(setValue(h, i.rd, v)) ELSE Fault(h, "outside")
  <2>1. g = Exec_C_Load(h, i.c, d)
    BY <1>1 DEF C_exec_instruction, CLoadOps
  <2>2. CASE i.op = "LD"
    <3>1. i.c \in {"C_LD", "C_LDSP"}
      BY <1>1, <2>2
    <3> QED BY <1>3, <1>4, <2>1, <2>2, <3>1 DEF Exec_C_Load
  <2>3. CASE i.op = "LW"
    <3>1. i.c \notin {"C_LD", "C_LDSP"}
      BY <1>1, <2>3
    <3>2. u = Signed(readDataMem(h, addr, 4), W)
      BY <1>4, <2>3, Widths DEF LoadValue
    <3> QED BY <1>3, <1>4, <2>1, <2>3, <3>1, <3>2 DEF Exec_C_Load
  <2> QED BY <1>1, <2>2, <2>3
<1>6. Result(h, i) = IF Inside(addr, s) THEN Computes(h, i.rd, u, 2) ELSE Fault(h, "outside")
  BY <1>1, <1>2, ResultLoad DEF LoadValue, Length, addr
<1>7. CASE ~Inside(addr, s)
  BY <1>5, <1>6, <1>7, OutsideOK DEF Faults, CompressedIs
<1>8. CASE Inside(addr, s)
  <2>1. u \in Int
    BY <1>2, <1>3, <1>8, LoadValueType
  <2>2. v \in Int /\ Congruent(v, u, 2^XLEN(h.t))
    <3>1. CASE i.op = "LD"
      <4>1. h.t = "RV64"
        BY <3>1 DEF Legal, Only64, HartOK
      <4> QED BY <1>3, <1>4, <1>8, <3>1, <4>1, DoubleValue
    <3>2. CASE i.op # "LD"
      <4>1. 2^XLEN(h.t) \in Int
        BY HartWidth, PowerHalf
      <4> HIDE DEF u
      <4> QED BY <2>1, <3>2, <4>1, CongruentSelf
    <3> QED BY <3>1, <3>2
  <2> HIDE DEF g, u, v
  <2>3. Writes(g, h, i.rd, u, 2)
    BY <1>5, <1>8, <2>1, <2>2, WritesBy, WritesSame
  <2> QED BY <1>6, <1>8, <2>3, CompressedWrites DEF g
<1> QED BY <1>7, <1>8

(* A value of 32 bits is the same in the lower half of a register.         *)
LEMMA HalfSame ==
  ASSUME NEW h, HartOK(h), NEW v \in Int
  PROVE  /\ Unsigned(v, W) \in Nat /\ Unsigned(v, XLEN(h.t)) \in Nat
         /\ ~(h.t = "RV64" /\ Unsigned(v, XLEN(h.t)) >= 2^W) => Unsigned(v, W) = Unsigned(v, XLEN(h.t))
<1> DEFINE n == XLEN(h.t)
           u == Unsigned(v, n)
<1>1. n \in 1 .. 2 * W /\ W \in 1 .. 2 * W /\ 2^n \in Nat /\ 2^W \in Nat
  BY HartWidth, PowerHalf
<1>2. u \in 0 .. 2^n - 1 /\ Unsigned(v, W) \in 0 .. 2^W - 1
  BY <1>1, UnsignedIs
<1>3. Unsigned(u, W) = Unsigned(v, W)
  BY LowerHalf
<1>4. h.t # "RV64" => n = W
  BY DEF XLEN, HartOK
<1> HIDE DEF u, n
<1>5. ~(h.t = "RV64" /\ u >= 2^W) => u \in 0 .. 2^W - 1
  BY <1>1, <1>2, <1>4
<1> QED BY <1>1, <1>2, <1>3, <1>5, UnsignedFits DEF u, n

LEMMA C_StoreIs ==
  ASSUME NEW h, HartOK(h), NEW i, Instruction(i), i.c \in CStoreOps, NEW d,
         d.rs1 = i.rs1, d.rs2 = i.rs2, d.imm = i.imm
  PROVE  CompressedIs(h, i, d)
<1> DEFINE g == C_exec_instruction(h, IF i.c = "C_LUI" THEN "C_ADDI16SP" ELSE i.c, d)
           n == XLEN(h.t)
           x == h.x[i.rs1] + i.imm
           b == h.x[i.rs2]
           addr == Unsigned(x, n)
           at == IF i.op = "SD" THEN addr ELSE Unsigned(x, W)
           s == IF i.op = "SD" THEN 8 ELSE 4
           u == writeDataMem(h, at, b, s)
<1>1. /\ i.rs1 \in Regs /\ i.rs2 \in Regs /\ i.c # "-" /\ i.c # "C_LUI"
      /\ i.op = IF i.c \in {"C_SD", "C_SDSP"} THEN "SD" ELSE "SW"
  BY DEF Instruction, CStoreOps, Expansion
<1>2. i.imm \in Int /\ i.op \in StoreOps
  BY <1>1 DEF Instruction, StoreOps, ShiftOps
<1>3. x \in Int /\ i.imm + h.x[i.rs1] = x /\ b \in Int /\ h.pc \in Nat /\ W \in 1 .. 2 * W
  BY <1>1, <1>2, HartWidth
<1>4. s = Bytes(i.op)
  BY <1>1 DEF Bytes, AmoOps
<1>5. g = IF ~Inside(at, s) THEN Fault(h, "outside")
          ELSE IF i.op = "SD" THEN incPCby2(WriteDouble(h, at, b))
          ELSE incPCby2(writeDataMem(h, at, Unsigned(b, W), 4))
  <2>1. g = Exec_C_Store(h, i.c, d)
    BY <1>1 DEF C_exec_instruction, CStoreOps
  <2> HIDE DEF x
  <2>2. CASE i.op = "SD"
    <3>1. i.c \in {"C_SD", "C_SDSP"}
      BY <1>1, <2>2
    <3> QED BY <1>3, <2>1, <2>2, <3>1 DEF Exec_C_Store
  <2>3. CASE i.op = "SW"
    <3>1. i.c \notin {"C_SD", "C_SDSP"}
      BY <1>1, <2>3
    <3> QED BY <1>3, <2>1, <2>3, <3>1 DEF Exec_C_Store
  <2> QED BY <1>1, <2>2, <2>3
<1>6. Result(h, i) = IF Inside(addr, s) THEN setPC(writeDataMem(h, addr, b, s), h.pc + 2)
                     ELSE Fault(h, "outside")
  BY <1>1, <1>2, <1>4, ResultStore DEF Length
<1>7. at \in Nat /\ (~DropsUpperHalf(h, i) => at = addr)
  <2> HIDE DEF x
  <2>1. /\ Unsigned(x, W) \in Nat /\ addr \in Nat
        /\ ~(h.t = "RV64" /\ addr >= 2^W) => Unsigned(x, W) = addr
    BY <1>3, HalfSame
  <2>2. i.op = "SW" /\ h.t = "RV64" /\ addr >= 2^W => DropsUpperHalf(h, i)
    BY DEF DropsUpperHalf, x
  <2> QED BY <1>1, <2>1, <2>2
<1>8. s \in {1, 2, 4, 8} /\ (i.op = "SD" <=> s = 8) /\ s \in 0 .. 8 /\ (i.op # "SD" => s = 4)
  OBVIOUS
<1> HIDE DEF x, addr, at, s, b
<1>9. HartOK(u) /\ u.pc = h.pc
  <2>1. at \in Int
    BY <1>7
  <2>2. HartOK(u)
    BY <1>3, <1>8, <2>1, writeDataMem_OK
  <2> QED BY <2>2 DEF writeDataMem, HartOK
<1>10. i.op = "SD" => WriteDouble(h, at, b) = u
  BY <1>3, <1>7, <1>8, WriteTwoWords DEF WriteDouble
<1>11. i.op # "SD" => writeDataMem(h, at, Unsigned(b, W), 4) = u
  <2>1. Unsigned(b, W) \in Int /\ Congruent(Unsigned(b, W), b, 2^W)
    BY <1>3, UnsignedIs, SignedUnsigned
  <2>2. 4 * ByteBits <= W
    BY Widths
  <2>3. DOMAIN h.mem \subseteq Int /\ W \in {W, 2 * W}
    BY HartMemory
  <2>4. at \in Int
    BY <1>7
  <2>5. writeDataMem(h, at, Unsigned(b, W), 4) = writeDataMem(h, at, b, 4)
    BY <1>3, <2>1, <2>2, <2>3, <2>4, writeDataMem_Same
  <2> QED BY <1>8, <2>5
<1>12. HartOK(setPC(u, h.pc + 2)) /\ incPCby2(u) = setPC(u, h.pc + 2)
  <2> HIDE DEF u
  <2>1. h.pc + 2 \in Int
    BY <1>3
  <2> QED BY <1>9, <2>1, setPC_OK DEF incPCby2
<1>13. g = IF Inside(at, s) THEN setPC(u, h.pc + 2) ELSE Fault(h, "outside")
  <2> HIDE DEF g, u
  <2> QED BY <1>5, <1>10, <1>11, <1>12
<1>14. HartOK(g)
  <2> HIDE DEF g, u
  <2> QED BY <1>12, <1>13, OutsideOK DEF Faults
<1>15. ~DropsUpperHalf(h, i) => g = Result(h, i)
  <2> HIDE DEF g
  <2> QED BY <1>6, <1>7, <1>13
<1> QED BY <1>14, <1>15 DEF CompressedIs

LEMMA C_BranchIs ==
  ASSUME NEW h, HartOK(h), NEW i, Instruction(i), i.c \in CBranchOps, NEW d,
         d.rs1 = i.rs1, d.imm = i.imm
  PROVE  CompressedIs(h, i, d)
<1> DEFINE g == C_exec_instruction(h, IF i.c = "C_LUI" THEN "C_ADDI16SP" ELSE i.c, d)
           a == h.x[i.rs1]
           yes == Taken(i.op, a, h.x[i.rs2], XLEN(h.t))
<1>1. /\ i.rs1 \in Regs /\ i.rs2 = 0 /\ i.c # "-" /\ i.c # "C_LUI"
      /\ i.op = IF i.c = "C_BEQZ" THEN "BEQ" ELSE "BNE"
  BY DEF Instruction, CBranchOps, Expansion
<1>2. i.imm \in Int /\ i.op \in BranchOps
  BY <1>1 DEF Instruction, BranchOps, ShiftOps
<1>3. h.x[i.rs2] = 0
  BY <1>1 DEF HartOK
<1>4. ((i.c = "C_BEQZ") = (a = 0)) <=> yes
  <2>1. CASE i.c = "C_BEQZ"
    <3>1. i.op = "BEQ"
      BY <1>1, <2>1
    <3> QED BY <1>3, <2>1, <3>1 DEF Taken
  <2>2. CASE i.c # "C_BEQZ"
    <3>1. i.op = "BNE"
      BY <1>1, <2>2
    <3> QED BY <1>3, <2>2, <3>1 DEF Taken
  <2> QED BY <2>1, <2>2
<1>5. g = IF yes THEN setPC(h, h.pc + i.imm) ELSE setPC(h, h.pc + 2)
  <2>1. g = Exec_C_Branch(h, i.c, d)
    BY <1>1 DEF C_exec_instruction, CBranchOps
  <2> HIDE DEF yes
  <2> QED BY <1>4, <2>1 DEF Exec_C_Branch, incPCby2
<1>6. Result(h, i) = setPC(h, h.pc + (IF yes THEN i.imm ELSE 2))
  BY <1>1, <1>2, ResultBranch DEF Length
<1>7. h.pc + i.imm \in Int /\ h.pc + 2 \in Int
  BY <1>2, HartWidth
<1>8. HartOK(setPC(h, h.pc + i.imm)) /\ HartOK(setPC(h, h.pc + 2))
  BY <1>7, setPC_OK
<1> HIDE DEF yes
<1> QED BY <1>5, <1>6, <1>8 DEF CompressedIs

(* The PC and the link register of a compressed jump, whatever is dropped. *)
LEMMA JumpOK ==
  ASSUME NEW h, HartOK(h), NEW rd, NEW link \in Int, NEW target \in Int
  PROVE  HartOK(setPC(setValue(h, rd, link), target)) /\ HartOK(setPC(h, target))
<1>1. HartOK(setValue(h, rd, link))
  BY setValue_OK
<1> QED BY <1>1, setPC_OK

(* A sum with the 32 bits that the code keeps of the PC.                   *)
LEMMA OldPC ==
  ASSUME NEW h, HartOK(h), NEW k \in Int
  PROVE  Unsigned(Unsigned(h.pc, W) + k, W) = Unsigned(h.pc + k, W)
<1> DEFINE p == h.pc
           u == Unsigned(p, W)
<1>1. p \in Int /\ W \in 1 .. 2 * W
  BY HartWidth
<1>2. 2^W \in Int
  BY <1>1, PowerHalf
<1>3. u \in Int /\ Congruent(u, p, 2^W)
  BY <1>1, UnsignedIs, SignedUnsigned
<1> HIDE DEF p, u
<1>4. Congruent(k, k, 2^W)
  BY <1>2, CongruentSelf
<1>5. Congruent(u + k, p + k, 2^W) /\ u + k \in Int /\ p + k \in Int
  BY <1>1, <1>2, <1>3, <1>4, CongruentSum
<1> QED BY <1>1, <1>5, UnsignedSame DEF p, u

LEMMA C_JumpRegisterIs ==
  ASSUME NEW h, HartOK(h), NEW i, Instruction(i), i.c \in {"C_JR", "C_JALR"}, NEW d, d.rs1 = i.rs1
  PROVE  CompressedIs(h, i, d)
<1> DEFINE g == C_exec_instruction(h, IF i.c = "C_LUI" THEN "C_ADDI16SP" ELSE i.c, d)
           n == XLEN(h.t)
           x == h.x[i.rs1]
           link == Unsigned(h.pc + 2, W)
           target == 2 * (Unsigned(x, W) \div 2)
           t2 == 2 * (x \div 2)
<1>1. /\ i.op = "JALR" /\ i.rs1 \in Regs /\ i.imm = 0 /\ i.c # "-" /\ i.c # "C_LUI"
      /\ i.rd = IF i.c = "C_JR" THEN 0 ELSE 1
  BY DEF Instruction, Expansion
<1>2. x \in 0 .. 2^n - 1 /\ x \in Int /\ x + 0 = x /\ n \in 1 .. 2 * W /\ h.pc + 2 \in Int /\ W \in 1 .. 2 * W
  BY <1>1, HartWidth
<1>3. Unsigned(x, n) = x
  BY <1>2, UnsignedFits
<1>4. g = IF i.c = "C_JR" THEN setPC(h, target) ELSE setPC(setValue(h, 1, link), target)
  <2>1. Unsigned(Unsigned(h.pc, W) + 2, W) = link
    BY OldPC
  <2>2. g = Exec_C_Jump(h, i.c, d)
    BY <1>1 DEF C_exec_instruction
  <2> HIDE DEF link
  <2>3. CASE i.c = "C_JR"
    BY <2>2, <2>3 DEF Exec_C_Jump
  <2>4. CASE i.c = "C_JALR"
    BY <2>1, <2>2, <2>4 DEF Exec_C_Jump
  <2> QED BY <2>3, <2>4
<1>5. Result(h, i) = IF i.c = "C_JR" THEN setPC(h, t2) ELSE setPC(setValue(h, 1, h.pc + 2), t2)
  <2>1. Result(h, i) = setPC(setValue(h, i.rd, h.pc + 2), 2 * (Unsigned(x + i.imm, n) \div 2))
    BY <1>1, ResultJump DEF Length
  <2>2. Unsigned(x + i.imm, n) = x
    BY <1>1, <1>2, <1>3
  <2> HIDE DEF x
  <2> QED BY <1>1, <2>1, <2>2 DEF setValue
<1>6. target \in Int /\ link \in Int
  <2>1. Unsigned(x, W) \in Int /\ link \in Int
    BY <1>2, SignedUnsigned
  <2> HIDE DEF link, x
  <2> QED BY <2>1
<1>7. HartOK(g)
  <2> HIDE DEF target, link, g
  <2> QED BY <1>4, <1>6, JumpOK
<1>8. ASSUME ~DropsUpperHalf(h, i) PROVE g = Result(h, i)
  <2>1. ~(h.t = "RV64" /\ Unsigned(x, n) >= 2^W)
    BY <1>1, <1>3, <1>8 DEF DropsUpperHalf
  <2>2. Unsigned(x, W) = x
    <3> HIDE DEF x
    <3> QED BY <1>2, <1>3, <2>1, HalfSame
  <2>3. target = t2
    BY <2>2
  <2>4. i.c = "C_JALR" => setValue(h, 1, link) = setValue(h, 1, h.pc + 2)
    <3> SUFFICES ASSUME i.c = "C_JALR" PROVE setValue(h, 1, link) = setValue(h, 1, h.pc + 2)
      OBVIOUS
    <3>1. ~(h.t = "RV64" /\ Unsigned(h.pc + 2, n) >= 2^W)
      BY <1>8 DEF DropsUpperHalf
    <3>2. link = Unsigned(h.pc + 2, n)
      BY <1>2, <3>1, HalfSame
    <3>3. Unsigned(h.pc + 2, n) \in Int /\ Congruent(Unsigned(h.pc + 2, n), h.pc + 2, 2^n)
      BY <1>2, UnsignedIs, SignedUnsigned
    <3>4. Unsigned(link, n) = Unsigned(h.pc + 2, n)
      BY <1>2, <3>2, <3>3, UnsignedSame
    <3> HIDE DEF link
    <3> QED BY <3>4 DEF setValue
  <2> HIDE DEF g, target, t2, link
  <2> QED BY <1>4, <1>5, <2>3, <2>4
<1> QED BY <1>7, <1>8 DEF CompressedIs

LEMMA C_JumpIs ==
  ASSUME NEW h, HartOK(h), NEW i, Instruction(i), Legal(h.t, i), i.c \in {"C_J", "C_JAL"}, NEW d,
         d.rd = i.rd, d.imm = i.imm
  PROVE  CompressedIs(h, i, d)
<1> DEFINE g == C_exec_instruction(h, IF i.c = "C_LUI" THEN "C_ADDI16SP" ELSE i.c, d)
           n == XLEN(h.t)
           link == Unsigned(h.pc + 2, W)
           target == Unsigned(h.pc + i.imm, W)
<1>1. /\ i.op = "JAL" /\ i.c # "-" /\ i.c # "C_LUI" /\ (i.c = "C_J" => i.rd = 0)
      /\ (i.c = "C_JAL" => h.t = "RV32" /\ n = W)
  BY DEF Instruction, Expansion, Legal, XLEN
<1>2. i.imm \in Int
  BY <1>1 DEF Instruction, ShiftOps
<1>3. n \in 1 .. 2 * W /\ h.pc + 2 \in Int /\ h.pc + i.imm \in Int /\ W \in 1 .. 2 * W /\ h.pc \in Int
  BY <1>2, HartWidth
<1>4. g = setPC(setValue(h, i.rd, link), target)
  <2>1. Unsigned(Unsigned(h.pc, W) + 2, W) = link /\ Unsigned(Unsigned(h.pc, W) + i.imm, W) = target
    BY <1>2, OldPC
  <2>2. g = Exec_C_Jump(h, i.c, d)
    BY <1>1 DEF C_exec_instruction
  <2> HIDE DEF link, target
  <2>3. g = setValue(setPC(h, target), i.rd, link)
    BY <2>1, <2>2 DEF Exec_C_Jump
  <2> QED BY <2>3, JumpCommutes
<1>5. Result(h, i) = setPC(setValue(h, i.rd, h.pc + 2), h.pc + i.imm)
  BY <1>1, ResultJump DEF Length
<1>6. target \in Int /\ link \in Int
  BY <1>3, SignedUnsigned
<1>7. HartOK(g)
  <2> HIDE DEF target, link, g
  <2> QED BY <1>4, <1>6, JumpOK
<1>8. ASSUME ~DropsUpperHalf(h, i) PROVE g = Result(h, i)
  <2>1. ~(h.t = "RV64" /\ Unsigned(h.pc + i.imm, n) >= 2^W)
    BY <1>1, <1>8 DEF DropsUpperHalf
  <2>2. target = Unsigned(h.pc + i.imm, n)
    BY <1>3, <2>1, HalfSame
  <2>3. Congruent(target, h.pc + i.imm, 2^n)
    BY <1>3, <2>2, UnsignedIs
  <2>4. CASE i.c = "C_JAL"
    <3>1. Congruent(link, h.pc + 2, 2^n)
      BY <1>1, <1>3, <2>4, UnsignedIs
    <3> HIDE DEF g, link, target
    <3> QED BY <1>3, <1>4, <1>5, <1>6, <2>3, <3>1, JumpSame
  <2>5. CASE i.c = "C_J"
    <3>1. setValue(h, i.rd, link) = h /\ setValue(h, i.rd, h.pc + 2) = h
      BY <1>1, <2>5 DEF setValue
    <3>2. Unsigned(target, n) = Unsigned(h.pc + i.imm, n)
      BY <1>3, <1>6, <2>3, UnsignedSame
    <3> HIDE DEF g, link, target
    <3> QED BY <1>4, <1>5, <3>1, <3>2 DEF setPC
  <2> QED BY <2>4, <2>5
<1> QED BY <1>7, <1>8 DEF CompressedIs

(* Every compressed instruction, with the operands it was assembled with,  *)
(* does what the instruction it abbreviates does.                          *)
LEMMA C_exec ==
  ASSUME NEW h, HartOK(h), NEW i, Instruction(i), Legal(h.t, i), i.c # "-", NEW d,
         i.op \notin StoreOps \cup BranchOps => d.rd = i.rd,
         i.op \notin UpperOps \cup {"JAL"} => d.rs1 = i.rs1,
         i.op \in BaseOps \cup MulDivOps \cup AmoOps \cup StoreOps \cup BranchOps => d.rs2 = i.rs2,
         IF i.op \in ShiftOps THEN d.imm \in {i.imm, i.imm - 64}
         ELSE i.op \notin BaseOps \cup MulDivOps \cup AmoOps => d.imm = i.imm
  PROVE  CompressedIs(h, i, d)
<1>1. i.op = Expansion(i.c)
  BY DEF Instruction
<1>2. CASE i.c \in CImmOps
  <2>1. i.op \in {"ADDI", "LUI", "ADDIW", "ANDI"} /\ (i.c # "C_LUI" => i.op # "LUI")
    BY <1>1, <1>2 DEF Expansion, CImmOps
  <2>2. d.rd = i.rd /\ (i.c # "C_LUI" => d.rs1 = i.rs1) /\ d.imm = i.imm
    BY <2>1 DEF StoreOps, BranchOps, UpperOps, ShiftOps, BaseOps, MulDivOps, AmoOps
  <2> QED BY <1>2, <2>2, C_ImmIs
<1>3. CASE i.c \in CRegOps
  <2>1. i.op \in {"ADD", "SUB", "XOR", "OR", "AND", "ADDW", "SUBW"}
    BY <1>1, <1>3 DEF Expansion, CRegOps
  <2>2. d.rd = i.rd /\ d.rs1 = i.rs1 /\ d.rs2 = i.rs2
    BY <2>1 DEF StoreOps, BranchOps, UpperOps, BaseOps
  <2> QED BY <1>3, <2>2, C_RegIs
<1>4. CASE i.c \in CShiftOps
  <2>1. i.op \in {"SLLI", "SRLI", "SRAI"}
    BY <1>1, <1>4 DEF Expansion, CShiftOps
  <2>2. d.rd = i.rd /\ d.rs1 = i.rs1 /\ d.imm \in {i.imm, i.imm - 64}
    BY <2>1 DEF StoreOps, BranchOps, UpperOps, ShiftOps
  <2> QED BY <1>4, <2>2, C_ShiftIs
<1>5. CASE i.c \in CLoadOps
  <2>1. i.op \in {"LW", "LD"}
    BY <1>1, <1>5 DEF Expansion, CLoadOps
  <2>2. d.rd = i.rd /\ d.rs1 = i.rs1 /\ d.imm = i.imm
    BY <2>1 DEF StoreOps, BranchOps, UpperOps, ShiftOps, BaseOps, MulDivOps, AmoOps
  <2> QED BY <1>5, <2>2, C_LoadIs
<1>6. CASE i.c \in CStoreOps
  <2>1. i.op \in {"SW", "SD"}
    BY <1>1, <1>6 DEF Expansion, CStoreOps
  <2>2. d.rs2 = i.rs2 /\ d.rs1 = i.rs1 /\ d.imm = i.imm
    BY <2>1 DEF StoreOps, UpperOps, ShiftOps, BaseOps, MulDivOps, AmoOps
  <2> QED BY <1>6, <2>2, C_StoreIs
<1>7. CASE i.c \in CBranchOps
  <2>1. i.op \in {"BEQ", "BNE"}
    BY <1>1, <1>7 DEF Expansion, CBranchOps
  <2>2. d.rs1 = i.rs1 /\ d.imm = i.imm
    BY <2>1 DEF UpperOps, ShiftOps, BaseOps, MulDivOps, AmoOps
  <2> QED BY <1>7, <2>2, C_BranchIs
<1>8. CASE i.c \in {"C_JR", "C_JALR"}
  <2>1. i.op = "JALR"
    BY <1>1, <1>8 DEF Expansion
  <2>2. d.rs1 = i.rs1
    BY <2>1 DEF UpperOps
  <2> QED BY <1>8, <2>2, C_JumpRegisterIs
<1>9. CASE i.c \in {"C_J", "C_JAL"}
  <2>1. i.op = "JAL"
    BY <1>1, <1>9 DEF Expansion
  <2>2. d.rd = i.rd /\ d.imm = i.imm
    BY <2>1 DEF StoreOps, BranchOps, ShiftOps, BaseOps, MulDivOps, AmoOps
  <2> QED BY <1>9, <2>2, C_JumpIs
<1> QED BY <1>2, <1>3, <1>4, <1>5, <1>6, <1>7, <1>8, <1>9, CompressedKinds DEF CJumpOps

----------------------------------------------------------------------------
(* M_extension: every instruction writes what the manual says.             *)

LEMMA MultiplyValue ==
  ASSUME NEW h, HartOK(h), NEW op \in {"MUL", "MULH", "MULHSU", "MULHU"}, NEW d,
         d.rs1 \in Regs, d.rs2 \in Regs
  PROVE  Writes(Exec_M_Mul(h, op, d), h, d.rd, ALU(op, XLEN(h.t), h.x[d.rs1], h.x[d.rs2]), 4)
<1> DEFINE n == XLEN(h.t)
           a == h.x[d.rs1]
           b == h.x[d.rs2]
           sa == Signed(a, n)
           sb == Signed(b, n)
<1>1. n \in 1 .. 2 * W /\ a \in Nat /\ b \in Nat /\ 2^n \in Nat /\ 2^n >= 1
  BY HartWidth, PowerHalf
<1>2. sa \in Int /\ sb \in Int /\ Congruent(sa, a, 2^n) /\ Congruent(sb, b, 2^n)
  BY <1>1, SignedIs
<1>3. a * b \in Int /\ sa * sb \in Int /\ sa * b \in Int
  <2> HIDE DEF a, b, sa, sb
  <2> QED BY <1>1, <1>2
<1>4. CASE op = "MUL"
  <2>1. Congruent(sa * sb, a * b, 2^n)
    <3> HIDE DEF n, a, b, sa, sb
    <3>1. a \in Int /\ b \in Int /\ 2^n \in Int
      BY <1>1
    <3> QED BY <1>2, <3>1, CongruentSum
  <2>2. Exec_M_Mul(h, op, d) = incPC(setValue(h, d.rd, sa * sb))
    BY <1>4 DEF Exec_M_Mul, Sx
  <2>3. ALU(op, n, a, b) = a * b
    BY <1>4 DEF ALU
  <2> HIDE DEF n, a, b, sa, sb
  <2>4. Writes(Exec_M_Mul(h, op, d), h, d.rd, a * b, 4)
    BY <1>3, <2>1, <2>2, WritesBy, WritesSame DEF n
  <2> QED BY <2>3, <2>4 DEF n, a, b
<1>5. CASE op # "MUL"
  <2>1. Exec_M_Mul(h, op, d) = incPC(setValue(h, d.rd, ALU(op, n, a, b)))
    BY <1>5 DEF Exec_M_Mul, ALU, Sx
  <2>2. \A v \in Int : v \div 2^n \in Int
    <3> DEFINE P == 2^n
    <3> HIDE DEF P
    <3>1. \A v \in Int : v \div P \in Int
      BY <1>1, Division DEF P
    <3> QED BY <3>1 DEF P
  <2>3. ALU(op, n, a, b) \in Int
    BY <1>3, <1>5, <2>2 DEF ALU
  <2> HIDE DEF n, a, b
  <2> QED BY <2>1, <2>3, WritesBy DEF n, a, b
<1> QED BY <1>4, <1>5

LEMMA DivideValue ==
  ASSUME NEW h, HartOK(h), NEW op \in {"DIV", "REM"}, NEW d, d.rs1 \in Regs, d.rs2 \in Regs
  PROVE  \/ Writes(Exec_M_Div(h, op, d), h, d.rd, ALU(op, XLEN(h.t), h.x[d.rs1], h.x[d.rs2]), 4)
         \/ /\ h.t = "RV64" /\ h.x[d.rs1] = 2^(2 * W - 1) /\ h.x[d.rs2] = 2^(2 * W) - 1
            /\ Exec_M_Div(h, op, d) = Fault(h, "crash")
<1> DEFINE n == XLEN(h.t)
           a == h.x[d.rs1]
           b == h.x[d.rs2]
           sa == Signed(a, n)
           sb == Signed(b, n)
           traps == sb = -1 /\ sa = -(2^(n - 1)) /\ ~(sb = -1 /\ sa = -(2^(W - 1)))
           v == CASE sb = 0 -> IF op = "DIV" THEN -1 ELSE sa
                  [] sb = -1 /\ sa = -(2^(W - 1)) -> IF op = "DIV" THEN 2^(W - 1) ELSE 0
                  [] OTHER -> IF op = "DIV" THEN Quotient(sa, sb) ELSE Remainder(sa, sb)
<1>1. n \in 1 .. 2 * W /\ a \in 0 .. 2^n - 1 /\ b \in 0 .. 2^n - 1 /\ a \in Nat /\ b \in Nat
  BY HartWidth
<1>2. sa \in Int /\ sb \in Int
  BY <1>1, SignedIs
<1>3. sb = 0 <=> b = 0
  BY <1>1, SignedOf
<1>4. Exec_M_Div(h, op, d) = IF traps THEN Fault(h, "crash") ELSE incPC(setValue(h, d.rd, v))
  BY DEF Exec_M_Div, Sx
<1>5. CASE traps
  <2>1. a = 2^(n - 1) /\ b = 2^n - 1
    BY <1>1, <1>5, SignedOf
  <2>2. n # W
    BY <1>5
  <2>3. n = 2 * W /\ h.t = "RV64"
    BY <2>2 DEF XLEN, HartOK
  <2> QED BY <1>4, <1>5, <2>1, <2>3
<1>6. CASE ~traps
  <2>1. v = ALU(op, n, a, b) /\ v \in Int
    <3>1. ALU(op, n, a, b) = IF op = "DIV" THEN IF b = 0 THEN -1 ELSE Quotient(sa, sb)
                             ELSE IF b = 0 THEN sa ELSE Remainder(sa, sb)
      BY DEF ALU
    <3> HIDE DEF n, a, b, sa, sb
    <3>2. CASE sb = 0
      BY <1>2, <1>3, <3>1, <3>2
    <3>3. CASE sb # 0 /\ sb = -1 /\ sa = -(2^(W - 1))
      <4>1. 2^(W - 1) \in Int
        BY HartWidth, PowerHalf
      <4>2. Quotient(sa, sb) = 2^(W - 1) /\ Remainder(sa, sb) = 0
        BY <1>2, <3>3, <4>1, QuotientMinusOne
      <4> QED BY <1>2, <1>3, <3>1, <3>3, <4>1, <4>2
    <3>4. CASE sb # 0 /\ ~(sb = -1 /\ sa = -(2^(W - 1)))
      <4>1. Quotient(sa, sb) \in Int /\ Remainder(sa, sb) \in Int
        BY <1>2, <3>4, QuotientIs
      <4> QED BY <1>2, <1>3, <3>1, <3>4, <4>1
    <3> QED BY <3>2, <3>3, <3>4
  <2> HIDE DEF v
  <2> QED BY <1>4, <1>6, <2>1, WritesBy
<1> QED BY <1>5, <1>6

LEMMA DivideUnsignedValue ==
  ASSUME NEW h, HartOK(h), NEW op \in {"DIVU", "REMU"}, NEW d, d.rs1 \in Regs, d.rs2 \in Regs
  PROVE  Writes(Exec_M_DivU(h, op, d), h, d.rd, ALU(op, XLEN(h.t), h.x[d.rs1], h.x[d.rs2]), 4)
<1> DEFINE a == h.x[d.rs1]
           b == h.x[d.rs2]
           v == ALU(op, XLEN(h.t), a, b)
<1>1. a \in Nat /\ b \in Nat
  BY HartWidth
<1>2. v = IF b = 0 THEN IF op = "DIVU" THEN -1 ELSE a ELSE IF op = "DIVU" THEN a \div b ELSE a % b
  BY DEF ALU
<1>3. Exec_M_DivU(h, op, d) = incPC(setValue(h, d.rd, v))
  BY <1>2 DEF Exec_M_DivU
<1>4. v \in Int
  <2> HIDE DEF a, b, v
  <2>1. b # 0 => a \div b \in Int /\ a % b \in Int
    BY <1>1, Division
  <2> QED BY <1>1, <1>2, <2>1
<1> HIDE DEF v
<1>5. Writes(Exec_M_DivU(h, op, d), h, d.rd, v, 4)
  BY <1>3, <1>4, WritesBy
<1> QED BY <1>5 DEF v

LEMMA MultiplyWordValue ==
  ASSUME NEW h, HartOK(h), NEW d, d.rs1 \in Regs, d.rs2 \in Regs
  PROVE  Writes(Exec_M_Mul(h, "MULW", d), h, d.rd, WordValue("MUL", h.x[d.rs1], h.x[d.rs2]), 4)
<1> DEFINE a == Unsigned(h.x[d.rs1], W)
           b == Unsigned(h.x[d.rs2], W)
           v == Signed(a * b, W)
<1>1. a \in Nat /\ b \in Nat /\ W \in 1 .. 2 * W
  BY WordOperands, HartWidth
<1>2. a * b \in Int
  <2> HIDE DEF a, b
  <2> QED BY <1>1
<1>3. v \in Int
  BY <1>1, <1>2, SignedIs
<1>4. Exec_M_Mul(h, "MULW", d) = incPC(setValue(h, d.rd, v))
  BY DEF Exec_M_Mul
<1>5. WordValue("MUL", h.x[d.rs1], h.x[d.rs2]) = v
  BY DEF WordValue, ALU
<1> HIDE DEF v
<1> QED BY <1>3, <1>4, <1>5, WritesBy

LEMMA DivideWordValue ==
  ASSUME NEW h, HartOK(h), NEW op \in {"DIVW", "REMW"}, NEW d, d.rs1 \in Regs, d.rs2 \in Regs
  PROVE  \E v : /\ Writes(Exec_M_DivW(h, op, d), h, d.rd, v, 4)
                /\ \/ v = WordValue(IF op = "DIVW" THEN "DIV" ELSE "REM", h.x[d.rs1], h.x[d.rs2])
                   \/ /\ op = "DIVW" /\ Unsigned(h.x[d.rs1], W) = 2^(W - 1)
                      /\ Unsigned(h.x[d.rs2], W) = 2^W - 1
<1> DEFINE H == 2^(W - 1)
           a == Unsigned(h.x[d.rs1], W)
           b == Unsigned(h.x[d.rs2], W)
           sa == Signed(h.x[d.rs1], W)
           sb == Signed(h.x[d.rs2], W)
           f == IF op = "DIVW" THEN "DIV" ELSE "REM"
           alu == IF op = "DIVW" THEN IF b = 0 THEN -1 ELSE Quotient(sa, sb)
                  ELSE IF b = 0 THEN sa ELSE Remainder(sa, sb)
           v == CASE sb = 0 -> IF op = "DIVW" THEN -1 ELSE sa
                  [] sb # 0 /\ op = "DIVW" -> IF sb = -1 /\ sa = -H THEN H ELSE Quotient(sa, sb)
                  [] sb # 0 /\ op = "REMW" -> IF sb = -1 THEN 0 ELSE Remainder(sa, sb)
           over == op = "DIVW" /\ sa = -H /\ sb = -1
<1>1. /\ sa \in Int /\ sb \in Int /\ -H <= sa /\ sa < H /\ -H <= sb /\ sb < H
      /\ sa = -H <=> a = H
      /\ sb = 0 <=> b = 0
      /\ sb = -1 <=> b = 2^W - 1
  BY WordOperands
<1>2. H \in Nat /\ H >= 1 /\ W \in 1 .. 2 * W
  BY HartWidth, PowerHalf
<1>3. Exec_M_DivW(h, op, d) = incPC(setValue(h, d.rd, v))
  BY DEF Exec_M_DivW
<1>4. WordValue(f, h.x[d.rs1], h.x[d.rs2]) = Signed(alu, W)
  <2>1. Signed(a, W) = sa /\ Signed(b, W) = sb
    BY WordOperands
  <2> HIDE DEF a, b, sa, sb
  <2>2. ALU(f, W, a, b) = alu
    BY <2>1 DEF ALU
  <2> HIDE DEF f, alu
  <2> QED BY <2>2 DEF WordValue, a, b
<1> HIDE DEF H, a, b, sa, sb, f
<1>5. CASE sb = 0
  <2>1. v = alu /\ alu \in Int /\ -H <= alu /\ alu < H
    BY <1>1, <1>2, <1>5
  <2> HIDE DEF v, alu
  <2>2. Signed(alu, W) = alu
    BY <1>2, <2>1, SignedFits DEF H
  <2> QED BY <1>3, <1>4, <2>1, <2>2, WritesBy DEF f
<1>6. CASE sb # 0 /\ ~(sa = -H /\ sb = -1)
  <2>1. /\ Quotient(sa, sb) \in Int /\ -H <= Quotient(sa, sb) /\ Quotient(sa, sb) < H
        /\ Remainder(sa, sb) \in Int /\ -H <= Remainder(sa, sb) /\ Remainder(sa, sb) < H
    BY <1>1, <1>2, <1>6, QuotientIs, QuotientFits
  <2>2. sb = -1 => Remainder(sa, sb) = 0
    BY <1>1, QuotientMinusOne
  <2>3. v = alu /\ alu \in Int /\ -H <= alu /\ alu < H
    BY <1>1, <1>6, <2>1, <2>2
  <2> HIDE DEF v, alu
  <2>4. Signed(alu, W) = alu
    BY <1>2, <2>3, SignedFits DEF H
  <2> QED BY <1>3, <1>4, <2>3, <2>4, WritesBy DEF f
<1>7. CASE sa = -H /\ sb = -1
  <2>1. Remainder(sa, sb) = 0
    BY <1>1, <1>7, QuotientMinusOne
  <2>2. CASE op = "DIVW"
    <3>1. v = H /\ a = H /\ b = 2^W - 1
      BY <1>1, <1>7, <2>2
    <3> HIDE DEF v
    <3>2. Writes(Exec_M_DivW(h, op, d), h, d.rd, v, 4)
      BY <1>2, <1>3, <3>1, WritesBy
    <3> QED BY <2>2, <3>1, <3>2 DEF H, a, b
  <2>3. CASE op = "REMW"
    <3>1. v = 0 /\ alu = 0
      BY <1>1, <1>7, <2>1, <2>3
    <3> HIDE DEF v, alu
    <3>2. Signed(alu, W) = 0
      BY <1>2, <3>1, SignedFits DEF H
    <3> QED BY <1>3, <1>4, <3>1, <3>2, WritesBy DEF f
  <2> QED BY <2>2, <2>3
<1> QED BY <1>5, <1>6, <1>7

LEMMA DivideUnsignedWordValue ==
  ASSUME NEW h, HartOK(h), NEW op \in {"DIVUW", "REMUW"}, NEW d, d.rs1 \in Regs, d.rs2 \in Regs
  PROVE  \E v : /\ Writes(Exec_M_DivUW(h, op, d), h, d.rd, v, 4)
                /\ \/ v = WordValue(IF op = "DIVUW" THEN "DIVU" ELSE "REMU", h.x[d.rs1], h.x[d.rs2])
                   \/ /\ op = "DIVUW" /\ Unsigned(h.x[d.rs1], W) = 2^(W - 1)
                      /\ Unsigned(h.x[d.rs2], W) = 2^W - 1
<1> DEFINE H == 2^(W - 1)
           a == Unsigned(h.x[d.rs1], W)
           b == Unsigned(h.x[d.rs2], W)
           f == IF op = "DIVUW" THEN "DIVU" ELSE "REMU"
           alu == IF op = "DIVUW" THEN IF b = 0 THEN -1 ELSE a \div b
                  ELSE IF b = 0 THEN a ELSE a % b
           over == b = 2^W - 1 /\ a = H
           v == CASE b = 0 -> IF op = "DIVUW" THEN -1 ELSE Signed(a, W)
                  [] b # 0 /\ op = "DIVUW" -> IF over THEN H ELSE Signed(a \div b, W)
                  [] b # 0 /\ op = "REMUW" -> Signed(a % b, W)
<1>1. a \in Nat /\ b \in Nat
  BY WordOperands
<1>2. H \in Nat /\ H >= 1 /\ W \in 1 .. 2 * W
  BY HartWidth, PowerHalf
<1>3. Exec_M_DivUW(h, op, d) = incPC(setValue(h, d.rd, v))
  BY DEF Exec_M_DivUW
<1>4. WordValue(f, h.x[d.rs1], h.x[d.rs2]) = Signed(alu, W)
  <2>1. ALU(f, W, a, b) = alu
    <3> HIDE DEF a, b
    <3> QED BY DEF ALU
  <2> HIDE DEF f, alu
  <2> QED BY <2>1 DEF WordValue
<1> HIDE DEF H, a, b, f
<1>5. alu \in Int
  <2>1. b # 0 => a \div b \in Int /\ a % b \in Int
    BY <1>1, Division
  <2> QED BY <1>1, <2>1
<1>6. Signed(alu, W) \in Int
  <2> HIDE DEF alu
  <2> QED BY <1>2, <1>5, SignedIs
<1>7. Signed(-1, W) = -1
  BY <1>2, SignedFits DEF H
<1>8. CASE ~(op = "DIVUW" /\ over)
  <2>1. v = Signed(alu, W)
    BY <1>7, <1>8
  <2> HIDE DEF v, alu, over
  <2> QED BY <1>3, <1>4, <1>6, <2>1, WritesBy DEF f
<1>9. CASE op = "DIVUW" /\ over
  <2>1. b # 0
    <3>1. 2^W = 2 * H
      BY <1>2, PowerHalf DEF H
    <3> QED BY <1>2, <1>9, <3>1
  <2>2. v = H
    BY <1>9, <2>1
  <2> HIDE DEF v
  <2>3. Writes(Exec_M_DivUW(h, op, d), h, d.rd, v, 4)
    BY <1>2, <1>3, <2>2, WritesBy
  <2> QED BY <1>9, <2>3 DEF H, a, b
<1> QED BY <1>8, <1>9

(* An instruction of the extension, with the operands it was assembled     *)
(* with, either writes a register or kills the process.                    *)
LEMMA M_exec ==
  ASSUME NEW h, HartOK(h), NEW i, Instruction(i), Legal(h.t, i), i.c = "-", i.op \in MulDivOps,
         NEW d, d.rd = i.rd, d.rs1 = i.rs1, d.rs2 = i.rs2
  PROVE  /\ HartOK(M_exec_instruction(h, i.op, d))
         /\ ~DivisionOverflows(h, i) => M_exec_instruction(h, i.op, d) = Result(h, i)
<1> DEFINE g == M_exec_instruction(h, i.op, d)
           n == XLEN(h.t)
           a == h.x[i.rs1]
           b == h.x[i.rs2]
           u == IF i.op \in WordOps THEN WordValue(Function(i.op), a, b) ELSE ALU(i.op, n, a, b)
<1>1. i.rs1 \in Regs /\ i.rs2 \in Regs
  BY DEF Instruction
<1>2. Result(h, i) = Computes(h, i.rd, u, 4)
  <2>1. i.op \in ComputeOps /\ i.op \notin ImmOps
    BY DEF ComputeOps, ImmOps, ShiftOps, MulDivOps
  <2>2. CASE i.op \in WordOps
    BY <2>1, <2>2, ResultWord DEF WordValue, Length
  <2>3. CASE i.op \notin WordOps
    <3>1. Function(i.op) = i.op
      BY <2>3 DEF Function, MulDivOps, WordOps
    <3> QED BY <2>1, <2>3, <3>1, ResultCompute DEF Length
  <2> QED BY <2>2, <2>3
<1>3. \/ g = Fault(h, "crash") /\ DivisionOverflows(h, i)
      \/ \E v : Writes(g, h, i.rd, v, 4) /\ (v = u \/ DivisionOverflows(h, i))
  <2>1. CASE i.op \in {"MUL", "MULH", "MULHSU", "MULHU"}
    <3>1. u = ALU(i.op, n, a, b) /\ g = Exec_M_Mul(h, i.op, d)
      BY <2>1 DEF WordOps, M_exec_instruction
    <3> HIDE DEF u, g
    <3> QED BY <1>1, <2>1, <3>1, MultiplyValue
  <2>2. CASE i.op = "MULW"
    <3>1. u = WordValue("MUL", a, b) /\ g = Exec_M_Mul(h, "MULW", d)
      BY <2>2 DEF WordOps, M_exec_instruction, Function
    <3> HIDE DEF u, g
    <3> QED BY <1>1, <3>1, MultiplyWordValue
  <2>3. CASE i.op \in {"DIV", "REM"}
    <3>1. u = ALU(i.op, n, a, b) /\ g = Exec_M_Div(h, i.op, d)
      BY <2>3 DEF WordOps, M_exec_instruction
    <3> HIDE DEF u, g
    <3> QED BY <1>1, <2>3, <3>1, DivideValue DEF DivisionOverflows
  <2>4. CASE i.op \in {"DIVU", "REMU"}
    <3>1. u = ALU(i.op, n, a, b) /\ g = Exec_M_DivU(h, i.op, d)
      BY <2>4 DEF WordOps, M_exec_instruction
    <3> HIDE DEF u, g
    <3> QED BY <1>1, <2>4, <3>1, DivideUnsignedValue
  <2>5. CASE i.op \in {"DIVW", "REMW"}
    <3>1. u = WordValue(IF i.op = "DIVW" THEN "DIV" ELSE "REM", a, b) /\ g = Exec_M_DivW(h, i.op, d)
      BY <2>5 DEF WordOps, M_exec_instruction, Function
    <3>2. h.t = "RV64"
      BY <2>5 DEF Legal, Only64, HartOK
    <3> HIDE DEF u, g
    <3> QED BY <1>1, <2>5, <3>1, <3>2, DivideWordValue DEF DivisionOverflows
  <2>6. CASE i.op \in {"DIVUW", "REMUW"}
    <3>1. u = WordValue(IF i.op = "DIVUW" THEN "DIVU" ELSE "REMU", a, b) /\ g = Exec_M_DivUW(h, i.op, d)
      BY <2>6 DEF WordOps, M_exec_instruction, Function
    <3>2. h.t = "RV64"
      BY <2>6 DEF Legal, Only64, HartOK
    <3> HIDE DEF u, g
    <3> QED BY <1>1, <2>6, <3>1, <3>2, DivideUnsignedWordValue DEF DivisionOverflows
  <2> QED BY <2>1, <2>2, <2>3, <2>4, <2>5, <2>6 DEF MulDivOps
<1>4. HartOK(Fault(h, "crash"))
  BY DEF HartOK, Fault, Faults
<1> HIDE DEF g, u
<1>5. HartOK(g)
  BY <1>3, <1>4, Computes_OK DEF Writes
<1>6. ~DivisionOverflows(h, i) => g = Result(h, i)
  BY <1>2, <1>3 DEF Writes
<1> QED BY <1>5, <1>6 DEF g

----------------------------------------------------------------------------
(* A_extension                                                             *)

LEMMA AmoResultIs ==
  ASSUME NEW op \in AmoOps \ {"AMOADD_D"}, NEW data \in Nat, NEW aux \in Nat
  PROVE  /\ AmoResult(op, data, aux) \in Int /\ ALU(Function(op), W, data, aux) \in Int
         /\ Congruent(AmoResult(op, data, aux), ALU(Function(op), W, data, aux), 2^W)
<1> DEFINE v == AmoResult(op, data, aux)
           u == ALU(Function(op), W, data, aux)
<1>1. W \in 1 .. 2 * W /\ W \in 0 .. 2 * W /\ 2^W \in Int
  BY Widths, PowerHalf
<1>2. And(data, aux, W) \in Int /\ Or(data, aux, W) \in Int /\ Xor(data, aux, W) \in Int
  <2>1. data \in Int /\ aux \in Int
    OBVIOUS
  <2> QED BY <1>1, <2>1, BitwiseType
<1>3. CASE op = "AMOADD"
  <2>1. v = Unsigned(data + aux, W) /\ u = data + aux
    BY <1>3 DEF AmoResult, ALU, Function
  <2> QED BY <1>1, <2>1, UnsignedIs
<1>4. CASE op # "AMOADD"
  <2>1. v = u
    <3>1. CASE op \in {"AMOSWAP", "AMOXOR", "AMOAND", "AMOOR"}
      BY <3>1 DEF AmoResult, ALU, Function
    <3>2. CASE op \in {"AMOMIN", "AMOMAX", "AMOMINU", "AMOMAXU"}
      BY <3>2 DEF AmoResult, ALU, Function
    <3> QED BY <1>4, <3>1, <3>2 DEF AmoOps
  <2>2. v \in Int
    BY <1>2, <1>4 DEF AmoResult, AmoOps
  <2> HIDE DEF u, v
  <2>3. Congruent(v, u, 2^W)
    BY <1>1, <2>1, <2>2, CongruentSelf
  <2> QED BY <2>1, <2>2, <2>3 DEF u, v
<1> QED BY <1>3, <1>4

(* The order of two writes to different parts of the hart does not matter. *)
LEMMA WritesCommute ==
  ASSUME NEW h, HartOK(h), NEW rd, NEW v \in Int, NEW addr, NEW data, NEW size
  PROVE  writeDataMem(setValue(h, rd, v), addr, data, size)
           = setValue(writeDataMem(h, addr, data, size), rd, v)
BY DEF writeDataMem, setValue, HartOK

LEMMA AmoBytes ==
  ASSUME NEW op \in AmoOps, op # "AMOADD_D" PROVE Bytes(op) = 4
BY DEF Bytes, AmoOps

LEMMA A_exec ==
  ASSUME NEW h, HartOK(h), NEW i, Instruction(i), i.c = "-", i.op \in AmoOps,
         NEW op, op = (IF i.op = "AMOADD_D" THEN "AMOADD" ELSE i.op),
         NEW d, d.rd = i.rd, d.rs1 = i.rs1, d.rs2 = i.rs2
  PROVE  /\ HartOK(Exec_A_AMO(h, op, d))
         /\ ~AmoDeviates(h, i) => Exec_A_AMO(h, op, d) = Result(h, i)
<1> DEFINE addr == Unsigned(h.x[d.rs1], W)
           data == readDataMem(h, addr, 4)
           s == Signed(data, W)
           g == setValue(h, d.rd, s)
           g2 == IF op = "AMOSWAP" THEN setValue(g, d.rs2, s) ELSE g
           aux == Unsigned(g.x[d.rs2], W)
           new == AmoResult(op, data, aux)
           k == writeDataMem(g2, addr, new, 4)
<1>1. Exec_A_AMO(h, op, d) = IF Inside(addr, 4) THEN incPC(k) ELSE Fault(h, "outside")
  BY DEF Exec_A_AMO
<1>2. /\ i.rs1 \in Regs /\ i.rs2 \in Regs /\ h.x[i.rs1] \in Nat /\ h.x[i.rs1] \in Int /\ h.x[i.rs2] \in Int
      /\ h.pc \in Nat /\ W \in 1 .. 2 * W /\ 2^W \in Nat
  BY HartWidth, PowerHalf DEF Instruction
<1>3. addr \in Nat
  BY <1>2, UnsignedIs
<1>4. op \in AmoOps \ {"AMOADD_D"}
  BY DEF AmoOps
<1>5. CASE ~Inside(addr, 4)
  <2>1. HartOK(Fault(h, "outside"))
    BY DEF HartOK, Fault, Faults
  <2>2. ASSUME ~AmoDeviates(h, i) PROVE Result(h, i) = Fault(h, "outside")
    <3>1. i.op # "AMOADD_D" /\ h.x[i.rs1] < 2^W
      BY <1>2, <2>2 DEF AmoDeviates
    <3>2. addr = h.x[i.rs1]
      BY <1>2, <3>1, UnsignedFits
    <3>3. Bytes(i.op) = 4
      BY <3>1, AmoBytes
    <3> HIDE DEF addr
    <3> QED BY <1>5, <3>2, <3>3, ResultAmo
  <2> HIDE DEF addr, k
  <2> QED BY <1>1, <1>5, <2>1, <2>2
<1>6. CASE Inside(addr, 4)
  <2>1. data \in Nat
    <3> HIDE DEF addr
    <3> QED BY <1>3, <1>6, readDataMem_Type
  <2>2. s \in Int
    <3> HIDE DEF data
    <3> QED BY <1>2, <2>1, SignedIs
  <2>3. HartOK(g) /\ g.pc = h.pc /\ (i.rs2 # i.rd => g.x[i.rs2] = h.x[i.rs2])
    <3> HIDE DEF s
    <3> QED BY <1>2, <2>2, setValue_OK
  <2>4. HartOK(g2) /\ g2.pc = h.pc
    <3> HIDE DEF g, s
    <3> QED BY <2>2, <2>3, setValue_OK
  <2>5. aux \in Nat
    <3> HIDE DEF g
    <3>1. g.x[d.rs2] \in Int
      BY <1>2, <2>3, HartWidth
    <3> QED BY <1>2, <3>1, UnsignedIs
  <2>6. new \in Int /\ ALU(Function(op), W, data, aux) \in Int
        /\ Congruent(new, ALU(Function(op), W, data, aux), 2^W)
    <3> HIDE DEF data, aux
    <3> QED BY <1>4, <2>1, <2>5, AmoResultIs
  <2>7. HartOK(k) /\ k.pc = h.pc
    <3> HIDE DEF addr, g2, new
    <3>1. HartOK(k)
      BY <1>3, <2>4, <2>6, writeDataMem_OK
    <3>2. k.pc = g2.pc
      BY <2>4 DEF writeDataMem, HartOK
    <3> QED BY <2>4, <3>1, <3>2
  <2>8. HartOK(incPC(k)) /\ incPC(k) = setPC(k, h.pc + 4)
    <3> HIDE DEF k
    <3>1. h.pc + 4 \in Int
      BY <1>2
    <3>2. incPC(k) = setPC(k, h.pc + 4)
      BY <2>7 DEF incPC
    <3> QED BY <2>7, <3>1, <3>2, setPC_OK
  <2>9. ASSUME ~AmoDeviates(h, i) PROVE Result(h, i) = incPC(k)
    <3>1. /\ i.op # "AMOADD_D" /\ h.x[i.rs1] < 2^W /\ op = i.op
          /\ i.rs2 = 0 \/ i.rd # i.rs2
          /\ i.op = "AMOSWAP" => i.rs2 = 0
      BY <1>2, <2>9 DEF AmoDeviates
    <3>2. addr = h.x[i.rs1]
      BY <1>2, <3>1, UnsignedFits
    <3>3. Bytes(i.op) = 4 /\ Bytes(i.op) * ByteBits = W
      BY <3>1, AmoBytes, Widths
    <3>4. g2 = g
      <4> HIDE DEF g
      <4> QED BY <3>1 DEF setValue
    <3>5. aux = Unsigned(h.x[i.rs2], W)
      <4>1. g.x[i.rs2] = h.x[i.rs2]
        <5>1. CASE i.rd # i.rs2
          BY <2>3, <5>1
        <5>2. CASE i.rd = i.rs2
          BY <3>1, <5>2 DEF setValue
        <5> QED BY <5>1, <5>2
      <4> QED BY <4>1
    <3> DEFINE alu == ALU(Function(op), W, data, aux)
    <3>6. Unsigned(alu, W) \in Int /\ Congruent(new, Unsigned(alu, W), 2^W)
      <4> HIDE DEF alu, new
      <4>1. /\ Unsigned(alu, W) \in 0 .. 2^W - 1 /\ Congruent(Unsigned(alu, W), alu, 2^W)
            /\ alu \in Int /\ new \in Int /\ Congruent(new, alu, 2^W)
        BY <1>2, <2>6, UnsignedIs DEF alu
      <4>2. Unsigned(alu, W) \in Int /\ 2^W \in Int
        BY <1>2, <4>1
      <4>3. Congruent(alu, Unsigned(alu, W), 2^W)
        BY <4>1, <4>2, CongruentSwap
      <4> QED BY <4>1, <4>2, <4>3, CongruentTrans
    <3>7. Result(h, i) = setPC(setValue(writeDataMem(h, addr, Unsigned(alu, W), 4), i.rd, s), h.pc + 4)
      <4> HIDE DEF addr
      <4> QED BY <1>6, <3>1, <3>2, <3>3, <3>5, ResultAmo DEF Length
    <3>8. writeDataMem(h, addr, new, 4) = writeDataMem(h, addr, Unsigned(alu, W), 4)
      <4> HIDE DEF addr, new, alu
      <4> QED BY <1>3, <2>6, <3>6, Widths, HartMemory, writeDataMem_Same
    <3>9. k = setValue(writeDataMem(h, addr, new, 4), i.rd, s)
      <4> HIDE DEF addr, new, s
      <4> QED BY <2>2, <3>4, WritesCommute
    <3> HIDE DEF addr, new, s, k, alu
    <3> QED BY <2>8, <3>7, <3>8, <3>9
  <2> HIDE DEF addr, k
  <2> QED BY <1>1, <1>6, <2>8, <2>9
<1> QED BY <1>5, <1>6

----------------------------------------------------------------------------
(* The steps of IsaSpec                                                    *)

(* A step executes an instruction with the operands it was assembled with. *)
Executes(i, ext, op, d) ==
  /\ HartOK(hart) /\ Instruction(i) /\ Legal(hart.t, i) /\ instr' = i
  /\ DecodedAs(i, ext, op, d)

LEMMA ExtensionIs ==
  ASSUME NEW i
  PROVE  /\ Extension(i) = "C" <=> i.c # "-"
         /\ Extension(i) = "A" <=> i.c = "-" /\ i.op \in AmoOps
         /\ Extension(i) = "M" <=> i.c = "-" /\ i.op \in MulDivOps
         /\ Extension(i) = "base" <=> i.c = "-" /\ i.op \notin AmoOps \cup MulDivOps
<1>1. ~(i.op \in AmoOps /\ i.op \in MulDivOps)
  BY DEF AmoOps, MulDivOps
<1>2. CASE i.c # "-"
  BY <1>2 DEF Extension
<1>3. CASE i.c = "-" /\ i.op \in AmoOps
  BY <1>1, <1>3 DEF Extension
<1>4. CASE i.c = "-" /\ i.op \in MulDivOps
  BY <1>1, <1>4 DEF Extension
<1>5. CASE i.c = "-" /\ i.op \notin AmoOps \cup MulDivOps
  BY <1>5 DEF Extension
<1> QED BY <1>2, <1>3, <1>4, <1>5

LEMMA StepDecodes ==
  ASSUME NEW wl \in Workloads, hart \in wl.harts, NEW i \in wl.code,
         NEW w \in Fetches(i), Legal(hart.t, i), instr' = i,
         NEW ext, NEW op, ext = Dispatch(hart.t, w)[1], op = Dispatch(hart.t, w)[2]
  PROVE  /\ ext = "C" => Executes(i, ext, op, C_operands(w, op))
         /\ ext # "C" => Executes(i, ext, op, base_operands(hart.t, w, op))
<1>1. HartOK(hart) /\ Instruction(i)
  BY IsaAssumption
<1>2. DecodesTo(hart.t, i)
  BY <1>1, DecoderInverts DEF HartOK
<1> QED BY <1>1, <1>2 DEF DecodesTo, Executes

LEMMA StepExecutes ==
  /\ StepBase => \E i, op, d : /\ Executes(i, "base", op, d)
                               /\ hart' = base_exec_instruction(hart, op, d)
  /\ StepC => \E i, op, d : Executes(i, "C", op, d) /\ hart' = C_exec_instruction(hart, op, d)
  /\ StepM => \E i, op, d : Executes(i, "M", op, d) /\ hart' = M_exec_instruction(hart, op, d)
  /\ StepA => \E i, op, d : Executes(i, "A", op, d) /\ hart' = Exec_A_AMO(hart, op, d)
<1>1. ASSUME StepBase
      PROVE  \E i, op, d : Executes(i, "base", op, d) /\ hart' = base_exec_instruction(hart, op, d)
  BY <1>1, StepDecodes DEF StepBase, Step
<1>2. ASSUME StepC
      PROVE  \E i, op, d : Executes(i, "C", op, d) /\ hart' = C_exec_instruction(hart, op, d)
  BY <1>2, StepDecodes DEF StepC, Step
<1>3. ASSUME StepM
      PROVE  \E i, op, d : Executes(i, "M", op, d) /\ hart' = M_exec_instruction(hart, op, d)
  BY <1>3, StepDecodes DEF StepM, Step
<1>4. ASSUME StepA
      PROVE  \E i, op, d : Executes(i, "A", op, d) /\ hart' = Exec_A_AMO(hart, op, d)
  BY <1>4, StepDecodes DEF StepA, Step
<1> QED BY <1>1, <1>2, <1>3, <1>4

LEMMA StepExtension ==
  /\ StepBase => Extension(instr') = "base"
  /\ StepC => Extension(instr') = "C"
  /\ StepM => Extension(instr') = "M"
  /\ StepA => Extension(instr') = "A"
BY StepExecutes DEF Executes, DecodedAs

LEMMA StepBase_AsManual ==
  ASSUME StepBase
  PROVE  HartOK(hart') /\ hart' = Result(hart, instr')
<1>1. PICK i, op, d : Executes(i, "base", op, d) /\ hart' = base_exec_instruction(hart, op, d)
  BY StepExecutes
<1>2. i.c = "-" /\ i.op \notin MulDivOps \cup AmoOps
  BY <1>1, ExtensionIs DEF Executes, DecodedAs
<1>3. op = i.op
  BY <1>1, <1>2 DEF Executes, DecodedAs, AmoOps
<1>4. /\ i.op \notin StoreOps \cup BranchOps => d.rd = i.rd
      /\ i.op \notin UpperOps \cup {"JAL"} => d.rs1 = i.rs1
      /\ i.op \in BaseOps \cup StoreOps \cup BranchOps => d.rs2 = i.rs2
  BY <1>1 DEF Executes, DecodedAs
<1>5. i.op \notin BaseOps => d.imm = i.imm
  BY <1>1, <1>2 DEF Executes, DecodedAs
<1> QED BY <1>1, <1>2, <1>3, <1>4, <1>5, base_exec DEF Executes

LEMMA StepM_AsManual ==
  ASSUME StepM
  PROVE  HartOK(hart') /\ (~DivisionOverflows(hart, instr') => hart' = Result(hart, instr'))
<1>1. PICK i, op, d : Executes(i, "M", op, d) /\ hart' = M_exec_instruction(hart, op, d)
  BY StepExecutes
<1>2. i.c = "-" /\ i.op \in MulDivOps
  BY <1>1, ExtensionIs DEF Executes, DecodedAs
<1>3. op = i.op /\ d.rd = i.rd /\ d.rs1 = i.rs1 /\ d.rs2 = i.rs2
  <2>1. i.op # "AMOADD_D" /\ i.op \notin StoreOps \cup BranchOps \cup UpperOps \cup {"JAL"}
    BY <1>2 DEF MulDivOps, StoreOps, BranchOps, UpperOps
  <2> QED BY <1>1, <1>2, <2>1 DEF Executes, DecodedAs
<1> QED BY <1>1, <1>2, <1>3, M_exec DEF Executes

LEMMA StepA_AsManual ==
  ASSUME StepA
  PROVE  HartOK(hart') /\ (~AmoDeviates(hart, instr') => hart' = Result(hart, instr'))
<1>1. PICK i, op, d : Executes(i, "A", op, d) /\ hart' = Exec_A_AMO(hart, op, d)
  BY StepExecutes
<1>2. i.c = "-" /\ i.op \in AmoOps
  BY <1>1, ExtensionIs DEF Executes, DecodedAs
<1>3. /\ op = IF i.op = "AMOADD_D" THEN "AMOADD" ELSE i.op
      /\ d.rd = i.rd /\ d.rs1 = i.rs1 /\ d.rs2 = i.rs2
  <2>1. i.op \notin StoreOps \cup BranchOps \cup UpperOps \cup {"JAL"}
    BY <1>2 DEF AmoOps, StoreOps, BranchOps, UpperOps
  <2> QED BY <1>1, <1>2, <2>1 DEF Executes, DecodedAs
<1> QED BY <1>1, <1>2, <1>3, A_exec DEF Executes

LEMMA StepC_AsManual ==
  ASSUME StepC
  PROVE  HartOK(hart') /\ (~DropsUpperHalf(hart, instr') => hart' = Result(hart, instr'))
<1>1. PICK i, op, d : Executes(i, "C", op, d) /\ hart' = C_exec_instruction(hart, op, d)
  BY StepExecutes
<1>2. i.c # "-"
  BY <1>1, ExtensionIs DEF Executes, DecodedAs
<1>3. op = IF i.c = "C_LUI" THEN "C_ADDI16SP" ELSE i.c
  <2>1. op = (CASE i.c = "C_LUI" -> "C_ADDI16SP"
                [] i.c # "-" /\ i.c # "C_LUI" -> i.c
                [] i.op = "AMOADD_D" -> "AMOADD"
                [] OTHER -> i.op)
    BY <1>1 DEF Executes, DecodedAs
  <2>2. i.op # "AMOADD_D"
    BY <1>1, <1>2 DEF Executes, Instruction, Expansion
  <2>3. CASE i.c = "C_LUI"
    BY <2>1, <2>2, <2>3
  <2>4. CASE i.c # "C_LUI"
    BY <1>2, <2>1, <2>2, <2>4
  <2> QED BY <2>3, <2>4
<1>4. /\ i.op \notin StoreOps \cup BranchOps => d.rd = i.rd
      /\ i.op \notin UpperOps \cup {"JAL"} => d.rs1 = i.rs1
      /\ i.op \in BaseOps \cup MulDivOps \cup AmoOps \cup StoreOps \cup BranchOps => d.rs2 = i.rs2
  BY <1>1 DEF Executes, DecodedAs
<1>5. IF i.op \in ShiftOps THEN d.imm \in {i.imm, i.imm - 64}
      ELSE i.op \notin BaseOps \cup MulDivOps \cup AmoOps => d.imm = i.imm
  BY <1>1, <1>2 DEF Executes, DecodedAs
<1>6. HartOK(hart) /\ Instruction(i) /\ Legal(hart.t, i) /\ instr' = i
  BY <1>1 DEF Executes
<1>7. CompressedIs(hart, i, d)
  BY <1>2, <1>4, <1>5, <1>6, C_exec
<1> QED BY <1>1, <1>3, <1>6, <1>7 DEF CompressedIs

(* Every MUL, DIV and REM instruction that CPU_step executes (the Exec     *)
(* functions of M_extension.h) writes what the manual says, for all        *)
(* operands, zero divisors included, but for the overflows that            *)
(* DivisionOverflows names.                                                *)
THEOREM MulDivCorrect == IsaSpec => MulDivAsManual
<1>1. IsaNext => AsManual("M", DivisionOverflows)
  BY StepExtension, StepM_AsManual DEF AsManual, IsaNext
<1> QED BY <1>1, PTL DEF IsaSpec, MulDivAsManual

(* Every atomic operation of A_extension.h returns the old word and stores *)
(* the new one, for all addresses, memories and operands, but for the      *)
(* cases that AmoDeviates names.                                           *)
THEOREM AmoCorrect == IsaSpec => AmoAsManual
<1>1. IsaNext => AsManual("A", AmoDeviates)
  BY StepExtension, StepA_AsManual DEF AsManual, IsaNext
<1> QED BY <1>1, PTL DEF IsaSpec, AmoAsManual

(* Every base instruction that computes, loads, stores or jumps (the Exec  *)
(* functions of BASE_ISA.h) does what the manual says, without exception,  *)
(* for all registers, immediates and memories, on RV32 and RV64.           *)
THEOREM BaseCorrect == IsaSpec => BaseAsManual
<1>1. IsaNext => AsManual("base", LAMBDA h, i : FALSE)
  BY StepExtension, StepBase_AsManual DEF AsManual, IsaNext
<1> QED BY <1>1, PTL DEF IsaSpec, BaseAsManual

(* Every compressed instruction of C_extension.h does what the instruction *)
(* that it abbreviates does, two bytes long, unless the 32-bit variables   *)
(* of the code drop the upper half of an RV64 address (DropsUpperHalf).    *)
THEOREM CompressedCorrect == IsaSpec => CompressedAsManual
<1>1. IsaNext => AsManual("C", DropsUpperHalf)
  BY StepExtension, StepC_AsManual DEF AsManual, IsaNext
<1> QED BY <1>1, PTL DEF IsaSpec, CompressedAsManual

(* No instruction leaves a register, the PC or a byte of memory outside    *)
(* its width or x0 other than 0, in the excepted cases neither.            *)
THEOREM IsaTypeCorrect == IsaSpec => []IsaTypeOK
<1>1. IsaInit => IsaTypeOK
  BY IsaAssumption DEF IsaInit, IsaTypeOK
<1>2. IsaNext => IsaTypeOK'
  <2>1. StepBase \/ StepC \/ StepM \/ StepA => HartOK(hart')
    BY StepBase_AsManual, StepC_AsManual, StepM_AsManual, StepA_AsManual
  <2>2. HartOK(hart') => IsaTypeOK'
    BY DEF IsaTypeOK, HartOK
  <2> QED BY <2>1, <2>2 DEF IsaNext
<1>3. UNCHANGED isaVars /\ IsaTypeOK => IsaTypeOK'
  BY DEF isaVars, IsaTypeOK
<1> QED BY <1>1, <1>2, <1>3, PTL DEF IsaSpec
=============================================================================
