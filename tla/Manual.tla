------------------------------- MODULE Manual -------------------------------
(***************************************************************************)
(* The reference for Isa: what the RISC-V manual says of the instructions  *)
(* of RV32IMAC and RV64IMAC that compute, load, store and jump.  An        *)
(* instruction is a record                                                 *)
(*                                                                         *)
(*   [c, op, rd, rs1, rs2, imm]                                            *)
(*                                                                         *)
(* where c is "-" for a 32-bit instruction and the name of a compressed    *)
(* one, whose op and operands are those of the instruction that the manual *)
(* expands it to.  Nothing in this module is translated from the code.     *)
(***************************************************************************)
EXTENDS Word

----------------------------------------------------------------------------
(* Instructions.                                                           *)

(* The instructions of full width that compute, the W instructions, and    *)
(* the ones whose second operand is an immediate.                          *)
BaseOps == {"ADD", "SUB", "SLL", "SRL", "SRA", "SLT", "SLTU", "XOR", "OR", "AND",
            "ADDW", "SUBW", "SLLW", "SRLW", "SRAW"}
MulDivOps == {"MUL", "MULH", "MULHSU", "MULHU", "DIV", "DIVU", "REM", "REMU",
              "MULW", "DIVW", "DIVUW", "REMW", "REMUW"}
ShiftOps == {"SLLI", "SRLI", "SRAI", "SLLIW", "SRLIW", "SRAIW"}
ImmOps == {"ADDI", "SLTI", "SLTIU", "XORI", "ORI", "ANDI", "ADDIW"} \cup ShiftOps
AmoOps == {"AMOSWAP", "AMOADD", "AMOXOR", "AMOAND", "AMOOR", "AMOMIN", "AMOMAX", "AMOMINU",
           "AMOMAXU", "AMOADD_D"}
LoadOps == {"LB", "LH", "LW", "LD", "LBU", "LHU", "LWU"}
StoreOps == {"SB", "SH", "SW", "SD"}
BranchOps == {"BEQ", "BNE", "BLT", "BGE", "BLTU", "BGEU"}
JumpOps == {"JAL", "JALR"}
UpperOps == {"LUI", "AUIPC"}
WordOps == {"ADDW", "SUBW", "SLLW", "SRLW", "SRAW", "ADDIW", "SLLIW", "SRLIW", "SRAIW",
            "MULW", "DIVW", "DIVUW", "REMW", "REMUW"}
ComputeOps == BaseOps \cup MulDivOps \cup ImmOps
Ops == ComputeOps \cup AmoOps \cup LoadOps \cup StoreOps \cup BranchOps \cup JumpOps
       \cup UpperOps \cup {"FENCE"}

Only64 == {"ADDIW", "SLLIW", "SRLIW", "SRAIW", "ADDW", "SUBW", "SLLW", "SRLW", "SRAW",
           "MULW", "DIVW", "DIVUW", "REMW", "REMUW", "LD", "LWU", "SD", "AMOADD_D"}

----------------------------------------------------------------------------
(* Encoding.                                                               *)

Opcode(op) ==
    CASE op \in (BaseOps \cup MulDivOps) \ WordOps -> \b0110011
      [] op \in (BaseOps \cup MulDivOps) \cap WordOps -> \b0111011
      [] op \in ImmOps \ WordOps -> \b0010011
      [] op \in ImmOps \cap WordOps -> \b0011011
      [] op \in LoadOps -> \b0000011
      [] op \in StoreOps -> \b0100011
      [] op \in BranchOps -> \b1100011
      [] op \in AmoOps -> \b0101111
      [] op = "JAL" -> \b1101111
      [] op = "JALR" -> \b1100111
      [] op = "LUI" -> \b0110111
      [] op = "AUIPC" -> \b0010111
      [] op = "FENCE" -> \b0001111

Funct3(op) ==
    CASE op \in {"ADD", "SUB", "ADDW", "SUBW", "ADDI", "ADDIW", "MUL", "MULW", "LB", "SB", "BEQ",
                 "JALR", "FENCE"} -> 0
      [] op \in {"SLL", "SLLW", "SLLI", "SLLIW", "MULH", "LH", "SH", "BNE"} -> 1
      [] op \in {"SLT", "SLTI", "MULHSU", "LW", "SW"} \cup (AmoOps \ {"AMOADD_D"}) -> 2
      [] op \in {"SLTU", "SLTIU", "MULHU", "LD", "SD", "AMOADD_D"} -> 3
      [] op \in {"XOR", "XORI", "DIV", "DIVW", "LBU", "BLT"} -> 4
      [] op \in {"SRL", "SRA", "SRLW", "SRAW", "SRLI", "SRAI", "SRLIW", "SRAIW", "DIVU", "DIVUW",
                 "LHU", "BGE"} -> 5
      [] op \in {"OR", "ORI", "REM", "REMW", "LWU", "BLTU"} -> 6
      [] op \in {"AND", "ANDI", "REMU", "REMUW", "BGEU"} -> 7

(* The upper six bits of a shift and the seven of a register operation; of *)
(* an atomic operation, with the aq and rl bits clear.                     *)
Funct6(op) == IF op \in {"SRAI", "SRAIW"} THEN \b010000 ELSE 0

Funct7(op) ==
    CASE op \in {"SUB", "SUBW", "SRA", "SRAW"} -> \b0100000
      [] op \in MulDivOps -> 1
      [] op = "AMOSWAP" -> \b0000100 [] op = "AMOXOR" -> \b0010000
      [] op = "AMOOR" -> \b0100000 [] op = "AMOAND" -> \b0110000
      [] op = "AMOMIN" -> \b1000000 [] op = "AMOMAX" -> \b1010000
      [] op = "AMOMINU" -> \b1100000 [] op = "AMOMAXU" -> \b1110000
      [] OTHER -> 0

(* Bits hi .. lo of the word are those of v, from its bit "from" on. *)
Bit(v, k) == (v \div 2^k) % 2 = 1
Field(hi, lo, v, from) == {k \in lo .. hi : Bit(v, from + (k - lo))}

ITypeOps == (ImmOps \ ShiftOps) \cup LoadOps \cup {"JALR", "FENCE"}

Assemble32(i) ==
    LET Imm(hi, lo, from) == Field(hi, lo, i.imm, from)
        opcode == Field(6, 0, Opcode(i.op), 0)
        funct3 == Field(14, 12, Funct3(i.op), 0)
        rd == Field(11, 7, i.rd, 0)
        rs1 == Field(19, 15, i.rs1, 0)
        rs2 == Field(24, 20, i.rs2, 0)
    IN  CASE i.op \in BaseOps \cup MulDivOps \cup AmoOps ->
                opcode \cup funct3 \cup rd \cup rs1 \cup rs2 \cup Field(31, 25, Funct7(i.op), 0)
          [] i.op \in ITypeOps -> opcode \cup funct3 \cup rd \cup rs1 \cup Imm(31, 20, 0)
          [] i.op \in ShiftOps ->
                opcode \cup funct3 \cup rd \cup rs1 \cup Imm(25, 20, 0)
                    \cup Field(31, 26, Funct6(i.op), 0)
          [] i.op \in StoreOps ->
                opcode \cup funct3 \cup rs1 \cup rs2 \cup Imm(31, 25, 5) \cup Imm(11, 7, 0)
          [] i.op \in BranchOps ->
                opcode \cup funct3 \cup rs1 \cup rs2
                    \cup Imm(31, 31, 12) \cup Imm(30, 25, 5) \cup Imm(11, 8, 1) \cup Imm(7, 7, 11)
          [] i.op \in UpperOps -> opcode \cup rd \cup Imm(31, 12, 0)
          [] i.op = "JAL" ->
                opcode \cup rd
                    \cup Imm(31, 31, 20) \cup Imm(30, 21, 1) \cup Imm(20, 20, 11) \cup Imm(19, 12, 12)

(* The quadrant and funct3 of a compressed instruction; its registers, in  *)
(* five bits or in three; its immediate; and the bits that tell apart the  *)
(* instructions of one funct3.                                             *)
Assemble16(i) ==
    LET Imm(hi, lo, from) == Field(hi, lo, i.imm, from)
        Q(quadrant, funct3) == Field(1, 0, quadrant, 0) \cup Field(15, 13, funct3, 0)
        rd == Field(11, 7, i.rd, 0)
        rs1 == Field(11, 7, i.rs1, 0)
        rs2 == Field(6, 2, i.rs2, 0)
        rdp == Field(4, 2, i.rd - 8, 0)
        rs1p == Field(9, 7, i.rs1 - 8, 0)
        rs2p == Field(4, 2, i.rs2 - 8, 0)
        imm6 == Imm(12, 12, 5) \cup Imm(6, 2, 0)
        immJ == Imm(12, 12, 11) \cup Imm(11, 11, 4) \cup Imm(10, 9, 8) \cup Imm(8, 8, 10)
                \cup Imm(7, 7, 6) \cup Imm(6, 6, 7) \cup Imm(5, 3, 1) \cup Imm(2, 2, 5)
        immB == Imm(12, 12, 8) \cup Imm(11, 10, 3) \cup Imm(6, 5, 6) \cup Imm(4, 3, 1)
                \cup Imm(2, 2, 5)
        immW == Imm(12, 10, 3) \cup Imm(6, 6, 2) \cup Imm(5, 5, 6)
        immD == Imm(12, 10, 3) \cup Imm(6, 5, 6)
    IN  CASE i.c = "C_ADDI4SPN" ->
                Q(0, 0) \cup rdp \cup Imm(12, 11, 4) \cup Imm(10, 7, 6) \cup Imm(6, 6, 2)
                    \cup Imm(5, 5, 3)
          [] i.c = "C_LW" -> Q(0, 2) \cup rs1p \cup rdp \cup immW
          [] i.c = "C_LD" -> Q(0, 3) \cup rs1p \cup rdp \cup immD
          [] i.c = "C_SW" -> Q(0, 6) \cup rs1p \cup rs2p \cup immW
          [] i.c = "C_SD" -> Q(0, 7) \cup rs1p \cup rs2p \cup immD
          [] i.c = "C_ADDI" -> Q(1, 0) \cup rd \cup imm6
          [] i.c = "C_JAL" -> Q(1, 1) \cup immJ
          [] i.c = "C_ADDIW" -> Q(1, 1) \cup rd \cup imm6
          [] i.c = "C_LI" -> Q(1, 2) \cup rd \cup imm6
          [] i.c = "C_ADDI16SP" ->
                Q(1, 3) \cup rd \cup Imm(12, 12, 9) \cup Imm(6, 6, 4) \cup Imm(5, 5, 6)
                    \cup Imm(4, 3, 7) \cup Imm(2, 2, 5)
          [] i.c = "C_LUI" -> Q(1, 3) \cup rd \cup imm6
          [] i.c = "C_SRLI" -> Q(1, 4) \cup rs1p \cup imm6
          [] i.c = "C_SRAI" -> Q(1, 4) \cup rs1p \cup imm6 \cup {10}
          [] i.c = "C_ANDI" -> Q(1, 4) \cup rs1p \cup imm6 \cup {11}
          [] i.c = "C_SUB" -> Q(1, 4) \cup rs1p \cup rs2p \cup {11, 10}
          [] i.c = "C_XOR" -> Q(1, 4) \cup rs1p \cup rs2p \cup {11, 10, 5}
          [] i.c = "C_OR" -> Q(1, 4) \cup rs1p \cup rs2p \cup {11, 10, 6}
          [] i.c = "C_AND" -> Q(1, 4) \cup rs1p \cup rs2p \cup {11, 10, 6, 5}
          [] i.c = "C_SUBW" -> Q(1, 4) \cup rs1p \cup rs2p \cup {12, 11, 10}
          [] i.c = "C_ADDW" -> Q(1, 4) \cup rs1p \cup rs2p \cup {12, 11, 10, 5}
          [] i.c = "C_J" -> Q(1, 5) \cup immJ
          [] i.c = "C_BEQZ" -> Q(1, 6) \cup rs1p \cup immB
          [] i.c = "C_BNEZ" -> Q(1, 7) \cup rs1p \cup immB
          [] i.c = "C_SLLI" -> Q(2, 0) \cup rd \cup imm6
          [] i.c = "C_LWSP" -> Q(2, 2) \cup rd \cup Imm(12, 12, 5) \cup Imm(6, 4, 2) \cup Imm(3, 2, 6)
          [] i.c = "C_LDSP" -> Q(2, 3) \cup rd \cup Imm(12, 12, 5) \cup Imm(6, 5, 3) \cup Imm(4, 2, 6)
          [] i.c = "C_JR" -> Q(2, 4) \cup rs1
          [] i.c = "C_MV" -> Q(2, 4) \cup rd \cup rs2
          [] i.c = "C_JALR" -> Q(2, 4) \cup rs1 \cup {12}
          [] i.c = "C_ADD" -> Q(2, 4) \cup rd \cup rs2 \cup {12}
          [] i.c = "C_SWSP" -> Q(2, 6) \cup rs2 \cup Imm(12, 9, 2) \cup Imm(8, 7, 6)
          [] i.c = "C_SDSP" -> Q(2, 7) \cup rs2 \cup Imm(12, 10, 3) \cup Imm(9, 7, 6)

Assemble(i) == IF i.c = "-" THEN Assemble32(i) ELSE Assemble16(i)

(* The operands fit into the fields: an immediate of n bits is a multiple  *)
(* of m, a register of three bits is one of x8 to x15, and an instruction  *)
(* with one field for rd and rs1 has them equal.                           *)
Encodable(i) ==
    LET Sign(n, m) == i.imm \in -(2^(n - 1)) .. 2^(n - 1) - 1 /\ i.imm % m = 0
        Zero(n, m) == i.imm \in 0 .. 2^n - 1 /\ i.imm % m = 0
        Short(r) == r \in 8 .. 15
    IN  CASE i.c = "-" /\ i.op \in ITypeOps \cup StoreOps -> Sign(12, 1)
          [] i.c = "-" /\ i.op \in BranchOps -> Sign(13, 2)
          [] i.c = "-" /\ i.op = "JAL" -> Sign(21, 2)
          [] i.c = "-" /\ i.op \in UpperOps -> Zero(20, 1)
          [] i.c = "C_ADDI4SPN" -> Zero(10, 4) /\ Short(i.rd) /\ i.rs1 = 2
          [] i.c = "C_LW" -> Zero(7, 4) /\ Short(i.rd) /\ Short(i.rs1)
          [] i.c = "C_LD" -> Zero(8, 8) /\ Short(i.rd) /\ Short(i.rs1)
          [] i.c = "C_SW" -> Zero(7, 4) /\ Short(i.rs1) /\ Short(i.rs2)
          [] i.c = "C_SD" -> Zero(8, 8) /\ Short(i.rs1) /\ Short(i.rs2)
          [] i.c \in {"C_ADDI", "C_ADDIW"} -> Sign(6, 1) /\ i.rd = i.rs1
          [] i.c \in {"C_J", "C_JAL"} -> Sign(12, 2)
          [] i.c = "C_LI" -> Sign(6, 1) /\ i.rs1 = 0
          [] i.c = "C_ADDI16SP" -> Sign(10, 16) /\ i.rd = 2 /\ i.rs1 = 2
          [] i.c = "C_LUI" -> Sign(6, 1)
          [] i.c \in {"C_SRLI", "C_SRAI"} -> Zero(6, 1) /\ Short(i.rd) /\ i.rd = i.rs1
          [] i.c = "C_ANDI" -> Sign(6, 1) /\ Short(i.rd) /\ i.rd = i.rs1
          [] i.c \in {"C_SUB", "C_XOR", "C_OR", "C_AND", "C_SUBW", "C_ADDW"} ->
                Short(i.rd) /\ i.rd = i.rs1 /\ Short(i.rs2)
          [] i.c \in {"C_BEQZ", "C_BNEZ"} -> Sign(9, 2) /\ Short(i.rs1)
          [] i.c = "C_SLLI" -> Zero(6, 1) /\ i.rd = i.rs1
          [] i.c = "C_LWSP" -> Zero(8, 4) /\ i.rs1 = 2
          [] i.c = "C_LDSP" -> Zero(9, 8) /\ i.rs1 = 2
          [] i.c = "C_SWSP" -> Zero(8, 4) /\ i.rs1 = 2
          [] i.c = "C_SDSP" -> Zero(9, 8) /\ i.rs1 = 2
          [] i.c \in {"C_JR", "C_JALR"} -> i.rs1 # 0
          [] i.c = "C_MV" -> i.rs2 # 0
          [] i.c = "C_ADD" -> i.rs2 # 0 /\ i.rd = i.rs1
          [] OTHER -> TRUE

----------------------------------------------------------------------------
(* Meaning.                                                                *)

(* The n-bit result of an operation on n-bit operands. *)
ALU(op, n, a, b) ==
    LET sa == Signed(a, n)
        sb == Signed(b, n)
        Bool(p) == IF p THEN 1 ELSE 0
    IN  CASE op = "ADD" -> a + b
          [] op = "SUB" -> a - b
          [] op = "SLL" -> a * 2^(b % n)
          [] op = "SRL" -> a \div 2^(b % n)
          [] op = "SRA" -> sa \div 2^(b % n)
          [] op = "SLT" -> Bool(sa < sb)
          [] op = "SLTU" -> Bool(a < b)
          [] op = "XOR" -> Xor(a, b, n)
          [] op = "OR" -> Or(a, b, n)
          [] op = "AND" -> And(a, b, n)
          [] op = "MUL" -> a * b
          [] op = "MULH" -> (sa * sb) \div 2^n
          [] op = "MULHSU" -> (sa * b) \div 2^n
          [] op = "MULHU" -> (a * b) \div 2^n
          [] op = "DIV" -> IF b = 0 THEN -1 ELSE Quotient(sa, sb)
          [] op = "DIVU" -> IF b = 0 THEN -1 ELSE a \div b
          [] op = "REM" -> IF b = 0 THEN sa ELSE Remainder(sa, sb)
          [] op = "REMU" -> IF b = 0 THEN a ELSE a % b
          [] op = "SWAP" -> b
          [] op = "MIN" -> IF sa < sb THEN a ELSE b
          [] op = "MAX" -> IF sa > sb THEN a ELSE b
          [] op = "MINU" -> IF a < b THEN a ELSE b
          [] op = "MAXU" -> IF a > b THEN a ELSE b

(* What the ALU does for an instruction. *)
Function(op) ==
    CASE op \in {"ADD", "ADDI", "ADDW", "ADDIW", "AMOADD", "AMOADD_D"} -> "ADD"
      [] op \in {"SUB", "SUBW"} -> "SUB"
      [] op \in {"SLL", "SLLI", "SLLW", "SLLIW"} -> "SLL"
      [] op \in {"SRL", "SRLI", "SRLW", "SRLIW"} -> "SRL"
      [] op \in {"SRA", "SRAI", "SRAW", "SRAIW"} -> "SRA"
      [] op \in {"SLT", "SLTI"} -> "SLT"
      [] op \in {"SLTU", "SLTIU"} -> "SLTU"
      [] op \in {"XOR", "XORI", "AMOXOR"} -> "XOR"
      [] op \in {"OR", "ORI", "AMOOR"} -> "OR"
      [] op \in {"AND", "ANDI", "AMOAND"} -> "AND"
      [] op \in {"MUL", "MULW"} -> "MUL"
      [] op \in {"DIV", "DIVW"} -> "DIV"
      [] op \in {"DIVU", "DIVUW"} -> "DIVU"
      [] op \in {"REM", "REMW"} -> "REM"
      [] op \in {"REMU", "REMUW"} -> "REMU"
      [] op \in {"MULH", "MULHSU", "MULHU"} -> op
      [] op = "AMOSWAP" -> "SWAP"
      [] op = "AMOMIN" -> "MIN" [] op = "AMOMAX" -> "MAX"
      [] op = "AMOMINU" -> "MINU" [] op = "AMOMAXU" -> "MAXU"

(* The bytes that an instruction loads or stores. *)
Bytes(op) ==
    CASE op \in {"LB", "LBU", "SB"} -> 1
      [] op \in {"LH", "LHU", "SH"} -> 2
      [] op \in {"LW", "LWU", "SW"} \cup (AmoOps \ {"AMOADD_D"}) -> 4
      [] op \in {"LD", "SD", "AMOADD_D"} -> 8

(* The hart after instruction i. *)
Result(h, i) ==
    LET n == XLEN(h.t)
        a == h.x[i.rs1]
        b == IF i.op \in ImmOps THEN Unsigned(i.imm, n) ELSE h.x[i.rs2]
        length == IF i.c = "-" THEN 4 ELSE 2
        Then(g) == setPC(g, h.pc + length)
        addr == Unsigned(a + i.imm, n)
        size == Bytes(i.op)
        m == size * ByteBits
    IN  CASE i.op \in ComputeOps \ WordOps ->
                Then(setValue(h, i.rd, ALU(Function(i.op), n, a, b)))
          [] i.op \in WordOps ->
                Then(setValue(h, i.rd, Signed(ALU(Function(i.op), W, Unsigned(a, W), Unsigned(b, W)), W)))
          [] i.op \in AmoOps ->
                LET old == readDataMem(h, a, size)
                    new == Unsigned(ALU(Function(i.op), m, old, Unsigned(b, m)), m)
                IN  IF Inside(a, size)
                    THEN Then(setValue(writeDataMem(h, a, new, size), i.rd, Signed(old, m)))
                    ELSE Fault(h, "outside")
          [] i.op \in LoadOps ->
                LET data == readDataMem(h, addr, size)
                IN  IF Inside(addr, size)
                    THEN Then(setValue(h, i.rd,
                                       IF i.op \in {"LBU", "LHU", "LWU"} THEN data ELSE Signed(data, m)))
                    ELSE Fault(h, "outside")
          [] i.op \in StoreOps ->
                IF Inside(addr, size) THEN Then(writeDataMem(h, addr, b, size)) ELSE Fault(h, "outside")
          [] i.op \in BranchOps ->
                LET sa == Signed(a, n)
                    sb == Signed(b, n)
                    taken == CASE i.op = "BEQ" -> a = b [] i.op = "BNE" -> a # b
                               [] i.op = "BLT" -> sa < sb [] i.op = "BGE" -> sa >= sb
                               [] i.op = "BLTU" -> a < b [] i.op = "BGEU" -> a >= b
                IN  setPC(h, h.pc + (IF taken THEN i.imm ELSE length))
          [] i.op = "JAL" -> setPC(setValue(h, i.rd, h.pc + length), h.pc + i.imm)
          [] i.op = "JALR" -> setPC(setValue(h, i.rd, h.pc + length), 2 * (addr \div 2))
          [] i.op = "LUI" -> Then(setValue(h, i.rd, Signed(i.imm * 2^UShift, IF i.c = "-" THEN W ELSE n)))
          [] i.op = "AUIPC" -> Then(setValue(h, i.rd, h.pc + Signed(i.imm * 2^UShift, W)))
          [] i.op = "FENCE" -> Then(h)

(* The instruction that a compressed one abbreviates. *)
Expansion(c) ==
    CASE c \in {"C_ADDI4SPN", "C_ADDI", "C_LI", "C_ADDI16SP"} -> "ADDI"
      [] c = "C_LUI" -> "LUI" [] c = "C_ADDIW" -> "ADDIW" [] c = "C_ANDI" -> "ANDI"
      [] c = "C_SLLI" -> "SLLI" [] c = "C_SRLI" -> "SRLI" [] c = "C_SRAI" -> "SRAI"
      [] c \in {"C_MV", "C_ADD"} -> "ADD" [] c = "C_SUB" -> "SUB"
      [] c = "C_ADDW" -> "ADDW" [] c = "C_SUBW" -> "SUBW"
      [] c = "C_XOR" -> "XOR" [] c = "C_OR" -> "OR" [] c = "C_AND" -> "AND"
      [] c \in {"C_LW", "C_LWSP"} -> "LW" [] c \in {"C_LD", "C_LDSP"} -> "LD"
      [] c \in {"C_SW", "C_SWSP"} -> "SW" [] c \in {"C_SD", "C_SDSP"} -> "SD"
      [] c = "C_BEQZ" -> "BEQ" [] c = "C_BNEZ" -> "BNE"
      [] c \in {"C_J", "C_JAL"} -> "JAL" [] c \in {"C_JR", "C_JALR"} -> "JALR"
      [] OTHER -> "none"

(* The operands that a compressed instruction does not name are fixed. *)
Instruction(i) ==
    /\ i.op \in Ops /\ (i.c # "-" => i.op = Expansion(i.c))
    /\ {i.rd, i.rs1, i.rs2} \subseteq Regs
    /\ i.imm \in IF i.op \in ShiftOps THEN 0 .. 63 ELSE Int
    /\ i.c \in {"C_J", "C_JR"} => i.rd = 0
    /\ i.c \in {"C_JAL", "C_JALR"} => i.rd = 1
    /\ i.c \in {"C_JR", "C_JALR"} => i.imm = 0
    /\ i.c \in {"C_BEQZ", "C_BNEZ"} => i.rs2 = 0
    /\ i.c = "C_MV" => i.rs1 = 0

(* i is an instruction of this hart's ISA, and not a reserved encoding. *)
Legal(t, i) ==
    /\ t = "RV32" => i.op \notin Only64
    /\ i.c = "C_JAL" => t = "RV32"
    /\ i.op \in {"SLLI", "SRLI", "SRAI"} => i.imm < XLEN(t)
    /\ i.op \in {"SLLIW", "SRLIW", "SRAIW"} => i.imm < W
    /\ i.c = "C_ADDI4SPN" => i.imm # 0
    /\ i.c = "C_ADDI16SP" => i.rd = 2
    /\ i.c = "C_LUI" => i.rd # 2
=============================================================================
