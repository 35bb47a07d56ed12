--------------------------------- MODULE Isa ---------------------------------
(***************************************************************************)
(* The instructions that compute, load, store and jump, for both widths of *)
(* the registers, as operators on a hart h and the operands d:             *)
(* inc/BASE_ISA.h, src/BASE_ISA.cpp, inc/C_extension.h, inc/M_extension.h, *)
(* src/M_extension.cpp and inc/A_extension.h.  System instructions and     *)
(* exceptions are in CpuIrq, LR and SC in AExt.                            *)
(*                                                                         *)
(* std::int32_t is Signed(_, W) and std::uint32_t Unsigned(_, W).          *)
(***************************************************************************)
EXTENDS Decoder

incPC(h) == setPC(h, h.pc + 4)
incPCby2(h) == setPC(h, h.pc + 2)

Sx(h, r) == Signed(h.x[r], XLEN(h.t))

----------------------------------------------------------------------------
(* BASE_ISA                                                                *)

Exec_LUI_AUIPC(h, op, d) ==
    LET imm == Signed(d.imm * 2^UShift, W)
    IN  incPC(setValue(h, d.rd, IF op = "LUI" THEN imm ELSE h.pc + imm))

Exec_JAL(h, d) == setValue(setPC(h, h.pc + d.imm), d.rd, h.pc + 4)

Exec_JALR_LinkFirst(h, d) ==    \* Mutant: rd is written before rs1 is read.
    LET g == setValue(h, d.rd, h.pc + 4)
    IN  setPC(g, 2 * ((g.x[d.rs1] + d.imm) \div 2))

Exec_JALR(h, d) ==
    LET new_pc == 2 * ((h.x[d.rs1] + d.imm) \div 2)
    IN  setPC(setValue(h, d.rd, h.pc + 4), new_pc)

Exec_Branch(h, op, d) ==
    LET taken == CASE op = "BEQ" -> h.x[d.rs1] = h.x[d.rs2]
                   [] op = "BNE" -> h.x[d.rs1] # h.x[d.rs2]
                   [] op = "BLT" -> Sx(h, d.rs1) < Sx(h, d.rs2)
                   [] op = "BGE" -> Sx(h, d.rs1) >= Sx(h, d.rs2)
                   [] op = "BLTU" -> h.x[d.rs1] < h.x[d.rs2]
                   [] op = "BGEU" -> h.x[d.rs1] >= h.x[d.rs2]
    IN  IF taken THEN setPC(h, h.pc + d.imm) ELSE incPC(h)

(* Two readings of four bytes, the second one shifted up. *)
ReadDouble(h, addr) == readDataMem(h, addr, 4) + readDataMem(h, addr + 4, 4) * 2^W

WriteDouble(h, addr, data) ==
    writeDataMem(writeDataMem(h, addr, data % 2^W, 4), addr + 4, data \div 2^W, 4)

Exec_Load(h, op, d) ==
    LET mem_addr == Unsigned(d.imm + h.x[d.rs1], XLEN(h.t))
        size == CASE op \in {"LB", "LBU"} -> 1 [] op \in {"LH", "LHU"} -> 2
                  [] op \in {"LW", "LWU"} -> 4 [] op = "LD" -> 8
        data == CASE op = "LD" -> ReadDouble(h, mem_addr)
                  [] op \in {"LB", "LH", "LW"} ->
                        Signed(readDataMem(h, mem_addr, size), size * ByteBits)
                  [] OTHER -> readDataMem(h, mem_addr, size)
    IN  IF Inside(mem_addr, size) THEN incPC(setValue(h, d.rd, data)) ELSE Fault(h, "outside")

Exec_Store(h, op, d) ==
    LET mem_addr == Unsigned(d.imm + h.x[d.rs1], XLEN(h.t))
        size == CASE op = "SB" -> 1 [] op = "SH" -> 2 [] op = "SW" -> 4 [] op = "SD" -> 8
        data == h.x[d.rs2]
    IN  CASE ~Inside(mem_addr, size) -> Fault(h, "outside")
          [] Inside(mem_addr, size) /\ op = "SD" -> incPC(WriteDouble(h, mem_addr, data))
          [] OTHER -> incPC(writeDataMem(h, mem_addr, Unsigned(data, W), size))

Exec_OpImm(h, op, d) ==
    LET n == XLEN(h.t)
        a == h.x[d.rs1]
        imm == Unsigned(d.imm, n)
    IN  incPC(setValue(h, d.rd,
            CASE op = "ADDI" -> a + imm
              [] op = "SLTI" -> IF Sx(h, d.rs1) < Signed(d.imm, n) THEN 1 ELSE 0
              [] op = "SLTIU" -> IF a < imm THEN 1 ELSE 0
              [] op = "XORI" -> Xor(a, imm, n)
              [] op = "ORI" -> Or(a, imm, n)
              [] op = "ANDI" -> And(a, imm, n)
              [] op = "ADDIW" -> Signed(Signed(a, W) + d.imm, W)))

(* SLLI, SLLIW and SRLIW refuse an amount of the registers' or the word's  *)
(* width; SRLI, SRAI and SRAIW mask it.                                    *)
Exec_ShiftImm(h, op, d) ==
    LET n == XLEN(h.t)
        a == h.x[d.rs1]
    IN  IF \/ op = "SLLI" /\ d.imm >= n
           \/ op \in {"SLLIW", "SRLIW"} /\ d.imm >= W
        THEN Fault(h, "illegal")
        ELSE incPC(setValue(h, d.rd,
            CASE op = "SLLI" -> a * 2^(d.imm % n)
              [] op = "SRLI" -> a \div 2^(d.imm % n)
              [] op = "SRAI" -> Sx(h, d.rs1) \div 2^(d.imm % n)
              [] op = "SLLIW" -> Signed(Unsigned(a, W) * 2^(d.imm % W), W)
              [] op = "SRLIW" -> Signed(Unsigned(a, W) \div 2^(d.imm % W), W)
              [] op = "SRAIW" -> Signed(a, W) \div 2^(d.imm % W)))

(* ADDW, SUBW, SLLW, SRLW and SRAW *)
Exec_OpW(h, op, d) ==
    LET a == h.x[d.rs1]
        b == h.x[d.rs2]
        shift == b % W
    IN  incPC(setValue(h, d.rd,
            CASE op = "ADDW" -> Signed(a + b, W)
              [] op = "SUBW" -> Signed(a - b, W)
              [] op = "SLLW" -> Signed(Signed(a, W) * 2^shift, W)
              [] op = "SRLW" -> Signed(Unsigned(a, W) \div 2^shift, W)
              [] op = "SRAW" -> Signed(a, W) \div 2^shift))

Exec_Op(h, op, d) ==
    LET n == XLEN(h.t)
        a == h.x[d.rs1]
        b == h.x[d.rs2]
    IN  incPC(setValue(h, d.rd,
            CASE op = "ADD" -> Sx(h, d.rs1) + Sx(h, d.rs2)
              [] op = "SUB" -> Sx(h, d.rs1) - Sx(h, d.rs2)
              [] op = "SLT" -> IF Sx(h, d.rs1) < Sx(h, d.rs2) THEN 1 ELSE 0
              [] op = "SLTU" -> IF a < b THEN 1 ELSE 0
              [] op = "XOR" -> Xor(a, b, n)
              [] op = "OR" -> Or(a, b, n)
              [] op = "AND" -> And(a, b, n)))

(* SLL, SRL and SRA *)
Exec_Shift(h, op, d) ==
    LET n == XLEN(h.t)
        shift == h.x[d.rs2] % n
    IN  incPC(setValue(h, d.rd,
            CASE op = "SLL" -> h.x[d.rs1] * 2^shift
              [] op = "SRL" -> h.x[d.rs1] \div 2^shift
              [] op = "SRA" -> Sx(h, d.rs1) \div 2^shift))

(* That a FENCE in front of an ECALL stops the simulation is in IrqTiming. *)
base_exec_instruction(h, op, d) ==
    CASE op \in {"LUI", "AUIPC"} -> Exec_LUI_AUIPC(h, op, d)
      [] op = "JAL" -> Exec_JAL(h, d)
      [] op = "JALR" -> Exec_JALR(h, d)
      [] op \in {"BEQ", "BNE", "BLT", "BGE", "BLTU", "BGEU"} -> Exec_Branch(h, op, d)
      [] op \in {"LB", "LH", "LW", "LBU", "LHU", "LWU", "LD"} -> Exec_Load(h, op, d)
      [] op \in {"SB", "SH", "SW", "SD"} -> Exec_Store(h, op, d)
      [] op \in {"ADDI", "SLTI", "SLTIU", "XORI", "ORI", "ANDI", "ADDIW"} -> Exec_OpImm(h, op, d)
      [] op \in {"SLLI", "SRLI", "SRAI", "SLLIW", "SRLIW", "SRAIW"} -> Exec_ShiftImm(h, op, d)
      [] op \in {"ADDW", "SUBW", "SLLW", "SRLW", "SRAW"} -> Exec_OpW(h, op, d)
      [] op \in {"ADD", "SUB", "SLT", "SLTU", "XOR", "OR", "AND"} -> Exec_Op(h, op, d)
      [] op \in {"SLL", "SRL", "SRA"} -> Exec_Shift(h, op, d)
      [] op = "FENCE" -> incPC(h)

----------------------------------------------------------------------------
(* C_extension                                                             *)

(* The two jumps through a register mask the target with 0xFFFFFFFE, and   *)
(* C.JALR and C.JAL hold the PC in 32 bits, on RV64 too.                   *)
Exec_C_Jump(h, op, d) ==
    LET target == 2 * (Unsigned(h.x[d.rs1], W) \div 2)
        old_pc == Unsigned(h.pc, W)
    IN  CASE op = "C_JR" -> setPC(h, target)
          [] op = "C_JALR" -> setPC(setValue(h, 1, Unsigned(old_pc + 2, W)), target)
          [] op \in {"C_J", "C_JAL"} ->
                setValue(setPC(h, Unsigned(old_pc + d.imm, W)), d.rd, Unsigned(old_pc + 2, W))

(* Mutant: a branch that is not taken steps over four bytes. *)
Exec_C_Branch_By4(h, op, d) ==
    IF (op = "C_BEQZ") = (h.x[d.rs1] = 0) THEN setPC(h, h.pc + d.imm) ELSE incPC(h)

Exec_C_Branch(h, op, d) ==
    IF (op = "C_BEQZ") = (h.x[d.rs1] = 0) THEN setPC(h, h.pc + d.imm) ELSE incPCby2(h)

Exec_C_Load(h, op, d) ==
    LET mem_addr == Unsigned(d.imm + h.x[d.rs1], XLEN(h.t))
        double == op \in {"C_LD", "C_LDSP"}
        data == IF double THEN ReadDouble(h, mem_addr) ELSE Signed(readDataMem(h, mem_addr, 4), W)
    IN  IF Inside(mem_addr, IF double THEN 8 ELSE 4)
        THEN incPCby2(setValue(h, d.rd, data))
        ELSE Fault(h, "outside")

(* C.SW and C.SWSP hold the address in 32 bits, on RV64 too. *)
Exec_C_Store(h, op, d) ==
    LET double == op \in {"C_SD", "C_SDSP"}
        mem_addr == Unsigned(d.imm + h.x[d.rs1], IF double THEN XLEN(h.t) ELSE W)
        data == h.x[d.rs2]
    IN  CASE ~Inside(mem_addr, IF double THEN 8 ELSE 4) -> Fault(h, "outside")
          [] Inside(mem_addr, IF double THEN 8 ELSE 4) /\ double ->
                incPCby2(WriteDouble(h, mem_addr, data))
          [] OTHER -> incPCby2(writeDataMem(h, mem_addr, Unsigned(data, W), 4))

(* The amount is the sign-extended immediate: the host's shift takes it    *)
(* modulo the registers' width.                                            *)
Exec_C_Shift(h, op, d) ==
    LET n == XLEN(h.t)
        shift == d.imm % n
    IN  incPCby2(setValue(h, d.rd,
            CASE op = "C_SRLI" -> h.x[d.rs1] \div 2^shift
              [] op = "C_SRAI" -> Sx(h, d.rs1) \div 2^shift
              [] op = "C_SLLI" -> h.x[d.rs1] * 2^shift))

Exec_C_Imm(h, op, d) ==
    LET a == h.x[d.rs1]
        n == XLEN(h.t)
    IN  IF op = "C_ADDI4SPN" /\ d.imm = 0 THEN Fault(h, "illegal")
        ELSE incPCby2(setValue(h, d.rd,
            CASE op \in {"C_ADDI4SPN", "C_ADDI", "C_LI"} -> a + d.imm
              [] op = "C_ADDI16SP" -> IF d.rd = 2 THEN a + d.imm ELSE d.imm * 2^UShift
              [] op = "C_ADDIW" -> Signed(Signed(a, W) + d.imm, W)
              [] op = "C_ANDI" -> And(a, Unsigned(d.imm, n), n)))

Exec_C_Op(h, op, d) ==
    LET n == XLEN(h.t)
        a == h.x[d.rs1]
        b == h.x[d.rs2]
    IN  incPCby2(setValue(h, d.rd,
            CASE op = "C_MV" -> b
              [] op = "C_ADD" -> a + b
              [] op = "C_SUB" -> a - b
              [] op = "C_SUBW" -> Signed(a - b, W)
              [] op = "C_ADDW" -> Signed(a + b, W)
              [] op = "C_XOR" -> Xor(a, b, n)
              [] op = "C_OR" -> Or(a, b, n)
              [] op = "C_AND" -> And(a, b, n)))

C_exec_instruction(h, op, d) ==
    CASE op \in {"C_JR", "C_JALR", "C_J", "C_JAL"} -> Exec_C_Jump(h, op, d)
      [] op \in {"C_BEQZ", "C_BNEZ"} -> Exec_C_Branch(h, op, d)
      [] op \in {"C_LW", "C_LD", "C_LWSP", "C_LDSP"} -> Exec_C_Load(h, op, d)
      [] op \in {"C_SW", "C_SD", "C_SWSP", "C_SDSP"} -> Exec_C_Store(h, op, d)
      [] op \in {"C_SRLI", "C_SRAI", "C_SLLI"} -> Exec_C_Shift(h, op, d)
      [] op \in {"C_ADDI4SPN", "C_ADDI", "C_LI", "C_ADDI16SP", "C_ADDIW", "C_ANDI"} ->
            Exec_C_Imm(h, op, d)
      [] op \in {"C_MV", "C_ADD", "C_SUB", "C_SUBW", "C_ADDW", "C_XOR", "C_OR", "C_AND"} ->
            Exec_C_Op(h, op, d)

----------------------------------------------------------------------------
(* M_extension                                                             *)

(* MUL and MULW, and the high halves of RV32 (64 bits) and RV64 (128 bits) *)
Exec_M_Mul(h, op, d) ==
    LET n == XLEN(h.t)
        a == h.x[d.rs1]
        b == h.x[d.rs2]
    IN  incPC(setValue(h, d.rd,
            CASE op = "MUL" -> Sx(h, d.rs1) * Sx(h, d.rs2)
              [] op = "MULH" -> (Sx(h, d.rs1) * Sx(h, d.rs2)) \div 2^n
              [] op = "MULHSU" -> (Sx(h, d.rs1) * b) \div 2^n
              [] op = "MULHU" -> (a * b) \div 2^n
              [] op = "MULW" -> Signed(Unsigned(a, W) * Unsigned(b, W), W)))

(* The overflow test of DIV and REM compares with the most negative 32-bit *)
(* number on RV64 too; there, the most negative 64-bit number over -1 is   *)
(* left to the host's division, which traps (SIGFPE).                      *)
Exec_M_Div(h, op, d) ==
    LET n == XLEN(h.t)
        dividend == Sx(h, d.rs1)
        divisor == Sx(h, d.rs2)
        special == divisor = -1 /\ dividend = -(2^(W - 1))
        traps == divisor = -1 /\ dividend = -(2^(n - 1)) /\ ~special
    IN  IF traps THEN Fault(h, "crash")
        ELSE incPC(setValue(h, d.rd,
            CASE divisor = 0 -> IF op = "DIV" THEN -1 ELSE dividend
              [] special -> IF op = "DIV" THEN 2^(W - 1) ELSE 0
              [] OTHER -> IF op = "DIV" THEN Quotient(dividend, divisor)
                          ELSE Remainder(dividend, divisor)))

Exec_M_DivU_NoZero(h, op, d) ==   \* Mutant: division by zero yields zero.
    LET dividend == h.x[d.rs1]
        divisor == h.x[d.rs2]
    IN  incPC(setValue(h, d.rd,
            IF divisor = 0 THEN 0
            ELSE IF op = "DIVU" THEN dividend \div divisor ELSE dividend % divisor))

Exec_M_DivU(h, op, d) ==
    LET dividend == h.x[d.rs1]
        divisor == h.x[d.rs2]
    IN  incPC(setValue(h, d.rd,
            IF divisor = 0 THEN IF op = "DIVU" THEN -1 ELSE dividend
            ELSE IF op = "DIVU" THEN dividend \div divisor ELSE dividend % divisor))

(* 0x0000000080000000 is a positive 64-bit number; REMW answers 0 to every *)
(* divisor -1; DIVUW has an overflow case, which unsigned division has not *)
Exec_M_DivW(h, op, d) ==
    LET dividend == Signed(h.x[d.rs1], W)
        divisor == Signed(h.x[d.rs2], W)
        special == divisor = -1 /\ dividend = -(2^(W - 1))
    IN  incPC(setValue(h, d.rd,
            CASE divisor = 0 -> IF op = "DIVW" THEN -1 ELSE dividend
              [] divisor # 0 /\ op = "DIVW" ->
                    IF special THEN 2^(W - 1) ELSE Quotient(dividend, divisor)
              [] divisor # 0 /\ op = "REMW" ->
                    IF divisor = -1 THEN 0 ELSE Remainder(dividend, divisor)))

Exec_M_DivUW(h, op, d) ==
    LET dividend == Unsigned(h.x[d.rs1], W)
        divisor == Unsigned(h.x[d.rs2], W)
        special == divisor = 2^W - 1 /\ dividend = 2^(W - 1)
    IN  incPC(setValue(h, d.rd,
            CASE divisor = 0 -> IF op = "DIVUW" THEN -1 ELSE Signed(dividend, W)
              [] divisor # 0 /\ op = "DIVUW" ->
                    IF special THEN 2^(W - 1) ELSE Signed(dividend \div divisor, W)
              [] divisor # 0 /\ op = "REMUW" -> Signed(dividend % divisor, W)))

M_exec_instruction(h, op, d) ==
    CASE op \in {"MUL", "MULH", "MULHSU", "MULHU", "MULW"} -> Exec_M_Mul(h, op, d)
      [] op \in {"DIV", "REM"} -> Exec_M_Div(h, op, d)
      [] op \in {"DIVU", "REMU"} -> Exec_M_DivU(h, op, d)
      [] op \in {"DIVW", "REMW"} -> Exec_M_DivW(h, op, d)
      [] op \in {"DIVUW", "REMUW"} -> Exec_M_DivUW(h, op, d)

----------------------------------------------------------------------------
(* A_extension: the word is loaded, rd is written, and only then is rs2    *)
(* read.  The address is 32 bits and the data a word, on RV64 too.         *)

AmoResult(op, data, aux) ==
    CASE op = "AMOSWAP" -> aux
      [] op = "AMOADD" -> Unsigned(data + aux, W)
      [] op = "AMOXOR" -> Xor(data, aux, W)
      [] op = "AMOAND" -> And(data, aux, W)
      [] op = "AMOOR" -> Or(data, aux, W)
      [] op = "AMOMIN" -> IF Signed(data, W) < Signed(aux, W) THEN data ELSE aux
      [] op = "AMOMAX" -> IF Signed(data, W) > Signed(aux, W) THEN data ELSE aux
      [] op = "AMOMINU" -> IF data < aux THEN data ELSE aux
      [] op = "AMOMAXU" -> IF data > aux THEN data ELSE aux

Exec_A_AMO_SignedMinu(h, op, d) ==   \* Mutant: MINU compares signed numbers.
    LET mem_addr == Unsigned(h.x[d.rs1], W)
        data == readDataMem(h, mem_addr, 4)
        g == setValue(h, d.rd, Signed(data, W))
        aux == Unsigned(g.x[d.rs2], W)
        min == IF op = "AMOMINU" THEN "AMOMIN" ELSE op
    IN  IF Inside(mem_addr, 4)
        THEN incPC(writeDataMem(IF op = "AMOSWAP" THEN setValue(g, d.rs2, Signed(data, W)) ELSE g,
                                mem_addr, AmoResult(min, data, aux), 4))
        ELSE Fault(h, "outside")

Exec_A_AMO(h, op, d) ==
    LET mem_addr == Unsigned(h.x[d.rs1], W)
        data == readDataMem(h, mem_addr, 4)
        g == setValue(h, d.rd, Signed(data, W))
        aux == Unsigned(g.x[d.rs2], W)
    IN  IF Inside(mem_addr, 4)
        THEN incPC(writeDataMem(IF op = "AMOSWAP" THEN setValue(g, d.rs2, Signed(data, W)) ELSE g,
                                mem_addr, AmoResult(op, data, aux), 4))
        ELSE Fault(h, "outside")
=============================================================================
