------------------------------ MODULE Decoder ------------------------------
(***************************************************************************)
(* From an instruction word to an operation and its operands: the decoders *)
(* and the immediates' getters of inc/BASE_ISA.h, src/BASE_ISA.cpp,        *)
(* inc/C_extension.h, inc/M_extension.h and inc/A_extension.h, and the     *)
(* order in which CPU_step asks them.  The template parameter (the width   *)
(* of the registers) is t, "RV32" or "RV64".                               *)
(***************************************************************************)
EXTENDS Word

----------------------------------------------------------------------------
(* Immediates: a getter ors together fields of the word, each shifted into *)
(* place, and fills with ones from some position when the sign is set.     *)

Part(w, hi, lo, shift) == range(w, hi, lo) * 2^shift
Fill(v, from, sign) == IF sign THEN (v % 2^from) - 2^from ELSE v

get_imm_I(w) == Fill(Part(w, 31, 20, 0), 12, 31 \in w)
get_imm_S(w) == Fill(Part(w, 31, 25, 5) + Part(w, 11, 7, 0), 12, 31 \in w)

(* Mutant: bits 7 and 8 .. 11 read as one field. *)
get_imm_B_Contiguous(w) ==
    Fill(Part(w, 30, 25, 5) + Part(w, 31, 31, 12) + Part(w, 11, 7, 0), 12, 31 \in w)

get_imm_B(w) ==
    Fill(Part(w, 7, 7, 11) + Part(w, 30, 25, 5) + Part(w, 31, 31, 12) + Part(w, 11, 8, 1),
         12, 31 \in w)
get_imm_J(w) ==
    Fill(Part(w, 31, 31, 20) + Part(w, 19, 12, 12) + Part(w, 20, 20, 11) + Part(w, 30, 21, 1),
         20, 31 \in w)
get_imm_U(w) == range(w, 31, 12)

C_get_imm_J(w) ==
    Fill(Part(w, 12, 12, 11) + Part(w, 11, 11, 4) + Part(w, 10, 10, 9) + Part(w, 9, 9, 8)
         + Part(w, 8, 8, 10) + Part(w, 7, 7, 6) + Part(w, 6, 6, 7) + Part(w, 5, 3, 1)
         + Part(w, 2, 2, 5), 12, 12 \in w)
C_get_imm_L(w) == Part(w, 12, 10, 3) + Part(w, 6, 6, 2) + Part(w, 5, 5, 6)
C_get_imm_LWSP(w) == Part(w, 12, 12, 5) + Part(w, 6, 4, 2) + Part(w, 3, 2, 6)
C_get_imm_LDSP(w) == Part(w, 12, 12, 5) + Part(w, 6, 5, 3) + Part(w, 4, 2, 6)
C_get_imm_ADDI(w) == Fill(Part(w, 12, 12, 5) + Part(w, 6, 2, 0), 6, 12 \in w)
C_get_imm_ADDI4SPN(w) ==
    Part(w, 12, 11, 4) + Part(w, 10, 7, 6) + Part(w, 6, 6, 2) + Part(w, 5, 5, 3)
C_get_imm_ADDI16SP(w) ==
    Fill(Part(w, 12, 12, 9) + Part(w, 6, 6, 4) + Part(w, 5, 5, 6) + Part(w, 4, 4, 8)
         + Part(w, 3, 3, 7) + Part(w, 2, 2, 5), 10, 12 \in w)
C_get_imm_CSS(w) == Part(w, 12, 9, 2) + Part(w, 8, 7, 6)
C_get_imm_CSDSP(w) == Part(w, 12, 10, 3) + Part(w, 9, 7, 6)
C_get_imm_CB(w) ==
    Fill(Part(w, 12, 12, 8) + Part(w, 11, 11, 4) + Part(w, 10, 10, 3) + Part(w, 6, 6, 7)
         + Part(w, 5, 5, 6) + Part(w, 4, 4, 2) + Part(w, 3, 3, 1) + Part(w, 2, 2, 5), 9, 12 \in w)
C_get_imm_CL(w) == Part(w, 12, 10, 3) + Part(w, 6, 5, 6)

(* in units of 2^12, like get_imm_U *)
C_get_imm_LUI(w) == Fill(Part(w, 12, 12, 5) + Part(w, 6, 2, 0), 5, 12 \in w)

----------------------------------------------------------------------------
(* Decoders, each with the switches it goes through.                       *)

BranchCode(f3) ==
    CASE f3 = 0 -> "BEQ" [] f3 = 1 -> "BNE" [] f3 = 4 -> "BLT" [] f3 = 5 -> "BGE"
      [] f3 = 6 -> "BLTU" [] f3 = 7 -> "BGEU" [] OTHER -> "ERROR"

LoadCode(f3) ==
    CASE f3 = 0 -> "LB" [] f3 = 1 -> "LH" [] f3 = 2 -> "LW" [] f3 = 4 -> "LBU"
      [] f3 = 5 -> "LHU" [] f3 = 6 -> "LWU" [] f3 = 3 -> "LD" [] OTHER -> "ERROR"

StoreCode(f3) ==
    CASE f3 = 0 -> "SB" [] f3 = 1 -> "SH" [] f3 = 2 -> "SW" [] f3 = 3 -> "SD" [] OTHER -> "ERROR"

(* The shifts look at the six bits above shamt. *)
ImmCode(f3, top6) ==
    CASE f3 = 0 -> "ADDI" [] f3 = 2 -> "SLTI" [] f3 = 3 -> "SLTIU" [] f3 = 4 -> "XORI"
      [] f3 = 6 -> "ORI" [] f3 = 7 -> "ANDI" [] f3 = 1 -> "SLLI"
      [] f3 = 5 /\ top6 = 0 -> "SRLI" [] f3 = 5 /\ top6 = \b010000 -> "SRAI"
      [] OTHER -> "ERROR"

(* The register operations look at funct7. *)
OpCode(f3, funct7) ==
    CASE f3 = 0 -> IF funct7 = 0 THEN "ADD" ELSE "SUB"
      [] f3 = 1 -> "SLL" [] f3 = 2 -> "SLT" [] f3 = 3 -> "SLTU" [] f3 = 4 -> "XOR"
      [] f3 = 5 -> IF funct7 = 0 THEN "SRL" ELSE "SRA"
      [] f3 = 6 -> "OR" [] f3 = 7 -> "AND" [] OTHER -> "ERROR"

ImmWCode(f3, top6) ==
    CASE f3 = 0 -> "ADDIW" [] f3 = 1 -> "SLLIW"
      [] f3 = 5 /\ top6 = 0 -> "SRLIW" [] f3 = 5 /\ top6 = \b010000 -> "SRAIW"
      [] OTHER -> "ERROR"

OpWCode(f3, top6) ==
    CASE f3 = 0 -> IF top6 = 0 THEN "ADDW" ELSE "SUBW"
      [] f3 = 1 -> "SLLW"
      [] f3 = 5 -> IF top6 = 0 THEN "SRLW" ELSE "SRAW"
      [] OTHER -> "ERROR"

(* One name for the CSR instructions and for what funct3 = 0 has: ECALL,   *)
(* EBREAK, URET, SRET, MRET, WFI and SFENCE, by the field of the CSR or,   *)
(* for SFENCE, by funct7.  Any other value is left to the other decoders.  *)
SystemCode(f3, csr, funct7) ==
    CASE f3 = 0 ->
            IF \/ csr \in {0, 1, 2, \b000100000010, \b001100000010, \b000100000101, \b0001001}
               \/ funct7 = \b0001001
            THEN "SYSTEM" ELSE "ERROR"
      [] f3 \in {1, 2, 3, 5, 6, 7} -> "SYSTEM"
      [] OTHER -> "ERROR"

(* BASE_ISA::decode.  Nothing depends on the registers' width. *)
decode(w) ==
    LET opcode == range(w, 6, 0)
        f3 == range(w, 14, 12)
        funct7 == range(w, 31, 25)
        top6 == range(w, 31, 26)
    IN  CASE opcode = \b0110111 -> "LUI"
          [] opcode = \b0010111 -> "AUIPC"
          [] opcode = \b1101111 -> "JAL"
          [] opcode = \b1100111 -> "JALR"
          [] opcode = \b1100011 -> BranchCode(f3)
          [] opcode = \b0000011 -> LoadCode(f3)
          [] opcode = \b0100011 -> StoreCode(f3)
          [] opcode = \b0010011 -> ImmCode(f3, top6)
          [] opcode = \b0110011 /\ funct7 \in {0, \b0100000} -> OpCode(f3, funct7)
          [] opcode = \b0001111 -> "FENCE"
          [] opcode = \b1110011 -> SystemCode(f3, range(w, 31, 20), funct7)
          [] opcode = \b0011011 -> ImmWCode(f3, top6)
          [] opcode = \b0111011 /\ funct7 \in {0, \b0100000} -> OpWCode(f3, top6)
          [] OTHER -> "ERROR"

(* C_extension::decode, quadrant by quadrant. *)
C_decode_Q0(t, f3) ==
    CASE f3 = 0 -> "C_ADDI4SPN" [] f3 = 1 -> "C_FLD" [] f3 = 2 -> "C_LW"
      [] f3 = 3 -> IF t = "RV32" THEN "C_FLW" ELSE "C_LD"
      [] f3 = 5 -> "C_FSD" [] f3 = 6 -> "C_SW"
      [] f3 = 7 -> IF t = "RV32" THEN "C_FSW" ELSE "C_SD"
      [] OTHER -> "ERROR"

C_decode_Arith(w) ==
    LET f2 == range(w, 11, 10)
        low == range(w, 6, 5)
    IN  CASE f2 = 0 -> "C_SRLI" [] f2 = 1 -> "C_SRAI" [] f2 = 2 -> "C_ANDI"
          [] f2 = 3 /\ low = 0 -> IF 12 \notin w THEN "C_SUB" ELSE "C_SUBW"
          [] f2 = 3 /\ low = 1 -> IF 12 \notin w THEN "C_XOR" ELSE "C_ADDW"
          [] f2 = 3 /\ low = 2 -> "C_OR" [] f2 = 3 /\ low = 3 -> "C_AND"

C_decode_Q1(t, w, f3) ==
    CASE f3 = 0 -> "C_ADDI" [] f3 = 1 -> IF t = "RV32" THEN "C_JAL" ELSE "C_ADDIW"
      [] f3 = 2 -> "C_LI" [] f3 = 3 -> "C_ADDI16SP" [] f3 = 4 -> C_decode_Arith(w)
      [] f3 = 5 -> "C_J" [] f3 = 6 -> "C_BEQZ" [] f3 = 7 -> "C_BNEZ"

C_decode_Jump(w) ==
    CASE 12 \notin w -> IF range(w, 6, 2) = 0 THEN "C_JR" ELSE "C_MV"
      [] 12 \in w /\ range(w, 11, 2) = 0 -> "C_EBREAK"
      [] 12 \in w /\ range(w, 11, 2) # 0 -> IF range(w, 6, 2) = 0 THEN "C_JALR" ELSE "C_ADD"

C_decode_Q2(t, w, f3) ==
    CASE f3 = 0 -> "C_SLLI" [] f3 \in {1, 2} -> "C_LWSP"
      [] f3 = 3 -> IF t = "RV32" THEN "C_FLWSP" ELSE "C_LDSP"
      [] f3 = 4 -> C_decode_Jump(w) [] f3 = 6 -> "C_SWSP"
      [] f3 = 7 -> IF t = "RV32" THEN "C_FSWSP" ELSE "C_SDSP"
      [] OTHER -> "ERROR"

C_decode(t, w) ==
    LET q == range(w, 1, 0)
        f3 == range(w, 15, 13)
    IN  CASE q = 0 -> C_decode_Q0(t, f3)
          [] q = 1 -> C_decode_Q1(t, w, f3)
          [] q = 2 -> C_decode_Q2(t, w, f3)
          [] q = 3 -> "ERROR"

(* M_extension::decode: by funct3, whatever funct7 and, for the W          *)
(* instructions, whatever the opcode.                                      *)
M_decode(w) ==
    LET f3 == range(w, 14, 12)
        op == range(w, 6, 0) = \b0110011
    IN  CASE f3 = 0 -> IF op THEN "MUL" ELSE "MULW"
          [] f3 = 4 -> IF op THEN "DIV" ELSE "DIVW"
          [] f3 = 5 -> IF op THEN "DIVU" ELSE "DIVUW"
          [] f3 = 6 -> IF op THEN "REM" ELSE "REMW"
          [] f3 = 7 -> IF op THEN "REMU" ELSE "REMUW"
          [] op /\ f3 = 1 -> "MULH" [] op /\ f3 = 2 -> "MULHSU" [] op /\ f3 = 3 -> "MULHU"
          [] OTHER -> "ERROR"

(* A_extension::decode: by bits 31 .. 27 only. *)
A_decode(w) ==
    LET f5 == range(w, 31, 27)
    IN  CASE f5 = 2 -> "LR" [] f5 = 3 -> "SC" [] f5 = 1 -> "AMOSWAP" [] f5 = 0 -> "AMOADD"
          [] f5 = 4 -> "AMOXOR" [] f5 = 12 -> "AMOAND" [] f5 = 8 -> "AMOOR"
          [] f5 = 16 -> "AMOMIN" [] f5 = 20 -> "AMOMAX" [] f5 = 24 -> "AMOMINU"
          [] f5 = 28 -> "AMOMAXU" [] OTHER -> "ERROR"

(* CPU_step asks the decoders in turn. *)
Dispatch(t, w) ==
    CASE decode(w) # "ERROR" -> <<"base", decode(w)>>
      [] decode(w) = "ERROR" /\ C_decode(t, w) # "ERROR" -> <<"C", C_decode(t, w)>>
      [] decode(w) = "ERROR" /\ C_decode(t, w) = "ERROR" /\ M_decode(w) # "ERROR" ->
            <<"M", M_decode(w)>>
      [] OTHER -> <<"A", A_decode(w)>>

(* Instruction::check_extension, a second opinion that CPU_step never asks *)
check_extension(w) ==
    CASE range(w, 6, 0) \in {\b0110011, \b0111011} /\ range(w, 30, 25) = 1 -> "M"
      [] range(w, 6, 0) = \b0101111 -> "A"
      [] range(w, 1, 0) # 3 -> "C"
      [] OTHER -> "base"

----------------------------------------------------------------------------
(* Operands, as the Exec functions fetch them at their beginning.          *)

Operands(rd, rs1, rs2, imm) == [rd |-> rd, rs1 |-> rs1, rs2 |-> rs2, imm |-> imm]

base_operands(t, w, op) ==
    Operands(range(w, 11, 7), range(w, 19, 15), range(w, 24, 20),
        CASE op \in {"LUI", "AUIPC"} -> get_imm_U(w)
          [] op = "JAL" -> get_imm_J(w)
          [] op \in {"BEQ", "BNE", "BLT", "BGE", "BLTU", "BGEU"} -> get_imm_B(w)
          [] op \in {"SB", "SH", "SW", "SD"} -> get_imm_S(w)
          [] op \in {"SRLI", "SRAI"} /\ t = "RV32" -> range(w, 24, 20)
          [] op \in {"SLLI", "SLLIW", "SRLIW", "SRAIW"} \/ (op \in {"SRLI", "SRAI"} /\ t = "RV64") ->
                range(w, 25, 20)
          [] OTHER -> get_imm_I(w))

C_operands(w, op) ==
    LET rdp == range(w, 4, 2) + 8       \* also get_rs2p
        rs1p == range(w, 9, 7) + 8
        rd == range(w, 11, 7)           \* also get_rs1
        rs2 == range(w, 6, 2)
    IN  CASE op = "C_ADDI4SPN" -> Operands(rdp, 2, 0, C_get_imm_ADDI4SPN(w))
          [] op = "C_ADDI16SP" ->
                IF rd = 2 THEN Operands(2, 2, 0, C_get_imm_ADDI16SP(w))
                ELSE Operands(rd, 0, 0, C_get_imm_LUI(w))
          [] op \in {"C_ADDI", "C_ADDIW", "C_SLLI"} -> Operands(rd, rd, 0, C_get_imm_ADDI(w))
          [] op = "C_LI" -> Operands(rd, 0, 0, C_get_imm_ADDI(w))
          [] op \in {"C_SRLI", "C_SRAI", "C_ANDI"} -> Operands(rs1p, rs1p, 0, C_get_imm_ADDI(w))
          [] op \in {"C_SUB", "C_SUBW", "C_ADDW", "C_XOR", "C_OR", "C_AND"} ->
                Operands(rs1p, rs1p, rdp, 0)
          [] op = "C_MV" -> Operands(rd, 0, rs2, 0)
          [] op = "C_ADD" -> Operands(rd, rd, rs2, 0)
          [] op = "C_LW" -> Operands(rdp, rs1p, 0, C_get_imm_L(w))
          [] op = "C_LD" -> Operands(rdp, rs1p, 0, C_get_imm_CL(w))
          [] op = "C_SW" -> Operands(0, rs1p, rdp, C_get_imm_L(w))
          [] op = "C_SD" -> Operands(0, rs1p, rdp, C_get_imm_CL(w))
          [] op = "C_LWSP" -> Operands(rd, 2, 0, C_get_imm_LWSP(w))
          [] op = "C_LDSP" -> Operands(rd, 2, 0, C_get_imm_LDSP(w))
          [] op = "C_SWSP" -> Operands(0, 2, rs2, C_get_imm_CSS(w))
          [] op = "C_SDSP" -> Operands(0, 2, rs2, C_get_imm_CSDSP(w))
          [] op \in {"C_BEQZ", "C_BNEZ"} -> Operands(0, rs1p, 0, C_get_imm_CB(w))
          [] op = "C_JAL" -> Operands(1, 0, 0, C_get_imm_J(w))
          [] op = "C_J" -> Operands(0, 0, 0, C_get_imm_J(w))
          [] op = "C_JR" -> Operands(0, rd, 0, 0)
          [] op = "C_JALR" -> Operands(1, rd, 0, 0)
          [] OTHER -> Operands(0, 0, 0, 0)
=============================================================================
