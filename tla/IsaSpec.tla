------------------------------ MODULE IsaSpec ------------------------------
(***************************************************************************)
(* CPU_step executing one instruction of RV32IMAC or RV64IMAC on a hart    *)
(* whose registers and memory hold anything, and what the manual says of   *)
(* the result.  One action per extension, as CPU_step has one call of      *)
(* exec_instruction for each.  An instruction takes a hart to the next one *)
(* whatever ran before it, so one step from every hart of interest is the  *)
(* bound.                                                                  *)
(***************************************************************************)
EXTENDS Isa, Manual

CONSTANTS
    Workloads,  \* pairs [harts, code]: instructions and where to try them
    Tails       \* the halfwords that may follow a compressed instruction

ASSUME IsaAssumption ==
    /\ \A wl \in Workloads :
        /\ \A h \in wl.harts : HartOK(h)
        /\ \A i \in wl.code : Instruction(i) /\ Encodable(i)
    /\ \A tail \in Tails : tail \subseteq 16 .. 31

VARIABLES
    hart,       \* the CPU's registers, PC and memory
    instr       \* the instruction executed, NoInstr before it

isaVars == <<hart, instr>>

NoInstr == [c |-> "-", op |-> "none", rd |-> 0, rs1 |-> 0, rs2 |-> 0, imm |-> 0]

IsaInit ==
    /\ hart \in UNION {wl.harts : wl \in Workloads}
    /\ instr = NoInstr

(* What is fetched: 32 bits, of which a compressed instruction is half. *)
Fetches(i) == IF i.c = "-" THEN {Assemble(i)} ELSE {Assemble(i) \cup tail : tail \in Tails}

(* The part of CPU_step that is the same for every extension.  An access   *)
(* outside the memory is a matter of module Bus.                           *)
Step(ext, Exec(_, _, _)) ==
    /\ instr = NoInstr
    /\ \E wl \in Workloads : hart \in wl.harts /\ \E i \in wl.code :
        /\ Legal(hart.t, i)
        /\ \E w \in Fetches(i) :
            LET how == Dispatch(hart.t, w)
            IN  /\ how[1] = ext
                /\ hart' = Exec(hart, how[2], w)
                /\ hart'.fault # "outside"
                /\ instr' = i

StepBase ==
    Step("base", LAMBDA h, op, w : base_exec_instruction(h, op, base_operands(h.t, w, op)))

StepC == Step("C", LAMBDA h, op, w : C_exec_instruction(h, op, C_operands(w, op)))

StepM == Step("M", LAMBDA h, op, w : M_exec_instruction(h, op, base_operands(h.t, w, op)))

StepA == Step("A", LAMBDA h, op, w : Exec_A_AMO(h, op, base_operands(h.t, w, op)))

IsaNext == StepBase \/ StepC \/ StepM \/ StepA

IsaSpec == IsaInit /\ [][IsaNext]_isaVars

----------------------------------------------------------------------------
(* Properties.                                                             *)

(* The registers, the PC and the memory keep their types; x0 stays 0.      *)
IsaTypeOK == HartOK(hart)

(* Decoding is the inverse of assembling: the extension that CPU_step      *)
(* picks, the operation, and each operand that the operation has, with     *)
(* every bit of its immediate in place, whatever follows a compressed      *)
(* instruction in the fetched word; and check_extension agrees.            *)
Extension(i) ==
    CASE i.c # "-" -> "C"
      [] i.c = "-" /\ i.op \in AmoOps -> "A"
      [] i.c = "-" /\ i.op \in MulDivOps -> "M"
      [] OTHER -> "base"

DecodedAs(i, ext, op, d) ==
    /\ ext = Extension(i)
    /\ op = (CASE i.c = "C_LUI" -> "C_ADDI16SP"
               [] i.c # "-" /\ i.c # "C_LUI" -> i.c
               [] i.op = "AMOADD_D" -> "AMOADD"
               [] OTHER -> i.op)
    /\ i.op \notin StoreOps \cup BranchOps => d.rd = i.rd
    /\ i.op \notin UpperOps \cup {"JAL"} => d.rs1 = i.rs1
    /\ i.op \in BaseOps \cup MulDivOps \cup AmoOps \cup StoreOps \cup BranchOps => d.rs2 = i.rs2
    /\ IF i.op \in ShiftOps THEN d.imm \in {i.imm} \cup (IF i.c = "-" THEN {} ELSE {i.imm - 64})
       ELSE i.op \notin BaseOps \cup MulDivOps \cup AmoOps => d.imm = i.imm

DecodesTo(t, i) ==
    \A w \in Fetches(i) :
        LET how == Dispatch(t, w)
        IN  /\ DecodedAs(i, how[1], how[2],
                         IF how[1] = "C" THEN C_operands(w, how[2])
                         ELSE base_operands(t, w, how[2]))
            /\ check_extension(w) = how[1]

DecodesAsAssembled ==
    instr # NoInstr =>
        \A t \in {"RV32", "RV64"} : Legal(t, instr) => DecodesTo(t, instr)

(* What an instruction of one extension does to the hart is what the       *)
(* manual says, except in the cases named.                                 *)
AsManual(ext, Except(_, _)) ==
    instr' # NoInstr /\ Extension(instr') = ext /\ ~Except(hart, instr')
        => hart' = Result(hart, instr')

(* The base instructions follow the manual: signs and widths of every      *)
(* operand and result, aliased registers, x0, and the PC.                  *)
BaseAsManual == [][AsManual("base", LAMBDA h, i : FALSE)]_isaVars

(* A compressed instruction does what the instruction it abbreviates does, *)
(* two bytes long.  On RV64 the jumps drop the upper half of the target or *)
(* of the PC they save (Exec_C_JR, Exec_C_JALR, Exec_C_JAL), and C.SW and  *)
(* C.SWSP the upper half of the address.                                   *)
DropsUpperHalf(h, i) ==
    /\ h.t = "RV64"
    /\ \/ i.op = "JALR" /\ h.x[i.rs1] >= 2^W
       \/ i.c = "C_JALR" /\ Unsigned(h.pc + 2, XLEN(h.t)) >= 2^W
       \/ i.op = "JAL" /\ Unsigned(h.pc + i.imm, XLEN(h.t)) >= 2^W
       \/ i.op = "SW" /\ Unsigned(h.x[i.rs1] + i.imm, XLEN(h.t)) >= 2^W

CompressedAsManual == [][AsManual("C", DropsUpperHalf)]_isaVars

(* Multiplication and division follow the manual, with its results for a   *)
(* zero divisor and for the overflow of signed division.  On RV64 the      *)
(* overflow cases are wrong: DIVW's result is not sign-extended, DIVUW     *)
(* takes its own numbers for an overflow, DIV and REM of the most negative *)
(* number by -1 end in the host's trap.                                    *)
DivisionOverflows(h, i) ==
    /\ h.t = "RV64"
    /\ \/ i.op \in {"DIV", "REM"} /\ h.x[i.rs1] = 2^(2 * W - 1) /\ h.x[i.rs2] = 2^(2 * W) - 1
       \/ i.op \in {"DIVW", "DIVUW"}
            /\ Unsigned(h.x[i.rs1], W) = 2^(W - 1) /\ Unsigned(h.x[i.rs2], W) = 2^W - 1

MulDivAsManual == [][AsManual("M", DivisionOverflows)]_isaVars

(* An atomic operation returns the old word and stores the new one.  It    *)
(* goes wrong when rd is rs2 (rd is written before rs2 is read), AMOSWAP   *)
(* overwrites rs2, the doubleword forms act on a word, and on RV64 the     *)
(* address loses its upper half.                                           *)
AmoDeviates(h, i) ==
    \/ i.rd = i.rs2 /\ i.rs2 # 0
    \/ i.op = "AMOSWAP" /\ i.rs2 # 0
    \/ i.op = "AMOADD_D"
    \/ h.x[i.rs1] >= 2^W

AmoAsManual == [][AsManual("A", AmoDeviates)]_isaVars

(* README.md:7, "It supports RV32IMAC and RV64IMAC Instruction set": every *)
(* instruction, without exceptions.                                        *)
SupportsIMAC ==
    [][instr' # NoInstr => hart' = Result(hart, instr')]_isaVars
=============================================================================
