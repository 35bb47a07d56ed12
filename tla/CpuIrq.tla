------------------------------- MODULE CpuIrq -------------------------------
(***************************************************************************)
(* The interrupt and trap state of one hart, and the parts of the          *)
(* instruction set that change it, as operators on one record.  CPURV32    *)
(* and CPURV64 have the same text for all of it (src/RV32.cpp,             *)
(* src/RV64.cpp); it is the state that CPU_thread's two calls, CPU_step    *)
(* and cpu_process_IRQ, hand to each other.                                *)
(*                                                                         *)
(* A register that holds flags is the set of its flags that some code      *)
(* reads: MIE and MPIE of mstatus, MEIP of mip.  An address counts         *)
(* halfwords of a program of NAddr halfwords, so that incPC adds 2 and     *)
(* incPCby2 adds 1.                                                        *)
(***************************************************************************)
EXTENDS Naturals

CONSTANT NAddr          \* halfwords in the program's address space

ASSUME NAddrAssumption == NAddr \in Nat \ {0}

Addr == 0 .. NAddr - 1

(* Bits of mstatus the code tests (MSTATUS_MIE, MSTATUS_MPIE) and of mip.  *)
MstatusBits == {"MIE", "MPIE"}
MipBits == {"MEIP"}

(* Values of mcause and of int_cause.  "IRQ0" is the 0x80000000 that       *)
(* cpu_process_IRQ writes, "MTI" the (1 << 31 | 7) that Timer::run sends.  *)
Causes == {"NONE", "IRQ0", "MTI", "ILLEGAL_INSTRUCTION", "BREAK",
           "CALL_FROM_M_MODE"}

CpuState == [pc : Addr,
             interrupt : BOOLEAN,
             irq_already_down : BOOLEAN,
             int_cause : Causes,
             mstatus : SUBSET MstatusBits,
             mip : SUBSET MipBits,
             mepc : Addr,
             mtvec : Addr,
             mcause : Causes]

(* The constructors of CPU, CPURV32 and Registers: both flags false, every *)
(* CSR 0 but MISA and MSTATUS (MISA_MXL, bit 30: neither MIE nor MPIE).    *)
CpuReset(pc) == [pc |-> pc,
                 interrupt |-> FALSE,
                 irq_already_down |-> FALSE,
                 int_cause |-> "NONE",
                 mstatus |-> {},
                 mip |-> {},
                 mepc |-> 0,
                 mtvec |-> 0,
                 mcause |-> "NONE"]
-----------------------------------------------------------------------------
(* Program counter *)

incPC(c) == [c EXCEPT !.pc = (c.pc + 2) % NAddr]

incPCby2(c) == [c EXCEPT !.pc = (c.pc + 1) % NAddr]

setPC(c, new_pc) == [c EXCEPT !.pc = new_pc]
-----------------------------------------------------------------------------
(* Exceptions *)

(* The bits of mstatus that "m_cause |= cause" sets: the numeric cause is  *)
(* OR-ed into mstatus, and 11 (CALL_FROM_M_MODE) has bit 3, which is MIE;  *)
(* 2 and 3 have neither bit 3 nor bit 7.                                   *)
CauseAsMstatus(cause) == IF cause = "CALL_FROM_M_MODE" THEN {"MIE"} ELSE {}

(* Mutant: the whole cause is stored among the flags of mstatus. *)
RaiseException_StoresCause(c, cause) ==
    [c EXCEPT !.mepc = c.pc,
              !.mcause = cause,
              !.mstatus = c.mstatus \cup {cause},
              !.pc = c.mtvec]

RaiseException(c, cause) ==
    [c EXCEPT !.mepc = c.pc,
              !.mcause = cause,
              !.mstatus = c.mstatus \cup CauseAsMstatus(cause),
              !.pc = c.mtvec]

(* Exec_A_LR with rs2 # 0, and on RV64 Exec_SLLIW and Exec_SRLIW with      *)
(* shamt[5] = 1, raise an exception and return false, but                  *)
(* exec_instruction drops that result and CPU_step adds 4 to the PC that   *)
(* RaiseException has just set.                                            *)
RaiseExceptionThenIncPC(c, cause) == incPC(RaiseException(c, cause))

Exec_MRET(c) ==
    [c EXCEPT !.pc = c.mepc,
              !.mstatus = c.mstatus \cup {"MPIE"}
                          \cup (IF "MPIE" \in c.mstatus THEN {"MIE"} ELSE {})]
-----------------------------------------------------------------------------
(* CSR instructions *)

CsrForms == {"CSRRW", "CSRRS", "CSRRC", "CSRRWI", "CSRRSI", "CSRRCI"}
ImmediateForms == {"CSRRWI", "CSRRSI", "CSRRCI"}

(* The flags an instruction of a form can carry in its operand: any in a   *)
(* register, but only bits 0 to 4 in the 5-bit immediate, which reaches    *)
(* MIE (bit 3) and neither MPIE (bit 7) nor MEIP (bit 11).                 *)
Operands(form, bits) ==
    IF form \in ImmediateForms THEN SUBSET (bits \cap {"MIE"}) ELSE SUBSET bits

(* The new value of a CSR.  CSRRS and CSRRC with rd = x0 do nothing at     *)
(* all.  CSRRSI and CSRRCI return early for immediate 0, which for the     *)
(* flags is what the empty operand does.                                   *)
CsrResult(form, rdIsX0, old, operand) ==
    CASE form \in {"CSRRW", "CSRRWI"} -> operand
      [] form = "CSRRS"  -> IF rdIsX0 THEN old ELSE old \cup operand
      [] form = "CSRRC"  -> IF rdIsX0 THEN old ELSE old \ operand
      [] form = "CSRRSI" -> old \cup operand
      [] form = "CSRRCI" -> old \ operand

WriteMstatus(c, form, rdIsX0, operand) ==
    [c EXCEPT !.mstatus = CsrResult(form, rdIsX0, c.mstatus, operand)]

WriteMip(c, form, rdIsX0, operand) ==
    [c EXCEPT !.mip = CsrResult(form, rdIsX0, c.mip, operand)]

(* csrw mtvec and csrw mepc: CSRRW always writes. *)
WriteMtvec(c, a) == [c EXCEPT !.mtvec = a]

WriteMepc(c, a) == [c EXCEPT !.mepc = a]
-----------------------------------------------------------------------------
(* The interrupt line *)

(* The callback behind irq_line_socket: it records the request and the     *)
(* cause the caller sends; nothing reads int_cause afterwards.             *)
call_interrupt_DropsMasked(c, cause) ==   \* Mutant: no request while masked.
    IF "MIE" \in c.mstatus
    THEN [c EXCEPT !.interrupt = TRUE, !.int_cause = cause] ELSE c

call_interrupt(c, cause) ==
    [c EXCEPT !.interrupt = TRUE, !.int_cause = cause]

(* Mutants: the MEIP test is missing; the line's flag is tested instead.   *)
TakesInterrupt_IgnoresMeip(c) == c.interrupt /\ "MIE" \in c.mstatus
TakesInterrupt_TestsFlag(c) ==
    c.interrupt /\ "MIE" \in c.mstatus /\ ~c.irq_already_down

(* The two cases in which cpu_process_IRQ changes something ... *)
TakesInterrupt(c) == c.interrupt /\ "MIE" \in c.mstatus /\ "MEIP" \notin c.mip

LowersLine(c) == ~c.interrupt /\ ~c.irq_already_down

(* Mutants: irq_already_down, or the request itself, is not reset. *)
TakeInterrupt_KeepsDown(c) ==
    [c EXCEPT !.mip = c.mip \cup {"MEIP"}, !.mepc = c.pc, !.mcause = "IRQ0",
              !.pc = c.mtvec, !.interrupt = FALSE]
TakeInterrupt_KeepsRequest(c) ==
    [c EXCEPT !.mip = c.mip \cup {"MEIP"}, !.mepc = c.pc, !.mcause = "IRQ0",
              !.pc = c.mtvec, !.irq_already_down = FALSE]

TakeInterrupt(c) ==
    [c EXCEPT !.mip = c.mip \cup {"MEIP"},
              !.mepc = c.pc,
              !.mcause = "IRQ0",
              !.pc = c.mtvec,
              !.interrupt = FALSE,
              !.irq_already_down = FALSE]

LowerLine_KeepsMeip(c) ==   \* Mutant: MEIP is not cleared.
    [c EXCEPT !.irq_already_down = TRUE]

LowerLine(c) ==
    [c EXCEPT !.mip = c.mip \ {"MEIP"}, !.irq_already_down = TRUE]

(* ... and the whole function.  A requested interrupt that finds MIE clear *)
(* or MEIP set is left as it is.                                           *)
cpu_process_IRQ(c) ==
    CASE TakesInterrupt(c) -> TakeInterrupt(c)
      [] LowersLine(c) -> LowerLine(c)
      [] OTHER -> c
=============================================================================
