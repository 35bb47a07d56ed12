----------------------------- MODULE IrqTiming -----------------------------
(***************************************************************************)
(* The two SystemC threads of the simulator, CPU::CPU_thread and           *)
(* Timer::run, and the kernel that schedules them.  CPU_thread executes    *)
(* one instruction, looks at the interrupt line, and waits default_time;   *)
(* Timer::run waits for timer_event and raises the line.  The program the  *)
(* hart runs is the environment: each instruction is chosen freely from    *)
(* the classes below, within the discipline the constants state.           *)
(*                                                                         *)
(* Time is relative: what is kept is how long the CPU still waits and how  *)
(* long until timer_event triggers, so that behaviours are unbounded and   *)
(* liveness can be checked.  How mtime and mtimecmp determine the delay of *)
(* a notification is Soc's subject; here a delay is any member of Delays.  *)
(***************************************************************************)
EXTENDS CpuIrq, Integers

CONSTANTS
    Period,       \* default_time: CPU_thread's wait between instructions
    Delays,       \* the delays timer_event can be notified with
    OneShot,      \* the program arms the timer only when no earlier expiry
                  \* is pending, running or still requested
    MipWrites,    \* the program writes mip
    Stops         \* the program executes instructions that end the run

ASSUME TimingAssumption ==
    /\ Period \in Nat \ {0}
    /\ Delays \subseteq Nat
    /\ OneShot \in BOOLEAN
    /\ MipWrites \in BOOLEAN
    /\ Stops \in BOOLEAN

VARIABLES
    cpu,          \* the hart, a CpuState
    run,          \* threads made runnable in the current evaluation phase
    cpu_wait,     \* time until CPU_thread's wait(default_time) is over
    timer_event,  \* time until timer_event triggers, or NOTHING
    stopped,      \* sc_stop was called, or the kernel gave up on an error
    took          \* history: the last CPU step entered the interrupt handler

vars == <<cpu, run, cpu_wait, timer_event, stopped, took>>

NOTHING == -1
Threads == {"CPU_thread", "Timer::run"}

TypeOK ==
    /\ cpu \in CpuState
    /\ run \subseteq Threads
    /\ cpu_wait \in 0 .. Period
    /\ timer_event \in Nat \cup {NOTHING}
    /\ stopped \in BOOLEAN
    /\ took \in BOOLEAN

(* sc_start: every thread runs once.  Timer::run's first activation only   *)
(* reaches wait(timer_event), before anything can have been notified, so   *)
(* it starts there.                                                        *)
Init ==
    /\ \E pc \in Addr : cpu = CpuReset(pc)
    /\ run = {"CPU_thread"}
    /\ cpu_wait = 0
    /\ timer_event = NOTHING
    /\ stopped = FALSE
    /\ took = FALSE
-----------------------------------------------------------------------------
(* CPU_thread *)

(* One turn of CPU_thread's loop, given the state c that CPU_step leaves:  *)
(* cpu_process_IRQ always follows, then the wait.  sc_stop ends the run    *)
(* only after the current evaluation phase, so the turn is completed.      *)
Turn(c) ==
    /\ "CPU_thread" \in run
    /\ cpu' = cpu_process_IRQ(c)
    /\ took' = TakesInterrupt(c)
    /\ run' = run \ {"CPU_thread"}
    /\ cpu_wait' = Period

Quietly(c) == Turn(c) /\ UNCHANGED <<timer_event, stopped>>

Stopping(c) == Stops /\ Turn(c) /\ stopped' = TRUE /\ UNCHANGED timer_event

(* Computation, loads, stores, fences, WFI, CSRs not modelled: 4 bytes ... *)
ExecPlain == Quietly(incPC(cpu))

(* ... or a compressed instruction. *)
ExecCompressed == Quietly(incPCby2(cpu))

(* Branches, jumps and SRET: PC_not_affected is false. *)
ExecJump == \E a \in Addr : Quietly(setPC(cpu, a))

ExecEcall == Quietly(RaiseException(cpu, "CALL_FROM_M_MODE"))

ExecEbreak == Stopping(RaiseException(cpu, "BREAK"))

ExecMret == Quietly(Exec_MRET(cpu))

(* C.ADDI4SPN with a zero immediate, which includes the all-zero word. *)
ExecIllegalC == Quietly(RaiseException(cpu, "ILLEGAL_INSTRUCTION"))

(* LR.W with rs2 # 0. *)
ExecIllegalLR ==
    Quietly(RaiseExceptionThenIncPC(cpu, "ILLEGAL_INSTRUCTION"))

(* SLLI with shamt[5] = 1 on RV32 stops the run and traps; on RV64 SLLIW   *)
(* and SRLIW do so too but skip an instruction.                            *)
ExecIllegalShift ==
    \/ Stopping(RaiseException(cpu, "ILLEGAL_INSTRUCTION"))
    \/ Stopping(RaiseExceptionThenIncPC(cpu, "ILLEGAL_INSTRUCTION"))

(* No extension decodes the word: NOP() stops the run, the PC stays. *)
ExecNotImplemented == Stopping(cpu)

(* FENCE stops the run when an ECALL follows it. *)
ExecFence == Stopping(incPC(cpu))

ExecCsrMstatus ==
    \E form \in CsrForms, rdIsX0 \in BOOLEAN :
        \E operand \in Operands(form, MstatusBits) :
            Quietly(incPC(WriteMstatus(cpu, form, rdIsX0, operand)))

ExecCsrMip ==
    /\ MipWrites
    /\ \E form \in CsrForms, rdIsX0 \in BOOLEAN :
        \E operand \in Operands(form, MipBits) :
            Quietly(incPC(WriteMip(cpu, form, rdIsX0, operand)))

ExecCsrMtvec == \E a \in Addr : Quietly(incPC(WriteMtvec(cpu, a)))

ExecCsrMepc == \E a \in Addr : Quietly(incPC(WriteMepc(cpu, a)))

(* sc_event::notify with a delay d: a notification that is due earlier, or *)
(* at the same time, is kept.  Delay 0 is a delta notification.            *)
Notify(event, d) == IF event = NOTHING \/ d < event THEN d ELSE event

(* What OneShot asks of the program when it arms the timer. *)
MayArm ==
    OneShot => /\ timer_event = NOTHING
               /\ "Timer::run" \notin run
               /\ ~cpu.interrupt

(* A store to the high half of mtimecmp that asks for an expiry after d. *)
Arm(d) ==
    /\ MayArm
    /\ timer_event' = Notify(timer_event, d)
    /\ Turn(incPC(cpu))
    /\ UNCHANGED stopped

ExecArm == \E d \in Delays : Arm(d)

(* A load or store at TO_HOST_ADDRESS or above: the bus calls sc_stop and  *)
(* leaves the response incomplete, MemoryInterface reports an error, and   *)
(* the exception leaves the thread before cpu_process_IRQ.                 *)
ExecToHost ==
    /\ Stops
    /\ "CPU_thread" \in run
    /\ run' = {}
    /\ stopped' = TRUE
    /\ took' = FALSE
    /\ UNCHANGED <<cpu, cpu_wait, timer_event>>

(* Every instruction but the store that arms the timer. *)
ExecOther ==
    \/ ExecPlain \/ ExecCompressed \/ ExecJump
    \/ ExecEcall \/ ExecEbreak \/ ExecMret
    \/ ExecIllegalC \/ ExecIllegalLR \/ ExecIllegalShift
    \/ ExecNotImplemented \/ ExecFence
    \/ ExecCsrMstatus \/ ExecCsrMip \/ ExecCsrMtvec \/ ExecCsrMepc
    \/ ExecToHost

CpuThread == ExecOther \/ ExecArm
-----------------------------------------------------------------------------
(* Timer::run, woken by timer_event, raises the line and waits again. *)
TimerRun ==
    /\ "Timer::run" \in run
    /\ cpu' = call_interrupt(cpu, "MTI")
    /\ run' = run \ {"Timer::run"}
    /\ UNCHANGED <<cpu_wait, timer_event, stopped, took>>
-----------------------------------------------------------------------------
(* The SystemC kernel: when no thread is runnable, time moves to the next  *)
(* notification and everything due then becomes runnable, in no particular *)
(* order.  A delta notification is due before time moves.                  *)
NextDue ==
    IF timer_event # NOTHING /\ timer_event < cpu_wait
    THEN timer_event ELSE cpu_wait

Kernel ==
    /\ run = {}
    /\ ~stopped
    /\ run' = {t \in Threads :
                  \/ t = "CPU_thread" /\ cpu_wait = NextDue
                  \/ t = "Timer::run" /\ timer_event = NextDue}
    /\ cpu_wait' = cpu_wait - NextDue
    /\ timer_event' = IF timer_event \in {NOTHING, NextDue}
                      THEN NOTHING ELSE timer_event - NextDue
    /\ UNCHANGED <<cpu, stopped, took>>

Next == CpuThread \/ TimerRun \/ Kernel

(* The kernel runs every runnable thread before it moves on, and moves on  *)
(* when there is none.                                                     *)
Fairness == WF_vars(CpuThread) /\ WF_vars(TimerRun) /\ WF_vars(Kernel)

Spec == Init /\ [][Next]_vars

FairSpec == Spec /\ Fairness
-----------------------------------------------------------------------------
(* Safety *)

(* MEIP is in mip only while irq_already_down says that the line is still  *)
(* to be lowered.  Were the flag true with the bit set, cpu_process_IRQ    *)
(* would never clear the bit and never take another interrupt.  Needs      *)
(* ~MipWrites.                                                             *)
MeipWillBeLowered == "MEIP" \in cpu.mip => ~cpu.irq_already_down

(* The first instruction of the handler is never itself interrupted: two   *)
(* turns in a row do not both enter the handler.  It is what lets a        *)
(* handler protect itself with an initial "csrci mstatus, 8", although     *)
(* cpu_process_IRQ leaves MIE set.  Needs ~MipWrites.                      *)
HandlerGetsOneInstruction == 
    [][took /\ "CPU_thread" \in run \ run' => ~took']_vars

(* A request never meets the MEIP bit of the previous one, the state in    *)
(* which cpu_process_IRQ neither takes it nor lowers the line.  Needs      *)
(* OneShot and ~MipWrites.                                                 *)
NotWedged == ~(cpu.interrupt /\ "MEIP" \in cpu.mip)

(* CSRRS with flags in its operand leaves them set in mstatus, whatever    *)
(* its destination register; "csrs mstatus, t0" is CSRRS with rd = x0.     *)
CsrsSetsMstatus ==
    [][\A rdIsX0 \in BOOLEAN, operand \in SUBSET MstatusBits :
           Quietly(incPC(WriteMstatus(cpu, "CSRRS", rdIsX0, operand)))
               => operand \subseteq cpu'.mstatus]_vars
-----------------------------------------------------------------------------
(* Refinement *)

(* Where an arming of the timer stands: requested, on its way, or neither. *)
Line == IF cpu.interrupt THEN "raised"
        ELSE IF timer_event # NOTHING \/ "Timer::run" \in run THEN "armed"
        ELSE "idle"

L == INSTANCE IrqLine WITH line <- Line, entered <- took, halted <- stopped

(* With OneShot, the two threads and the kernel implement IrqLine: an      *)
(* expiry on an instruction boundary, a masked request, the lowering of    *)
(* MEIP or a write to mip never yields a second or a spurious entry.       *)
ImplementsIrqLine == L!LineSpec
-----------------------------------------------------------------------------
(* Liveness *)

(* A requested interrupt is taken, unless the program masks it.            *)
RequestIsTaken ==
    cpu.interrupt ~> (took \/ "MIE" \notin cpu.mstatus \/ stopped)

(* If the program ends up leaving interrupts enabled, every arming of the  *)
(* timer ends in the handler: none is lost while masked, while the line is *)
(* being lowered, or to an expiry that falls on an instruction boundary.   *)
ArmedIsServed ==
    <>[]("MIE" \in cpu.mstatus /\ ~stopped) => (timer_event # NOTHING ~> took)
=============================================================================
