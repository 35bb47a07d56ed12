-------------------------- MODULE IrqTimingProofs --------------------------
(***************************************************************************)
(* What TLC checks of IrqTiming on small instances, proved for every       *)
(* Period, set of Delays and program size.                                 *)
(*                                                                         *)
(* Every instruction is reduced first to what the interrupt logic sees of  *)
(* it (StepShape): CPU_step leaves a well-typed hart with the same request *)
(* and line flags, and the turn ends in cpu_process_IRQ.  The theorems     *)
(* then split into a turn, ExecToHost, TimerRun and Kernel.                *)
(***************************************************************************)
EXTENDS IrqTiming, TLAPS

USE DEF Addr

-----------------------------------------------------------------------------
(* The operators of CpuIrq are closed on CpuState. *)

LEMMA ModAddr == \A n \in Nat : n % NAddr \in Addr
  BY NAddrAssumption

LEMMA PcType ==
  ASSUME NEW c \in CpuState
  PROVE  /\ incPC(c) \in CpuState
         /\ incPCby2(c) \in CpuState
         /\ \A a \in Addr : setPC(c, a) \in CpuState
  <1>1. c.pc + 2 \in Nat /\ c.pc + 1 \in Nat
    BY NAddrAssumption DEF CpuState
  <1>2. (c.pc + 2) % NAddr \in Addr /\ (c.pc + 1) % NAddr \in Addr
    BY <1>1, ModAddr
  <1> QED BY <1>2 DEF CpuState, incPC, incPCby2, setPC

LEMMA ExceptionType ==
  ASSUME NEW c \in CpuState, NEW cause \in Causes
  PROVE  /\ RaiseException(c, cause) \in CpuState
         /\ RaiseExceptionThenIncPC(c, cause) \in CpuState
  <1>1. CauseAsMstatus(cause) \subseteq MstatusBits
    BY DEF CauseAsMstatus, MstatusBits
  <1>2. RaiseException(c, cause) \in CpuState
    BY <1>1 DEF RaiseException, CpuState
  <1> QED BY <1>2, PcType DEF RaiseExceptionThenIncPC

LEMMA MretType ==
  ASSUME NEW c \in CpuState
  PROVE  Exec_MRET(c) \in CpuState
  BY DEF Exec_MRET, CpuState, MstatusBits

LEMMA CsrResultType ==
  ASSUME NEW bits, NEW form \in CsrForms, NEW rdIsX0 \in BOOLEAN,
         NEW old \in SUBSET bits, NEW operand \in SUBSET bits
  PROVE  CsrResult(form, rdIsX0, old, operand) \in SUBSET bits
  BY DEF CsrResult, CsrForms

LEMMA OperandsType ==
  ASSUME NEW bits, NEW form, NEW operand \in Operands(form, bits)
  PROVE  operand \in SUBSET bits
  BY DEF Operands

LEMMA CsrType ==
  ASSUME NEW c \in CpuState, NEW form \in CsrForms, NEW rdIsX0 \in BOOLEAN
  PROVE  /\ \A operand \in Operands(form, MstatusBits) :
                WriteMstatus(c, form, rdIsX0, operand) \in CpuState
         /\ \A operand \in Operands(form, MipBits) :
                WriteMip(c, form, rdIsX0, operand) \in CpuState
         /\ \A a \in Addr : WriteMtvec(c, a) \in CpuState
         /\ \A a \in Addr : WriteMepc(c, a) \in CpuState
  <1>1. ASSUME NEW operand \in Operands(form, MstatusBits)
        PROVE  WriteMstatus(c, form, rdIsX0, operand) \in CpuState
    <2>1. CsrResult(form, rdIsX0, c.mstatus, operand) \in SUBSET MstatusBits
      BY OperandsType, CsrResultType DEF CpuState
    <2> QED BY <2>1 DEF WriteMstatus, CpuState
  <1>2. ASSUME NEW operand \in Operands(form, MipBits)
        PROVE  WriteMip(c, form, rdIsX0, operand) \in CpuState
    <2>1. CsrResult(form, rdIsX0, c.mip, operand) \in SUBSET MipBits
      BY OperandsType, CsrResultType DEF CpuState
    <2> QED BY <2>1 DEF WriteMip, CpuState
  <1>3. \A a \in Addr : WriteMtvec(c, a) \in CpuState /\ WriteMepc(c, a) \in CpuState
    BY DEF WriteMtvec, WriteMepc, CpuState
  <1> QED BY <1>1, <1>2, <1>3

LEMMA IrqType ==
  ASSUME NEW c \in CpuState
  PROVE  /\ cpu_process_IRQ(c) \in CpuState
         /\ call_interrupt(c, "MTI") \in CpuState
  BY DEF cpu_process_IRQ, TakeInterrupt, LowerLine, call_interrupt,
         CpuState, MipBits, Causes
-----------------------------------------------------------------------------
(* What the interrupt logic sees of an instruction *)

(* CPU_step leaves the request and the line flags of the hart alone. *)
SameLine(c) ==
    /\ c.interrupt = cpu.interrupt
    /\ c.irq_already_down = cpu.irq_already_down
    /\ ~MipWrites => c.mip = cpu.mip

(* The timer's event is left alone, or notified as the discipline allows. *)
EventKeptOrArmed ==
    \/ timer_event' = timer_event /\ stopped' \in {stopped, TRUE}
    \/ MayArm /\ timer_event' \in Nat /\ stopped' = stopped

LEMMA OperatorsKeepLine ==
  ASSUME NEW c \in CpuState
  PROVE  /\ SameLine(c) => SameLine(incPC(c))
         /\ SameLine(c) => SameLine(incPCby2(c))
         /\ \A a \in Addr : SameLine(c) => SameLine(setPC(c, a))
         /\ \A cause \in Causes : SameLine(c) => SameLine(RaiseException(c, cause))
         /\ SameLine(c) => SameLine(Exec_MRET(c))
         /\ \A form, rdIsX0, operand :
                SameLine(c) => SameLine(WriteMstatus(c, form, rdIsX0, operand))
         /\ \A form, rdIsX0, operand :
                MipWrites /\ SameLine(c) => SameLine(WriteMip(c, form, rdIsX0, operand))
         /\ \A a \in Addr : SameLine(c) => SameLine(WriteMtvec(c, a))
         /\ \A a \in Addr : SameLine(c) => SameLine(WriteMepc(c, a))
  BY DEF SameLine, CpuState, incPC, incPCby2, setPC, RaiseException, Exec_MRET,
         WriteMstatus, WriteMip, WriteMtvec, WriteMepc

LEMMA NotifyType ==
  ASSUME NEW e \in Nat \cup {NOTHING}, NEW d \in Nat
  PROVE  Notify(e, d) \in Nat
  BY DEF Notify, NOTHING

(* A turn of CPU_thread, as far as the interrupt logic is concerned. *)
ATurn(c) ==
    /\ SameLine(c)
    /\ Turn(c)
    /\ EventKeptOrArmed

LEMMA StepShape ==
  ASSUME TypeOK, CpuThread
  PROVE  ExecToHost \/ \E c \in CpuState : ATurn(c)
<1> DEFINE Shape == \E c \in CpuState : ATurn(c)
<1> SUFFICES ASSUME ~ExecToHost PROVE Shape
  OBVIOUS
<1>1. cpu \in CpuState /\ SameLine(cpu)
  BY DEF TypeOK, SameLine
<1>2. ASSUME NEW c \in CpuState, SameLine(c), Quietly(c)
      PROVE  Shape
  BY <1>2 DEF Quietly, ATurn, EventKeptOrArmed
<1>3. ASSUME NEW c \in CpuState, SameLine(c), Stopping(c)
      PROVE  Shape
  BY <1>3 DEF Stopping, ATurn, EventKeptOrArmed
<1>4. ASSUME NEW cause \in Causes
      PROVE  /\ RaiseException(cpu, cause) \in CpuState
             /\ SameLine(RaiseException(cpu, cause))
             /\ RaiseExceptionThenIncPC(cpu, cause) \in CpuState
             /\ SameLine(RaiseExceptionThenIncPC(cpu, cause))
  BY <1>1, ExceptionType, OperatorsKeepLine DEF RaiseExceptionThenIncPC
<1>5. CASE ExecPlain
  BY <1>1, <1>2, <1>5, PcType, OperatorsKeepLine DEF ExecPlain
<1>6. CASE ExecCompressed
  BY <1>1, <1>2, <1>6, PcType, OperatorsKeepLine DEF ExecCompressed
<1>7. CASE ExecJump
  BY <1>1, <1>2, <1>7, PcType, OperatorsKeepLine DEF ExecJump
<1>8. CASE ExecEcall
  BY <1>2, <1>4, <1>8 DEF ExecEcall, Causes
<1>9. CASE ExecEbreak
  BY <1>3, <1>4, <1>9 DEF ExecEbreak, Causes
<1>10. CASE ExecMret
  BY <1>1, <1>2, <1>10, MretType, OperatorsKeepLine DEF ExecMret
<1>11. CASE ExecIllegalC \/ ExecIllegalLR
  BY <1>2, <1>4, <1>11 DEF ExecIllegalC, ExecIllegalLR, Causes
<1>12. CASE ExecIllegalShift
  BY <1>3, <1>4, <1>12 DEF ExecIllegalShift, Causes
<1>13. CASE ExecNotImplemented \/ ExecFence
  BY <1>1, <1>3, <1>13, PcType, OperatorsKeepLine DEF ExecNotImplemented, ExecFence
<1>14. CASE ExecCsrMstatus
  <2>0. PICK form \in CsrForms, rdIsX0 \in BOOLEAN :
             \E operand \in Operands(form, MstatusBits) :
                 Quietly(incPC(WriteMstatus(cpu, form, rdIsX0, operand)))
    BY <1>14 DEF ExecCsrMstatus
  <2>1. PICK operand \in Operands(form, MstatusBits) :
             Quietly(incPC(WriteMstatus(cpu, form, rdIsX0, operand)))
    BY <2>0
  <2> DEFINE w == WriteMstatus(cpu, form, rdIsX0, operand)
  <2>2. w \in CpuState /\ SameLine(w)
    BY <1>1, CsrType, OperatorsKeepLine
  <2>3. Quietly(incPC(w))
    BY <2>1
  <2> HIDE DEF w
  <2> QED BY <1>2, <2>2, <2>3, PcType, OperatorsKeepLine
<1>15. CASE ExecCsrMip
  <2>0. PICK form \in CsrForms, rdIsX0 \in BOOLEAN :
             \E operand \in Operands(form, MipBits) :
                 Quietly(incPC(WriteMip(cpu, form, rdIsX0, operand)))
    BY <1>15 DEF ExecCsrMip
  <2>1. PICK operand \in Operands(form, MipBits) :
             Quietly(incPC(WriteMip(cpu, form, rdIsX0, operand)))
    BY <2>0
  <2> DEFINE w == WriteMip(cpu, form, rdIsX0, operand)
  <2>2. w \in CpuState /\ SameLine(w)
    BY <1>1, <1>15, CsrType, OperatorsKeepLine DEF ExecCsrMip
  <2>3. Quietly(incPC(w))
    BY <2>1
  <2> HIDE DEF w
  <2> QED BY <1>2, <2>2, <2>3, PcType, OperatorsKeepLine
<1>16. CASE ExecCsrMtvec
  <2>1. PICK a \in Addr : Quietly(incPC(WriteMtvec(cpu, a)))
    BY <1>16 DEF ExecCsrMtvec
  <2>2. WriteMtvec(cpu, a) \in CpuState /\ SameLine(WriteMtvec(cpu, a))
    BY <1>1, OperatorsKeepLine DEF WriteMtvec, CpuState
  <2> QED BY <1>2, <2>1, <2>2, PcType, OperatorsKeepLine
<1>17. CASE ExecCsrMepc
  <2>1. PICK a \in Addr : Quietly(incPC(WriteMepc(cpu, a)))
    BY <1>17 DEF ExecCsrMepc
  <2>2. WriteMepc(cpu, a) \in CpuState /\ SameLine(WriteMepc(cpu, a))
    BY <1>1, OperatorsKeepLine DEF WriteMepc, CpuState
  <2> QED BY <1>2, <2>1, <2>2, PcType, OperatorsKeepLine
<1>18. CASE ExecArm
  <2>1. PICK d \in Delays : Arm(d)
    BY <1>18 DEF ExecArm
  <2>2. timer_event' \in Nat
    BY <2>1, TimingAssumption, NotifyType DEF Arm, TypeOK
  <2>3. incPC(cpu) \in CpuState /\ SameLine(incPC(cpu))
    BY <1>1, PcType, OperatorsKeepLine
  <2> QED BY <2>1, <2>2, <2>3 DEF Arm, ATurn, EventKeptOrArmed
<1> QED
  BY <1>5, <1>6, <1>7, <1>8, <1>9, <1>10, <1>11, <1>12, <1>13, <1>14, <1>15,
     <1>16, <1>17, <1>18 DEF CpuThread, ExecOther
-----------------------------------------------------------------------------
(* Type correctness *)

LEMMA TurnType ==
  ASSUME TypeOK, NEW c \in CpuState, ATurn(c)
  PROVE  TypeOK'
<1>1. cpu' \in CpuState
  BY IrqType DEF ATurn, Turn
<1>2. took' \in BOOLEAN
  BY DEF ATurn, Turn, TakesInterrupt
<1>3. cpu_wait' \in 0 .. Period
  BY TimingAssumption DEF ATurn, Turn
<1> QED BY <1>1, <1>2, <1>3 DEF ATurn, Turn, EventKeptOrArmed, TypeOK

LEMMA TypeInductive ==
  ASSUME TypeOK, [Next]_vars
  PROVE  TypeOK'
<1>1. CASE CpuThread
  <2>1. CASE ExecToHost
    BY <2>1 DEF ExecToHost, TypeOK
  <2> QED BY <1>1, <2>1, StepShape, TurnType
<1>2. CASE TimerRun
  BY <1>2, IrqType DEF TimerRun, TypeOK
<1>3. CASE Kernel
  <2>1. NextDue \in 0 .. Period /\ NextDue <= cpu_wait
    BY TimingAssumption DEF NextDue, TypeOK, NOTHING
  <2>2. cpu_wait' \in 0 .. Period
    BY <1>3, <2>1, TimingAssumption DEF Kernel, TypeOK
  <2>3. timer_event # NOTHING => NextDue <= timer_event
    BY TimingAssumption DEF NextDue, TypeOK, NOTHING
  <2>4. timer_event' \in Nat \cup {NOTHING}
    BY <1>3, <2>1, <2>3 DEF Kernel, TypeOK, NOTHING
  <2>5. run' \subseteq Threads
    BY <1>3 DEF Kernel
  <2> QED BY <1>3, <2>2, <2>4, <2>5 DEF Kernel, TypeOK
<1>4. CASE UNCHANGED vars
  BY <1>4 DEF vars, TypeOK
<1> QED BY <1>1, <1>2, <1>3, <1>4 DEF Next

LEMMA InitType == Init => TypeOK
<1>1. \A pc \in Addr : CpuReset(pc) \in CpuState
  BY NAddrAssumption DEF CpuReset, CpuState, Causes
<1>2. 0 \in 0 .. Period
  BY TimingAssumption
<1> QED BY <1>1, <1>2 DEF Init, TypeOK, Threads

(* Every variable keeps its type, whatever the program does. *)
THEOREM TypeCorrect == Spec => []TypeOK
  BY InitType, TypeInductive, PTL DEF Spec
-----------------------------------------------------------------------------
(* The line is lowered, and the handler gets its first instruction *)

(* MEIP is set exactly by the turn that enters the handler and survives    *)
(* until the next one, in which it holds off another entry.                *)
LineInv ==
    /\ MeipWillBeLowered
    /\ took => "MEIP" \in cpu.mip

LEMMA LineInductive ==
  ASSUME ~MipWrites, TypeOK, LineInv, [Next]_vars
  PROVE  LineInv'
<1>1. CASE CpuThread
  <2>1. CASE ExecToHost
    BY <2>1 DEF ExecToHost, LineInv, MeipWillBeLowered
  <2>2. ASSUME NEW c \in CpuState, ATurn(c) PROVE LineInv'
    <3>1. cpu' = cpu_process_IRQ(c) /\ took' = TakesInterrupt(c)
      BY <2>2 DEF ATurn, Turn
    <3>2. "MEIP" \in c.mip => ~c.irq_already_down
      BY <2>2 DEF ATurn, SameLine, LineInv, MeipWillBeLowered
    <3>3. CASE TakesInterrupt(c)
      <4>1. cpu' = TakeInterrupt(c)
        BY <3>1, <3>3 DEF cpu_process_IRQ, LowersLine, TakesInterrupt
      <4>2. cpu'.irq_already_down = FALSE /\ "MEIP" \in cpu'.mip
        BY <4>1 DEF TakeInterrupt, CpuState
      <4> QED BY <4>2 DEF LineInv, MeipWillBeLowered
    <3>4. CASE LowersLine(c)
      <4>1. cpu' = LowerLine(c) /\ ~took'
        BY <3>1, <3>4 DEF cpu_process_IRQ, LowersLine, TakesInterrupt
      <4>2. "MEIP" \notin cpu'.mip
        BY <4>1 DEF LowerLine, CpuState
      <4> QED BY <4>1, <4>2 DEF LineInv, MeipWillBeLowered
    <3>5. CASE ~TakesInterrupt(c) /\ ~LowersLine(c)
      <4>1. cpu' = c /\ ~took'
        BY <3>1, <3>5 DEF cpu_process_IRQ
      <4> QED BY <3>2, <4>1 DEF LineInv, MeipWillBeLowered
    <3> QED BY <3>3, <3>4, <3>5
  <2> QED BY <1>1, <2>1, <2>2, StepShape
<1>2. CASE TimerRun
  BY <1>2 DEF TimerRun, call_interrupt, LineInv, MeipWillBeLowered, TypeOK, CpuState
<1>3. CASE Kernel \/ UNCHANGED vars
  BY <1>3 DEF Kernel, vars, LineInv, MeipWillBeLowered
<1> QED BY <1>1, <1>2, <1>3 DEF Next

LEMMA LineInvariant ==
  ASSUME ~MipWrites
  PROVE  Spec => [](TypeOK /\ LineInv)
<1>1. Init => LineInv
  BY DEF Init, CpuReset, LineInv, MeipWillBeLowered
<1>2. TypeOK /\ LineInv /\ [Next]_vars => LineInv'
  BY LineInductive
<1> QED BY <1>1, <1>2, TypeCorrect, PTL DEF Spec

(* A program that never writes mip never leaves MEIP set behind a flag     *)
(* that says the line is already down.                                     *)
THEOREM LineIsLowered == ASSUME ~MipWrites PROVE Spec => []MeipWillBeLowered
<1>1. LineInv => MeipWillBeLowered
  BY DEF LineInv
<1> QED BY <1>1, LineInvariant, PTL

(* Nor does an interrupt ever preempt the first instruction of a handler. *)
THEOREM HandlerStarts == ASSUME ~MipWrites PROVE Spec => HandlerGetsOneInstruction
<1>1. TypeOK /\ LineInv /\ [Next]_vars
        => [took /\ "CPU_thread" \in run \ run' => ~took']_vars
  <2> SUFFICES ASSUME TypeOK, LineInv, Next, took, "CPU_thread" \in run \ run'
               PROVE  ~took'
    BY DEF vars
  <2>1. CASE CpuThread
    <3>1. CASE ExecToHost
      BY <3>1 DEF ExecToHost
    <3>2. ASSUME NEW c \in CpuState, ATurn(c) PROVE ~took'
      BY <3>2 DEF ATurn, SameLine, Turn, TakesInterrupt, LineInv
    <3> QED BY <2>1, <3>1, <3>2, StepShape
  <2>2. CASE TimerRun
    BY <2>2 DEF TimerRun
  <2>3. CASE Kernel
    BY <2>3 DEF Kernel
  <2> QED BY <2>1, <2>2, <2>3 DEF Next
<1> QED BY <1>1, LineInvariant, PTL DEF Spec, HandlerGetsOneInstruction
-----------------------------------------------------------------------------
(* One-shot use of the timer *)

(* An arming of the timer is in one stage of its life only: notified, on   *)
(* its way through Timer::run, or requested.                               *)
Notified == timer_event # NOTHING
Woken == "Timer::run" \in run

OneStage ==
    /\ ~(Notified /\ Woken)
    /\ cpu.interrupt => ~Notified /\ ~Woken

(* And none has begun while MEIP is still set for the previous one.        *)
MeipIsLast == "MEIP" \in cpu.mip => ~cpu.interrupt /\ ~Notified /\ ~Woken

OneShotInv == LineInv /\ OneStage /\ MeipIsLast

LEMMA OneStageInductive ==
  ASSUME OneShot, TypeOK, OneStage, [Next]_vars
  PROVE  OneStage'
<1> USE DEF Notified, Woken
<1>1. CASE CpuThread
  <2>1. CASE ExecToHost
    BY <2>1 DEF ExecToHost, OneStage
  <2>2. ASSUME NEW c \in CpuState, ATurn(c) PROVE OneStage'
    <3>1. cpu' = cpu_process_IRQ(c) /\ (Woken' <=> Woken)
      BY <2>2 DEF ATurn, Turn
    <3>2. c.interrupt = cpu.interrupt
      BY <2>2 DEF ATurn, SameLine
    <3>3. Notified' => Notified \/ (~Notified /\ ~Woken /\ ~cpu.interrupt)
      BY <2>2 DEF ATurn, EventKeptOrArmed, MayArm
    <3>4. cpu'.interrupt => cpu.interrupt
      BY <3>1, <3>2 DEF cpu_process_IRQ, TakeInterrupt, LowerLine, CpuState
    <3> QED BY <3>1, <3>3, <3>4 DEF OneStage
  <2> QED BY <1>1, <2>1, <2>2, StepShape
<1>2. CASE TimerRun
  <2>1. Woken /\ ~Woken' /\ timer_event' = timer_event
    BY <1>2 DEF TimerRun
  <2> QED BY <2>1 DEF OneStage
<1>3. CASE Kernel
  <2>1. cpu' = cpu /\ ~Woken
    BY <1>3 DEF Kernel
  <2>2. NextDue # NOTHING
    BY TimingAssumption DEF NextDue, NOTHING, TypeOK
  <2>3. Woken' => Notified /\ ~Notified'
    BY <1>3, <2>2 DEF Kernel
  <2>4. Notified' => Notified
    BY <1>3 DEF Kernel
  <2> QED BY <2>1, <2>3, <2>4 DEF OneStage
<1>4. CASE UNCHANGED vars
  BY <1>4 DEF vars, OneStage
<1> QED BY <1>1, <1>2, <1>3, <1>4 DEF Next

LEMMA MeipIsLastInductive ==
  ASSUME OneShot, ~MipWrites, TypeOK, OneShotInv, [Next]_vars
  PROVE  MeipIsLast'
<1> USE DEF Notified, Woken
<1>1. CASE CpuThread
  <2>1. CASE ExecToHost
    BY <2>1 DEF ExecToHost, OneShotInv, MeipIsLast
  <2>2. ASSUME NEW c \in CpuState, ATurn(c) PROVE MeipIsLast'
    <3>1. cpu' = cpu_process_IRQ(c) /\ (Woken' <=> Woken)
      BY <2>2 DEF ATurn, Turn
    <3>2. /\ c.interrupt = cpu.interrupt
          /\ c.irq_already_down = cpu.irq_already_down
          /\ c.mip = cpu.mip
      BY <2>2 DEF ATurn, SameLine
    <3>3. Notified' => Notified \/ (~Notified /\ ~Woken /\ ~cpu.interrupt)
      BY <2>2 DEF ATurn, EventKeptOrArmed, MayArm
    <3>4. CASE TakesInterrupt(c)
      <4>1. cpu' = TakeInterrupt(c)
        BY <3>1, <3>4 DEF cpu_process_IRQ, LowersLine, TakesInterrupt
      <4>2. ~cpu'.interrupt
        BY <4>1 DEF TakeInterrupt, CpuState
      <4>3. cpu.interrupt
        BY <3>2, <3>4 DEF TakesInterrupt
      <4> QED BY <3>1, <3>3, <4>2, <4>3 DEF OneShotInv, OneStage, MeipIsLast
    <3>5. CASE LowersLine(c)
      <4>1. cpu' = LowerLine(c)
        BY <3>1, <3>5 DEF cpu_process_IRQ, LowersLine, TakesInterrupt
      <4>2. "MEIP" \notin cpu'.mip
        BY <4>1 DEF LowerLine, CpuState
      <4> QED BY <4>2 DEF MeipIsLast
    <3>6. CASE ~TakesInterrupt(c) /\ ~LowersLine(c)
      <4>1. cpu' = c
        BY <3>1, <3>6 DEF cpu_process_IRQ
      <4>2. "MEIP" \in cpu.mip => ~cpu.interrupt /\ ~cpu.irq_already_down
        BY DEF OneShotInv, MeipIsLast, LineInv, MeipWillBeLowered
      <4>3. "MEIP" \notin cpu.mip
        BY <3>2, <3>6, <4>2 DEF LowersLine
      <4> QED BY <3>2, <4>1, <4>3 DEF MeipIsLast
    <3> QED BY <3>4, <3>5, <3>6
  <2> QED BY <1>1, <2>1, <2>2, StepShape
<1>2. CASE TimerRun
  <2>1. Woken /\ cpu'.mip = cpu.mip
    BY <1>2 DEF TimerRun, call_interrupt, TypeOK, CpuState
  <2> QED BY <2>1 DEF OneShotInv, MeipIsLast
<1>3. CASE Kernel
  <2>1. cpu' = cpu
    BY <1>3 DEF Kernel
  <2>2. NextDue # NOTHING
    BY TimingAssumption DEF NextDue, NOTHING, TypeOK
  <2>3. Woken' \/ Notified' => Notified
    BY <1>3, <2>2 DEF Kernel
  <2> QED BY <2>1, <2>3 DEF OneShotInv, MeipIsLast
<1>4. CASE UNCHANGED vars
  BY <1>4 DEF vars, OneShotInv, MeipIsLast
<1> QED BY <1>1, <1>2, <1>3, <1>4 DEF Next

LEMMA OneStageInvariant ==
  ASSUME OneShot
  PROVE  Spec => [](TypeOK /\ OneStage)
<1>1. Init => OneStage
  BY DEF Init, CpuReset, OneStage, Notified, Woken
<1>2. TypeOK /\ OneStage /\ [Next]_vars => OneStage'
  BY OneStageInductive
<1> QED BY <1>1, <1>2, TypeCorrect, PTL DEF Spec

LEMMA OneShotInvariant ==
  ASSUME OneShot, ~MipWrites
  PROVE  Spec => [](TypeOK /\ OneShotInv)
<1>1. Init => OneShotInv
  BY DEF Init, CpuReset, OneShotInv, OneStage, MeipIsLast, Notified, Woken,
         LineInv, MeipWillBeLowered
<1>2. TypeOK /\ OneShotInv /\ [Next]_vars => OneShotInv'
  BY LineInductive, OneStageInductive, MeipIsLastInductive DEF OneShotInv
<1> QED BY <1>1, <1>2, TypeCorrect, PTL DEF Spec

(* A program that uses the timer one-shot never reaches the state in which *)
(* a request waits behind a MEIP bit that is never cleared.                *)
THEOREM OneShotNotWedged == ASSUME OneShot, ~MipWrites PROVE Spec => []NotWedged
<1>1. OneShotInv => NotWedged
  BY DEF OneShotInv, MeipIsLast, NotWedged
<1> QED BY <1>1, OneShotInvariant, PTL
-----------------------------------------------------------------------------
(* Refinement *)

(* Line in terms of the three stages, which OneStage makes exclusive. *)
LEMMA LineStages ==
  /\ cpu.interrupt => Line = "raised"
  /\ ~cpu.interrupt /\ (Notified \/ Woken) => Line = "armed"
  /\ ~cpu.interrupt /\ ~Notified /\ ~Woken => Line = "idle"
  BY DEF Line, Notified, Woken

LEMMA LineStagesNext ==
  /\ cpu'.interrupt => Line' = "raised"
  /\ ~cpu'.interrupt /\ (Notified' \/ Woken') => Line' = "armed"
  /\ ~cpu'.interrupt /\ ~Notified' /\ ~Woken' => Line' = "idle"
  BY DEF Line, Notified, Woken

LEMMA StepRefines ==
  ASSUME OneShot, TypeOK, OneStage, Next
  PROVE  L!LineNext \/ UNCHANGED L!lineVars
<1> USE DEF L!LineNext, L!lineVars
<1>1. CASE CpuThread
  <2>1. CASE ExecToHost
    <3>1. cpu' = cpu /\ Notified' = Notified /\ ~Woken'
          /\ stopped' = TRUE /\ took' = FALSE
      BY <2>1 DEF ExecToHost, Notified, Woken
    <3>2. CASE ~cpu.interrupt /\ Woken
      <4>1. ~Notified /\ Line = "armed" /\ Line' = "idle"
        BY <3>1, <3>2, LineStages, LineStagesNext DEF OneStage
      <4> QED BY <3>1, <4>1 DEF L!Abandon
    <3>3. CASE cpu.interrupt \/ ~Woken
      <4>1. Line' = Line
        BY <3>1, <3>3, LineStages, LineStagesNext
      <4> QED BY <3>1, <4>1 DEF L!Instruction
    <3> QED BY <3>2, <3>3
  <2>2. ASSUME NEW c \in CpuState, ATurn(c)
        PROVE  L!LineNext
    <3>1. /\ cpu' = cpu_process_IRQ(c)
          /\ took' = TakesInterrupt(c)
          /\ Woken' <=> Woken
          /\ stopped' \in {stopped, TRUE}
      BY <2>2 DEF ATurn, Turn, EventKeptOrArmed, Woken
    <3>2. c.interrupt = cpu.interrupt
      BY <2>2 DEF ATurn, SameLine
    <3>3. CASE TakesInterrupt(c)
      <4>1. cpu' = TakeInterrupt(c)
        BY <3>1, <3>3 DEF cpu_process_IRQ, LowersLine, TakesInterrupt
      <4>2. cpu.interrupt /\ ~cpu'.interrupt /\ took' = TRUE
        BY <3>1, <3>2, <3>3, <4>1 DEF TakeInterrupt, TakesInterrupt, CpuState
      <4>3. ~Notified /\ ~Woken
        BY <4>2 DEF OneStage
      <4>4. ~Notified'
        BY <2>2, <4>2, <4>3 DEF ATurn, EventKeptOrArmed, MayArm, Notified
      <4>5. Line = "raised" /\ Line' = "idle"
        BY <3>1, <4>2, <4>3, <4>4, LineStages, LineStagesNext
      <4> QED BY <3>1, <4>2, <4>5 DEF L!EnterHandler
    <3>4. CASE ~TakesInterrupt(c)
      <4>1. took' = FALSE
        BY <3>1, <3>4 DEF TakesInterrupt
      <4>2. cpu'.interrupt = cpu.interrupt
        BY <3>1, <3>2, <3>4 DEF cpu_process_IRQ, LowerLine, CpuState
      <4>3. CASE timer_event' = timer_event
        <5>1. Line' = Line
          BY <3>1, <4>2, <4>3, LineStages, LineStagesNext DEF Notified
        <5> QED BY <3>1, <4>1, <5>1 DEF L!Instruction
      <4>4. CASE timer_event' # timer_event
        <5>1. ~Notified /\ ~Woken /\ ~cpu.interrupt /\ Notified' /\ stopped' = stopped
          BY <2>2, <4>4 DEF ATurn, EventKeptOrArmed, MayArm, Notified, Woken, NOTHING
        <5>2. Line = "idle" /\ Line' = "armed"
          BY <4>2, <5>1, LineStages, LineStagesNext
        <5> QED BY <4>1, <5>1, <5>2 DEF L!ArmLine
      <4> QED BY <4>3, <4>4
    <3> QED BY <3>3, <3>4
  <2> QED BY <1>1, <2>1, <2>2, StepShape
<1>2. CASE TimerRun
  <2>1. /\ Woken /\ cpu'.interrupt
        /\ UNCHANGED <<took, stopped>>
    BY <1>2 DEF TimerRun, Woken, call_interrupt, TypeOK, CpuState
  <2>2. Line = "armed" /\ Line' = "raised"
    BY <2>1, LineStages, LineStagesNext DEF OneStage
  <2> QED BY <2>1, <2>2 DEF L!RaiseLine
<1>3. CASE Kernel
  <2>1. cpu' = cpu /\ ~Woken /\ UNCHANGED <<took, stopped>>
    BY <1>3 DEF Kernel, Woken
  <2>2. NextDue # NOTHING
    BY TimingAssumption DEF NextDue, NOTHING, TypeOK
  <2>3. (Notified' \/ Woken') <=> Notified
    <3>1. CASE timer_event = NextDue
      BY <1>3, <2>2, <3>1 DEF Kernel, Notified, Woken, Threads
    <3>2. CASE timer_event = NOTHING
      BY <1>3, <2>2, <3>2 DEF Kernel, Notified, Woken
    <3>3. CASE timer_event \notin {NOTHING, NextDue}
      <4>1. timer_event - NextDue # NOTHING
        BY <3>3, TimingAssumption DEF NextDue, NOTHING, TypeOK
      <4> QED BY <1>3, <3>3, <4>1 DEF Kernel, Notified
    <3> QED BY <3>1, <3>2, <3>3
  <2>4. Line' = Line
    BY <2>1, <2>3, LineStages, LineStagesNext
  <2> QED BY <2>1, <2>4
<1> QED BY <1>1, <1>2, <1>3 DEF Next

(* A program that uses the timer one-shot sees IrqLine: one entry of the   *)
(* handler for each arming, and no other, even if it writes mip.           *)
THEOREM OneShotRefines ==
  ASSUME OneShot PROVE Spec => ImplementsIrqLine
<1>1. Init => L!LineInit
  BY DEF Init, CpuReset, L!LineInit, Line, NOTHING
<1>2. TypeOK /\ OneStage /\ [Next]_vars => [L!LineNext]_(L!lineVars)
  <2> SUFFICES ASSUME TypeOK, OneStage, [Next]_vars
               PROVE  L!LineNext \/ UNCHANGED L!lineVars
    OBVIOUS
  <2>1. CASE Next
    BY <2>1, StepRefines
  <2>2. CASE UNCHANGED vars
    BY <2>2 DEF vars, L!lineVars, Line
  <2> QED BY <2>1, <2>2
<1> QED BY <1>1, <1>2, OneStageInvariant, PTL DEF Spec, ImplementsIrqLine, L!LineSpec
=============================================================================
