----------------------------- MODULE SocProofs -----------------------------
(***************************************************************************)
(* What TLC checks of Soc on registers of four bits, proved for every      *)
(* width of the registers, every period and every set of stored words.     *)
(***************************************************************************)
EXTENDS Soc, IrqTimingProofs

-----------------------------------------------------------------------------
(* Arithmetic of the registers *)

LEMMA HalfWord == Half \in Nat \ {0} /\ Word \in Nat \ {0}
<1>1. Half \in Nat \ {0}
  BY SocAssumption
<1> QED BY <1>1 DEF Word

LEMMA DivMod ==
  ASSUME NEW a \in Int, NEW b \in Nat \ {0}
  PROVE  /\ a \div b \in Int
         /\ a % b \in 0 .. b - 1
         /\ a = b * (a \div b) + (a % b)
  OBVIOUS

LEMMA ModSmall ==
  ASSUME NEW b \in Nat \ {0}, NEW a \in 0 .. b - 1
  PROVE  a % b = a
  OBVIOUS

LEMMA ModNegative ==
  ASSUME NEW b \in Nat \ {0}, NEW a \in (0 - b) .. -1
  PROVE  a % b = a + b
  OBVIOUS

LEMMA ModOnce ==
  ASSUME NEW b \in Nat \ {0}, NEW a \in b .. 2 * b - 1
  PROVE  a % b = a - b
  OBVIOUS

LEMMA HalvesType ==
  ASSUME NEW reg \in 0 .. Word - 1
  PROVE  /\ Lo(reg) \in 0 .. Half - 1
         /\ Hi(reg) \in 0 .. Half - 1
         /\ Hi(reg) * Half + Lo(reg) = reg
<1>1. reg \in Int /\ Half \in Nat \ {0}
  BY HalfWord
<1>2. /\ reg \div Half \in Int
      /\ reg % Half \in 0 .. Half - 1
      /\ reg = Half * (reg \div Half) + (reg % Half)
  BY <1>1, DivMod
<1> DEFINE q == reg \div Half
           r == reg % Half
<1> HIDE DEF q, r
<1>3. q \in Int /\ r \in 0 .. Half - 1 /\ reg = Half * q + r
  BY <1>2 DEF q, r
<1>4. ~(q < 0)
  <2> SUFFICES ASSUME q <= -1 PROVE FALSE
    BY <1>3
  <2>1. Half * q <= 0 - Half
    BY <1>1, <1>3
  <2> QED BY <1>1, <1>3, <2>1
<1>5. ~(q >= Half)
  <2> SUFFICES ASSUME q >= Half PROVE FALSE
    OBVIOUS
  <2>1. Half * q >= Half * Half
    BY <1>1, <1>3
  <2> QED BY <1>1, <1>3, <2>1 DEF Word
<1>6. q * Half = Half * q
  BY <1>1, <1>3
<1> QED BY <1>1, <1>3, <1>4, <1>5, <1>6 DEF Lo, Hi, q, r

LEMMA WithType ==
  ASSUME NEW reg \in 0 .. Word - 1, NEW v \in 0 .. Half - 1
  PROVE  WithLo(reg, v) \in 0 .. Word - 1 /\ WithHi(reg, v) \in 0 .. Word - 1
<1>1. Half \in Nat \ {0}
  BY HalfWord
<1>2. ASSUME NEW h \in 0 .. Half - 1, NEW l \in 0 .. Half - 1
      PROVE  h * Half + l \in 0 .. Word - 1
  <2>1. h * Half \in Nat /\ h * Half <= (Half - 1) * Half
    BY <1>1
  <2>2. (Half - 1) * Half = Half * Half - Half
    BY <1>1
  <2> QED BY <1>1, <2>1, <2>2 DEF Word
<1> QED BY <1>2, HalvesType DEF WithLo, WithHi
-----------------------------------------------------------------------------
(* The delay of a notification *)

LEMMA DelayType ==
  ASSUME SocTypeOK, NEW cmp \in 0 .. Word - 1
  PROVE  DelayUntil(NotifyTime(cmp, m_mtime)) \in Nat
<1>1. cmp - m_mtime \in Int /\ Word \in Nat \ {0} /\ now \in Nat
  BY HalfWord, SocAssumption DEF SocTypeOK
<1>2. NotifyTime(cmp, m_mtime) \in 0 .. Word - 1
  BY <1>1, DivMod DEF NotifyTime
<1>3. now + NotifyTime(cmp, m_mtime) \in Int
  BY <1>1, <1>2
<1>4. (now + NotifyTime(cmp, m_mtime)) % Word \in 0 .. Word - 1
  BY <1>1, <1>3, DivMod
<1> QED BY <1>1, <1>4 DEF DelayUntil

(* The subtraction and the sum, both modulo 2^64, give back the distance:  *)
(* they wrap together or not at all.                                       *)
LEMMA DelayIsDistance ==
  ASSUME SocTypeOK, NEW cmp \in 0 .. Word - 1, InRange(cmp), m_mtime <= now
  PROVE  /\ now + DelayUntil(NotifyTime(cmp, m_mtime)) = ServedBy(cmp)
         /\ cmp <= ServedBy(cmp)
<1>1. /\ Word \in Nat \ {0} /\ now \in 0 .. Word - 1
      /\ m_mtime \in 0 .. Word - 1 /\ m_mtime <= now
      /\ cmp + (now - m_mtime) < Word
  BY HalfWord, SocAssumption DEF SocTypeOK, InRange, Word
<1>2. CASE cmp >= m_mtime
  <2>1. NotifyTime(cmp, m_mtime) = cmp - m_mtime
    BY <1>1, <1>2, ModSmall DEF NotifyTime
  <2>2. (now + (cmp - m_mtime)) % Word = now + (cmp - m_mtime)
    BY <1>1, <1>2, ModSmall
  <2> QED BY <1>1, <1>2, <2>1, <2>2 DEF DelayUntil, ServedBy
<1>3. CASE cmp < m_mtime
  <2>1. NotifyTime(cmp, m_mtime) = cmp - m_mtime + Word
    BY <1>1, <1>3, ModNegative DEF NotifyTime
  <2>2. now + (cmp - m_mtime + Word) \in Word .. 2 * Word - 1
    BY <1>1, <1>3
  <2> DEFINE x == now + (cmp - m_mtime + Word)
  <2> HIDE DEF x
  <2>3. x % Word = x - Word
    BY <1>1, <2>2, ModOnce DEF x
  <2>4. (now + (cmp - m_mtime + Word)) % Word < now
    BY <1>1, <1>3, <2>3 DEF x
  <2> QED BY <1>1, <1>3, <2>1, <2>4 DEF DelayUntil, ServedBy
<1> QED BY <1>1, <1>2, <1>3
-----------------------------------------------------------------------------
(* Type correctness *)

SocRest == UNCHANGED <<now, timerRegs, armed, pair>>

(* Whatever the program does, the steps of Soc are typed as those of       *)
(* IrqTiming; only the store that arms the timer has a delay of its own.   *)
LEMMA ArmType ==
  ASSUME TypeOK, NEW d \in Nat, Arm(d)
  PROVE  TypeOK' /\ timer_event' = Notify(timer_event, d)
<1>1. timer_event' \in Nat
  BY NotifyType DEF Arm, TypeOK
<1>2. incPC(cpu) \in CpuState /\ SameLine(incPC(cpu))
  BY PcType, OperatorsKeepLine DEF TypeOK, SameLine
<1>3. ATurn(incPC(cpu))
  BY <1>1, <1>2 DEF Arm, ATurn, EventKeptOrArmed
<1> QED BY <1>2, <1>3, TurnType DEF Arm

LEMMA PlainType ==
  ASSUME TypeOK, Quietly(incPC(cpu))
  PROVE  TypeOK' /\ timer_event' = timer_event
<1>1. Next
  BY DEF Next, CpuThread, ExecOther, ExecPlain
<1>2. TypeOK'
  BY <1>1, TypeInductive
<1> QED BY <1>2 DEF Quietly

LEMMA KernelAwaits ==
  ASSUME armed \in Armings, SocKernel
  PROVE  /\ armed' \in Armings
         /\ armed'.awaited <=> armed.awaited /\ ~Expires
         /\ armed'.from = armed.from /\ armed'.by = armed.by
         /\ armed'.inRange = armed.inRange
<1>1. (armed.awaited /\ ~Expires) \in BOOLEAN
  BY DEF Expires
<1> DEFINE w == armed.awaited /\ ~Expires
<1> HIDE DEF w
<1>2. armed' = [armed EXCEPT !.awaited = w]
  BY DEF SocKernel, w
<1>3. w \in BOOLEAN
  BY <1>1 DEF w
<1>4. /\ armed' \in Armings /\ armed'.awaited = w
      /\ armed'.from = armed.from /\ armed'.by = armed.by
      /\ armed'.inRange = armed.inRange
  BY <1>2, <1>3 DEF Armings
<1> QED BY <1>4 DEF w

LEMMA SocTypeInductive ==
  ASSUME SocTypeOK, [SocNext]_socVars
  PROVE  SocTypeOK'
<1>0. TypeOK /\ Word \in Nat \ {0} /\ Half \in Nat \ {0}
  BY HalfWord DEF SocTypeOK
<1>1. CASE LoadMtimeLo
  <2>1. TypeOK'
    BY <1>0, <1>1, PlainType DEF LoadMtimeLo
  <2>2. now \in Int
    BY SocAssumption DEF SocTypeOK
  <2>3. m_mtime' \in 0 .. Word - 1
    BY <1>0, <1>1, <2>2, DivMod DEF LoadMtimeLo
  <2>4. Lo(m_mtime') \in 0 .. Half - 1
    BY <2>3, HalvesType
  <2> QED BY <1>1, <2>1, <2>3, <2>4 DEF LoadMtimeLo, SocTypeOK, Pairs
<1>2. CASE LoadMtimeHi
  <2>1. TypeOK'
    BY <1>0, <1>2, PlainType DEF LoadMtimeHi
  <2> QED BY <1>0, <1>2, <2>1, SocAssumption
          DEF LoadMtimeHi, SocTypeOK, timerRegs
<1>3. ASSUME NEW v \in LoWords, StoreMtimeLo(v)
      PROVE  SocTypeOK'
  <2>1. TypeOK'
    BY <1>0, <1>3, PlainType DEF StoreMtimeLo
  <2>2. m_mtime' \in 0 .. Word - 1
    BY <1>3, WithType, SocAssumption DEF StoreMtimeLo, SocTypeOK
  <2> QED BY <1>0, <1>3, <2>1, <2>2, SocAssumption
          DEF StoreMtimeLo, SocTypeOK, NoPair, Pairs
<1>4. ASSUME NEW v \in HiWords, StoreMtimeHi(v)
      PROVE  SocTypeOK'
  <2>1. TypeOK'
    BY <1>0, <1>4, PlainType DEF StoreMtimeHi
  <2>2. m_mtime' \in 0 .. Word - 1
    BY <1>4, WithType, SocAssumption DEF StoreMtimeHi, SocTypeOK
  <2> QED BY <1>0, <1>4, <2>1, <2>2, SocAssumption
          DEF StoreMtimeHi, SocTypeOK, NoPair, Pairs
<1>5. ASSUME NEW v \in LoWords, StoreMtimecmpLo(v)
      PROVE  SocTypeOK'
  <2>1. TypeOK'
    BY <1>0, <1>5, PlainType DEF StoreMtimecmpLo
  <2>2. m_mtimecmp' \in 0 .. Word - 1
    BY <1>5, WithType, SocAssumption DEF StoreMtimecmpLo, SocTypeOK
  <2> QED BY <1>5, <2>1, <2>2 DEF StoreMtimecmpLo, SocTypeOK
<1>6. ASSUME NEW v \in HiWords, StoreMtimecmpHi(v)
      PROVE  SocTypeOK'
  <2>1. m_mtimecmp' \in 0 .. Word - 1
    BY <1>6, WithType, SocAssumption DEF StoreMtimecmpHi, SocTypeOK
  <2>2. TypeOK'
    BY <1>0, <1>6, <2>1, DelayType, ArmType DEF StoreMtimecmpHi
  <2>3. ServedBy(m_mtimecmp') \in Nat
    <3>1. now \in Nat /\ m_mtime \in Nat /\ m_mtimecmp' \in Nat
      BY <2>1, HalfWord, SocAssumption DEF SocTypeOK
    <3>2. ASSUME NEW c \in Nat PROVE ServedBy(c) \in Nat
      BY <3>1 DEF ServedBy
    <3> QED BY <3>1, <3>2
  <2>4. /\ InRange(m_mtimecmp') \in BOOLEAN /\ armed.inRange \in BOOLEAN
        /\ armed.awaited \in BOOLEAN /\ armed.from \in 0 .. Word - 1
    BY DEF InRange, SocTypeOK, Armings, Pairs
  <2>5. armed' \in Armings
    BY <1>6, <2>1, <2>3, <2>4 DEF StoreMtimecmpHi, ArmedWith, Armings
  <2> QED BY <1>6, <2>1, <2>2, <2>5 DEF StoreMtimecmpHi, SocTypeOK
<1>7. CASE SocOther
  <2>1. Next /\ SocRest
    BY <1>7 DEF SocOther, Next, CpuThread, SocRest
  <2>2. TypeOK'
    BY <1>0, <2>1, TypeInductive
  <2> QED BY <2>1, <2>2 DEF SocRest, SocTypeOK, timerRegs
<1>8. CASE SocKernel
  <2>1. Next
    BY <1>8 DEF SocKernel, Next
  <2>2. TypeOK'
    BY <1>0, <2>1, TypeInductive
  <2>3. NextDue \in Nat
    BY <1>0, TimingAssumption DEF NextDue, TypeOK, NOTHING
  <2>4. now' \in 0 .. MaxTime
    BY <1>8, <2>3, SocAssumption DEF SocKernel, SocTypeOK
  <2>5. armed' \in Armings
    BY <1>8, KernelAwaits DEF SocTypeOK
  <2> QED BY <1>8, <2>2, <2>4, <2>5 DEF SocKernel, SocTypeOK, timerRegs
<1>9. CASE UNCHANGED socVars
  <2>1. TypeOK'
    BY <1>0, <1>9, TypeInductive DEF socVars
  <2> QED BY <1>9, <2>1 DEF socVars, SocTypeOK, timerRegs
<1> QED BY <1>1, <1>2, <1>3, <1>4, <1>5, <1>6, <1>7, <1>8, <1>9
        DEF SocNext, TimerAccess

LEMMA SocInitType == SocInit => SocTypeOK
<1>1. 0 \in 0 .. Word - 1 /\ 0 \in 0 .. Half - 1 /\ 0 \in 0 .. MaxTime
  BY HalfWord, SocAssumption
<1>2. SocInit => armed \in Armings
  BY <1>1 DEF SocInit, Armings
<1>3. SocInit => pair \in Pairs
  BY <1>1 DEF SocInit, Pairs
<1> QED BY <1>1, <1>2, <1>3, InitType DEF SocInit, SocTypeOK

(* Every register of the timer keeps its 64 bits and every variable its    *)
(* type, whatever words the program stores.                                *)
THEOREM SocTypeCorrect == SocSpec => []SocTypeOK
  BY SocInitType, SocTypeInductive, PTL DEF SocSpec
-----------------------------------------------------------------------------
(* A read of mtime is not torn *)

LEMMA NotTornInductive ==
  ASSUME SocTypeOK, MtimeNotTorn, [SocNext]_socVars
  PROVE  MtimeNotTorn'
<1>1. CASE LoadMtimeLo
  <2>1. now \in 0 .. Word - 1
    BY HalfWord, SocAssumption DEF SocTypeOK, Word
  <2>2. m_mtime' = now
    BY <1>1, <2>1, HalfWord, ModSmall DEF LoadMtimeLo
  <2>3. Hi(m_mtime') * Half + Lo(m_mtime') = now
    BY <2>1, <2>2, HalvesType
  <2>4. pair'.lo = Lo(m_mtime') /\ pair'.at = now
    BY <1>1 DEF LoadMtimeLo
  <2> QED BY <2>3, <2>4 DEF MtimeNotTorn, MtimeHiValue
<1>2. ASSUME pair' = NoPair
      PROVE  MtimeNotTorn'
  BY <1>2 DEF NoPair, MtimeNotTorn
<1>3. ASSUME UNCHANGED <<m_mtime, pair>>
      PROVE  MtimeNotTorn'
  BY <1>3 DEF MtimeNotTorn, MtimeHiValue, Hi
<1>4. CASE LoadMtimeHi
  BY <1>3, <1>4 DEF LoadMtimeHi, timerRegs
<1>5. ASSUME NEW v, StoreMtimeLo(v) \/ StoreMtimeHi(v)
      PROVE  MtimeNotTorn'
  BY <1>2, <1>5 DEF StoreMtimeLo, StoreMtimeHi
<1>6. ASSUME NEW v, StoreMtimecmpLo(v) \/ StoreMtimecmpHi(v)
      PROVE  MtimeNotTorn'
  BY <1>3, <1>6 DEF StoreMtimecmpLo, StoreMtimecmpHi
<1>7. CASE SocOther \/ SocKernel \/ UNCHANGED socVars
  BY <1>3, <1>7 DEF SocOther, SocKernel, socVars, timerRegs
<1> QED BY <1>1, <1>4, <1>5, <1>6, <1>7 DEF SocNext, TimerAccess

(* A low-then-high read of mtime gives the instant of the first load, for  *)
(* every width, every roll-over of the low half and any instructions and   *)
(* interrupts between the two loads.                                       *)
THEOREM MtimeReadIsAtomic == SocSpec => []MtimeNotTorn
<1>1. SocInit => MtimeNotTorn
  <2> SUFFICES ASSUME SocInit PROVE MtimeNotTorn
    OBVIOUS
  <2>1. 0 \in 0 .. Word - 1
    BY HalfWord
  <2>2. Hi(0) * Half + Lo(0) = 0
    BY <2>1, HalvesType
  <2>3. Lo(0) = 0
    BY HalfWord, ModSmall DEF Lo
  <2>4. m_mtime = 0 /\ pair.lo = 0 /\ pair.at = 0
    BY DEF SocInit
  <2> QED BY <2>2, <2>3, <2>4 DEF MtimeNotTorn, MtimeHiValue
<1> QED BY <1>1, SocInitType, SocTypeInductive, NotTornInductive, PTL DEF SocSpec
-----------------------------------------------------------------------------
(* The timer fires in its window *)

(* The expiry that the program awaits is the one the kernel has pending,   *)
(* its instant is in the window, and a sampled mtime is not ahead of time. *)
SampleInv == pair.valid => m_mtime <= now
AwaitInv == armed.awaited <=> timer_event # NOTHING
WindowInv == armed.awaited /\ armed.inRange
                 => armed.from <= now + timer_event /\ now + timer_event <= armed.by
TimerInv == SampleInv /\ AwaitInv /\ WindowInv

LEMMA NotifyIsEarliest ==
  ASSUME NEW e \in Nat \cup {NOTHING}, NEW d \in Nat
  PROVE  /\ Notify(e, d) \in Nat /\ Notify(e, d) # NOTHING
         /\ Notify(e, d) <= d
         /\ Notify(e, d) = d \/ (e # NOTHING /\ Notify(e, d) = e)
  BY DEF Notify, NOTHING

LEMMA ArmingKeepsWindow ==
  ASSUME SocTypeOK, TimerInv, NEW v \in HiWords, StoreMtimecmpHi(v)
  PROVE  AwaitInv' /\ WindowInv'
<1> DEFINE cmp == m_mtimecmp'
           d == DelayUntil(NotifyTime(cmp, m_mtime))
<1> HIDE DEF cmp, d
<1>0. /\ TypeOK /\ now \in Nat /\ timer_event \in Nat \cup {NOTHING}
      /\ armed.from \in Nat
  BY HalfWord, SocAssumption DEF SocTypeOK, TypeOK, Armings
<1>1. cmp \in 0 .. Word - 1 /\ cmp \in Nat
  BY WithType, HalfWord, SocAssumption DEF StoreMtimecmpHi, SocTypeOK, cmp
<1>2. d \in Nat
  BY <1>1, DelayType DEF d
<1>3. timer_event' = Notify(timer_event, d) /\ now' = now
  BY <1>0, <1>2, ArmType DEF StoreMtimecmpHi, d, cmp
<1>4. armed' = ArmedWith(cmp)
  BY DEF StoreMtimecmpHi, cmp
<1>5. /\ armed'.awaited
      /\ armed'.inRange <=> InRange(cmp) /\ (armed.awaited => armed.inRange)
      /\ armed'.by = ServedBy(cmp)
      /\ armed'.from = IF armed.awaited /\ armed.from < cmp THEN armed.from ELSE cmp
  BY <1>4 DEF ArmedWith
<1>6. AwaitInv'
  BY <1>0, <1>2, <1>3, <1>5, NotifyIsEarliest DEF AwaitInv
<1>7. SUFFICES ASSUME InRange(cmp), armed.awaited => armed.inRange
               PROVE  armed'.from <= now + timer_event' /\ now + timer_event' <= armed'.by
  BY <1>3, <1>5, <1>6 DEF WindowInv
<1>8. m_mtime <= now
  BY <1>7 DEF TimerInv, SampleInv, InRange
<1>9. armed'.by = now + d /\ cmp <= now + d
  BY <1>1, <1>5, <1>7, <1>8, DelayIsDistance DEF d
<1>10. armed'.from <= cmp /\ (armed.awaited => armed'.from <= armed.from)
  BY <1>0, <1>1, <1>5
<1>11. armed'.from \in Nat
  BY <1>0, <1>1, <1>5
<1>12. CASE timer_event' = d
  BY <1>0, <1>1, <1>2, <1>9, <1>10, <1>11, <1>12
<1>13. CASE timer_event # NOTHING /\ timer_event' = timer_event
  <2>1. armed.awaited /\ armed.from <= now + timer_event
    BY <1>7, <1>13 DEF TimerInv, AwaitInv, WindowInv
  <2>2. timer_event <= d
    BY <1>0, <1>2, <1>3, <1>13, NotifyIsEarliest
  <2>3. timer_event \in Nat
    BY <1>0, <1>13
  <2> QED BY <1>0, <1>2, <1>9, <1>10, <1>11, <1>13, <2>1, <2>2, <2>3
<1> QED BY <1>0, <1>2, <1>3, <1>12, <1>13, NotifyIsEarliest

(* What the kernel's step does to the pending notification. *)
LEMMA KernelMovesEvent ==
  ASSUME SocTypeOK, SocKernel
  PROVE  /\ NextDue \in Nat
         /\ timer_event # NOTHING => NextDue <= timer_event
         /\ Expires <=> timer_event = NextDue
         /\ now' = now + NextDue
         /\ timer_event' = IF timer_event = NOTHING \/ timer_event = NextDue
                           THEN NOTHING ELSE timer_event - NextDue
<1>0. /\ timer_event \in Nat \cup {NOTHING} /\ cpu_wait \in Nat
  BY TimingAssumption DEF SocTypeOK, TypeOK
<1>1. NextDue \in Nat /\ (timer_event # NOTHING => NextDue <= timer_event)
  BY <1>0 DEF NextDue, NOTHING
<1>2. /\ run = {} /\ now' = now + NextDue
      /\ run' = {t \in Threads : \/ t = "CPU_thread" /\ cpu_wait = NextDue
                                 \/ t = "Timer::run" /\ timer_event = NextDue}
      /\ timer_event' = IF timer_event \in {NOTHING, NextDue}
                        THEN NOTHING ELSE timer_event - NextDue
  BY DEF SocKernel, Kernel
<1>3. Expires <=> timer_event = NextDue
  BY <1>2 DEF Expires, Threads
<1> QED BY <1>1, <1>2, <1>3

LEMMA KernelKeepsTimer ==
  ASSUME SocTypeOK, TimerInv, SocKernel
  PROVE  TimerInv'
<1>0. now \in Nat /\ timer_event \in Nat \cup {NOTHING} /\ m_mtime \in Int
  BY SocAssumption DEF SocTypeOK, TypeOK
<1>1. UNCHANGED <<m_mtime, pair>>
  BY DEF SocKernel, timerRegs
<1>2. SampleInv'
  BY <1>0, <1>1, KernelMovesEvent DEF TimerInv, SampleInv
<1>3. /\ armed'.awaited <=> armed.awaited /\ ~Expires
      /\ armed'.from = armed.from /\ armed'.by = armed.by
      /\ armed'.inRange = armed.inRange
  BY KernelAwaits DEF SocTypeOK
<1>4. timer_event' # NOTHING <=> timer_event # NOTHING /\ timer_event # NextDue
  BY <1>0, KernelMovesEvent DEF NOTHING
<1>5. AwaitInv'
  BY <1>3, <1>4, KernelMovesEvent DEF TimerInv, AwaitInv
<1>6. WindowInv'
  <2> SUFFICES ASSUME armed'.awaited, armed'.inRange
               PROVE  armed'.from <= now' + timer_event' /\ now' + timer_event' <= armed'.by
    BY DEF WindowInv
  <2>1. timer_event # NOTHING /\ timer_event # NextDue
    BY <1>3, KernelMovesEvent DEF TimerInv, AwaitInv
  <2>2. now' + timer_event' = now + timer_event
    BY <1>0, <2>1, KernelMovesEvent
  <2> QED BY <1>3, <2>2 DEF TimerInv, WindowInv
<1> QED BY <1>2, <1>5, <1>6 DEF TimerInv

LEMMA OtherKeepsEvent ==
  ASSUME SocOther
  PROVE  UNCHANGED <<timer_event, now, m_mtime, armed, pair>> /\ run' \subseteq run
<1>0. ASSUME NEW c, Turn(c) PROVE run' \subseteq run
  BY <1>0 DEF Turn
<1>1. timer_event' = timer_event
  BY DEF SocOther, ExecOther, TimerRun, Quietly, Stopping, ExecPlain,
     ExecCompressed, ExecJump, ExecEcall, ExecEbreak, ExecMret, ExecIllegalC,
     ExecIllegalLR, ExecIllegalShift, ExecNotImplemented, ExecFence,
     ExecCsrMstatus, ExecCsrMip, ExecCsrMtvec, ExecCsrMepc, ExecToHost
<1>2. CASE ExecToHost \/ TimerRun
  BY <1>1, <1>2 DEF SocOther, ExecToHost, TimerRun, timerRegs
<1>3. CASE ExecOther /\ ~ExecToHost
  <2>1. run' \subseteq run
    BY <1>0, <1>3 DEF ExecOther, Quietly, Stopping, ExecPlain,
       ExecCompressed, ExecJump, ExecEcall, ExecEbreak, ExecMret, ExecIllegalC,
       ExecIllegalLR, ExecIllegalShift, ExecNotImplemented, ExecFence,
       ExecCsrMstatus, ExecCsrMip, ExecCsrMtvec, ExecCsrMepc
  <2> QED BY <1>1, <2>1 DEF SocOther, timerRegs
<1> QED BY <1>2, <1>3 DEF SocOther

LEMMA TimerInductive ==
  ASSUME SocTypeOK, TimerInv, [SocNext]_socVars
  PROVE  TimerInv'
<1>1. ASSUME UNCHANGED <<timer_event, now, armed>>
      PROVE  AwaitInv' /\ WindowInv'
  BY <1>1 DEF TimerInv, AwaitInv, WindowInv
<1>2. ASSUME UNCHANGED <<now, m_mtime, pair>>
      PROVE  SampleInv'
  BY <1>2 DEF TimerInv, SampleInv
<1>3. CASE LoadMtimeLo
  <2>1. now \in 0 .. Word - 1
    BY HalfWord, SocAssumption DEF SocTypeOK, Word
  <2>2. m_mtime' = now /\ now' = now
    BY <1>3, <2>1, HalfWord, ModSmall DEF LoadMtimeLo
  <2>3. SampleInv'
    BY <2>1, <2>2 DEF SampleInv
  <2>4. UNCHANGED <<timer_event, now, armed>>
    BY <1>3 DEF LoadMtimeLo, Quietly
  <2> QED BY <1>1, <2>3, <2>4 DEF TimerInv
<1>4. CASE LoadMtimeHi
  BY <1>1, <1>2, <1>4 DEF LoadMtimeHi, Quietly, timerRegs, TimerInv
<1>5. ASSUME NEW v, StoreMtimeLo(v) \/ StoreMtimeHi(v)
      PROVE  TimerInv'
  <2>1. SampleInv'
    BY <1>5 DEF StoreMtimeLo, StoreMtimeHi, NoPair, SampleInv
  <2>2. UNCHANGED <<timer_event, now, armed>>
    BY <1>5 DEF StoreMtimeLo, StoreMtimeHi, Quietly
  <2> QED BY <1>1, <2>1, <2>2 DEF TimerInv
<1>6. ASSUME NEW v, StoreMtimecmpLo(v)
      PROVE  TimerInv'
  BY <1>1, <1>2, <1>6 DEF StoreMtimecmpLo, Quietly, TimerInv
<1>7. ASSUME NEW v \in HiWords, StoreMtimecmpHi(v)
      PROVE  TimerInv'
  <2>1. UNCHANGED <<now, m_mtime, pair>>
    BY <1>7 DEF StoreMtimecmpHi
  <2> QED BY <1>2, <1>7, <2>1, ArmingKeepsWindow DEF TimerInv
<1>8. CASE SocOther
  BY <1>1, <1>2, <1>8, OtherKeepsEvent DEF TimerInv
<1>9. CASE SocKernel
  BY <1>9, KernelKeepsTimer
<1>10. CASE UNCHANGED socVars
  BY <1>1, <1>2, <1>10 DEF socVars, vars, timerRegs, TimerInv
<1> QED BY <1>3, <1>4, <1>5, <1>6, <1>7, <1>8, <1>9, <1>10 DEF SocNext, TimerAccess

LEMMA StepInWindow ==
  ASSUME SocTypeOK, TimerInv, [SocNext]_socVars, armed.inRange
  PROVE  /\ Expires => now' >= armed.from
         /\ armed.awaited => now' <= armed.by
<1>0. /\ now \in Nat /\ timer_event \in Nat \cup {NOTHING}
      /\ armed.from \in Int /\ armed.by \in Int
  BY SocAssumption, HalfWord DEF SocTypeOK, TypeOK, Armings
<1>1. armed.awaited => /\ timer_event \in Nat
                       /\ armed.from <= now + timer_event
                       /\ now + timer_event <= armed.by
  BY <1>0 DEF TimerInv, AwaitInv, WindowInv
<1>2. CASE SocKernel
  <2>1. ASSUME Expires PROVE now' >= armed.from
    <3>1. timer_event = NextDue /\ timer_event # NOTHING /\ now' = now + timer_event
      BY <1>2, <2>1, KernelMovesEvent DEF NOTHING
    <3>2. armed.awaited
      BY <3>1 DEF TimerInv, AwaitInv
    <3> QED BY <1>0, <1>1, <3>1, <3>2
  <2>2. ASSUME armed.awaited PROVE now' <= armed.by
    <3>1. NextDue \in Nat /\ NextDue <= timer_event /\ now' = now + NextDue
      BY <1>2, <2>2, KernelMovesEvent DEF TimerInv, AwaitInv
    <3> QED BY <1>0, <1>1, <2>2, <3>1
  <2> QED BY <2>1, <2>2
<1>3. ASSUME run' \subseteq run, now' = now
      PROVE  /\ Expires => now' >= armed.from
             /\ armed.awaited => now' <= armed.by
  <2>1. ~Expires
    BY <1>3 DEF Expires
  <2> QED BY <1>0, <1>1, <1>3, <2>1
<1>4. CASE TimerAccess
  <2>1. now' = now
    BY <1>4 DEF TimerAccess, LoadMtimeLo, LoadMtimeHi, StoreMtimeLo,
       StoreMtimeHi, StoreMtimecmpLo, StoreMtimecmpHi
  <2>2. ASSUME NEW c, Turn(c) PROVE run' \subseteq run
    BY <2>2 DEF Turn
  <2>3. run' \subseteq run
    BY <1>4, <2>2 DEF TimerAccess, LoadMtimeLo, LoadMtimeHi, StoreMtimeLo,
       StoreMtimeHi, StoreMtimecmpLo, StoreMtimecmpHi, Quietly, Arm
  <2> QED BY <1>3, <2>1, <2>3
<1>5. CASE SocOther
  BY <1>3, <1>5, OtherKeepsEvent
<1>6. CASE UNCHANGED socVars
  BY <1>3, <1>6 DEF socVars, vars
<1> QED BY <1>2, <1>4, <1>5, <1>6 DEF SocNext

(* The timer expires in the window that its armings leave, for every width *)
(* of the registers and every order of stores and loads of their halves,   *)
(* as long as mtime is a sample and the sums fit 64 bits.                  *)
THEOREM TimerInWindow == SocSpec => FiresInWindow
<1>1. SocInit => TimerInv
  BY DEF SocInit, Init, TimerInv, SampleInv, AwaitInv, WindowInv
<1>2. SocTypeOK /\ TimerInv /\ [SocNext]_socVars
          => [armed.inRange => /\ Expires => now' >= armed.from
                               /\ armed.awaited => now' <= armed.by]_socVars
  BY StepInWindow
<1> QED BY <1>1, <1>2, SocInitType, SocTypeInductive, TimerInductive, PTL
        DEF SocSpec, FiresInWindow
=============================================================================
