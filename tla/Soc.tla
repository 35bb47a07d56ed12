-------------------------------- MODULE Soc --------------------------------
(***************************************************************************)
(* The hart and kernel of IrqTiming together with the registers of the     *)
(* Timer peripheral: mtime and mtimecmp, which a program reads and writes  *)
(* through Timer::b_transport, in halves.  A register is a number of 2w    *)
(* bits, Half being 2^w (the code has w = 32), and notify_time is computed *)
(* modulo 2^(2w) as std::uint64_t does.                                    *)
(***************************************************************************)
EXTENDS IrqTiming

CONSTANTS
    Half,         \* 2^32 in the code: values of one half of a register
    LoWords,      \* the low halves the program stores
    HiWords,      \* the high halves the program stores
    MtimeWrites,  \* the program stores to mtime
    MaxTime       \* bound on the simulated time that is explored

ASSUME SocAssumption ==
    /\ Half \in Nat \ {0}
    /\ LoWords \subseteq 0 .. Half - 1
    /\ HiWords \subseteq 0 .. Half - 1
    /\ MtimeWrites \in BOOLEAN
    /\ MaxTime \in 0 .. Half * Half - 1   \* sc_time has 64 bits

VARIABLES
    now,          \* sc_time_stamp()
    m_mtime,
    m_mtimecmp,
    armed,        \* history: what the program asked of the timer
    pair          \* history: the last load of mtime's low half

timerRegs == <<m_mtime, m_mtimecmp>>
socVars == <<vars, now, timerRegs, armed, pair>>

Word == Half * Half

Lo(reg) == reg % Half
Hi(reg) == reg \div Half
WithLo_AddsOld(reg, v) == reg + v   \* Mutant: the old half is not cleared.
WithLo(reg, v) == Hi(reg) * Half + v
WithHi(reg, v) == v * Half + Lo(reg)

(* The last load of the low half of mtime: the half it returned and the    *)
(* instant.  It is not valid once the program has stored into mtime; at    *)
(* reset mtime is the time, 0.                                             *)
Pairs == [valid : BOOLEAN, lo : 0 .. Half - 1, at : 0 .. MaxTime]
NoPair == [valid |-> FALSE, lo |-> 0, at |-> 0]

(* What the program asked of the timer, in absolute, unbounded time: the   *)
(* comparator of the last arming; whether its expiry is awaited; the       *)
(* earliest comparator among the armings it is awaited for; the instant at *)
(* which the last of them has to be served; and whether all were InRange.  *)
Armings == [cmp : 0 .. Word - 1, awaited : BOOLEAN, from : 0 .. Word - 1,
            by : Nat, inRange : BOOLEAN]

SocTypeOK ==
    /\ TypeOK
    /\ now \in 0 .. MaxTime
    /\ m_mtime \in 0 .. Word - 1
    /\ m_mtimecmp \in 0 .. Word - 1
    /\ armed \in Armings
    /\ pair \in Pairs

SocInit ==
    /\ Init
    /\ now = 0
    /\ m_mtime = 0
    /\ m_mtimecmp = 0
    /\ armed = [cmp |-> 0, awaited |-> FALSE, from |-> 0, by |-> 0, inRange |-> TRUE]
    /\ pair = [valid |-> TRUE, lo |-> 0, at |-> 0]
-----------------------------------------------------------------------------
(* Timer::b_transport: one action for each case of its two switches.       *)

LoadMtimeLo ==
    /\ Quietly(incPC(cpu))
    /\ m_mtime' = now % Word
    /\ pair' = [valid |-> TRUE, lo |-> Lo(m_mtime'), at |-> now]
    /\ UNCHANGED <<now, m_mtimecmp, armed>>

MtimeHiValue_Samples == Hi(now)   \* Mutant: the high half is sampled again.

(* The high half comes from what the last load of the low half sampled. *)
MtimeHiValue == Hi(m_mtime)

LoadMtimeHi ==
    /\ Quietly(incPC(cpu))
    /\ UNCHANGED <<now, timerRegs, armed, pair>>

StoreMtimeLo(v) ==
    /\ MtimeWrites
    /\ Quietly(incPC(cpu))
    /\ m_mtime' = WithLo(m_mtime, v)
    /\ pair' = NoPair
    /\ UNCHANGED <<now, m_mtimecmp, armed>>

StoreMtimeHi(v) ==
    /\ MtimeWrites
    /\ Quietly(incPC(cpu))
    /\ m_mtime' = WithHi(m_mtime, v)
    /\ pair' = NoPair
    /\ UNCHANGED <<now, m_mtimecmp, armed>>

StoreMtimecmpLo(v) ==
    /\ Quietly(incPC(cpu))
    /\ m_mtimecmp' = WithLo(m_mtimecmp, v)
    /\ UNCHANGED <<now, m_mtime, armed, pair>>

(* Mutant: the absolute time is passed where a relative one is wanted. *)
NotifyTime_Absolute(cmp, time) == cmp

(* notify_time = m_mtimecmp - m_mtime, in 64 unsigned bits. *)
NotifyTime(cmp, time) == (cmp - time) % Word

(* sc_event::notify(from_value(notify_time)): the instant is the sum with  *)
(* sc_time_stamp() in 64 bits, and an instant already past is due at once. *)
DelayUntil(notify_time) ==
    LET instant == (now + notify_time) % Word
    IN  IF instant > now THEN instant - now ELSE 0

(* The latest instant at which an arming with comparator cmp is served: at *)
(* once if the mtime that was last sampled has reached cmp, else at cmp or *)
(* later by no more than mtime lags behind the time.                       *)
ServedBy(cmp) == IF cmp > m_mtime THEN cmp + (now - m_mtime) ELSE now

(* mtime is a sample of the time, not a value that the program stored, and *)
(* cmp is not so near 2^64 that the lag of mtime carries it beyond.        *)
InRange(cmp) == pair.valid /\ cmp + (now - m_mtime) < Word

(* What has been asked of the timer once it is armed with cmp. *)
ArmedWith(cmp) ==
    [cmp |-> cmp,
     awaited |-> TRUE,
     from |-> IF armed.awaited /\ armed.from < cmp THEN armed.from ELSE cmp,
     by |-> ServedBy(cmp),
     inRange |-> InRange(cmp) /\ (armed.awaited => armed.inRange)]

StoreMtimecmpHi(v) ==
    /\ m_mtimecmp' = WithHi(m_mtimecmp, v)
    /\ Arm(DelayUntil(NotifyTime(m_mtimecmp', m_mtime)))
    /\ armed' = ArmedWith(m_mtimecmp')
    /\ UNCHANGED <<now, m_mtime, pair>>

(* A load of either half of mtimecmp, and an access inside one of the four *)
(* words that is not at its address (ADDRESS_ERROR_RESPONSE, which         *)
(* BusCtrl overwrites with OK), change nothing: they are ExecPlain.        *)
TimerAccess ==
    \/ LoadMtimeLo
    \/ LoadMtimeHi
    \/ \E v \in LoWords : StoreMtimeLo(v)
    \/ \E v \in HiWords : StoreMtimeHi(v)
    \/ \E v \in LoWords : StoreMtimecmpLo(v)
    \/ \E v \in HiWords : StoreMtimecmpHi(v)
-----------------------------------------------------------------------------
SocOther == (ExecOther \/ TimerRun) /\ UNCHANGED <<now, timerRegs, armed, pair>>

(* timer_event triggers: Timer::run is woken, to raise the line. *)
Expires == "Timer::run" \in run' \ run

SocKernel ==
    /\ Kernel
    /\ now' = now + NextDue
    /\ now' <= MaxTime
    /\ armed' = [armed EXCEPT !.awaited = @ /\ ~Expires]
    /\ UNCHANGED <<timerRegs, pair>>

SocNext == TimerAccess \/ SocOther \/ SocKernel

SocSpec == SocInit /\ [][SocNext]_socVars
-----------------------------------------------------------------------------
(* Properties *)

(* A program that loads the low and then the high half of mtime, with any  *)
(* number of instructions and interrupts between the two loads, gets the   *)
(* instant of the first load, also when the low half rolls over in         *)
(* between.  (Another load of the low half starts a new pair; before the   *)
(* first, mtime is the time of the reset.)                                 *)
MtimeNotTorn == pair.valid => MtimeHiValue * Half + pair.lo = pair.at

(* What a program can rely on when it arms the timer, whatever it has done *)
(* before and does in between: the timer does not expire before the        *)
(* earliest comparator it is awaited for, and has expired, at the latest,  *)
(* at the last comparator plus the time that mtime lagged behind when it   *)
(* was stored; at once, if mtime had reached it.  The difference of the    *)
(* registers, the sum with the current time, the order of the stores of    *)
(* the two halves and the notification kept by the kernel may not take the *)
(* expiry out of this window, nor lose it.                                 *)
FiresInWindow ==
    [][armed.inRange => /\ Expires => now' >= armed.from
                        /\ armed.awaited => now' <= armed.by]_socVars

(* The window is what the code leaves of "mtimecmp works in absolute       *)
(* time", which is that the expiry is at the last comparator, neither      *)
(* before nor, if the comparator is still to come, after it.               *)

(* The timer never expires before the value the comparator had when the    *)
(* store of its high half last armed it.                                   *)
NeverBeforeMtimecmp == [][Expires => now' >= armed.cmp]_socVars

(* The time does not pass the comparator while the expiry is awaited.      *)
NeverAfterMtimecmp ==
    [][armed.awaited /\ now < armed.cmp => now' <= armed.cmp]_socVars
=============================================================================
