--------------------------- MODULE SpinLockProofs ---------------------------
(***************************************************************************)
(* MutualExclusion of SpinLock, for every set of tasks and locks.          *)
(***************************************************************************)
EXTENDS SpinLock, TLAPS

(* Task t has read that its lock is free and has not tried to take it. *)
SawFree(t) == pc[t] = "sc" \/ (pc[t] = "loaded" /\ x[t]["t1"] = 0)

(* The registers hold what the program put there; in particular AMOSWAP    *)
(* has left 1 in t0 whenever the program goes back to it.                  *)
RegsOK ==
    \A t \in Tasks :
        /\ x[t]["a0"] = LockOf[t]
        /\ x[t]["x0"] = 0
        /\ x[t]["t0"] \in {0, 1}
        /\ x[t]["t1"] \in {0, 1}
        /\ pc[t] \in {"swap", "lr", "loaded", "sc", "stored"} => x[t]["t0"] = 1
        /\ pc[t] = "swapped" => x[t]["t0"] = x[t]["t1"]

(* A task is in the loop of its kind of lock. *)
LoopOK ==
    \A t \in Tasks :
        /\ pc[t] \in {"swap", "swapped"} => UsesSwap(t)
        /\ pc[t] \in {"lr", "loaded", "sc", "stored"} => ~UsesSwap(t)

(* The lock word says whether somebody has the lock. *)
WordsOK ==
    /\ mem \in [Locks -> {0, 1}]
    /\ \A t \in Tasks : Holds(t) => mem[LockOf[t]] = 1
    /\ \A l \in Locks : mem[l] = 1 => \E t \in Tasks : Holds(t) /\ LockOf[t] = l

HoldsOnce ==
    \A t, u \in Tasks : Holds(t) /\ Holds(u) /\ LockOf[t] = LockOf[u] => t = u

(* A reservation never outlives the lock's freedom for a task that is      *)
(* about to rely on it.                                                    *)
ReservationOK ==
    \A t \in Tasks : SawFree(t) /\ LockOf[t] \in TLB_A_Entries => mem[LockOf[t]] = 0

LockInv ==
    /\ pc \in [Tasks -> Labels]
    /\ x \in [Tasks -> [Regs -> Nat]]
    /\ RegsOK
    /\ LoopOK
    /\ WordsOK
    /\ HoldsOnce
    /\ ReservationOK
-----------------------------------------------------------------------------
(* What one instruction of task t does, in terms of t0, t1 and the lock    *)
(* word: every action of SpinLock has this form.                           *)
Effect(t, from, to, t0, t1, word, reserved) ==
    /\ pc[t] = from
    /\ pc' = [pc EXCEPT ![t] = to]
    /\ x' = [x EXCEPT ![t] = [x[t] EXCEPT !["t0"] = t0, !["t1"] = t1]]
    /\ mem' = [mem EXCEPT ![LockOf[t]] = word]
    /\ TLB_A_Entries' = reserved

LEMMA SmallValues == SignExtend(0) = 0 /\ SignExtend(1) = 1
                     /\ Truncate(0) = 0 /\ Truncate(1) = 1
  BY AExtAssumption DEF SignExtend, Truncate

LEMMA LockAddress == \A l \in Locks : Truncate(l) = l
  BY AExtAssumption, SpinLockAssumption DEF Truncate

(* The facts about task t that its next instruction depends on. *)
LEMMA TaskState ==
  ASSUME LockInv, NEW t \in Tasks
  PROVE  /\ LockOf[t] \in Locks
         /\ x[t] \in [Regs -> Nat]
         /\ mem \in [Locks -> {0, 1}]
         /\ x[t]["a0"] = LockOf[t] /\ Truncate(x[t]["a0"]) = LockOf[t]
         /\ x[t]["x0"] = 0
         /\ SignExtend(mem[LockOf[t]]) = mem[LockOf[t]]
<1>1. LockOf[t] \in Locks
  BY SpinLockAssumption
<1>2. mem[LockOf[t]] \in {0, 1}
  BY <1>1 DEF LockInv, WordsOK
<1> QED BY <1>1, <1>2, SmallValues, LockAddress DEF LockInv, RegsOK, WordsOK

LEMMA BeginEffect ==
  ASSUME LockInv, NEW t \in Tasks, Begin(t)
  PROVE  Effect(t, "idle", IF UsesSwap(t) THEN "swap" ELSE "lr",
                1, x[t]["t1"], mem[LockOf[t]], TLB_A_Entries)
  BY TaskState DEF Begin, Exec, State, setValue, Effect, Regs, LockInv

LEMMA SwapEffect ==
  ASSUME LockInv, NEW t \in Tasks, Swap(t)
  PROVE  Effect(t, "swap", "swapped", mem[LockOf[t]], mem[LockOf[t]], 1, TLB_A_Entries)
<1>1. x[t]["t0"] = 1
  BY DEF LockInv, RegsOK, Swap, Exec
<1> QED BY <1>1, TaskState, SmallValues
        DEF Swap, Exec, Exec_A_AMOSWAP, Hart, State, setValue, Effect, Regs

LEMMA LrEffect ==
  ASSUME LockInv, NEW t \in Tasks, LoadReserved(t)
  PROVE  Effect(t, "lr", "loaded", x[t]["t0"], mem[LockOf[t]], mem[LockOf[t]],
                TLB_A_Entries \cup {LockOf[t]})
  BY TaskState DEF LoadReserved, Exec, Exec_A_LR, Hart, State, setValue, Effect, Regs

LEMMA ScEffect ==
  ASSUME LockInv, NEW t \in Tasks, StoreConditional(t)
  PROVE  IF LockOf[t] \in TLB_A_Entries
         THEN Effect(t, "sc", "stored", x[t]["t0"], 0, 1, TLB_A_Entries \ {LockOf[t]})
         ELSE Effect(t, "sc", "stored", x[t]["t0"], 1, mem[LockOf[t]], TLB_A_Entries)
<1>1. x[t]["t0"] = 1
  BY DEF LockInv, RegsOK, StoreConditional, Exec
<1> QED BY <1>1, TaskState, SmallValues
        DEF StoreConditional, Exec, Exec_A_SC, Hart, State, setValue, Effect, Regs

LEMMA BranchEffect ==
  ASSUME LockInv, NEW t \in Tasks, NEW from, NEW to, Goto(t, from, to)
  PROVE  Effect(t, from, to, x[t]["t0"], x[t]["t1"], mem[LockOf[t]], TLB_A_Entries)
  BY TaskState DEF Goto, Exec, Hart, State, Effect, Regs, LockInv

LEMMA ReleaseEffect ==
  ASSUME LockInv, NEW t \in Tasks, ReleaseBySwap(t) \/ ReleaseByStore(t)
  PROVE  Effect(t, "critical", "idle", x[t]["t0"], x[t]["t1"], 0, TLB_A_Entries)
<1>1. CASE ReleaseBySwap(t)
  BY <1>1, TaskState, SmallValues
     DEF ReleaseBySwap, Exec, Exec_A_AMOSWAP, Hart, State, setValue, Effect, Regs, LockInv
<1>2. CASE ReleaseByStore(t)
  BY <1>2, TaskState, SmallValues DEF ReleaseByStore, Exec, Hart, State, Effect, Regs, LockInv
<1> QED BY <1>1, <1>2
-----------------------------------------------------------------------------
(* What such an effect leaves alone. *)
Framed(t, to, t0, t1, word) ==
    /\ pc' \in [Tasks -> Labels]
    /\ x' \in [Tasks -> [Regs -> Nat]]
    /\ mem' \in [Locks -> {0, 1}]
    /\ pc'[t] = to
    /\ x'[t]["t0"] = t0 /\ x'[t]["t1"] = t1
    /\ x'[t]["a0"] = LockOf[t] /\ x'[t]["x0"] = 0
    /\ mem'[LockOf[t]] = word
    /\ \A u \in Tasks : u # t => pc'[u] = pc[u] /\ x'[u] = x[u]
    /\ \A l \in Locks : l # LockOf[t] => mem'[l] = mem[l]

LEMMA EffectFrame ==
  ASSUME LockInv, NEW t \in Tasks, NEW from, NEW to \in Labels,
         NEW t0 \in {0, 1}, NEW t1 \in {0, 1}, NEW word \in {0, 1}, NEW reserved,
         Effect(t, from, to, t0, t1, word, reserved)
  PROVE  Framed(t, to, t0, t1, word)
  BY TaskState DEF Effect, Framed, LockInv, WordsOK, Regs

(* An instruction that leads to a place where the registers are right. *)
LEMMA EffectKeepsRegs ==
  ASSUME LockInv, NEW t \in Tasks, NEW from, NEW to \in Labels,
         NEW t0 \in {0, 1}, NEW t1 \in {0, 1}, NEW word \in {0, 1}, NEW reserved,
         Effect(t, from, to, t0, t1, word, reserved),
         to \in {"swap", "lr", "loaded", "sc", "stored"} => t0 = 1,
         to = "swapped" => t0 = t1,
         to \in {"swap", "swapped"} => UsesSwap(t),
         to \in {"lr", "loaded", "sc", "stored"} => ~UsesSwap(t)
  PROVE  RegsOK' /\ LoopOK'
<1>0. Framed(t, to, t0, t1, word)
  BY EffectFrame
<1>1. RegsOK'
  <2> SUFFICES ASSUME NEW u \in Tasks
               PROVE  /\ x'[u]["a0"] = LockOf[u]
                      /\ x'[u]["x0"] = 0
                      /\ x'[u]["t0"] \in {0, 1}
                      /\ x'[u]["t1"] \in {0, 1}
                      /\ pc'[u] \in {"swap", "lr", "loaded", "sc", "stored"}
                            => x'[u]["t0"] = 1
                      /\ pc'[u] = "swapped" => x'[u]["t0"] = x'[u]["t1"]
    BY DEF RegsOK
  <2>1. CASE u = t
    BY <1>0, <2>1 DEF Framed
  <2>2. CASE u # t
    BY <1>0, <2>2 DEF Framed, LockInv, RegsOK
  <2> QED BY <2>1, <2>2
<1>2. LoopOK'
  BY <1>0 DEF Framed, LockInv, LoopOK, UsesSwap
<1> QED BY <1>1, <1>2

(* The parts that say who has a lock. *)
OwnerOK == WordsOK /\ HoldsOnce /\ ReservationOK

(* An instruction that neither takes nor releases a lock and does not      *)
(* reserve: li, the branches, and an SC that fails.                        *)
LEMMA QuietKeepsOwner ==
  ASSUME LockInv, NEW t \in Tasks, NEW from, NEW to \in Labels,
         NEW t0 \in {0, 1}, NEW t1 \in {0, 1},
         Effect(t, from, to, t0, t1, mem[LockOf[t]], TLB_A_Entries),
         Holds(t)' <=> Holds(t),
         SawFree(t)' => SawFree(t)
  PROVE  OwnerOK'
<1>1. Framed(t, to, t0, t1, mem[LockOf[t]])
  BY TaskState, EffectFrame
<1>2. mem' = mem /\ TLB_A_Entries' = TLB_A_Entries
  BY TaskState DEF Effect
<1>3. \A u \in Tasks : (Holds(u)' <=> Holds(u)) /\ (SawFree(u)' => SawFree(u))
  BY <1>1 DEF Framed, Holds, SawFree
<1>4. WordsOK'
  BY <1>2, <1>3 DEF LockInv, WordsOK
<1>5. HoldsOnce'
  BY <1>3 DEF LockInv, HoldsOnce
<1>6. ReservationOK'
  BY <1>2, <1>3 DEF LockInv, ReservationOK
<1> QED BY <1>4, <1>5, <1>6 DEF OwnerOK

(* An instruction that takes a lock that was free: AMOSWAP that reads 0,   *)
(* and an SC that succeeds, after which the lock is not reserved.          *)
LEMMA TakingKeepsOwner ==
  ASSUME LockInv, NEW t \in Tasks, NEW from, NEW to \in Labels,
         NEW t0 \in {0, 1}, NEW reserved \in SUBSET TLB_A_Entries,
         Effect(t, from, to, t0, 0, 1, reserved),
         to \in {"swapped", "stored"},
         mem[LockOf[t]] = 0,
         LockOf[t] \in reserved => UsesSwap(t)
  PROVE  OwnerOK'
<1>0. Framed(t, to, t0, 0, 1)
  BY EffectFrame
<1>1. Holds(t)' /\ ~SawFree(t)'
  BY <1>0 DEF Framed, Holds, SawFree
<1>2. \A u \in Tasks : u # t => (Holds(u)' <=> Holds(u)) /\ (SawFree(u)' <=> SawFree(u))
  BY <1>0 DEF Framed, Holds, SawFree
<1>3. \A u \in Tasks : Holds(u) => LockOf[u] # LockOf[t]
  BY DEF LockInv, WordsOK
<1>4. /\ \A u \in Tasks : LockOf[u] \in Locks
      /\ \A l \in Locks : l # LockOf[t] => mem'[l] = mem[l]
      /\ mem'[LockOf[t]] = 1
      /\ mem' \in [Locks -> {0, 1}]
  BY <1>0, SpinLockAssumption DEF Framed
<1>5. WordsOK'
  <2>1. \A u \in Tasks : Holds(u)' => mem'[LockOf[u]] = 1
    BY <1>2, <1>3, <1>4 DEF LockInv, WordsOK
  <2>2. \A l \in Locks : mem'[l] = 1 => \E u \in Tasks : Holds(u)' /\ LockOf[u] = l
    <3> TAKE l \in Locks
    <3>1. CASE l = LockOf[t]
      BY <1>1, <3>1
    <3>2. CASE l # LockOf[t]
      <4>1. mem'[l] = 1 => \E u \in Tasks : Holds(u) /\ LockOf[u] = l
        BY <1>4, <3>2 DEF LockInv, WordsOK
      <4> QED BY <1>2, <3>2, <4>1
    <3> QED BY <3>1, <3>2
  <2> QED BY <1>4, <2>1, <2>2 DEF WordsOK
<1>6. HoldsOnce'
  BY <1>2, <1>3 DEF LockInv, HoldsOnce
<1>7. ReservationOK'
  <2> SUFFICES ASSUME NEW u \in Tasks, SawFree(u)', LockOf[u] \in TLB_A_Entries'
               PROVE  mem'[LockOf[u]] = 0
    BY DEF ReservationOK
  <2>1. u # t /\ SawFree(u) /\ LockOf[u] \in reserved
    BY <1>1, <1>2 DEF Effect
  <2>2. LockOf[u] # LockOf[t]
    BY <2>1, <1>4, SpinLockAssumption DEF LockInv, LoopOK, SawFree, UsesSwap
  <2>3. mem[LockOf[u]] = 0
    BY <2>1 DEF LockInv, ReservationOK
  <2> QED BY <1>4, <2>2, <2>3
<1> QED BY <1>5, <1>6, <1>7 DEF OwnerOK

(* AMOSWAP of a lock that is taken. *)
LEMMA BusySwapKeepsOwner ==
  ASSUME LockInv, NEW t \in Tasks,
         Effect(t, "swap", "swapped", 1, 1, 1, TLB_A_Entries),
         mem[LockOf[t]] = 1
  PROVE  OwnerOK'
<1>1. Framed(t, "swapped", 1, 1, 1)
  BY EffectFrame DEF Labels
<1>2. Holds(t)' <=> Holds(t)
  BY <1>1 DEF Framed, Holds, Effect
<1>3. SawFree(t)' => SawFree(t)
  BY <1>1 DEF Framed, SawFree
<1> QED BY <1>2, <1>3, QuietKeepsOwner DEF Labels

(* Releasing a lock, which leaves nobody with it. *)
LEMMA ReleaseKeepsOwner ==
  ASSUME LockInv, NEW t \in Tasks,
         NEW t0 \in {0, 1}, NEW t1 \in {0, 1},
         Effect(t, "critical", "idle", t0, t1, 0, TLB_A_Entries)
  PROVE  OwnerOK'
<1>0. Framed(t, "idle", t0, t1, 0)
  BY EffectFrame DEF Labels
<1>1. Holds(t) /\ ~Holds(t)' /\ ~SawFree(t)'
  BY <1>0 DEF Framed, Effect, Holds, SawFree
<1>2. \A u \in Tasks : u # t => (Holds(u)' <=> Holds(u)) /\ (SawFree(u)' <=> SawFree(u))
  BY <1>0 DEF Framed, Holds, SawFree
<1>3. \A u \in Tasks : Holds(u) /\ u # t => LockOf[u] # LockOf[t]
  BY <1>1 DEF LockInv, HoldsOnce
<1>4. /\ \A u \in Tasks : LockOf[u] \in Locks
      /\ \A l \in Locks : l # LockOf[t] => mem'[l] = mem[l]
      /\ mem'[LockOf[t]] = 0
      /\ mem' \in [Locks -> {0, 1}]
  BY <1>0, SpinLockAssumption DEF Framed
<1>5. WordsOK'
  <2>1. \A u \in Tasks : Holds(u)' => mem'[LockOf[u]] = 1
    BY <1>1, <1>2, <1>3, <1>4 DEF LockInv, WordsOK
  <2>2. ASSUME NEW l \in Locks, mem'[l] = 1
        PROVE  \E u \in Tasks : Holds(u)' /\ LockOf[u] = l
    <3>1. l # LockOf[t]
      BY <1>4, <2>2
    <3>2. \E u \in Tasks : Holds(u) /\ LockOf[u] = l
      BY <1>4, <2>2, <3>1 DEF LockInv, WordsOK
    <3> QED BY <1>2, <3>1, <3>2
  <2> QED BY <1>4, <2>1, <2>2 DEF WordsOK
<1>6. HoldsOnce'
  BY <1>1, <1>2 DEF LockInv, HoldsOnce
<1>7. ReservationOK'
  <2> SUFFICES ASSUME NEW u \in Tasks, SawFree(u)', LockOf[u] \in TLB_A_Entries'
               PROVE  mem'[LockOf[u]] = 0
    BY DEF ReservationOK
  <2>1. u # t /\ SawFree(u) /\ LockOf[u] \in TLB_A_Entries
    BY <1>1, <1>2 DEF Effect
  <2>2. mem[LockOf[u]] = 0
    BY <2>1 DEF LockInv, ReservationOK
  <2> QED BY <1>4, <2>2
<1> QED BY <1>5, <1>6, <1>7 DEF OwnerOK

(* LR: were the lock taken, its holder, the task that loads and a task     *)
(* that saw it free before would be three tasks of one LR/SC lock.         *)
LEMMA LrKeepsOwner ==
  ASSUME LockInv, NEW t \in Tasks,
         Effect(t, "lr", "loaded", 1, mem[LockOf[t]], mem[LockOf[t]],
                TLB_A_Entries \cup {LockOf[t]})
  PROVE  OwnerOK'
<1>0. Framed(t, "loaded", 1, mem[LockOf[t]], mem[LockOf[t]])
  BY TaskState, EffectFrame DEF Labels
<1>1. ~Holds(t) /\ ~Holds(t)' /\ ~SawFree(t)
  BY <1>0 DEF Framed, Effect, Holds, SawFree
<1>2. \A u \in Tasks : /\ Holds(u)' <=> Holds(u)
                       /\ u # t => (SawFree(u)' <=> SawFree(u))
  BY <1>0, <1>1 DEF Framed, Holds, SawFree
<1>3. mem' = mem /\ TLB_A_Entries' = TLB_A_Entries \cup {LockOf[t]}
  BY TaskState DEF Effect
<1>4. WordsOK'
  BY <1>2, <1>3 DEF LockInv, WordsOK
<1>5. HoldsOnce'
  BY <1>2 DEF LockInv, HoldsOnce
<1>6. ReservationOK'
  <2> SUFFICES ASSUME NEW u \in Tasks, SawFree(u)', LockOf[u] \in TLB_A_Entries'
               PROVE  mem[LockOf[u]] = 0
    BY <1>3 DEF ReservationOK
  <2>1. CASE u = t
    BY <1>0, <2>1 DEF Framed, SawFree
  <2>2. CASE u # t /\ LockOf[u] # LockOf[t]
    BY <1>2, <1>3, <2>2 DEF LockInv, ReservationOK
  <2>3. CASE u # t /\ LockOf[u] = LockOf[t]
    <3>1. SawFree(u) /\ ~Holds(u)
      BY <1>2, <2>3 DEF SawFree, Holds
    <3>2. ~\E v \in Tasks : Holds(v) /\ LockOf[v] = LockOf[u]
      <4> SUFFICES ASSUME NEW v \in Tasks, Holds(v), LockOf[v] = LockOf[u]
                   PROVE  FALSE
        OBVIOUS
      <4>1. v # t /\ v # u
        BY <1>1, <3>1
      <4>2. LockOf[t] \in LrScLocks
        BY SpinLockAssumption DEF LockInv, LoopOK, UsesSwap, Effect, Locks
      <4> QED BY <2>3, <4>1, <4>2, SpinLockAssumption
    <3> QED BY <3>2, TaskState DEF LockInv, WordsOK
  <2> QED BY <2>1, <2>2, <2>3
<1> QED BY <1>4, <1>5, <1>6 DEF OwnerOK
-----------------------------------------------------------------------------
LEMMA StepKeepsInv ==
  ASSUME LockInv, NEW t \in Tasks, Step(t)
  PROVE  LockInv'
<1> DEFINE l == LockOf[t]
           t0 == x[t]["t0"]
           t1 == x[t]["t1"]
<1>1. /\ t0 \in {0, 1} /\ t1 \in {0, 1} /\ mem[l] \in {0, 1}
      /\ pc[t] \in {"swap", "lr", "loaded", "sc", "stored"} => t0 = 1
      /\ pc[t] = "swapped" => t0 = t1
      /\ pc[t] \in {"swap", "swapped"} => UsesSwap(t)
      /\ pc[t] \in {"lr", "loaded", "sc", "stored"} => ~UsesSwap(t)
  BY TaskState DEF LockInv, RegsOK, LoopOK
<1>2. ASSUME NEW from, NEW to \in Labels, NEW v0 \in {0, 1}, NEW v1 \in {0, 1},
             NEW word \in {0, 1}, NEW reserved,
             Effect(t, from, to, v0, v1, word, reserved),
             to \in {"swap", "lr", "loaded", "sc", "stored"} => v0 = 1,
             to = "swapped" => v0 = v1,
             to \in {"swap", "swapped"} => UsesSwap(t),
             to \in {"lr", "loaded", "sc", "stored"} => ~UsesSwap(t),
             OwnerOK'
      PROVE  LockInv'
  <2>1. Framed(t, to, v0, v1, word)
    BY <1>2, EffectFrame
  <2>2. RegsOK' /\ LoopOK'
    BY <1>2, EffectKeepsRegs
  <2> QED BY <1>2, <2>1, <2>2 DEF LockInv, Framed, OwnerOK
<1>3. CASE Begin(t)
  <2> DEFINE to == IF UsesSwap(t) THEN "swap" ELSE "lr"
  <2>1. Effect(t, "idle", to, 1, t1, mem[l], TLB_A_Entries)
    BY <1>3, BeginEffect
  <2>2. to \in Labels
    BY DEF Labels
  <2>3. Framed(t, to, 1, t1, mem[l])
    BY <1>1, <2>1, <2>2, EffectFrame
  <2>4. ~Holds(t) /\ ~Holds(t)' /\ ~SawFree(t)'
    BY <2>1, <2>3 DEF Effect, Framed, Holds, SawFree
  <2>5. OwnerOK'
    BY <1>1, <2>1, <2>2, <2>4, QuietKeepsOwner
  <2> QED BY <1>1, <1>2, <2>1, <2>2, <2>5
<1>4. CASE Swap(t)
  <2>1. Effect(t, "swap", "swapped", mem[l], mem[l], 1, TLB_A_Entries) /\ UsesSwap(t)
    BY <1>1, <1>4, SwapEffect DEF Effect
  <2>2. OwnerOK'
    <3>1. CASE mem[l] = 0
      <4>1. Effect(t, "swap", "swapped", 0, 0, 1, TLB_A_Entries)
        BY <2>1, <3>1
      <4> QED BY <2>1, <3>1, <4>1, TakingKeepsOwner DEF Labels
    <3>2. CASE mem[l] = 1
      BY <2>1, <3>2, BusySwapKeepsOwner
    <3> QED BY <1>1, <3>1, <3>2
  <2> QED BY <1>1, <1>2, <2>1, <2>2 DEF Labels
<1>5. CASE Swapped(t)
  <2> DEFINE to == IF t1 = 0 THEN "critical" ELSE "swap"
  <2>1. Effect(t, "swapped", to, t0, t1, mem[l], TLB_A_Entries)
    BY <1>5, BranchEffect DEF Swapped
  <2>2. to \in Labels /\ (to = "swap" => t0 = 1 /\ UsesSwap(t))
    BY <1>1, <2>1 DEF Labels, Effect
  <2>3. Framed(t, to, t0, t1, mem[l])
    BY <1>1, <2>1, <2>2, EffectFrame
  <2>4. (Holds(t)' <=> Holds(t)) /\ ~SawFree(t)'
    BY <2>1, <2>3 DEF Effect, Framed, Holds, SawFree
  <2>5. OwnerOK'
    BY <1>1, <2>1, <2>2, <2>4, QuietKeepsOwner
  <2> QED BY <1>1, <1>2, <2>1, <2>2, <2>5
<1>6. CASE LoadReserved(t)
  <2>1. Effect(t, "lr", "loaded", 1, mem[l], mem[l], TLB_A_Entries \cup {l})
    BY <1>1, <1>6, LrEffect DEF LoadReserved, Exec
  <2>2. OwnerOK'
    BY <2>1, LrKeepsOwner
  <2>3. ~UsesSwap(t)
    BY <1>1, <2>1 DEF Effect
  <2> QED BY <1>1, <1>2, <2>1, <2>2, <2>3 DEF Labels
<1>7. CASE Loaded(t)
  <2> DEFINE to == IF t1 = 0 THEN "sc" ELSE "lr"
  <2>1. Effect(t, "loaded", to, t0, t1, mem[l], TLB_A_Entries)
    BY <1>7, BranchEffect DEF Loaded
  <2>2. to \in Labels /\ t0 = 1 /\ ~UsesSwap(t)
    BY <1>1, <2>1 DEF Labels, Effect
  <2>3. Framed(t, to, t0, t1, mem[l])
    BY <1>1, <2>1, <2>2, EffectFrame
  <2>4. (Holds(t)' <=> Holds(t)) /\ (SawFree(t)' => SawFree(t))
    BY <2>1, <2>3 DEF Effect, Framed, Holds, SawFree
  <2>5. OwnerOK'
    BY <1>1, <2>1, <2>2, <2>4, QuietKeepsOwner
  <2> QED BY <1>1, <1>2, <2>1, <2>2, <2>5
<1>8. CASE StoreConditional(t)
  <2>0. pc[t] = "sc" /\ t0 = 1 /\ ~UsesSwap(t)
    BY <1>1, <1>8 DEF StoreConditional, Exec
  <2>1. CASE l \in TLB_A_Entries
    <3>1. Effect(t, "sc", "stored", 1, 0, 1, TLB_A_Entries \ {l})
      BY <1>8, <2>0, <2>1, ScEffect
    <3>2. mem[l] = 0
      BY <2>0, <2>1 DEF LockInv, ReservationOK, SawFree
    <3>3. OwnerOK'
      BY <3>1, <3>2, TakingKeepsOwner DEF Labels
    <3> QED BY <1>2, <2>0, <3>1, <3>3 DEF Labels
  <2>2. CASE l \notin TLB_A_Entries
    <3>1. Effect(t, "sc", "stored", 1, 1, mem[l], TLB_A_Entries)
      BY <1>8, <2>0, <2>2, ScEffect
    <3>2. Framed(t, "stored", 1, 1, mem[l])
      BY <1>1, <3>1, EffectFrame DEF Labels
    <3>3. ~Holds(t) /\ ~Holds(t)' /\ ~SawFree(t)'
      BY <2>0, <3>2 DEF Framed, Holds, SawFree
    <3>4. OwnerOK'
      BY <3>1, <3>3, QuietKeepsOwner DEF Labels
    <3> QED BY <1>1, <1>2, <2>0, <3>1, <3>4 DEF Labels
  <2> QED BY <2>1, <2>2
<1>9. CASE Stored(t)
  <2> DEFINE to == IF t1 = 0 THEN "critical" ELSE "lr"
  <2>1. Effect(t, "stored", to, t0, t1, mem[l], TLB_A_Entries)
    BY <1>9, BranchEffect DEF Stored
  <2>2. to \in Labels /\ t0 = 1 /\ ~UsesSwap(t)
    BY <1>1, <2>1 DEF Labels, Effect
  <2>3. Framed(t, to, t0, t1, mem[l])
    BY <1>1, <2>1, <2>2, EffectFrame
  <2>4. (Holds(t)' <=> Holds(t)) /\ ~SawFree(t)'
    BY <2>1, <2>3 DEF Effect, Framed, Holds, SawFree
  <2>5. OwnerOK'
    BY <1>1, <2>1, <2>2, <2>4, QuietKeepsOwner
  <2> QED BY <1>1, <1>2, <2>1, <2>2, <2>5
<1>10. CASE ReleaseBySwap(t) \/ ReleaseByStore(t)
  <2>1. Effect(t, "critical", "idle", t0, t1, 0, TLB_A_Entries)
    BY <1>10, ReleaseEffect
  <2>2. OwnerOK'
    BY <1>1, <2>1, ReleaseKeepsOwner
  <2> QED BY <1>1, <1>2, <2>1, <2>2 DEF Labels
<1> QED BY <1>3, <1>4, <1>5, <1>6, <1>7, <1>8, <1>9, <1>10 DEF Step, Try

LEMMA LockInvariant == LockSpec => []LockInv
<1>1. LockInit => LockInv
  <2> SUFFICES ASSUME LockInit PROVE LockInv
    OBVIOUS
  <2>1. \A t \in Tasks : LockOf[t] \in Nat
    <3>1. \A t \in Tasks : LockOf[t] \in 0 .. WordMod - 1
      BY SpinLockAssumption
    <3> QED BY <3>1, AExtAssumption
  <2>2. /\ pc \in [Tasks -> Labels] /\ RegsOK /\ LoopOK
        /\ x \in [Tasks -> [Regs -> Nat]]
    BY <2>1 DEF LockInit, RegsOK, LoopOK, Labels, Regs
  <2>3. \A t \in Tasks : ~Holds(t)
    BY DEF LockInit, Holds
  <2>4. OwnerOK
    BY <2>3, SpinLockAssumption DEF LockInit, OwnerOK, WordsOK, HoldsOnce, ReservationOK
  <2> QED BY <2>2, <2>4 DEF LockInv, OwnerOK
<1>2. LockInv /\ [LockNext]_lockVars => LockInv'
  <2> SUFFICES ASSUME LockInv, [LockNext]_lockVars PROVE LockInv'
    OBVIOUS
  <2>1. CASE LockNext
    BY <2>1, StepKeepsInv DEF LockNext
  <2>2. CASE UNCHANGED lockVars
    BY <2>2 DEF lockVars, LockInv, RegsOK, LoopOK, WordsOK, HoldsOnce,
                ReservationOK, Holds, SawFree, UsesSwap
  <2> QED BY <2>1, <2>2
<1> QED BY <1>1, <1>2, PTL DEF LockSpec

(* For any number of tasks and locks, LR/SC locks with two tasks at most,  *)
(* two tasks are never in the critical section of one lock.                *)
THEOREM LocksExclude == LockSpec => []MutualExclusion
<1>1. LockInv => MutualExclusion
  BY DEF LockInv, HoldsOnce, Holds, MutualExclusion
<1> QED BY <1>1, LockInvariant, PTL
=============================================================================
