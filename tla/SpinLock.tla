------------------------------ MODULE SpinLock ------------------------------
(***************************************************************************)
(* Tasks that share the hart, preempted between any two instructions, and  *)
(* that guard a critical section with a lock word: taken either with       *)
(* AMOSWAP or with an LR/SC loop, and released with AMOSWAP or a store of  *)
(* zero.  A context switch saves and restores the registers (as portasm.S  *)
(* of the FreeRTOS port does), so that each task has its own, but          *)
(* TLB_A_Entries and the memory belong to the simulator and are shared.    *)
(***************************************************************************)
EXTENDS AExt

CONSTANTS
    Tasks,
    SwapLocks,    \* lock words taken with AMOSWAP
    LrScLocks,    \* lock words taken with LR/SC
    LockOf        \* the lock word each task uses

Locks == SwapLocks \cup LrScLocks

(* A third task of an LR/SC lock can renew a reservation that a successful *)
(* SC has used up, for a task that read the word before it: no such lock   *)
(* has more than two.                                                      *)
ASSUME SpinLockAssumption ==
    /\ SwapLocks \cap LrScLocks = {}
    /\ Locks \subseteq 0 .. WordMod - 1
    /\ LockOf \in [Tasks -> Locks]
    /\ \A t, u, v \in Tasks :
          LockOf[t] = LockOf[u] /\ LockOf[u] = LockOf[v] /\ LockOf[t] \in LrScLocks
              => t = u \/ u = v \/ t = v

VARIABLES
    pc,             \* where each task is in its program
    x,              \* the registers of each task
    mem,            \* the lock words
    TLB_A_Entries   \* the reserved addresses

lockVars == <<pc, x, mem, TLB_A_Entries>>

(* Labels of the program, and the registers it uses. *)
Labels == {"idle", "swap", "swapped", "lr", "loaded", "sc", "stored", "critical"}
Regs == {"x0", "a0", "t0", "t1"}

LockInit ==
    /\ pc = [t \in Tasks |-> "idle"]
    /\ x = [t \in Tasks |-> [r \in Regs |-> IF r = "a0" THEN LockOf[t] ELSE 0]]
    /\ mem = [l \in Locks |-> 0]
    /\ TLB_A_Entries = {}
-----------------------------------------------------------------------------
UsesSwap(t) == LockOf[t] \in SwapLocks

(* What an instruction of task t reads and writes. *)
Hart(t) == State(x[t], mem, TLB_A_Entries)

(* Task t executes the instruction at label from, which leaves h, and goes *)
(* on at label to.                                                         *)
Exec(t, from, h, to) ==
    /\ pc[t] = from
    /\ pc' = [pc EXCEPT ![t] = to]
    /\ x' = [x EXCEPT ![t] = h.x]
    /\ mem' = h.mem
    /\ TLB_A_Entries' = h.TLB_A_Entries

Goto(t, from, to) == Exec(t, from, Hart(t), to)

(* li t0, 1 *)
Begin(t) ==
    Exec(t, "idle", State(setValue(x[t], "t0", 1), mem, TLB_A_Entries),
         IF UsesSwap(t) THEN "swap" ELSE "lr")

(* amoswap.w t1, t0, (a0) *)
Swap(t) == Exec(t, "swap", Exec_A_AMOSWAP(Hart(t), "t1", "a0", "t0"), "swapped")

(* bnez t1, swap: t0 is not loaded again *)
Swapped(t) ==
    Goto(t, "swapped", IF x[t]["t1"] = 0 THEN "critical" ELSE "swap")

(* lr.w t1, (a0) *)
LoadReserved(t) == Exec(t, "lr", Exec_A_LR(Hart(t), "t1", "a0"), "loaded")

(* bnez t1, lr *)
Loaded(t) == Goto(t, "loaded", IF x[t]["t1"] = 0 THEN "sc" ELSE "lr")

(* sc.w t1, t0, (a0) *)
StoreConditional(t) ==
    Exec(t, "sc", Exec_A_SC(Hart(t), "t1", "a0", "t0"), "stored")

(* bnez t1, lr *)
Stored(t) == Goto(t, "stored", IF x[t]["t1"] = 0 THEN "critical" ELSE "lr")

(* amoswap.w x0, x0, (a0) *)
ReleaseBySwap(t) ==
    /\ UsesSwap(t)
    /\ Exec(t, "critical", Exec_A_AMOSWAP(Hart(t), "x0", "a0", "x0"), "idle")

(* sw x0, 0(a0) *)
ReleaseByStore(t) ==
    Exec(t, "critical",
         State(x[t],
               [mem EXCEPT ![Truncate(x[t]["a0"])] = Truncate(x[t]["x0"])],
               TLB_A_Entries), "idle")

Try(t) == \/ Swap(t) \/ Swapped(t)
          \/ LoadReserved(t) \/ Loaded(t) \/ StoreConditional(t) \/ Stored(t)

Step(t) == Begin(t) \/ Try(t) \/ ReleaseBySwap(t) \/ ReleaseByStore(t)

LockNext == \E t \in Tasks : Step(t)

(* Preemption gives every task that tries to take its lock a turn now and  *)
(* then; a task may stay idle or keep its lock for ever.                   *)
LockFairness == \A t \in Tasks : WF_lockVars(Try(t))

LockSpec == LockInit /\ [][LockNext]_lockVars

FairLockSpec == LockSpec /\ LockFairness
-----------------------------------------------------------------------------
(* Task t has its lock, whether or not it has noticed. *)
Holds(t) ==
    \/ pc[t] = "critical"
    \/ pc[t] \in {"swapped", "stored"} /\ x[t]["t1"] = 0

(* Two tasks are never in the critical section of the same lock, although  *)
(* the register with the lock's new value is overwritten by AMOSWAP, and   *)
(* although reservations survive context switches.                         *)
MutualExclusion ==
    \A t, u \in Tasks :
        pc[t] = "critical" /\ pc[u] = "critical" /\ LockOf[t] = LockOf[u] => t = u

(* A free lock that a task tries to take is taken: SCs of several tasks    *)
(* do not make each other fail for ever.                                   *)
FreeLockIsTaken ==
    \A t \in Tasks :
        pc[t] \in {"swap", "lr"}
            ~> (\E u \in Tasks : LockOf[u] = LockOf[t] /\ Holds(u))
=============================================================================
