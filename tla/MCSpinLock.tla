----------------------------- MODULE MCSpinLock -----------------------------
(* Three tasks on a lock taken with AMOSWAP and two on one taken with      *)
(* LR/SC; registers of 4 bits, words of 2.                                 *)
EXTENDS SpinLock

CONSTANTS s1, s2, s3, r1, r2

MCTasks == {s1, s2, s3, r1, r2}
MCLockOf == [t \in MCTasks |-> IF t \in {s1, s2, s3} THEN 0 ELSE 1]
MCSwapLocks == {0}
MCLrScLocks == {1}
=============================================================================
