SPECIFICATION FairLockSpec
CONSTANTS
    s1 = s1
    s2 = s2
    s3 = s3
    r1 = r1
    r2 = r2
    Tasks <- MCTasks
    SwapLocks <- MCSwapLocks
    LrScLocks <- MCLrScLocks
    LockOf <- MCLockOf
    WordMod = 4
    RegMod = 16
INVARIANTS MutualExclusion
PROPERTIES FreeLockIsTaken
