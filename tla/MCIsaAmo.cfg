CONSTANTS
    W = 4
    UShift = 2
    MemSize = 16
    Regs <- MCRegs
    Tails <- MCTails
    Workloads <- AmoWorkloads
SPECIFICATION IsaSpec
PROPERTIES
    SupportsIMAC
CHECK_DEADLOCK FALSE
