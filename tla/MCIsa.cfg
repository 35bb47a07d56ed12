CONSTANTS
    W = 4
    UShift = 2
    MemSize = 16
    Regs <- MCRegs
    Tails <- MCTails
    Workloads <- MCWorkloads
SPECIFICATION IsaSpec
INVARIANTS
    IsaTypeOK
    DecodesAsAssembled
PROPERTIES
    BaseAsManual
    CompressedAsManual
    MulDivAsManual
    AmoAsManual
CHECK_DEADLOCK FALSE
