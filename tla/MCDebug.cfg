SPECIFICATION FairDebugSpec
CONSTANTS
    WordBytes = 2
    SIZE = 4
    Byte <- MCByte
    TraceWord = 3
    TimerWords <- MCTimerWords
    ToHostWord = 5
    SegUnit = 1
    LinUnit = 2
    Records <- MCRecords
    MaxRecords = 3
    Accesses <- MCAccesses
    Stored <- MCStored
    PCs <- MCPCs
    Mod = 12
    Payload = 2
    Requests <- MCRequests
    BreakpointPCs <- MCBreakpointPCs
    DumpAddrs <- MCDumpAddrs
INVARIANTS DebugTypeOK LoadedAsHex BreakpointNotPassed SignatureIsMemory
PROPERTIES RefinesRam DumpEnds
CHECK_DEADLOCK FALSE
