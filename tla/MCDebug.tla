------------------------------ MODULE MCDebug ------------------------------
(* Debug for TLC: words of two bytes with the values 0 and 1, a memory of  *)
(* two words, and then one word each of hole, trace, timer and to_host.    *)
EXTENDS Debug

MCByte == {0, 1}
MCTimerWords == {4}
MCRecords ==
    [type : {"00"}, addr : {0, 1}, bytes : {<<0, 1>>}]
    \cup [type : {"02"}, base : 0 .. 2]
    \cup [type : {"03"}, base : {2}, addr : {1}]
    \cup [type : {"04"}, base : {0, 1}]
    \cup [type : {"05"}, addr : {0, 10}]
    \cup [type : {"01"}]
(* inside, across the end, in the hole, peripherals, to_host *)
MCAccesses == {<<1, 1>>, <<3, 2>>, <<4, 1>>, <<6, 1>>, <<8, 2>>, <<10, 1>>}
MCStored == {<<1, 0>>}
MCPCs == {2, 3, 4, 10}
MCRequests == {<<3, 2>>, <<4, 2>>}
MCBreakpointPCs == {2}
MCDumpAddrs == {0, 3, 10, 11}
=============================================================================
