------------------------------- MODULE Debug -------------------------------
(***************************************************************************)
(* The life of the simulator around module Bus: sc_main, the gdb server,   *)
(* which runs inside the constructor of Simulator, in place of CPU_thread, *)
(* the end of the simulation and the signal handler, and the dump of the   *)
(* memory in ~Simulator.                                                   *)
(***************************************************************************)
EXTENDS Bus

CONSTANTS
    Mod,             \* 2^32 in the code: addresses of the dump wrap there
    Payload,         \* bytes of pyld_array, 128 in the code
    Requests,        \* <<address, length>> of gdb's memory requests
    BreakpointPCs,   \* the addresses at which gdb sets breakpoints
    DumpAddrs        \* bounds of the dump, given as options or in t0 and t1

ASSUME DebugAssumption ==
    /\ Mod \in Nat /\ WordBytes <= Mod /\ Payload \in Nat
    /\ Requests \subseteq Nat \X (1 .. Payload)
    /\ BreakpointPCs \subseteq Nat
    /\ 0 \in DumpAddrs /\ DumpAddrs \subseteq 0 .. Mod - 1

VARIABLES
    breakpoints, pyld_array,      \* of Debug
    resumed,         \* handle_gdb_loop is waiting for a packet ("no"), or in
                     \* the loop of 'c', "first" before the first CPU_step
    dump_addr_st, dump_addr_end,
    i, data, signature,           \* of MemoryDump: signature gives the word
                                  \* written for each address
    in_handler       \* intHandler runs

gdb == <<breakpoints, pyld_array, resumed>>
dump == <<dump_addr_st, dump_addr_end, i, data, signature>>
debugVars == <<busVars, gdb, dump, in_handler>>

NoSignature == [a \in {} |-> a]

DebugTypeOK ==
    /\ phase \in {"loading", "gdb", "running", "finished", "dumping", "ended"}
    /\ mem \in [0 .. SIZE - 1 -> Byte]
    /\ dmi_allowed \in BOOLEAN
    /\ program_counter \in Nat /\ memory_offset \in Nat /\ extended_address \in Nat
    /\ pc \in Nat /\ INSTR \in Word
    /\ dmi_ptr_valid \in BOOLEAN /\ responded \in BOOLEAN
    /\ breakpoints \subseteq BreakpointPCs
    /\ pyld_array \in [1 .. Payload -> Byte]
    /\ resumed \in {"no", "first", "on"}
    /\ dump_addr_st \in DumpAddrs /\ dump_addr_end \in DumpAddrs
    /\ i \in 0 .. Mod - 1 /\ data \in Word
    /\ DOMAIN signature \subseteq 0 .. Mod - 1
    /\ \A a \in DOMAIN signature : signature[a] \in Word
    /\ in_handler \in BOOLEAN

DebugInit ==
    /\ BusInit
    /\ breakpoints = {}
    /\ pyld_array = [k \in 1 .. Payload |-> 0]
    /\ resumed = "no"
    /\ dump_addr_st = 0 /\ dump_addr_end = 0
    /\ i = 0 /\ data = INSTR /\ signature = NoSignature
    /\ in_handler = FALSE

(* Nothing runs any more: what the hart and the server knew is forgotten.  *)
Forget ==
    /\ pc' = 0 /\ INSTR' = [k \in 1 .. WordBytes |-> 0]
    /\ dmi_ptr_valid' = FALSE /\ responded' = FALSE
    /\ breakpoints' = {} /\ pyld_array' = [k \in 1 .. Payload |-> 0]
    /\ resumed' = "no"
    /\ did' = NoAccess

Load ==
    /\ LoadHexFile \/ EndOfFile("gdb") \/ EndOfFile("running")
    /\ UNCHANGED <<gdb, dump, in_handler>>

-----------------------------------------------------------------------------
(* handle_gdb_loop.  The packets that are only answered, and the ones for  *)
(* the general registers, change nothing that is modelled here.            *)

Packet == phase = "gdb" /\ resumed = "no"

InsertBreakpoint(a) ==   \* Z0, Z1
    /\ Packet
    /\ breakpoints' = breakpoints \cup {a}
    /\ UNCHANGED <<busVars, pyld_array, resumed, dump, in_handler>>

RemoveBreakpoint(a) ==   \* z0, z1
    /\ Packet
    /\ breakpoints' = breakpoints \ {a}
    /\ UNCHANGED <<busVars, pyld_array, resumed, dump, in_handler>>

(* transport_dbg copies all of the length it is given, and the reply is    *)
(* all of pyld_array: what the request did not reach is of earlier ones.   *)
ReadMemory(a, len) ==    \* m
    /\ Packet
    /\ \E new \in [1 .. len -> Byte] :
        /\ MemoryRead(a, SubSeq(pyld_array, 1, len), new)
        /\ pyld_array' = [k \in 1 .. Payload |-> IF k <= len THEN new[k] ELSE pyld_array[k]]
        /\ Asked(Seen(a, new), {})
    /\ UNCHANGED <<phase, memory, loader, hart, breakpoints, resumed, dump, in_handler>>

Step ==                  \* s
    /\ Packet
    /\ CPU_step
    /\ UNCHANGED <<phase, gdb, dump, in_handler>>

Continue ==              \* c
    /\ Packet
    /\ resumed' = "first"
    /\ UNCHANGED <<busVars, breakpoints, pyld_array, dump, in_handler>>

\* Mutant: the breakpoints are looked up before the instruction.
StopsAt_Before(next, bkpt) == bkpt \/ pc \in breakpoints

(* bkpt is CPU_step's result, true after ECALL and C.EBREAK.               *)
StopsAt(next, bkpt) == bkpt \/ next \in breakpoints

ContinueStep ==
    /\ phase = "gdb" /\ resumed # "no"
    /\ CPU_step
    /\ resumed' \in {IF StopsAt(pc', bkpt) THEN "no" ELSE "on" : bkpt \in BOOLEAN}
    /\ UNCHANGED <<phase, breakpoints, pyld_array, dump, in_handler>>

(* vKill, a closed connection or an unknown packet.  There is no CPU       *)
(* thread for sc_start to run.                                             *)
EndSession ==
    /\ Packet
    /\ phase' = "finished"
    /\ Forget
    /\ UNCHANGED <<memory, loader, dump, in_handler>>

HandleGdb ==
    \/ \E a \in BreakpointPCs : InsertBreakpoint(a) \/ RemoveBreakpoint(a)
    \/ \E r \in Requests : ReadMemory(r[1], r[2])
    \/ Step \/ Continue \/ ContinueStep \/ EndSession

-----------------------------------------------------------------------------
(* CPU_thread, with sc_stop, which any instruction may call: ECALL, FENCE  *)
(* or an illegal one.  A fetch from to_host always does.                   *)

Run ==
    /\ phase = "running"
    /\ CPU_step
    /\ phase' \in {"running", "finished"}
    /\ ~dmi_ptr_valid /\ Target(pc) = "to_host" => phase' = "finished"
    /\ UNCHANGED <<gdb, dump, in_handler>>

(* An error thrown in the constructor ends the program; one thrown in the  *)
(* thread ends sc_start, and whether it passes it on depends on the kernel.*)
Throw ==
    /\ phase \in {"gdb", "running"}
    /\ CPU_step_Throws
    /\ phase' \in {"ended"} \cup (IF phase = "running" THEN {"finished"} ELSE {})
    /\ UNCHANGED <<gdb, dump, in_handler>>

(* A fetch through the pointer from outside the memory may fault.          *)
Fault ==
    /\ phase \in {"gdb", "running"}
    /\ dmi_ptr_valid /\ ~InMemory(pc)
    /\ phase' = "ended"
    /\ Forget
    /\ UNCHANGED <<memory, loader, dump, in_handler>>

-----------------------------------------------------------------------------
(* ~Simulator, called by sc_main and by intHandler *)

(* dump_addr_st and dump_addr_end are options; one that is not given is    *)
(* taken from a register, to the same effect in a dump that starts again.  *)
(* The buffer of the dump is uninitialized.                                *)
StartDump ==
    /\ phase' = "dumping"
    /\ dump_addr_st' \in IF phase = "dumping" THEN {dump_addr_st} ELSE DumpAddrs
    /\ dump_addr_end' \in IF phase = "dumping" THEN {dump_addr_end} ELSE DumpAddrs
    /\ i' = dump_addr_st'
    /\ data' \in Word
    /\ signature' = NoSignature

DeleteTop == StartDump \/ (phase' = "ended" /\ UNCHANGED dump)

Finish ==
    /\ phase = "finished"
    /\ DeleteTop
    /\ Forget
    /\ UNCHANGED <<memory, loader, in_handler>>

(* SIGINT.  While Simulator is being built, top is null and nothing is     *)
(* dumped; while sc_main destroys it, it is destroyed again.  The signal   *)
(* is blocked in its own handler.                                          *)
intHandler ==
    /\ phase # "ended" /\ ~in_handler
    /\ in_handler' = TRUE
    /\ IF phase \in {"loading", "gdb"}
       THEN phase' = "ended" /\ UNCHANGED dump
       ELSE DeleteTop
    /\ Forget
    /\ UNCHANGED <<memory, loader>>

\* Mutant: the address of the line that is commented out in MemoryDump.
DumpAddress_Scaled == dump_addr_st + i * WordBytes
DumpAddress == i

\* Mutant: the counter is wider than the 32 bits of unsigned int.
NextAddress_Wide == i + WordBytes
NextAddress == (i + WordBytes) % Mod

\* Mutant: the end of the range is included.
MoreToDump_Inclusive == i <= dump_addr_end
MoreToDump == i < dump_addr_end

(* MemoryDump reads the memory without the bus, and ignores the response:  *)
(* an address outside the memory repeats the last word.                    *)
DumpWord ==
    /\ phase = "dumping" /\ MoreToDump
    /\ \E new \in Word :
        /\ MemoryRead(DumpAddress, data, new)
        /\ data' = new
        /\ signature' = [a \in DOMAIN signature \cup {i} |->
                            IF a = i THEN new ELSE signature[a]]
        /\ Asked(Seen(i, new), {})
    /\ i' = NextAddress
    /\ UNCHANGED <<phase, memory, loader, hart, gdb, dump_addr_st, dump_addr_end, in_handler>>

DumpDone ==
    /\ phase = "dumping" /\ ~MoreToDump
    /\ phase' = "ended"
    /\ UNCHANGED <<memory, loader, hart, did, gdb, dump, in_handler>>

MemoryDump == DumpWord \/ DumpDone

DebugNext ==
    \/ Load \/ HandleGdb \/ Run \/ Throw \/ Fault
    \/ Finish \/ intHandler \/ MemoryDump

DebugSpec == DebugInit /\ [][DebugNext]_debugVars
FairDebugSpec == DebugSpec /\ WF_debugVars(MemoryDump)

-----------------------------------------------------------------------------
(* Properties *)

(* Bus, pointer, debug transport and dump show one memory: in-range bytes  *)
(* of a fetch, a load, a gdb request or a dumped word are the ones last    *)
(* stored, and a store changes its own bytes only.                         *)
ImplementsRam ==
    INSTANCE Ram WITH ram <- mem, ready <- phase # "loading"
RefinesRam == ImplementsRam!RamSpec

(* After 'c', gdb gets control back before the instruction at a breakpoint *)
(* runs: only the first instruction may be at one.                         *)
BreakpointNotPassed == resumed = "on" => pc \notin breakpoints

(* The lines of the signature file are the words of the memory at their    *)
(* addresses, also when a signal starts the dump a second time.            *)
SignatureIsMemory ==
    \A a \in DOMAIN signature : \A k \in 1 .. WordBytes :
        InMemory(a + k - 1) => signature[a][k] = mem[a + k - 1]

(* A dump comes to its end, unless its end is in the last word of the      *)
(* address space, where the 32-bit counter wraps.                          *)
DumpEnds ==
    phase = "dumping" /\ dump_addr_end <= Mod - WordBytes ~> phase = "ended"
=============================================================================
