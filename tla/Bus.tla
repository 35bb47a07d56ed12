-------------------------------- MODULE Bus --------------------------------
(***************************************************************************)
(* The memory and every way to it: the hex loader, the bus that routes the *)
(* hart's fetches and data accesses to the memory and the peripherals, the *)
(* direct pointer (DMI) that takes the place of the bus for fetches, and   *)
(* the debug transport.  The loader is a machine of its own, one action    *)
(* per record; CPU_step is an action schema, which module Debug puts under *)
(* the control of CPU_thread or of gdb.                                    *)
(*                                                                         *)
(* Instructions are the environment's choice.  Timer registers are those   *)
(* of module Soc: here a load from them gives any value.                   *)
(***************************************************************************)
EXTENDS Integers, Sequences, FiniteSets

CONSTANTS
    WordBytes,   \* 4 in the code
    SIZE,        \* Memory::SIZE
    Byte,        \* values of a byte, 0 among them
    TraceWord, TimerWords, ToHostWord,   \* addresses of BusCtrl.h, in words
    SegUnit,     \* 16 in the code: unit of a segment in the hex file
    LinUnit,     \* 2^16 in the code: unit of the upper half of an address
    Records,     \* the records that hex files have
    MaxRecords,  \* bound on the length of a hex file
    Accesses,    \* <<address, size>> of the loads and stores of the program
    Stored,      \* the words it stores
    PCs          \* the addresses it jumps to

Word == [1 .. WordBytes -> Byte]

ASSUME BusAssumption ==
    /\ WordBytes \in Nat \ {0}
    /\ SIZE \in Nat \ {0}
    /\ 0 \in Byte
    /\ {TraceWord, ToHostWord} \cup TimerWords \subseteq {w \in Nat : SIZE <= w * WordBytes}
    /\ MaxRecords \in Nat /\ SegUnit \in Nat /\ LinUnit \in Nat
    /\ \A r \in Records :
        /\ r.type \in {"00", "03", "05"} => r.addr \in Nat
        /\ r.type \in {"02", "03", "04"} => r.base \in Nat
        /\ r.type = "00" => r.bytes \in Seq(Byte)
    /\ Accesses \subseteq Nat \X (1 .. WordBytes)
    /\ Stored \subseteq Word
    /\ PCs \subseteq Nat

VARIABLES
    phase,       \* where the simulator is: "loading" the hex file, "gdb",
                 \* "running", "finished", "dumping" the memory, "ended"
    mem, dmi_allowed,                         \* of Memory
    program_counter,                          \* of Memory, until the file ends
    memory_offset, extended_address,          \* of readHexFile
    file,        \* history: the records read so far, until the file ends
    pc, INSTR, dmi_ptr_valid,                 \* of the hart
    responded,   \* the hart's fetch payload has had a response
    did          \* history: what the last step asked of the memory

memory == <<mem, dmi_allowed>>
loader == <<program_counter, memory_offset, extended_address, file>>
hart == <<pc, INSTR, dmi_ptr_valid, responded>>
busVars == <<phase, memory, loader, hart, did>>

NoAccess == [reads |-> {}, stores |-> {}]
Asked(reads, stores) == did' = [reads |-> reads, stores |-> stores]
Access(a, bytes) == [addr |-> a, bytes |-> bytes]

-----------------------------------------------------------------------------
(* The memory as a target *)

InMemory(a) == a < SIZE

(* The buffer after a read of the memory into it.  The range check is of   *)
(* the first byte only; what lies behind the array is not modelled.  A     *)
(* failed read leaves the buffer as it was.                                *)
MemoryRead(a, old, new) ==
    IF InMemory(a)
    THEN \A k \in DOMAIN new : InMemory(a + k - 1) => new[k] = mem[a + k - 1]
    ELSE new = old

MemoryWritten(a, bytes) ==
    [x \in 0 .. SIZE - 1 |->
        IF InMemory(a) /\ x - a + 1 \in DOMAIN bytes
        THEN bytes[x - a + 1] ELSE mem[x]]

Target(a) ==
    CASE a \div WordBytes >= ToHostWord -> "to_host"
      [] a \div WordBytes \in TimerWords -> "timer"
      [] a \div WordBytes = TraceWord -> "trace"
      [] OTHER -> "memory"

(* A read through the bus; every target but to_host ends in an OK response.*)
BusRead(a, old, new) ==
    /\ Target(a) = "memory" => MemoryRead(a, old, new)
    /\ Target(a) \in {"trace", "to_host"} => new = old

-----------------------------------------------------------------------------
(* Memory::readHexFile, one action per line of the file.  Hex files fit    *)
(* the memory: the loader does not check.                                  *)

BusInit ==
    /\ phase = "loading"
    /\ mem = [a \in 0 .. SIZE - 1 |-> 0]
    /\ dmi_allowed = FALSE
    /\ program_counter = 0
    /\ memory_offset = 0 /\ extended_address = 0
    /\ file = <<>>
    /\ pc = 0 /\ INSTR = [k \in 1 .. WordBytes |-> 0]
    /\ dmi_ptr_valid = FALSE /\ responded = FALSE
    /\ did = NoAccess

Reads(r, type) ==
    /\ phase = "loading"
    /\ Len(file) < MaxRecords
    /\ r.type = type
    /\ file' = Append(file, r)
    /\ UNCHANGED <<phase, dmi_allowed, hart, did>>

DataRecord(r) ==
    LET address == r.addr + extended_address + memory_offset IN
    /\ Reads(r, "00")
    /\ address + Len(r.bytes) <= SIZE
    /\ mem' = MemoryWritten(address, r.bytes)
    /\ UNCHANGED <<program_counter, memory_offset, extended_address>>

ExtendedSegment(r) ==
    /\ Reads(r, "02")
    /\ extended_address' = r.base * SegUnit
    /\ UNCHANGED <<mem, program_counter, memory_offset>>

StartSegment(r) ==
    /\ Reads(r, "03")
    /\ program_counter' = r.addr + r.base * SegUnit
    /\ UNCHANGED <<mem, memory_offset, extended_address>>

\* Mutant: the segment of an earlier 02 record stays in force.
ExtendedLinear_KeepsSegment(r) ==
    /\ Reads(r, "04")
    /\ memory_offset' = r.base * LinUnit
    /\ UNCHANGED <<mem, program_counter, extended_address>>

ExtendedLinear(r) ==
    /\ Reads(r, "04")
    /\ memory_offset' = r.base * LinUnit
    /\ extended_address' = 0
    /\ UNCHANGED <<mem, program_counter>>

StartLinear(r) ==
    /\ Reads(r, "05")
    /\ program_counter' = r.addr
    /\ UNCHANGED <<mem, memory_offset, extended_address>>

OtherRecord(r) ==
    /\ Reads(r, "01")
    /\ UNCHANGED <<mem, program_counter, memory_offset, extended_address>>

(* The end of the file: DMI is for files without an offset only.  The      *)
(* Simulator then builds the hart, which starts at the file's PC; nothing  *)
(* reads what the loader knows after that.                                 *)
EndOfFile(next) ==
    /\ phase = "loading"
    /\ phase' = next
    /\ dmi_allowed' = (memory_offset = 0)
    /\ pc' = program_counter
    /\ program_counter' = 0
    /\ memory_offset' = 0 /\ extended_address' = 0 /\ file' = <<>>
    /\ UNCHANGED <<mem, INSTR, dmi_ptr_valid, responded, did>>

OpenFails ==
    /\ phase = "loading" /\ file = <<>>
    /\ phase' = "ended"
    /\ UNCHANGED <<memory, loader, hart, did>>

LoadHexFile ==
    \/ \E r \in Records :
        \/ DataRecord(r) \/ ExtendedSegment(r) \/ StartSegment(r)
        \/ ExtendedLinear(r) \/ StartLinear(r) \/ OtherRecord(r)
    \/ OpenFails

-----------------------------------------------------------------------------
(* CPU_step: a fetch, through the bus until DMI is granted, and then one   *)
(* instruction, which may make a data access.                              *)

(* Through the pointer there is no range check at all.                     *)
FetchGives(new) ==
    IF dmi_ptr_valid
    THEN InMemory(pc) => MemoryRead(pc, INSTR, new)
    ELSE BusRead(pc, INSTR, new)

(* The payload of fetches is used again and again, so that only the first  *)
(* fetch from to_host is without a response.                               *)
FetchThrows == ~dmi_ptr_valid /\ Target(pc) = "to_host" /\ ~responded

Fetch(new) ==
    /\ FetchGives(new)
    /\ INSTR' = new
    /\ responded' = (responded \/ Target(pc) # "to_host")
    /\ dmi_ptr_valid' = (dmi_ptr_valid \/ (InMemory(pc) /\ dmi_allowed))

Seen(a, bytes) == IF InMemory(a) THEN {Access(a, bytes)} ELSE {}

(* readDataMem's buffer is an uninitialized local: if the target leaves it *)
(* alone, it may have had the value that is returned.                      *)
readDataMem(a, new) == BusRead(a, new, new)

\* Mutant: the transfer has the length of a word, not that of the store.
writeDataMem_WholeWord(a, word, size) ==
    IF Target(a) = "memory" THEN MemoryWritten(a, word) ELSE mem

writeDataMem(a, word, size) ==
    IF Target(a) = "memory" THEN MemoryWritten(a, SubSeq(word, 1, size)) ELSE mem

ExecPlain(new) ==
    /\ Asked(Seen(pc, new), {})
    /\ mem' = mem

ExecLoad(new) ==
    \E acc \in Accesses :
        /\ Target(acc[1]) # "to_host"
        /\ \E seen \in {Seen(acc[1], w) : w \in {v \in [1 .. acc[2] -> Byte] : readDataMem(acc[1], v)}} :
            Asked(Seen(pc, new) \cup seen, {})
        /\ mem' = mem

ExecStore(new) ==
    \E acc \in Accesses, word \in Stored :
        /\ Target(acc[1]) # "to_host"
        /\ mem' = writeDataMem(acc[1], word, acc[2])
        /\ Asked(Seen(pc, new), Seen(acc[1], SubSeq(word, 1, acc[2])))

CPU_step ==
    \E new \in Word :
        /\ ~FetchThrows
        /\ Fetch(new)
        /\ ExecPlain(new) \/ ExecLoad(new) \/ ExecStore(new)
        /\ pc' \in PCs
        /\ UNCHANGED <<dmi_allowed, loader>>

(* SC_REPORT_ERROR throws: after a data access to to_host, which leaves    *)
(* its payload without a response, or after such a fetch.                  *)
CPU_step_Throws ==
    /\ UNCHANGED <<pc, memory, loader>>
    /\ \/ /\ FetchThrows
          /\ Asked({}, {})
          /\ UNCHANGED <<INSTR, dmi_ptr_valid, responded>>
       \/ \E new \in Word :
            /\ ~FetchThrows
            /\ Fetch(new)
            /\ \E acc \in Accesses : Target(acc[1]) = "to_host"
            /\ Asked(Seen(pc, new), {})

-----------------------------------------------------------------------------
(* Properties *)

(* What Intel HEX says of a file: a data record is relative to the last    *)
(* record that sets a base, and the last data record for a byte counts.    *)
Bases(f, k) == {j \in 1 .. k - 1 : f[j].type \in {"02", "04"}}
Last(S) == CHOOSE k \in S : \A j \in S : j <= k
BaseOf(f, k) ==
    IF Bases(f, k) = {} THEN 0
    ELSE LET r == f[Last(Bases(f, k))]
         IN  r.base * (IF r.type = "02" THEN SegUnit ELSE LinUnit)
Covers(f, k, a) ==
    f[k].type = "00" /\ a - BaseOf(f, k) - f[k].addr + 1 \in DOMAIN f[k].bytes
Image(f) ==
    [a \in 0 .. SIZE - 1 |->
        LET ks == {k \in DOMAIN f : Covers(f, k, a)} IN
        IF ks = {} THEN 0
        ELSE LET k == Last(ks) IN f[k].bytes[a - BaseOf(f, k) - f[k].addr + 1]]
StartOf(f) ==
    LET ks == {k \in DOMAIN f : f[k].type \in {"03", "05"}} IN
    IF ks = {} THEN 0
    ELSE LET r == f[Last(ks)]
         IN  r.addr + (IF r.type = "03" THEN r.base * SegUnit ELSE 0)

(* The one thing the loader does not support: a 02 record adds to the base *)
(* of an earlier 04 record instead of replacing it.                        *)
MixesBases(f) ==
    \E j, k \in DOMAIN f :
        j < k /\ f[j].type = "04" /\ f[j].base # 0 /\ f[k].type = "02"

(* readHexFile puts every byte of the file, and the start address, where   *)
(* the Intel HEX format says, whatever the order of the records.           *)
LoadedAsHex ==
    phase = "loading" /\ ~MixesBases(file) =>
        mem = Image(file) /\ program_counter = StartOf(file)
=============================================================================
