---------------------------- MODULE DebugProofs ----------------------------
(***************************************************************************)
(* What TLC checks of Debug on a memory of four bytes, proved for every    *)
(* size of the memory and of a word, every memory map and every program:   *)
(* the invariants but LoadedAsHex (module LoaderProofs), and that the ways *)
(* to the memory implement Ram.                                            *)
(***************************************************************************)
EXTENDS Debug, TLAPS

-----------------------------------------------------------------------------
(* The memory and the bus *)

(* The peripherals lie outside the memory.                                 *)
LEMMA MemoryIsRouted ==
  ASSUME NEW a \in Nat, InMemory(a) PROVE Target(a) = "memory"
<1> DEFINE q == a \div WordBytes
<1>1. WordBytes \in Nat \ {0} /\ SIZE \in Nat /\ a < SIZE
  BY BusAssumption DEF InMemory
<1>2. q \in Int /\ WordBytes * q <= a
  BY <1>1
<1>3. ASSUME NEW w \in Nat, SIZE <= w * WordBytes PROVE q < w
  <2> HIDE DEF q
  <2> SUFFICES ASSUME w <= q PROVE FALSE
    BY <1>2
  <2>1. w * WordBytes <= q * WordBytes
    BY <1>1, <1>2
  <2>2. q * WordBytes = WordBytes * q
    BY <1>1, <1>2
  <2> QED BY <1>1, <1>2, <1>3, <2>1, <2>2
<1>4. ASSUME NEW w \in {TraceWord, ToHostWord} \cup TimerWords PROVE q < w
  BY <1>3, BusAssumption
<1>5. q \notin TimerWords /\ q # TraceWord /\ ~(q >= ToHostWord)
  <2> HIDE DEF q
  <2>1. {TraceWord, ToHostWord} \cup TimerWords \subseteq Nat
    BY BusAssumption
  <2> QED BY <1>2, <1>4, <2>1
<1> QED BY <1>5 DEF Target

(* A read that reaches the memory shows its bytes.                         *)
LEMMA ReadShows ==
  ASSUME NEW a \in Nat, NEW n \in Nat, NEW old, NEW new \in [1 .. n -> Byte],
         InMemory(a) => MemoryRead(a, old, new)
  PROVE  \A x \in Seen(a, new) : ImplementsRam!Shows(x)
<1> SUFFICES ASSUME InMemory(a), MemoryRead(a, old, new)
             PROVE  ImplementsRam!Shows(Access(a, new))
  BY DEF Seen
<1>1. Len(new) = n /\ DOMAIN new = 1 .. n
  OBVIOUS
<1>2. \A k \in 1 .. n : a + k - 1 < SIZE => new[k] = mem[a + k - 1]
  BY <1>1 DEF MemoryRead, InMemory
<1>3. ASSUME NEW b \in 0 .. SIZE - 1, b \in a .. a + n - 1 PROVE new[b - a + 1] = mem[b]
  <2>1. b - a + 1 \in 1 .. n /\ a + (b - a + 1) - 1 = b /\ b < SIZE
    BY <1>3, BusAssumption
  <2> QED BY <1>2, <2>1
<1> QED BY <1>1, <1>3 DEF ImplementsRam!Shows, ImplementsRam!Covered, Access

LEMMA WrittenType ==
  ASSUME NEW a \in Nat, NEW bytes \in Seq(Byte), mem \in [0 .. SIZE - 1 -> Byte]
  PROVE  MemoryWritten(a, bytes) \in [0 .. SIZE - 1 -> Byte]
BY BusAssumption DEF MemoryWritten, InMemory

(* A store changes the bytes it covers.                                    *)
LEMMA WriteIsAfter ==
  ASSUME NEW a \in Nat, NEW bytes \in Seq(Byte), mem \in [0 .. SIZE - 1 -> Byte]
  PROVE  MemoryWritten(a, bytes) = ImplementsRam!After(Seen(a, bytes))
<1> DEFINE x == Access(a, bytes)
<1>1. CASE ~InMemory(a)
  BY <1>1 DEF MemoryWritten, ImplementsRam!After, Seen
<1>2. CASE InMemory(a)
  <2>1. Seen(a, bytes) = {x}
    BY <1>2 DEF Seen
  <2>2. ASSUME NEW b \in 0 .. SIZE - 1
        PROVE  b \in ImplementsRam!Covered(x) <=> b - a + 1 \in DOMAIN bytes
    <3>1. DOMAIN bytes = 1 .. Len(bytes) /\ Len(bytes) \in Nat
      OBVIOUS
    <3>2. b \in a .. a + Len(bytes) - 1 <=> b - a + 1 \in 1 .. Len(bytes)
      BY <3>1, BusAssumption
    <3> QED BY <3>1, <3>2 DEF ImplementsRam!Covered, Access
  <2>3. ASSUME NEW b \in 0 .. SIZE - 1
        PROVE  MemoryWritten(a, bytes)[b] = ImplementsRam!After({x})[b]
    <3>1. CASE b - a + 1 \in DOMAIN bytes
      <4>1. (CHOOSE y \in {x} : b \in ImplementsRam!Covered(y)) = x
        BY <2>2, <3>1
      <4>2. ImplementsRam!After({x})[b] = x.bytes[b - x.addr + 1]
        BY <2>2, <3>1, <4>1 DEF ImplementsRam!After
      <4> QED BY <1>2, <3>1, <4>2 DEF MemoryWritten, Access
    <3>2. CASE b - a + 1 \notin DOMAIN bytes
      BY <1>2, <2>2, <3>2 DEF MemoryWritten, ImplementsRam!After
    <3> QED BY <3>1, <3>2
  <2> QED BY <2>1, <2>3 DEF MemoryWritten, ImplementsRam!After
<1> QED BY <1>1, <1>2

LEMMA NothingAsked ==
  ASSUME mem \in [0 .. SIZE - 1 -> Byte]
  PROVE  mem = ImplementsRam!After({})
BY DEF ImplementsRam!After

-----------------------------------------------------------------------------
(* The steps of the hart *)

Reads_OK == \A x \in did'.reads : ImplementsRam!Shows(x)

LEMMA FetchShows ==
  ASSUME DebugTypeOK, NEW new \in Word, FetchGives(new)
  PROVE  \A x \in Seen(pc, new) : ImplementsRam!Shows(x)
<1>1. pc \in Nat /\ WordBytes \in Nat /\ new \in [1 .. WordBytes -> Byte]
  BY BusAssumption DEF DebugTypeOK, Word
<1>2. InMemory(pc) => MemoryRead(pc, INSTR, new)
  BY <1>1, MemoryIsRouted DEF FetchGives, BusRead
<1> QED BY <1>1, <1>2, ReadShows

LEMMA StoreIsAfter ==
  ASSUME DebugTypeOK, NEW acc \in Accesses, NEW word \in Stored
  PROVE  LET bytes == SubSeq(word, 1, acc[2]) IN
         /\ writeDataMem(acc[1], word, acc[2]) = ImplementsRam!After(Seen(acc[1], bytes))
         /\ writeDataMem(acc[1], word, acc[2]) \in [0 .. SIZE - 1 -> Byte]
<1> DEFINE a == acc[1]
           bytes == SubSeq(word, 1, acc[2])
<1>1. a \in Nat /\ acc[2] \in 1 .. WordBytes /\ WordBytes \in Nat
  BY BusAssumption
<1>2. word \in [1 .. WordBytes -> Byte]
  BY BusAssumption DEF Word
<1>3. bytes = [k \in 1 .. acc[2] |-> word[k]]
  BY <1>1, <1>2
<1>4. bytes \in Seq(Byte)
  <2> HIDE DEF bytes
  <2>1. \A k \in 1 .. acc[2] : word[k] \in Byte
    BY <1>1, <1>2
  <2>2. bytes \in [1 .. acc[2] -> Byte]
    BY <1>3, <2>1
  <2>3. ASSUME NEW n \in Nat, NEW s \in [1 .. n -> Byte] PROVE s \in Seq(Byte)
    OBVIOUS
  <2> QED BY <1>1, <2>2, <2>3
<1>5. mem \in [0 .. SIZE - 1 -> Byte]
  BY DEF DebugTypeOK
<1> HIDE DEF a, bytes
<1>6. CASE Target(a) = "memory"
  BY <1>1, <1>4, <1>5, <1>6, WriteIsAfter, WrittenType DEF writeDataMem, a, bytes
<1>7. CASE Target(a) # "memory"
  <2>1. ~InMemory(a)
    BY <1>1, <1>7, MemoryIsRouted
  <2> QED BY <1>5, <1>7, <2>1, NothingAsked DEF writeDataMem, Seen, a, bytes
<1> QED BY <1>6, <1>7 DEF a, bytes

LEMMA CpuStep ==
  ASSUME DebugTypeOK, CPU_step
  PROVE  /\ Reads_OK
         /\ mem' = ImplementsRam!After(did'.stores)
         /\ mem' \in [0 .. SIZE - 1 -> Byte]
         /\ pc' \in Nat /\ INSTR' \in Word
         /\ dmi_ptr_valid' \in BOOLEAN /\ responded' \in BOOLEAN
         /\ UNCHANGED <<dmi_allowed, loader>>
<1>1. PICK new \in Word :
        /\ Fetch(new)
        /\ ExecPlain(new) \/ ExecLoad(new) \/ ExecStore(new)
        /\ pc' \in PCs
        /\ UNCHANGED <<dmi_allowed, loader>>
  BY DEF CPU_step
<1>2. \A x \in Seen(pc, new) : ImplementsRam!Shows(x)
  BY <1>1, FetchShows DEF Fetch
<1>3. mem \in [0 .. SIZE - 1 -> Byte]
  BY DEF DebugTypeOK
<1>4. pc' \in Nat /\ INSTR' \in Word /\ dmi_ptr_valid' \in BOOLEAN /\ responded' \in BOOLEAN
  BY <1>1, BusAssumption DEF Fetch
<1>5. CASE ExecPlain(new)
  BY <1>1, <1>2, <1>3, <1>4, <1>5, NothingAsked DEF ExecPlain, Asked, Reads_OK
<1>6. CASE ExecLoad(new)
  <2>1. PICK acc \in Accesses :
          /\ \E seen \in {Seen(acc[1], w) : w \in {v \in [1 .. acc[2] -> Byte] : readDataMem(acc[1], v)}} :
                Asked(Seen(pc, new) \cup seen, {})
          /\ mem' = mem
    BY <1>6 DEF ExecLoad
  <2>2. PICK w \in [1 .. acc[2] -> Byte] :
          readDataMem(acc[1], w) /\ Asked(Seen(pc, new) \cup Seen(acc[1], w), {})
    BY <2>1
  <2>3. acc[1] \in Nat /\ acc[2] \in Nat
    BY BusAssumption
  <2>4. InMemory(acc[1]) => MemoryRead(acc[1], w, w)
    BY <2>2, <2>3, MemoryIsRouted DEF readDataMem, BusRead
  <2>5. \A x \in Seen(acc[1], w) : ImplementsRam!Shows(x)
    BY <2>3, <2>4, ReadShows
  <2> QED BY <1>1, <1>2, <1>3, <1>4, <2>1, <2>2, <2>5, NothingAsked DEF Asked, Reads_OK
<1>7. CASE ExecStore(new)
  <2>1. PICK acc \in Accesses, word \in Stored :
          /\ mem' = writeDataMem(acc[1], word, acc[2])
          /\ Asked(Seen(pc, new), Seen(acc[1], SubSeq(word, 1, acc[2])))
    BY <1>7 DEF ExecStore
  <2>2. did'.reads = Seen(pc, new) /\ did'.stores = Seen(acc[1], SubSeq(word, 1, acc[2]))
    BY <2>1 DEF Asked
  <2> QED BY <1>1, <1>2, <1>4, <2>1, <2>2, StoreIsAfter DEF Reads_OK
<1> QED BY <1>1, <1>5, <1>6, <1>7

LEMMA CpuStepThrows ==
  ASSUME DebugTypeOK, CPU_step_Throws
  PROVE  /\ Reads_OK
         /\ mem' = ImplementsRam!After(did'.stores)
         /\ INSTR' \in Word
         /\ dmi_ptr_valid' \in BOOLEAN /\ responded' \in BOOLEAN
         /\ UNCHANGED <<pc, memory, loader>>
<1>1. mem \in [0 .. SIZE - 1 -> Byte] /\ mem' = mem
  BY DEF DebugTypeOK, CPU_step_Throws, memory
<1>2. CASE Asked({}, {}) /\ UNCHANGED <<INSTR, dmi_ptr_valid, responded>>
  BY <1>1, <1>2, NothingAsked DEF Asked, Reads_OK, DebugTypeOK, CPU_step_Throws
<1>3. CASE \E new \in Word : Fetch(new) /\ Asked(Seen(pc, new), {})
  <2>1. PICK new \in Word : Fetch(new) /\ Asked(Seen(pc, new), {})
    BY <1>3
  <2>2. Reads_OK
    BY <2>1, FetchShows DEF Fetch, Asked, Reads_OK
  <2> QED BY <1>1, <2>1, <2>2, NothingAsked DEF Asked, Fetch, CPU_step_Throws
<1> QED BY <1>2, <1>3 DEF CPU_step_Throws

-----------------------------------------------------------------------------
(* Type correctness, with the kinds of steps *)

LEMMA ZeroWord == [k \in 1 .. WordBytes |-> 0] \in Word
BY BusAssumption DEF Word

LEMMA ForgetType ==
  ASSUME Forget
  PROVE  /\ pc' \in Nat /\ INSTR' \in Word
         /\ dmi_ptr_valid' \in BOOLEAN /\ responded' \in BOOLEAN
         /\ breakpoints' \subseteq BreakpointPCs
         /\ pyld_array' \in [1 .. Payload -> Byte]
         /\ resumed' = "no" /\ did' = NoAccess
BY ZeroWord, BusAssumption DEF Forget

LEMMA TypeInit == DebugInit => DebugTypeOK
<1> SUFFICES ASSUME DebugInit PROVE DebugTypeOK
  OBVIOUS
<1>1. 0 \in Byte /\ 0 \in DumpAddrs /\ 0 \in 0 .. Mod - 1
  BY BusAssumption, DebugAssumption
<1>2. INSTR \in Word
  BY ZeroWord DEF DebugInit, BusInit
<1>3. DOMAIN signature = {}
  BY DEF DebugInit, NoSignature
<1> QED BY <1>1, <1>2, <1>3 DEF DebugInit, BusInit, DebugTypeOK

LEMMA RecordType ==
  ASSUME DebugTypeOK, NEW r \in Records,
         \/ DataRecord(r) \/ ExtendedSegment(r) \/ StartSegment(r)
         \/ ExtendedLinear(r) \/ StartLinear(r) \/ OtherRecord(r)
  PROVE  /\ mem' \in [0 .. SIZE - 1 -> Byte]
         /\ program_counter' \in Nat /\ memory_offset' \in Nat /\ extended_address' \in Nat
         /\ phase = "loading"
         /\ UNCHANGED <<phase, dmi_allowed, hart, did>>
<1>1. /\ phase = "loading" /\ UNCHANGED <<phase, dmi_allowed, hart, did>>
  BY DEF DataRecord, ExtendedSegment, StartSegment, ExtendedLinear, StartLinear,
         OtherRecord, Reads
<1>2. /\ mem \in [0 .. SIZE - 1 -> Byte]
      /\ program_counter \in Nat /\ memory_offset \in Nat /\ extended_address \in Nat
      /\ SegUnit \in Nat /\ LinUnit \in Nat
  BY BusAssumption DEF DebugTypeOK
<1>3. CASE DataRecord(r)
  <2>1. r.addr \in Nat /\ r.bytes \in Seq(Byte)
    BY <1>3, BusAssumption DEF DataRecord, Reads
  <2>2. r.addr + extended_address + memory_offset \in Nat
    BY <1>2, <2>1
  <2> QED BY <1>1, <1>2, <1>3, <2>1, <2>2, WrittenType DEF DataRecord
<1>4. CASE ExtendedSegment(r)
  <2>1. r.base \in Nat
    BY <1>4, BusAssumption DEF ExtendedSegment, Reads
  <2> QED BY <1>1, <1>2, <1>4, <2>1 DEF ExtendedSegment
<1>5. CASE StartSegment(r)
  <2>1. r.base \in Nat /\ r.addr \in Nat
    BY <1>5, BusAssumption DEF StartSegment, Reads
  <2> QED BY <1>1, <1>2, <1>5, <2>1 DEF StartSegment
<1>6. CASE ExtendedLinear(r)
  <2>1. r.base \in Nat
    BY <1>6, BusAssumption DEF ExtendedLinear, Reads
  <2> QED BY <1>1, <1>2, <1>6, <2>1 DEF ExtendedLinear
<1>7. CASE StartLinear(r)
  <2>1. r.addr \in Nat
    BY <1>7, BusAssumption DEF StartLinear, Reads
  <2> QED BY <1>1, <1>2, <1>7, <2>1 DEF StartLinear
<1>8. CASE OtherRecord(r)
  BY <1>1, <1>2, <1>8 DEF OtherRecord
<1> QED BY <1>3, <1>4, <1>5, <1>6, <1>7, <1>8

LEMMA LoadType ==
  ASSUME DebugTypeOK, Load
  PROVE  DebugTypeOK' /\ phase = "loading" /\ did' = did /\ UNCHANGED <<gdb, dump>>
<1>1. UNCHANGED <<gdb, dump, in_handler>>
  BY DEF Load
<1>2. CASE \E r \in Records :
             \/ DataRecord(r) \/ ExtendedSegment(r) \/ StartSegment(r)
             \/ ExtendedLinear(r) \/ StartLinear(r) \/ OtherRecord(r)
  BY <1>1, <1>2, RecordType DEF DebugTypeOK, gdb, dump, hart
<1>3. CASE OpenFails
  BY <1>1, <1>3 DEF OpenFails, DebugTypeOK, gdb, dump, memory, loader, hart
<1>4. CASE EndOfFile("gdb") \/ EndOfFile("running")
  <2>1. dmi_allowed' \in BOOLEAN
    BY <1>4, Zenon DEF EndOfFile
  <2>2. /\ phase = "loading" /\ phase' \in {"gdb", "running"}
        /\ pc' = program_counter
        /\ program_counter' = 0 /\ memory_offset' = 0 /\ extended_address' = 0
        /\ UNCHANGED <<mem, INSTR, dmi_ptr_valid, responded, did>>
    BY <1>4 DEF EndOfFile
  <2> QED BY <1>1, <2>1, <2>2 DEF DebugTypeOK, gdb, dump
<1> QED BY <1>2, <1>3, <1>4 DEF Load, LoadHexFile

(* A step after which the memory still is what the accesses say.           *)
Accessed == Reads_OK /\ mem' = ImplementsRam!After(did'.stores)

LEMMA Untouched ==
  ASSUME DebugTypeOK, mem' = mem, did' = NoAccess PROVE Accessed
BY NothingAsked DEF Accessed, Reads_OK, NoAccess, DebugTypeOK

-----------------------------------------------------------------------------
(* The inductive invariant *)

(* Where the simulator is in its life when the loop of 'c' runs, and when  *)
(* there is a signature.                                                   *)
Stages ==
    /\ phase = "loading" => did = NoAccess
    /\ resumed # "no" => phase \in {"gdb", "ended"}
    /\ phase \notin {"dumping", "ended"} => signature = NoSignature

DebugInv == DebugTypeOK /\ Stages /\ BreakpointNotPassed /\ SignatureIsMemory

(* What a step is for Ram.                                                 *)
RamStep ==
    \/ phase = "loading" /\ did' = did
    \/ /\ phase # "loading" /\ phase' # "loading"
       /\ Accessed \/ UNCHANGED <<mem, did>>

Kept == DebugInv' /\ RamStep

LEMMA NoSignatureIsMemory ==
  ASSUME signature' = NoSignature PROVE SignatureIsMemory'
BY DEF SignatureIsMemory, NoSignature

LEMMA SameSignature ==
  ASSUME SignatureIsMemory, signature' = signature, mem' = mem PROVE SignatureIsMemory'
BY DEF SignatureIsMemory, InMemory

LEMMA LoadKeeps ==
  ASSUME DebugInv, Load PROVE Kept
<1>1. /\ DebugTypeOK' /\ phase = "loading" /\ did' = did
      /\ resumed' = resumed /\ breakpoints' = breakpoints /\ signature' = signature
  BY LoadType DEF DebugInv, gdb, dump
<1>2. resumed' = "no" /\ signature' = NoSignature /\ did' = NoAccess
  BY <1>1 DEF DebugInv, Stages, DebugTypeOK
<1>3. Stages' /\ BreakpointNotPassed' /\ SignatureIsMemory'
  BY <1>2, NoSignatureIsMemory DEF Stages, BreakpointNotPassed
<1> QED BY <1>1, <1>3 DEF Kept, DebugInv, RamStep

LEMMA PacketKeeps ==
  ASSUME DebugInv,
         \/ \E a \in BreakpointPCs : InsertBreakpoint(a) \/ RemoveBreakpoint(a)
         \/ Continue
  PROVE  Kept
<1>1. /\ phase = "gdb" /\ resumed = "no"
      /\ UNCHANGED <<busVars, pyld_array, dump, in_handler>>
      /\ breakpoints' \subseteq BreakpointPCs
      /\ resumed' \in {"no", "first"}
  BY DEF DebugInv, DebugTypeOK, Packet, InsertBreakpoint, RemoveBreakpoint, Continue
<1>2. DebugTypeOK'
  BY <1>1 DEF DebugInv, DebugTypeOK, busVars, memory, loader, hart, dump
<1>3. Stages' /\ BreakpointNotPassed' /\ SignatureIsMemory'
  BY <1>1, SameSignature
     DEF DebugInv, Stages, BreakpointNotPassed, busVars, memory, dump
<1> QED BY <1>1, <1>2, <1>3 DEF Kept, DebugInv, RamStep, busVars, memory

LEMMA ReadMemoryKeeps ==
  ASSUME DebugInv, NEW req \in Requests, ReadMemory(req[1], req[2]) PROVE Kept
<1> DEFINE a == req[1]
           len == req[2]
<1>1. a \in Nat /\ len \in Nat /\ len \in 1 .. Payload
  BY DebugAssumption
<1>2. PICK new \in [1 .. len -> Byte] :
        /\ MemoryRead(a, SubSeq(pyld_array, 1, len), new)
        /\ pyld_array' = [k \in 1 .. Payload |-> IF k <= len THEN new[k] ELSE pyld_array[k]]
        /\ Asked(Seen(a, new), {})
  BY DEF ReadMemory
<1>3. /\ phase = "gdb" /\ resumed = "no"
      /\ UNCHANGED <<phase, memory, loader, hart, breakpoints, resumed, dump, in_handler>>
  BY DEF ReadMemory, Packet
<1>4. pyld_array' \in [1 .. Payload -> Byte]
  <2>1. pyld_array \in [1 .. Payload -> Byte]
    BY DEF DebugInv, DebugTypeOK
  <2>2. \A k \in 1 .. Payload : k <= len => new[k] \in Byte
    BY <1>1, <1>2, DebugAssumption
  <2> QED BY <1>2, <2>1, <2>2
<1>5. DebugTypeOK'
  BY <1>3, <1>4 DEF DebugInv, DebugTypeOK, memory, loader, hart, dump
<1>6. Accessed
  <2>1. \A x \in Seen(a, new) : ImplementsRam!Shows(x)
    BY <1>1, <1>2, ReadShows
  <2>2. mem \in [0 .. SIZE - 1 -> Byte] /\ mem' = mem
    BY <1>3 DEF DebugInv, DebugTypeOK, memory
  <2> QED BY <1>2, <2>1, <2>2, NothingAsked DEF Accessed, Reads_OK, Asked
<1>7. Stages' /\ BreakpointNotPassed' /\ SignatureIsMemory'
  BY <1>3, SameSignature
     DEF DebugInv, Stages, BreakpointNotPassed, memory, hart, dump
<1> QED BY <1>3, <1>5, <1>6, <1>7 DEF Kept, DebugInv, RamStep

(* The three actions that execute an instruction.                          *)
LEMMA InstructionKeeps ==
  ASSUME DebugInv, Step \/ ContinueStep \/ Run PROVE Kept
<1>1. /\ CPU_step /\ phase \in {"gdb", "running"}
      /\ phase' \in {"gdb", "running", "finished"}
      /\ UNCHANGED <<breakpoints, pyld_array, dump, in_handler>>
  BY DEF Step, ContinueStep, Run, Packet, gdb
<1>2. /\ Accessed
      /\ mem' \in [0 .. SIZE - 1 -> Byte]
      /\ pc' \in Nat /\ INSTR' \in Word
      /\ dmi_ptr_valid' \in BOOLEAN /\ responded' \in BOOLEAN
      /\ UNCHANGED <<dmi_allowed, loader>>
  BY <1>1, CpuStep DEF DebugInv, Accessed
<1>3. /\ resumed' \in {"no", "on"}
      /\ resumed' = "on" => pc' \notin breakpoints' /\ phase' = "gdb"
  <2>1. CASE Step
    BY <2>1 DEF Step, Packet, gdb
  <2>2. CASE Run
    BY <2>2 DEF Run, gdb, DebugInv, Stages
  <2>3. CASE ContinueStep
    BY <2>3 DEF ContinueStep, StopsAt
  <2> QED BY <2>1, <2>2, <2>3
<1>4. DebugTypeOK'
  BY <1>1, <1>2, <1>3 DEF DebugInv, DebugTypeOK, loader, dump
<1>5. signature' = NoSignature
  BY <1>1 DEF DebugInv, Stages, dump
<1>6. Stages' /\ BreakpointNotPassed' /\ SignatureIsMemory'
  BY <1>1, <1>3, <1>5, NoSignatureIsMemory DEF Stages, BreakpointNotPassed
<1> QED BY <1>1, <1>2, <1>4, <1>6 DEF Kept, DebugInv, RamStep

LEMMA ThrowKeeps ==
  ASSUME DebugInv, Throw PROVE Kept
<1>1. /\ CPU_step_Throws /\ phase \in {"gdb", "running"}
      /\ phase' \in {"ended", "finished"} /\ (phase = "gdb" => phase' = "ended")
      /\ UNCHANGED <<gdb, dump, in_handler>>
  BY DEF Throw
<1>2. /\ Accessed
      /\ INSTR' \in Word
      /\ dmi_ptr_valid' \in BOOLEAN /\ responded' \in BOOLEAN
      /\ UNCHANGED <<pc, memory, loader>>
  BY <1>1, CpuStepThrows DEF DebugInv, Accessed
<1>3. DebugTypeOK'
  BY <1>1, <1>2 DEF DebugInv, DebugTypeOK, memory, loader, gdb, dump
<1>4. Stages' /\ BreakpointNotPassed' /\ SignatureIsMemory'
  BY <1>1, <1>2, SameSignature
     DEF DebugInv, DebugTypeOK, Stages, BreakpointNotPassed, memory, gdb, dump
<1> QED BY <1>1, <1>2, <1>3, <1>4 DEF Kept, DebugInv, RamStep

LEMMA DeleteTopType ==
  ASSUME DebugTypeOK, DeleteTop
  PROVE  /\ phase' \in {"dumping", "ended"}
         /\ dump_addr_st' \in DumpAddrs /\ dump_addr_end' \in DumpAddrs
         /\ i' \in 0 .. Mod - 1 /\ data' \in Word
         /\ signature' \in {signature, NoSignature}
<1>1. dump_addr_st \in DumpAddrs /\ dump_addr_end \in DumpAddrs
  BY DEF DebugTypeOK
<1>2. CASE StartDump
  <2>1. dump_addr_st' \in DumpAddrs /\ dump_addr_end' \in DumpAddrs
    BY <1>1, <1>2 DEF StartDump
  <2>2. i' \in 0 .. Mod - 1
    BY <1>2, <2>1, DebugAssumption DEF StartDump
  <2> QED BY <1>2, <2>1, <2>2 DEF StartDump
<1>3. CASE phase' = "ended" /\ UNCHANGED dump
  BY <1>3 DEF DebugTypeOK, dump
<1> QED BY <1>2, <1>3 DEF DeleteTop

LEMMA NoSignatureType ==
  ASSUME signature' = NoSignature
  PROVE  DOMAIN signature' \subseteq 0 .. Mod - 1 /\ \A a \in DOMAIN signature' : signature'[a] \in Word
BY DEF NoSignature

(* The actions that end the simulation, or a part of it.                   *)
LEMMA EndKeeps ==
  ASSUME DebugInv, EndSession \/ Fault \/ Finish \/ intHandler PROVE Kept
<1>1. /\ Forget /\ UNCHANGED <<memory, loader>>
      /\ in_handler' \in BOOLEAN
      /\ phase' \in {"finished", "dumping", "ended"}
      /\ dump_addr_st' \in DumpAddrs /\ dump_addr_end' \in DumpAddrs
      /\ i' \in 0 .. Mod - 1 /\ data' \in Word
      /\ signature' \in {signature, NoSignature}
      /\ phase' = "finished" => phase = "gdb" /\ signature' = signature
  <2>1. CASE EndSession
    BY <2>1 DEF EndSession, Packet, DebugInv, DebugTypeOK, dump
  <2>2. CASE Fault
    BY <2>2 DEF Fault, DebugInv, DebugTypeOK, dump
  <2>3. CASE Finish
    BY <2>3, DeleteTopType DEF Finish, DebugInv, DebugTypeOK
  <2>4. CASE intHandler
    <3>1. Forget /\ UNCHANGED <<memory, loader>> /\ in_handler' = TRUE
      BY <2>4 DEF intHandler
    <3>2. CASE phase' = "ended" /\ UNCHANGED dump
      BY <3>1, <3>2 DEF DebugInv, DebugTypeOK, dump
    <3>3. CASE DeleteTop
      BY <3>1, <3>3, DeleteTopType DEF DebugInv
    <3> QED BY <2>4, <3>2, <3>3 DEF intHandler
  <2> QED BY <2>1, <2>2, <2>3, <2>4
<1>2. DOMAIN signature' \subseteq 0 .. Mod - 1 /\ \A a \in DOMAIN signature' : signature'[a] \in Word
  BY <1>1, NoSignatureType DEF DebugInv, DebugTypeOK
<1>3. DebugTypeOK'
  BY <1>1, <1>2, ForgetType DEF DebugInv, DebugTypeOK, memory, loader
<1>4. Stages' /\ BreakpointNotPassed'
  BY <1>1, ForgetType DEF DebugInv, Stages, BreakpointNotPassed
<1>5. SignatureIsMemory'
  BY <1>1, NoSignatureIsMemory, SameSignature DEF DebugInv, memory
<1>6. RamStep
  <2>1. did' = NoAccess /\ mem' = mem
    BY <1>1, ForgetType DEF memory
  <2>2. CASE phase = "loading"
    BY <2>1, <2>2 DEF RamStep, DebugInv, Stages
  <2>3. CASE phase # "loading"
    BY <1>1, <2>1, <2>3, Untouched DEF RamStep, DebugInv
  <2> QED BY <2>2, <2>3
<1> QED BY <1>3, <1>4, <1>5, <1>6 DEF Kept, DebugInv

LEMMA DumpWordKeeps ==
  ASSUME DebugInv, DumpWord PROVE Kept
<1>1. PICK new \in Word :
        /\ MemoryRead(i, data, new)
        /\ data' = new
        /\ signature' = [a \in DOMAIN signature \cup {i} |->
                            IF a = i THEN new ELSE signature[a]]
        /\ Asked(Seen(i, new), {})
  BY DEF DumpWord, DumpAddress
<1>2. /\ phase = "dumping" /\ i' = (i + WordBytes) % Mod
      /\ UNCHANGED <<phase, memory, loader, hart, gdb, dump_addr_st, dump_addr_end, in_handler>>
  BY DEF DumpWord, NextAddress
<1>3. /\ i \in 0 .. Mod - 1 /\ i \in Nat /\ Mod \in Nat \ {0}
      /\ WordBytes \in Nat \ {0} /\ SIZE \in Nat
      /\ mem \in [0 .. SIZE - 1 -> Byte] /\ mem' = mem
      /\ new \in [1 .. WordBytes -> Byte]
      /\ DOMAIN signature \subseteq 0 .. Mod - 1
  BY <1>2, BusAssumption, DebugAssumption DEF DebugInv, DebugTypeOK, memory, Word
<1>4. i' \in 0 .. Mod - 1
  BY <1>2, <1>3
<1>5. DOMAIN signature' \subseteq 0 .. Mod - 1 /\ \A a \in DOMAIN signature' : signature'[a] \in Word
  BY <1>1, <1>3 DEF DebugInv, DebugTypeOK
<1>6. DebugTypeOK'
  BY <1>1, <1>2, <1>4, <1>5 DEF DebugInv, DebugTypeOK, memory, loader, hart, gdb
<1>7. Stages' /\ BreakpointNotPassed'
  BY <1>2 DEF DebugInv, Stages, BreakpointNotPassed, hart, gdb
<1>8. SignatureIsMemory'
  <2>1. ASSUME NEW k \in 1 .. WordBytes, InMemory(i + k - 1) PROVE new[k] = mem[i + k - 1]
    <3>1. InMemory(i)
      BY <1>3, <2>1 DEF InMemory
    <3>2. DOMAIN new = 1 .. WordBytes
      BY <1>3
    <3> QED BY <1>1, <2>1, <3>1, <3>2 DEF MemoryRead
  <2>2. ASSUME NEW a \in DOMAIN signature', NEW k \in 1 .. WordBytes, InMemory(a + k - 1)
        PROVE  signature'[a][k] = mem[a + k - 1]
    <3>1. CASE a = i
      BY <1>1, <2>1, <2>2, <3>1
    <3>2. CASE a # i
      BY <1>1, <2>2, <3>2 DEF DebugInv, SignatureIsMemory
    <3> QED BY <3>1, <3>2
  <2> QED BY <1>3, <2>2 DEF SignatureIsMemory, InMemory
<1>9. Accessed
  BY <1>1, <1>3, ReadShows, NothingAsked DEF Accessed, Reads_OK, Asked
<1> QED BY <1>2, <1>6, <1>7, <1>8, <1>9 DEF Kept, DebugInv, RamStep

LEMMA DumpDoneKeeps ==
  ASSUME DebugInv, DumpDone PROVE Kept
<1>1. /\ phase = "dumping" /\ phase' = "ended"
      /\ UNCHANGED <<memory, loader, hart, did, gdb, dump, in_handler>>
  BY DEF DumpDone
<1>2. DebugTypeOK'
  BY <1>1 DEF DebugInv, DebugTypeOK, memory, loader, hart, gdb, dump
<1>3. Stages' /\ BreakpointNotPassed' /\ SignatureIsMemory'
  BY <1>1, SameSignature
     DEF DebugInv, Stages, BreakpointNotPassed, memory, hart, gdb, dump
<1> QED BY <1>1, <1>2, <1>3 DEF Kept, DebugInv, RamStep, memory

LEMMA StepKeeps ==
  ASSUME DebugInv, DebugNext PROVE Kept
<1>1. CASE Load
  BY <1>1, LoadKeeps
<1>2. CASE HandleGdb
  BY <1>2, PacketKeeps, ReadMemoryKeeps, InstructionKeeps, EndKeeps DEF HandleGdb
<1>3. CASE Run
  BY <1>3, InstructionKeeps
<1>4. CASE Throw
  BY <1>4, ThrowKeeps
<1>5. CASE Fault \/ Finish \/ intHandler
  BY <1>5, EndKeeps
<1>6. CASE MemoryDump
  BY <1>6, DumpWordKeeps, DumpDoneKeeps DEF MemoryDump
<1> QED BY <1>1, <1>2, <1>3, <1>4, <1>5, <1>6 DEF DebugNext

LEMMA DebugInvariant == DebugSpec => []DebugInv
<1>1. DebugInit => DebugInv
  <2> SUFFICES ASSUME DebugInit PROVE DebugInv
    OBVIOUS
  <2>1. resumed = "no" /\ signature = NoSignature /\ did = NoAccess
    BY DEF DebugInit, BusInit
  <2>2. SignatureIsMemory
    BY <2>1 DEF SignatureIsMemory, NoSignature
  <2> QED BY <2>1, <2>2, TypeInit DEF DebugInv, Stages, BreakpointNotPassed
<1>2. DebugInv /\ [DebugNext]_debugVars => DebugInv'
  <2> SUFFICES ASSUME DebugInv, [DebugNext]_debugVars PROVE DebugInv'
    OBVIOUS
  <2>1. CASE DebugNext
    BY <2>1, StepKeeps DEF Kept
  <2>2. CASE UNCHANGED debugVars
    <3>1. UNCHANGED <<busVars, gdb, dump, in_handler>>
      BY <2>2 DEF debugVars
    <3>2. DebugTypeOK'
      BY <3>1 DEF DebugInv, DebugTypeOK, busVars, memory, loader, hart, gdb, dump
    <3>3. Stages' /\ BreakpointNotPassed' /\ SignatureIsMemory'
      BY <3>1, SameSignature
         DEF DebugInv, Stages, BreakpointNotPassed, busVars, memory, hart, gdb, dump
    <3> QED BY <3>2, <3>3 DEF DebugInv
  <2> QED BY <2>1, <2>2
<1> QED BY <1>1, <1>2, PTL DEF DebugSpec

-----------------------------------------------------------------------------
(* The variables of the loader, the hart, the server and the dump keep     *)
(* their types: the counter of the dump stays within the address space,    *)
(* and the payload of gdb's requests within its array.                     *)
THEOREM DebugTypeCorrect == DebugSpec => []DebugTypeOK
<1>1. DebugInv => DebugTypeOK
  BY DEF DebugInv
<1> QED BY <1>1, DebugInvariant, PTL

(* However gdb sets and removes breakpoints between its commands, 'c' does *)
(* not run the instruction at a breakpoint but as its first.               *)
THEOREM BreakpointsHold == DebugSpec => []BreakpointNotPassed
<1>1. DebugInv => BreakpointNotPassed
  BY DEF DebugInv
<1> QED BY <1>1, DebugInvariant, PTL

(* The words MemoryDump writes for addresses inside the memory are the     *)
(* memory's, for every range of addresses and also when SIGINT starts the  *)
(* dump again.                                                             *)
THEOREM SignatureCorrect == DebugSpec => []SignatureIsMemory
<1>1. DebugInv => SignatureIsMemory
  BY DEF DebugInv
<1> QED BY <1>1, DebugInvariant, PTL

(* The bus, the DMI pointer, the debug transport and the dump implement    *)
(* one memory, for every memory map in which the peripherals lie outside   *)
(* the memory, and every program.                                          *)
THEOREM MemoryIsRam == DebugSpec => RefinesRam
<1>1. DebugInit => ImplementsRam!RamInit
  <2> SUFFICES ASSUME DebugInit PROVE ImplementsRam!RamInit
    OBVIOUS
  <2>1. mem \in [0 .. SIZE - 1 -> Byte] /\ phase = "loading" /\ did = NoAccess
    BY TypeInit DEF DebugInit, BusInit, DebugTypeOK
  <2> QED BY <2>1 DEF ImplementsRam!RamInit, ImplementsRam!NoAccess, NoAccess
<1>2. DebugInv /\ [DebugNext]_debugVars
        => [ImplementsRam!Fill \/ ImplementsRam!Access]_(ImplementsRam!ramVars)
  <2> SUFFICES ASSUME DebugInv, [DebugNext]_debugVars
               PROVE  \/ ImplementsRam!Fill \/ ImplementsRam!Access
                      \/ UNCHANGED <<mem, phase # "loading", did>>
    BY DEF ImplementsRam!ramVars
  <2>1. CASE UNCHANGED debugVars
    BY <2>1 DEF debugVars, busVars, memory
  <2>2. CASE DebugNext
    <3>1. DebugTypeOK' /\ RamStep
      BY <2>2, StepKeeps DEF Kept, DebugInv
    <3>2. CASE phase = "loading" /\ did' = did
      <4>1. mem' \in [0 .. SIZE - 1 -> Byte]
        BY <3>1 DEF DebugTypeOK
      <4>2. (phase # "loading")' \in BOOLEAN
        OBVIOUS
      <4> QED BY <3>2, <4>1, <4>2 DEF ImplementsRam!Fill
    <3>3. CASE phase # "loading" /\ phase' # "loading" /\ Accessed
      BY <3>3 DEF ImplementsRam!Access, Accessed, Reads_OK
    <3>4. CASE phase # "loading" /\ phase' # "loading" /\ UNCHANGED <<mem, did>>
      BY <3>4
    <3> QED BY <3>1, <3>2, <3>3, <3>4 DEF RamStep
  <2> QED BY <2>1, <2>2
<1> QED BY <1>1, <1>2, DebugInvariant, PTL DEF DebugSpec, RefinesRam, ImplementsRam!RamSpec
=============================================================================
