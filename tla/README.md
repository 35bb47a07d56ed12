# RISC-V-TLM in TLA+

A specification of the RISC-V-TLM simulator, checked with TLC on small
instances and, where it matters most, proved with TLAPS for every value of the
constants. Source paths below are relative to the repository's root: `src/`
holds the `.cpp` files and `inc/` the headers.

## The system

RISC-V-TLM is a SystemC/TLM-2 model of a small SoC with one RISC-V hart
(RV32IMAC or RV64IMAC). Two SystemC threads run under a cooperative kernel:

| part | state | operations | talks to |
|---|---|---|---|
| CPU thread (`CPU.cpp`, `RV32.cpp`, `RV64.cpp`) | `interrupt`, `irq_already_down`, `int_cause`, DMI pointer | `CPU_thread` (one instruction, one look at the line, wait 10 ns), `CPU_step`, `cpu_process_IRQ`, `call_interrupt` | decoders, `Registers`, bus; called by the timer |
| Registers (`Registers.h`) | PC, x1..x31, CSRs | get/set, `incPC`, `incPCby2` | read and written by everything in the hart |
| BASE_ISA, C, M, A extensions | A: the reservation set `TLB_A_Entries` | `decode`, `exec_instruction`, one `Exec_*` per instruction, `RaiseException` | `Registers`, `MemoryInterface`, `sc_stop` |
| MemoryInterface | none | `readDataMem`, `writeDataMem` | bus |
| BusCtrl | none | `b_transport` (routing, to-host), DMI forwarding | timer, trace, memory |
| Memory | the bytes, `dmi_allowed`, `program_counter` | `b_transport`, `get_direct_mem_ptr`, `transport_dbg`, `readHexFile` | - |
| Timer (`Timer.cpp`) | `m_mtime`, `m_mtimecmp`, `timer_event` | `b_transport`, the thread `run` | raises the CPU's line |
| Trace | pseudo-terminal | `b_transport` | - |
| Debug | `breakpoints`, `pyld_array`, socket | gdb packet loop, in place of `CPU_thread` | CPU, memory |
| Simulator | options, `top` | construction, destructor with `MemoryDump`, signal handler | everything |
| Performance | counters | increments, printing | - |

Three things are hard here. The state of one interrupt is spread over a pending `sc_event`, two thread-local flags of the
CPU and a bit of `mip`, and is changed by three parties (the program through
its stores and CSR instructions, the timer thread, the CPU thread after each
instruction) in an order the kernel chooses, and a 64-bit timer is used through
32-bit accesses, at a time that has moved on since `mtime` was sampled. The
memory is reached in five ways (loader, bus, direct pointer, debug transport,
dump) that check different things and are in use at the same time. And the
instructions are written once as templates for two widths, where signs, widths
and the order of register accesses go wrong at values that a program seldom
meets.
For each component, what makes it correct:

* interrupt logic - a request is taken once, unless masked; the line is lowered
  again; the handler can start;
* timer - it fires at the time the program asked for, and reading it gives a
  time that was;
* exceptions and CSRs - a trap goes to `mtvec`, a CSR instruction does what its
  operands say;
* ISA - each instruction computes what the RISC-V manual says, and each word is
  decoded by the right extension;
* atomics - an SC succeeds only if nobody wrote since the LR;
* bus and memory - all ways to the memory show the same bytes, and a store
  changes its own bytes only; a hex file is loaded where its records say;
* debug - a breakpoint stops the program before its instruction;
* simulator - the dump has the words of the memory, and ends, also when a signal
  starts it a second time.

`PROJECT.json` lists the components with what is and is not modelled, and the
hazards with the properties aimed at them.

## Modules

| module | models |
|---|---|
| `CpuIrq` | the hart's trap state as one record, and as operators on it `RaiseException`, `Exec_MRET`, the six CSR instructions, `call_interrupt` and `cpu_process_IRQ` |
| `IrqTiming` | `CPU_thread`, `Timer::run` and the SystemC kernel: one action per class of instruction, one for the timer thread, one for the kernel |
| `IrqLine` | the abstract specification: the life of one arming of the timer |
| `Soc` | `IrqTiming` with the timer's registers and `Timer::b_transport` |
| `IrqTimingProofs`, `SocProofs` | the theorems about `IrqTiming` and `Soc` |
| `AExt` | LR.W, SC.W and AMOSWAP.W, with the reservation set `TLB_A_Entries` |
| `SpinLock` | tasks preempted between any two instructions, and the locks they build from `AExt` |
| `SpinLockProofs` | the theorem about `SpinLock` |
| `Word` | bits of an instruction word, C++'s integer conversions, and a hart: registers, PC and memory |
| `Decoder` | the decoders and immediates of BASE_ISA and the C, M and A extensions, and `CPU_step`'s order of asking them |
| `Isa` | what each instruction does to a hart, on RV32 and RV64 |
| `Manual` | the reference: how the RISC-V manual encodes each instruction, and what it says the instruction does |
| `IsaSpec` | one step of `CPU_step` on any hart, compared with `Manual` |
| `WordProofs` | lemmas about `Word`: powers of two, C++'s conversions, bytes in the memory |
| `DecoderProofs` | the theorem about `Decoder` |
| `IsaProofs` | the theorems about `Isa` |
| `Ram` | the abstract specification of the memory: one array of bytes |
| `Bus` | the hex loader, `Memory`, `BusCtrl`, `MemoryInterface` and the fetch of `CPU_step` |
| `Debug` | the simulator around `Bus`: gdb session or run, the end, the signal handler, the dump |
| `DebugProofs` | the theorems about `Debug` |
| `LoaderProofs` | the theorem about the loader of `Bus` |
| `MCIrqTiming`, `MCSoc`, `MCSpinLock`, `MCIsa`, `MCDebug` | values of the constants for TLC |

`CpuIrq` has no variables: `IrqTiming` keeps the record in the variable `cpu`,
and `Soc` adds variables of its own, so all three describe the same hart.
`AExt` has none either; in `SpinLock` each task has its registers, which a
context switch saves and restores, and all share `mem` and `TLB_A_Entries`.
`Word`, `Decoder` and `Isa` are pure operators, as the code they model is
sequential; `IsaSpec` has the hart as its variable. `Debug` extends `Bus`: the
phase says which part of `sc_main` is running.

How state and actions correspond to the code:

* `cpu` is `register_bank` and the flags of `CPU`, reduced to what the
  interrupt logic reads. Flag registers are sets of flag names. An address
  counts halfwords, so `incPC` adds 2.
* `Turn(c)` is one turn of `CPU_thread`, where `c` is what `CPU_step` leaves:
  `cpu_process_IRQ(c)` always follows in the same step, and then the wait.
  SystemC threads are not preempted, so a turn is one atomic action.
* The program is the environment. Each instruction is a free choice from the
  classes that the code distinguishes by their effect on the PC, on the trap
  state and on the end of the run. Four constants state what discipline, if
  any, the program keeps: `OneShot` (it arms the timer only when no earlier
  expiry is pending or unserved, the way a handler that re-arms its timer
  does), `MipWrites` (it writes `mip`; no program of the repository does),
  `MtimeWrites` and `Stops`.
* `timer_event` is the time left until the pending notification, and `cpu_wait`
  that of the CPU's wait. Both are relative, so behaviours are unbounded and
  liveness can be checked. `Soc` adds `now`, which is bounded by `MaxTime`.
* `Kernel` is external: when no thread is runnable it moves time to the next
  notification and makes everything due then runnable, in no particular order.
  `Notify` is `sc_event::notify`: of two pending notifications the earlier one
  stays. `sc_stop` lets the current evaluation phase finish.
* `took`, `armed` and `pair` are history variables: whether the last turn
  entered the handler, what the last arming of the timer asked for, and the
  last load of the low half of `mtime`.

In the instruction set (`Word`, `Decoder`, `Isa`):

* An instruction word is the set of its one bits, all 32 of them: fields and
  immediates are at their real places and of their real widths. Data is scaled:
  a word has `W` bits, a register `W` or `2 * W`, a byte `W / 4`.
* The template parameter `T` of the code is the hart's field `t`; the
  specialisations of `BASE_ISA.cpp` and `M_extension.cpp` for the two widths
  differ in nothing else.
* An `Exec_*` function of the model stands for the group of the code's functions
  of the same shape, with their order of reads and writes of registers kept.
  A result of `exec_instruction` that says whether the PC was affected becomes
  the call of `incPC` or `incPCby2` that `CPU_step` makes for it.
* System instructions and exceptions are in `CpuIrq`; `fault` marks that one was
  raised. Accesses outside the memory are the concern of `Bus`.

In `Bus` and `Debug`:

* The loader has one action per record. Hex files are well formed and fit the
  memory, which the loader does not check; `OpenFails` is a file that cannot be
  opened.
* Reads go into a buffer. `MemoryRead(a, old, new)` relates the buffer before
  and after; where the code leaves the buffer alone `new = old`, and where it
  reads past the end of the array, or into an uninitialised variable, any value
  is possible.
* `did` is a history variable: the reads of the last step with their answers,
  and its store. `Ram` is stated with it.
* `CPU_step` is a fetch (bus or pointer), at most one data access and any next
  PC. The instruction is the environment's choice, like the answer of the timer.
  LD, SD and the AMOs make two accesses of a word each, and each of them is an
  access of this kind.
* gdb's requests are not longer than `pyld_array`, which the code does not check
  (`DebugAssumption`).
* The options of the dump, and the registers `t0` and `t1` that replace missing
  ones, are chosen when the dump starts, since nothing reads them before.
* `Throw`: an `SC_REPORT_ERROR` in a thread ends `sc_start`, which returns or
  throws according to the kernel's version; both are possible.
* `Forget` resets what nothing can read any more, to keep the state small.
* `invalidate_direct_mem_ptr` has no caller, in the memory or elsewhere.
* `intHandler` happens between two steps: an instruction is one step. A SIGINT
  after the dump, among the deletes of `~Simulator`, is not represented.

## Runs

| run | instance | shows |
|---|---|---|
| `irq_free` | any program that does not write `mip` | `MeipWillBeLowered`, `HandlerGetsOneInstruction`, `TypeOK` |
| `irq_oneshot` | `OneShot` programs that do not write `mip`, with fairness | `NotWedged`, and the liveness properties `RequestIsTaken` and `ArmedIsServed` |
| `irq_line` | `OneShot` programs | the refinement `ImplementsIrqLine` |
| `soc` | any program, with the timer's registers, re-arming and writing `mip` and `mtime` too | `MtimeNotTorn`, `FiresInWindow`, `SocTypeOK` |
| `isa` | every instruction, edge values, aliased registers | `DecodesAsAssembled`, `BaseAsManual`, `CompressedAsManual`, `MulDivAsManual`, `AmoAsManual`, `IsaTypeOK` |
| `bus` | hex files of up to three records, any program, gdb session and dump, SIGINT at any step | the refinement `RefinesRam`, `LoadedAsHex`, `BreakpointNotPassed`, `SignatureIsMemory`, the liveness property `DumpEnds`, `DebugTypeOK` |
| `lock` | three tasks on a lock taken with AMOSWAP, two on one taken with LR/SC | `MutualExclusion`, `FreeLockIsTaken` |
| `irq_wedge` | no discipline | `RequestIsTaken` fails |
| `soc_rearm` | no discipline | `NeverBeforeMtimecmp` fails |
| `soc_late` | `OneShot` programs | `NeverAfterMtimecmp` fails |
| `irq_csrs` | - | `CsrsSetsMstatus` fails |
| `isa_strict` | the AMOs on RV32 | `SupportsIMAC` fails |

The last five show disagreements between the code and what the repository says
of it:

* `irq_wedge`: the timer expires in the one turn in which MEIP of the previous
  interrupt is still set. `cpu_process_IRQ` then neither takes the request
  (MEIP is set) nor lowers the line (there is a request), in this turn and in
  every later one.
* `soc_rearm`: the program moves `mtimecmp` to a later time while an expiry is
  pending; the pending notification stays, and the timer fires early.
* `soc_late`: the delay is counted from the `mtime` that the program last
  loaded, the notification from the current time, so the timer fires late by
  the difference.
* `irq_csrs`: `csrs mstatus, t0` is CSRRS with `rd = x0`, for which
  `Exec_CSRRS` returns before it writes. `csrc` alike.
* `isa_strict`: AMOSWAP leaves the old memory word in `rs2`.

"mtimecmp works in absolute time", says the comment at `Timer.cpp:72`;
`soc_rearm` and `soc_late` show two ways in which the expiry is not at that time.
What remains is the window of `FiresInWindow`: not before the earliest comparator
that is awaited, and not after the last one by more than `mtime` lagged when it
was stored. A timer that fires exactly at `mtimecmp` satisfies it as well.

Properties hold outside cases that each of them names; every one of these cases
is reached, and the property without it fails:

* `CompressedAsManual`, on RV64: C.JR, C.JALR and C.J to a target, C.JALR from a
  PC, and C.SW and C.SWSP at an address, of 2^32 or more, because the code holds
  them in 32 bits (`DropsUpperHalf`).
* `MulDivAsManual`, on RV64: the signed overflow in DIV and REM (the host's
  division traps), DIVW (not sign-extended) and DIVUW, which has an overflow case
  that unsigned division does not have (`DivisionOverflows`).
* `AmoAsManual`: `rd = rs2`, AMOSWAP, the doubleword forms, and addresses of
  2^32 or more (`AmoDeviates`).
* `LoadedAsHex`: a 02 record after a 04 record with a base other than 0, to
  which it adds instead of replacing it (`MixesBases`).
* `DumpEnds`: a dump whose end is in the last word of the address space, which
  the 32-bit counter steps over.
* `FiresInWindow`: comparators that, with the lag of `mtime`, pass 2^64, for
  which the timer fires at once, and an `mtime` that the program has stored
  (`InRange`).

Bounds. `Period` is 2: `default_time` in units of half an instruction, so that
an expiry can fall on an instruction boundary, strictly between two, or (delay
0) in the next delta cycle; the delays 0 to 3 cover these and one that outlasts
a turn. `NAddr` is 2 where the PC is saved and restored and 1 where it does
not matter.
The registers of `Soc` have 4 bits in two halves of 2 (`Half = 4`): the low
half rolls over within the 8 units of `MaxTime`, and the stored words include
values before, at and after the current time. `MaxTime` bounds only the time
explored; a behaviour that reaches it stops there, which is why the runs of
`Soc` do not check deadlock, and why liveness is checked in `IrqTiming`, which
has no such bound. The runs with `Stops` do not check deadlock because a
simulation that was stopped has no next step.

`isa` has `W = 4`: registers of 4 and 8 bits, which are few enough to try all
pairs of edge values (0, 1, the largest and most negative of a word and of a
register and their neighbours) with every register operation, in six patterns of
aliased registers. Each bit of each immediate, with both signs, and each register
field are tried on fewer harts (`FieldCode`), as the decoder does not look at the
data; the instructions that change or save the PC are tried at the ends of a word
and of a register (`HighPCs`, `JumpCode`). An instruction's effect does not depend on what ran before, so behaviours
of one step are enough, after which the run has no next step.

`bus` has words of two bytes, a memory of two words, and then a word each of
hole, trace, timer and to-host: accesses lie inside, across the end of the
memory, and in each of the others. Addresses wrap at 12, the end of the map, so
that a dump can reach the wrap. Three records allow a base, another base and
data. `Debug` checks no deadlock because a simulator that has ended has no next
step.

In `lock`, a lock taken with LR/SC has two tasks at most, and
`SpinLockAssumption` says so for the proof as well. It is needed: with three,
one task reads the free lock with LR, a second takes it, a third reads the taken
lock with LR, which renews the reservation, and the SC of the first succeeds.
Words have 2 bits and registers 4, enough for the values 0 and 1 and for sign
extension to be different from the identity on the others.

Fairness. `FairSpec` has weak fairness of each thread and of the kernel: the
SystemC kernel runs every runnable thread before it moves on, and moves on when
none is left. There is no fairness of any particular instruction: what the
program executes is up to it. `RequestIsTaken` therefore allows the program to
mask interrupts, and `ArmedIsServed` assumes that it ends up not doing so.
`FairLockSpec` has weak fairness of each task that is trying to take its lock:
a preemptive scheduler, driven by the timer interrupt, gives it a turn now and
then. A task may stay idle, or in its critical section, for ever.
`FairDebugSpec` has weak fairness of `MemoryDump` alone, a loop that runs in the
only thread there is.

Every property of a passing run comes with a mutant: a plausible bug in a
mapped definition (the operator named `<definition>_<bug>` beside it) under
which TLC finds that property violated.

## Proofs

`IrqTimingProofs` proves, for every `NAddr`, `Period` and set of `Delays`
allowed by `NAddrAssumption` and `TimingAssumption`:

* `TypeCorrect`: `Spec => []TypeOK`;
* `LineIsLowered`: `~MipWrites` implies `[]MeipWillBeLowered`;
* `HandlerStarts`: `~MipWrites` implies `HandlerGetsOneInstruction`;
* `OneShotNotWedged`: `~MipWrites` and `OneShot` imply `[]NotWedged`;
* `OneShotRefines`: `OneShot` alone implies that `Spec` implements `IrqLine`.

The lemmas up to `IrqType` give the type of what each operator of `CpuIrq`
returns, and `OperatorsKeepLine` says which of them leave the flags and `mip`
alone, so that an inductive step treats every instruction that does not concern
the line in the same way (`StepShape`). `MeipWillBeLowered` is not inductive by
itself: that a turn which entered the handler is followed by one that does not
needs the bit to be set as long as `took` holds, and `LineInv` adds that.
`NotWedged` needs more: the state before the dangerous one is a timer thread
that is about to run while MEIP is set. `OneStage` says that an arming is in
one stage only (pending, running, requested), and `MeipIsLast` that none has
begun while MEIP is set, which holds because the turn that arms the timer again
is itself the one that lowers the line; `OneShotInv` is `LineInv` with both. The
refinement needs `OneStage` only, with the mapping `Line`: `LineStages` relates
it to the stages, and `StepRefines` maps each step to a step of `IrqLine` or a
stutter.

`SpinLockProofs` proves `LocksExclude`, `LockSpec => []MutualExclusion`, for
every set of tasks and of locks and every width, from `AExtAssumption` and
`SpinLockAssumption`. The inductive invariant `LockInv` says what is in the
registers (`RegsOK`: whenever the program goes back to AMOSWAP, the value it
left in `t0` is 1 again), that the lock word is 1 exactly if some task has the
lock (`WordsOK`), that one task has it (`HoldsOnce`), and that a task which saw
the lock free and finds it reserved can rely on that (`ReservationOK`); the last
is where the two-task assumption is used, in the step for LR. Each action is
first reduced to an `Effect` on `t0`, `t1` and the lock word, and the invariant
is then shown for the kinds of effect.

`SocProofs` proves `SocTypeCorrect`, `MtimeReadIsAtomic` and `TimerInWindow`, for
every width of the registers and without any discipline of the program.
`MtimeNotTorn` is inductive given the types. `FiresInWindow` needs `TimerInv`: the
kernel has a notification pending exactly while an expiry is awaited
(`AwaitInv`), a sampled `mtime` is not ahead of the time (`SampleInv`), and the
instant of the notification is in the window if its armings were in range
(`WindowInv`). `DelayIsDistance` is the arithmetic of it (the difference of the
registers modulo 2^64 plus the current time modulo 2^64), and `NotifyIsEarliest`
the kernel's choice between two notifications.

`DebugProofs` proves `DebugTypeCorrect`, `BreakpointsHold`, `SignatureCorrect`
and `MemoryIsRam`, for every size of memory and of words, every memory map whose
peripherals lie outside the memory, every hex file, program and session, from
`BusAssumption` and `DebugAssumption`. The inductive invariant `DebugInv` joins
the types, the breakpoint and signature properties and `Stages`, which says where
in its life the simulator is when the loop of `c` runs and when there is a
signature: only from the dump on, when nothing stores into the memory any more. `ReadShows` and `WriteIsAfter`
say that the code's reads and writes, through whichever path, are those of `Ram`;
`MemoryIsRouted` that the bus never sends an address of the memory elsewhere;
`StepKeeps` has one lemma per group of actions and shows the invariant and the
refinement step together.

`LoaderProofs` proves `LoaderCorrect`, `DebugSpec => []LoadedAsHex`, from the same
assumptions: a hex file of any length, of records of any kind in any order, is in
the memory as the format says, unless it mixes the bases. What the format says
of a byte is stated with the last record that covers it and the last base before
that record, so one more record read is one more position among which the last is
looked for: `LoaderInv` is `LoadedAsHex` for the records read so far, with the
base that the loader has in `memory_offset` and `extended_address`, and `NextBase`, `NextImage` and
`NextStart` say how each of the three changes with a record. That a last position
exists is the least-number principle, from the theorems of
`WellFoundedInduction`, which take a set and not a predicate.

`DecoderProofs` and `IsaProofs` prove the six properties of the run `isa`
without its bounds: for words of 4, 8, 16 and 32 bits, so for the code's own
widths, for all contents of registers, PC and memory, all registers and all
immediates. They assume `WordAssumption` (the widths), `PowersOfTwo` (what `2^k`
is for the exponents that occur, which the provers do not know and TLC evaluates)
and `IsaAssumption` (the harts have their types, the instructions of the workloads
are instructions whose operands fit into their fields, and what follows a
compressed instruction is in the upper half of the fetched word).

* `DecoderCorrect`: `IsaSpec => []DecodesAsAssembled`. A word `Holds` a number in
  the field from `lo` to `hi` if its bits there are those of the number. From this
  `PartIs` gives what a shifted field amounts to, `v % 2^b - v % 2^a` for the bits
  `a` to `b - 1` of the number, so the sum of the parts of an immediate telescopes
  (the `Imm_*` lemmas, one per getter), and `FillIs` restores the sign.
  For the 32-bit instructions `Immediate32`, `Dispatch32` and `OperandsImm32`
  follow the formats of `Assemble32`; for the compressed ones there is one lemma
  per shape of word (`Shape_*`: the fields of the word do not overlap, and hold
  what was assembled) and one per instruction (`Decodes_C_*`). `OpcodeIsNot32` is
  why the base decoder, which is asked first, refuses every compressed
  instruction whatever its upper bits are.
* `BaseCorrect`, `CompressedCorrect`, `MulDivCorrect`, `AmoCorrect`: the
  properties of the same names (`BaseAsManual` and so on). `WordProofs` has
  the arithmetic: conversions keep a number modulo `2^n`, bytes written are the
  bytes read, a doubleword is two words. Then, in `IsaProofs`, one lemma per `Exec_*`
  function or kind of instruction in it says that it `Writes` what `Result`
  writes, and one per extension (`base_exec`, `C_exec`, `M_exec`, `A_exec`) puts
  them together; `StepDecodes` gives them the operands that were assembled.
* `IsaTypeCorrect`: `IsaSpec => []IsaTypeOK`, in the excepted cases too.

The inductions over the bits of a word in these proofs (`PartIs`,
`NonzeroRange`) are by the least-number principle as well. Bitwise AND, OR and XOR
are the same operators in `Isa` and in `Manual`, so nothing has to be known of
them but their range.

Only model-checked: the liveness properties (`RequestIsTaken`, `ArmedIsServed`,
`FreeLockIsTaken`, `DumpEnds`), which need fairness and `ENABLED` and so are out
of the prover's reach.

## Not modelled

* Performance: counters that are printed at the end and that nothing reads.
* Trace's pseudo-terminal, and the wording of all output: I/O without state that
  the simulated program can observe. As a bus target Trace is in `Bus`.
* Argument parsing: `Debug` has its results.
* gdb's register packets (`g`, `p`, `P`), checksum and the framing of socket
  reads: conversions of text. `M` and `X` packets have no effect in the code.
* MISA, cycle and time CSRs, and `mtval`.
* Floating-point instructions of the C decoder, which have no implementation.
* A signal in the middle of an instruction: an instruction is one step.
