# A verification of the ARM simulator

The repository is an ARMv5 instruction set emulator (`arm_simulator`) that a gdb client drives
over the gdb remote protocol and that receives exceptions on a second port from `send_irq`.
This directory holds TLA+ models of it, the TLC configurations that check them on small
instances, and TLAPS proofs of the results that do not depend on the size of the instance.
`PROJECT.json` lists the components, the runs, the theorems and, under `map`, the source lines
of every definition.

## 1. The system

| component | state it keeps | operations | interacts with |
|---|---|---|---|
| `memory.c`, `util.h` | bytes, size, endianness of the target | create, read and write of bytes, halfs, words | called by `arm_core` |
| `registers.c` | 37 physical registers, a table mode × register → physical register, `mode` | read/write in the current mode or in user mode, cpsr, spsr | called by `arm_core` |
| `arm_core.c` | register file, memory, cycle counter | register and memory access with pc adjustment, fetch | called by the instruction files, by gdb handlers, by exceptions; each access goes through `trace` |
| `arm_exception.c` | – | `arm_exception`: only RESET acts | called by `arm_step`, the irq thread and `arm_create` |
| `arm_instruction.c`, `arm_branch_other.c` | – | condition, dispatch, b/bl, swi, mrs, `arm_step` | calls the two files below |
| `arm_data_processing.c` | – | barrel shifter, sixteen operations, flags | `arm_core` |
| `arm_load_store.c` | – | single and multiple transfers, their addressing modes | `arm_core` |
| `scanner.l` | buffer of characters that belong to no packet | the lexical rules | reads the socket, calls `gdb_protocol` |
| `gdb_protocol.c` | last answer (`packet`, `len`), the stop reason (`target_exception`) | checksum, acknowledgement, one handler per letter | the processor, under `lock` |
| `arm_simulator.c` | `shared`: processor, mutex, descriptors | options, main, gdb and irq threads | everything |
| `trace.c`, `trace_location.h` | `enabled`, the options, a stack of locations, the last address | start/end of a location, enable/disable, entries | around every access of `arm_core` |
| `send_irq.c` | – | sends one byte | the irq port |
| `debug.c` | sorted table of file names | insert, search | debug messages |

What is hard here:

* *Concurrency.* The gdb thread and the irq thread share the processor and the globals of
  `trace.c`; every packet and every exception is a series of accesses under one mutex; `main`
  joins only one of the threads and frees the processor without the mutex.
* *Waiting.* `cont` keeps the mutex until the program reaches a breakpoint.
* *An unreliable link.* Damaged checksums, lost acknowledgements, requests to send the answer
  again, and characters that belong to no packet.
* *Partial effects.* A multiple transfer that leaves the memory half way; RESET between two
  accesses; the base register of an aborted transfer.
* *Arithmetic at the limits.* `address >= size - 3` on unsigned numbers, byte order on a host of
  the other endianness, carry, borrow and overflow, shift counts of 0, 31, 32 and more; bisection
  in a table of names that is empty, has one entry or is full.
* *Copies.* `registers.mode` copies a field of the cpsr; the debugger keeps registers and memory
  it has read and writes them back later; `cont` decides on an instruction read in advance.
* *Observation.* The debugger's own accesses go through the functions that trace, and must not
  show in the trace of the program.

What makes each component correct is listed with its module below; `PROJECT.json` lists the
hazards at their lines with the properties that would catch each one.

## 2. The modules

```
ArmWord ── MemoryData ── Memory ──(refines)── MemoryAbstract ──────────────┐
              │                                                            ├─ StorageProofs
              ├─ RegistersData ── Registers ──(refines)── BankedRegisters ─┘
              │        │
              └────────┴─ ArmCore ── ArmInstructionSet ─┬─ ArmDataProcessing ─┐
                                                        └─ ArmLoadStore ──────┴─ ArmInstruction
ArmInstruction ─┬─ ArmAlu ───────────────── ArmAluProofs ───┐
                └─ ArmStep ─┬─ Arm ──────── ArmProofs ──────┤
                   │        └─ GdbSession ─ SessionProofs ──┤
                   └─────────────────────────────────────── ArmStepProofs
                            (ArmPrograms: instructions and example1.s)

Debug ──┐
Trace ──┴─ Logging                          LoggingProofs
Simulator ──(refines)── AtomicProcessor     SimulatorProofs
GdbLink                                     GdbLinkProofs
```

**ArmWord, MemoryData, Memory, MemoryAbstract.** A word is four bytes of `ByteBits` bits; the
bits of a number (`Bits`, `FromBits`) and the powers of two (`Exp2`) are functions, so that the
provers can use them.
`MemoryData` has the byte reversal of `util.h` and the loads and stores of `memory.c` as they are
written: a host load or store, reversed when host and target disagree. `Memory` has one action
per function of `memory.h`; `MemoryAbstract` is a memory that stores a value in the order of the
target, byte by byte, and knows nothing of the host. `call` (`asked` in `Registers`) records the
last call so that the two are compared call by call.

**RegistersData, Registers, BankedRegisters.** The table of `registers_create`, 7 × 18, as
the code fills it, and one action per function of `registers.h`; the mode changes are those of
the client `registers_test.c`. `BankedRegisters` says which registers the modes share, with no
table: fiq has its own r8–r14, the other exception modes their own r13 and r14, user and system
have no spsr. An access to a missing spsr dereferences NULL (`crashed`).

**ArmCore, ArmInstructionSet, ArmDataProcessing, ArmLoadStore, ArmInstruction.** The processor is
a record (registers, memory, cycle counter); each function of the source is an operator from a
processor to a processor and a result. An instruction is the record of its fields, so that
shifting and masking the word is left to `Decode`, a constant; every test the code makes on a
field is kept, `get_bit(ins, 22)` on halfs included. Two results stand for what has no return
value: `EXIT` (swi 0x123456 calls `exit`) and `CRASH` (the NULL of a missing spsr).

Each `MC` module gives the constants of the module of its name their values for TLC. `MCUnits`
takes `Memory`, `Registers` and `ArmAlu` (with the operands of `MCAlu`) together: a state of its run
is one of one of the three, which share nothing.

**ArmAlu** runs short programs of data-processing instructions from every contents of the
registers they use, and keeps the registers they started from to compare the results with
arithmetic on numbers. **ArmStep** has creation, fetch and `arm_step` with condition, dispatch and
exception; **Arm** runs instructions of all kinds with it: `Step`, `Exception` (the irq port) and
`WriteRegisters` (the G packet). Each is atomic, which is what `Simulator` establishes.
**ArmPrograms** has the encoding of a few instructions and the program `Examples/example1.s`.

**GdbSession.** Every handler of `gdb_protocol.c` on that processor: g, G, p, P, m, X, s, c, ?, k
and the letters without effect, with their conversions (the byte order of a register in
hexadecimal, the pc that is read in advance, the place of the cpsr after the floating point
registers, `atoi`, the escapes of X (0x7d, "#" and "$", the constant `EscapedBytes`), undone character by character in the loop that writes the
bytes), the assertions on register numbers and the stop reason.
A turn of `cont` is a step; in the first turn outside the memory the instruction it decides on was
never written, and the decision is a choice. The debugger is the environment. It keeps what it
was told (`regs`, `bytes`, `reason`) until the program runs again, and puts breakpoints in the
program with X, as gdb does. How packets travel is left to `GdbLink`.

**Debug, Trace, Logging.** `Debug` has the insertion of `add_debug_to` and the bisection of
`__is_debugged`, a turn of its loop a step; names are numbers, since only `strcmp` tells them
apart. A write beyond the table sets `overrun`, after which the model says nothing more. `Trace`
has the variables of `trace.c` as a record and its functions, with the macros of
`trace_location.h`, on it: whether `f(...)+END_LOCATION` ends the location before or after the
access is left open by C, and both builds are modelled. `Logging` composes them with the options
that `main` reads, the packets, `cont` and the exceptions; an instruction is the series of its
accesses.

**Simulator, AtomicProcessor.** The three threads with one step per access to shared data: the
gdb thread from accept to the end of the scanner, with the handlers' lock, trace and register
accesses; the irq thread with its accepts, reads and the two writes of RESET; a connection that breaks, on
which a wrapper of `csapp.c` or SIGPIPE ends the process (`GdbWriteFails`, `IrqReadFails`,
`IrqAcceptFails`); main with join,
free and return. The processor is cut down to the pc and the cpsr, the registers that both
threads write, and to one access at a time: calls nested in the arguments of another one, which
push a second location, are in `Trace`. `AtomicProcessor` has atomic packets and exceptions.

**GdbLink.** The scanner's rules and the packet layer at one end, a debugger at the other, two
channels between them, and the faults of the channels. The pattern `.` of `scanner.l:71` leaves a
newline out: it is not collected in the error buffer (`ScanNewline`). The debugger is the environment: it
waits for an acknowledgement, sends again on "-", and then waits for an answer with a right
checksum.

Definitions called *Variant* in comments are wrong versions of the definition after them: they
are used by no specification and serve to show that a property notices the difference.

## 3. What the runs check

| run | instance | result |
|---|---|---|
| `units` | `memory.c`: 5 bytes of 1 bit, target and host of different endianness; `registers.c`: values {0,1}, at most one register set before a call; `arm_data_processing.c`: 4-bit words, every pair of operands, double words with every lower half and the upper halves 0, 7, 8 and 15 | all calls of `memory.h`, at all addresses, with all values and contents: refinement of `MemoryAbstract`; all calls of `registers.h` in all modes: refinement of `BankedRegisters`; `CompareOrders`, `BooleanLaws`, `ShifterMatches`, `DoubleWord` (adds/adcs, subs/sbcs, rsbs/rscs) |
| `arm_transfer` | every addressing mode of words, halfs and bytes, ldm and stm with four lists, all of them also with the pc as base (and offset of halfs) and the multiple ones with the base in the list, sixteen other instructions, × eight bases at and around both ends of 16 bytes, with a RESET before or after | `TransferEffect` and `MultipleEffect` (address, abort, base, each datum between its register and its word, and all the rest unchanged), `ControlBitsKept` |
| `threads` | two packets, two exceptions, two connections, two values per register | `TraceRestored`, refinement of `AtomicProcessor`, `IrqDelivered`, `PacketAnswered`, `EndsWithDebugger` |
| `session` | `Examples/example1.s` with a breakpoint in its loop; stm, overwrite, ldm in all modes with a breakpoint between; debuggers that read and change registers and memory; two exceptions at any time | what g, G, p, P, m and X tell stays true (`RegistersKnown`, `MemoryKnown`, `WriteEffect`), the reason of a stop is that of the last instruction (`ReasonKept`), `cont` comes back at breakpoints (`StopsAtBreakpoint`), example1 ends at its swi with its result, within 22 instructions after the last RESET (`Example1Ends`), the registers come back (`SaveRestore`) |
| `logging` | every sequence of up to four of four names in a table of three; every set of trace options; two instructions of four kinds, two packets or exceptions | `TableSorted`, `DebugFound`; the trace has the program's accesses and no others (`LogExact`), marked sequential where they are (`SequentialMark`), with no place but their own (`PositionRight`) |
| `link` | three requests and a kill, two damaged checksums, two impatient "-", two messages turned to noise (an acknowledgement also to a newline), one packet sent without need | `ExactlyOnce`, `OwnAnswers`, `NeverKilled`, `SessionCompletes` while only checksums are damaged; `ErrorBufferBound` always |

The other runs expect a violation, each of a property that a document, a comment or a message of
the repository states. The `findings` of `PROJECT.json` quote both sides.

| run | property | what the code does |
|---|---|---|
| `alu_add` | `AddOverflow` | V of an addition is taken from the difference |
| `arm_banks` | `ProperRegisters` | writing the cpsr leaves the mode that selects the registers: after RESET the cpsr says Supervisor and the instructions change System's r13 and r14 |
| `arm_push` | `PushPop` | decrementing transfers put the lowest register at the highest address |
| `threads_loop` | `IrqDelivered` | an exception waits while `cont` runs a program, for ever if it loops |
| `logging_position` | `PositionTold` | where `f(...)+END_LOCATION` ends the location first, the access is traced without its place; so are the reads of `arm_print_state` in every build |
| `link_answer` | `AnswersMatch` | invalid characters before a whole packet have it sent, and executed, again |

The properties of the passing runs are written so that they hold of the code as it is. The models
follow the code, against the architecture or a reader's expectation, in these places that have no
run of their own:

* sbc and rsc leave C set when only one of their two subtractions borrows
  (`arm_data_processing.c:396`; `DoubleWord` says nothing of that carry);
* LSR and ASR by a register whose low byte is 0 shift by 32 (`arm_data_processing.c:154`;
  `ShifterMatches` leaves that count out);
* bit 22 of a half transfer is read the wrong way round (`arm_load_store.c:75`). `TransferEffect`
  takes the offset as the code decodes it (`Distance`) and judges what the transfer does with it;
  the shifts of a register offset are those that `ShifterMatches` judges in data processing;
* since the register file stays in System mode (run `arm_banks`), mrs of the spsr, and ldm with the
  S bit and the pc, dereference NULL although the cpsr says Supervisor;
* p reads a register number, which comes in hexadecimal, with `atoi` where P uses `%x`
  (`gdb_protocol.c:257`, `360`): for r10 to r15 ("a" to "f") it answers with r0, for 16 to 21 ("10"
  to "15") with r10 to r15, and 22 to 25 fail an assertion, which ends the process; P fails it for
  every number from 16 on;
* of a pc that has bit 1 set, g tells the address that the next fetch reads, not the value that P
  or G wrote (`arm_core.c:77` reads the pc with that bit cleared); `RegistersKnown` accepts either;
* s on a breakpoint executes it as an undefined instruction; the program has then lost an
  instruction (`disturbed`);
* `arm_print_state` shows the registers of the current mode under the name of every mode, and its
  reads are traced (`arm_core.c:205`); `LogExact` is silent about register entries when states
  are traced as well;
* the first entries of a trace have a cycle that was not set yet (`arm_core.c:44`);
* a full table of debugged files is overrun by a name that comes before one of its own
  (`debug.c:41`).

### Bounds

* *Word width.* `ByteBits` is 1 in `units` and `alu_add` (4-bit words, exhaustive over
  operands) and 4 in the `arm` runs and `session` (16-bit words, so that addresses and lists have
  room).
  Nothing in the code of shifts, carries and byte order depends on 8 except through 32 = 4 × 8;
  the theorems about memory, `Arm`, `ArmAlu` and `GdbSession` hold for every width.
* *Memory size.* 5 bytes: a word fits at two addresses and fails at the others; every address
  of the word's range is tried, so that the unsigned wrap is reached. Sizes below a word, where
  `size - 3` wraps round, are excluded by `MemoryAssumption`; the simulator never creates one.
* *Registers.* A wrong table entry shows with one register set: a write appears where it should
  not, or is missing where it should be. `FewSet` stops the exploration after two registers
  differ from 0; the step that sets the second is still checked. The theorem has no such bound.
* *Double words.* Upper halves at the edges of both orders: 0, the largest and the smallest signed
  word, and the largest. The lower halves, which decide the carry between the two, are all of them.
  The theorem has no such bound.
* *VIEW.* `call` and `asked` are left out of the view of `units`: no action reads them, and TLC
  checks an action property on every step it generates, before it looks for the state.
* *Sessions.* A debugger follows one of the plans of `MCGdbSession`: all packets in one session
  would multiply states that do not touch each other. The plans meet what is shared (exceptions,
  `cont`, s, breakpoints). `RunsFirst` has a debugger that runs a program write the registers
  before, as the programs need their base, and follows it until it interferes with the program.
  The memory of 64 bytes holds the programs and lets m and X begin before, at and after its end;
  a P packet sets a pc that is not aligned; the host has the other byte order. 70 instructions are three runs of example1.
* *Logging.* Four names in a table of three give empty, full, overrun and dropping tables, and
  equal names. `FirstAddress` is no address of the program less four, as 0x12345678 is none;
  only a debugger that moves the pc there could make the first mark wrong. Two registers stand for
  the sixteen of a dump. Two instructions suffice for a mark, a place and a cycle to depend on
  what came before, with the look-ahead of `cont`, a packet or an exception in between.
* *Threads.* Two packets are any packet after any other, with an exception before, between and
  after their accesses; the theorems hold for any number. `MaxFiles` stands for the limit of file
  descriptors.
* *Link.* Two faults of a kind suffice for a fault during the recovery from the first. An error
  buffer of 2 is emptied by the second invalid character. Deadlock is not checked: when a packet
  lost its shape and the debugger does not send it again, both ends do wait for ever
  (`scanner.l:71`). `SessionCompletes` shows that this needs such a loss.

### Fairness

`Simulator` has weak fairness of each thread: the threads are pthreads of a preemptive
scheduler, and the mutex is only ever held for a finite time by the irq thread. Weak fairness of
the irq thread says nothing while the mutex is taken again and again, and the number of packets
is finite in every session. Reading a packet or a byte is the environment's choice and not fair.
`SF(Breakpoint)` is assumed only when `LoopsForever` is FALSE: it is an assumption about the
program, that `cont` reaches a breakpoint; `threads_loop` drops it. In `GdbLink` the scanner
reads what has arrived and the debugger goes on with its session; faults are bounded and not
fair.

## 4. What is proved

| theorem | states | for |
|---|---|---|
| `MemoryTypeCorrect`, `MemoryRefinement` | type; `Memory` implements `MemoryAbstract` | every byte width, every size of at least a word, all four pairs of endiannesses |
| `RegistersTypeCorrect`, `RegistersRefinement` | type; `Registers` implements `BankedRegisters` | every set of values |
| `SimulatorInvariant`, `SimulatorTypeCorrect`, `TraceIsRestored` | `IInv`, `TypeOK`, `TraceRestored` | any number of packets, exceptions, connections and values |
| `SimulatorAtomicity` | `Simulator` implements `AtomicProcessor` | the same |
| `ArmInvariant`, `ArmTypeCorrect` | `ArmInv`, `TypeOK` of `Arm` | every word width, memory size and byte order, every image and decoding, any number of instructions, exceptions and G packets |
| `ControlBitsStay` | `ControlBitsKept` | the same |
| `TransfersHaveEffect`, `MultiplesHaveEffect` | `TransferEffect`, `MultipleEffect` | the same: every transfer, all addresses, registers and lists |
| `AluInvariant`, `AluTypeCorrect` | `AluInv`, `TypeOK` of `ArmAlu` | every word width, all operands |
| `ConditionsOrder`, `DoubleWordRight`, `LogicIsBoolean`, `ShifterIsArithmetic` | `CompareOrders`, `DoubleWord`, `BooleanLaws`, `ShifterMatches` | the same |
| `SessionInvariant`, `SessionTypeCorrect` | `SessionInv`, `TypeOK` of `GdbSession` | every program and decoding, every plan, all byte orders, any number of packets and exceptions |
| `RegistersAreKnown`, `MemoryIsKnown`, `WritesHaveEffect` | `RegistersKnown`, `MemoryKnown`, `WriteEffect` | the same: every address, length and data of m and X |
| `DebugInvariant`, `TableStaysSorted`, `DebugCorrect` | the invariant of the table and the search, `TableSorted`, `DebugFound` of `DebugSpec` | every size of the table, any names and any calls |
| `LoggingUsesDebug`, `LoggingTableSorted`, `LoggingDebugFound` | `Logging` implements `DebugSpec`, hence `TableSorted` and `DebugFound` | every command line, whatever packets and exceptions come |
| `LogInvariant`, `LoggingTypeCorrect` | `LogInv`, `TypeOK` of `Logging` | every command line and program, any number of instructions, packets and exceptions, both orders of evaluation |
| `TraceExact`, `MarksAreRight`, `PositionsAreRight` | `LogExact`, `SequentialMark`, `PositionRight` | the same |
| `ReasonIsKept` | `ReasonKept` of `GdbSession` | the same |
| `ErrorBufferSafe` | `ErrorBufferBound` | every buffer of at least two characters |
| `LinkTypeCorrect`, `LinkInvariant` | `TypeOK` of `GdbLink`, `LinkInv` | any number of requests and faults, channels of any length |
| `RequestsExactlyOnce`, `AnswersAreOwn`, `NoWriteAfterKill` | `ExactlyOnce`, `OwnAnswers`, `NeverKilled` | the same, as long as only checksums are damaged and no packet is sent without need |

*Memory.* A word written as its host representation, reversed or not, has at each address the
byte that the target's order puts there. This rests on two lemmas about division: the quotient and
remainder of `q * B + r`, and the digits of a value of up to four digits. The type invariant is
inductive as it stands.

*Registers.* The lemma `Table` establishes from the entries of the table that two pairs (mode,
register) have the same physical register exactly when the modes share it; from there a write is a
write to a class of pairs.

*Simulator.* `TraceRestored` is not inductive: it says nothing of the states in which the lock is
held. `IInv` adds (a) `LockInv`, that each thread holds the lock exactly at the labels where its
code does, so that never two do; (b) `HandlerInv`, which packet can be at which label; (c)
`TraceInv`, the flag and the depth of the stack at each label; (d) `ProcessorInv`, what the owner
of the lock has so far made of the processor it found, `stable`. With (d) the refinement maps
`registers` to `stable`: unlocking is the abstract operation, every other step stutters, and
the answer to `g` equals `stable` at the moment it is sent. The proof has one step per action
and one per conjunct below it.

*Debug.* `DebugFound` speaks of the end of a search only. The invariant adds (a) `TableInv`: the
entries are sorted and were all requested, and a requested name is among them unless the table is
full and the name comes after all of it, or it was overrun; (b) `SearchInv`: while the search
goes on, every place that holds the name, and there may be several, lies between `from` and `to`.
An insertion is the one step that moves entries, and its lemma treats the places below, at and
above the new one separately; each turn of the bisection uses the order to rule out half of the
places. Every step of `Logging` is a step of `DebugSpec` or leaves its variables alone; the one
thing to show is that the options that are left are options of the command line, so that the
argument of `--debug` is a name.

*Logging.* What is in the trace depends on every access before, and the properties say nothing of
`last_address` or of the flag `enabled`. `LogInv` says that between packets tracing is enabled and
no location is left on the stack, and `Good`: the entries about the program pair up with the
accesses performed, in order and with their places (or no place, where C evaluates
`END_LOCATION` first), the marks are right, and `last_address` is that of the last memory entry.
`Good` is carried through an access, a call with calls in its arguments, a series of calls and an
instruction; the accesses of a packet, with tracing disabled, leave the whole record as it was.

*Arm.* `ControlBitsKept` does not follow from the types: what keeps an instruction from the bits
of the cpsr below the flags is that the register file never leaves System mode (whatever the
cpsr says, see `arm_banks`), of which they say nothing. `ArmInv` says it, with the types and with the contents,
0, of every physical register that System mode does not see. The two places that copy an spsr
into the cpsr are then out of reach: `handle_rd15` tests `arm_current_mode_has_spsr` first, and
ldm with the S bit and the pc, which does not, dereferences NULL. `ArmStepProofs` has
a lemma for each part of an instruction, from `set_bit` through the shifter, the sixteen
operations and their flags, the transfers and the loops of ldm and stm to `arm_step`: it leads
from a processor to a processor with the same control bits. The assumption `WellFormed` is about
`Decode`: that every word has fields, which in the code are bits of it, and that words hold
0x1d3, the cpsr of RESET.

*Transfers.* With `ArmInv`, what one instruction does can be computed from the processor before
the fetch. `PcAhead` says that the pc an instruction reads is two words ahead of it: reading the
pc clears bit 1, and the second time, after the fetch, nothing is lost any more. `ReadsLoaded` and
`WritesStored` relate `arm_read` and `arm_write` to the bytes in the order of the target, whatever
that of the host. A single transfer is then a write of a register or of a datum with a write of
the base before or after it, and the order matters when the registers coincide. For ldm and stm
the invariant of the loop is stated for the registers below the one it has come to: the address
is that of the word whose number is the count of registers seen (`Rank`), those words hold or
have given what they should, and everything else is as the fetch left it. That a later store does
not touch an earlier word is `PlacesApart`: at most sixteen words, in an address space of more
than sixteen, do not overlap even where addresses wrap. It was the proof that showed that both
properties as first written were wrong when the pc is the base, which the run had never had; they
are now stated for every register, and the run has the pc as base and offset.

*ArmAlu.* The properties are about the registers at the start and at the end of a program. `AluInv`
says that there is a path of processors between the two, one instruction apart. What each
instruction does to registers and flags is a lemma; the rest is arithmetic. The conditions follow
from N, Z, C and V of a subtraction as comparisons of signed and unsigned numbers, N and V
themselves as the sign and the overflow of the difference; a double word
sum is the carry of the lower words taken into the upper, reduced modulo M * M where M is the
modulus of a word; the logical operations are those of sets of bits; shifts are products and
quotients with powers of two, with ASR rounding down and ROR putting the remainder on top. The
proof of `ShifterMatches` showed that its exception had to be the low byte of the register, to which
`arm_data_processing.c:118` reduces it, and not the whole of it.

*GdbSession.* `SessionInv` adds to the properties the state of the processor from above and, for
`cont`, that the debugger holds nothing while it runs: otherwise a turn of its loop could make a
copy wrong. Each packet has a lemma. For registers it rests on `ValuesTravel` (the four bytes that
`write_uint32` takes from a host union are those the debugger puts together, in all four pairs of
endiannesses, and back) and `RegisterAssigned` (a write changes one register of those the
debugger can name); the sixteen writes of G are followed write by write. For X, `EscapedFound`
says where the characters of each byte are in what the debugger sends, `FlipTwice` that bit 5
flipped twice is as it was, and `DataWritten` gives the state of the loop of
`write_memory_binary` after any number of turns: memory, place in the packet, and whether it goes
on. `Room` says how far m and X reach. The session assumes that memory is smaller than the address
space, so that `address++` does not come round within it (the simulator has 128 KiB), and
that breakpoints are set inside memory. It was the proof that showed that the pc told by g is not
always the one that was written (section 3): the run had only had aligned ones, and has one now.

`ReasonKept` says nothing while `cont` runs, when the debugger still has an older
reason. `ReasonInv` adds that the exception `gdb_protocol.c` keeps is that of the last
instruction also then; what the instruction does is not needed.

*GdbLink.* For the buffer, `len < MAX_ERROR_SIZE` with `len \in Nat` is inductive. `ExactlyOnce`,
`OwnAnswers` and `NeverKilled` say nothing of the channels, on which everything depends.
`LinkInv` says what they hold as long as neither noise nor a needless packet has occurred
(`Clean`): while the debugger waits for an acknowledgement, either its packet is on the way behind
acknowledgements only (`InFlight`), or it was refused and the "-" is the last message to the
debugger (`Refused`), or it was executed and "+" and its answer are the last two (`Acked`), or it
was the kill and the "+" is the last thing ever written (`AckedKill`); in every other phase all
answers on the way are the stored one (`Settled`). An impatient "-" is thus answered either
with the stored answer or, before the packet, with an old one that the debugger does not take.

The assumptions are those of the constants, named in the modules that declare them and
evaluated by TLC in every run. The loops of the code are recursive functions in the models; what
they compute is proved by giving the state after each number of turns explicitly and by
induction, as a set of numbers, over those turns.

Only model-checked:

* all liveness (fairness is out of the prover's reach): `IrqDelivered`, `PacketAnswered`,
  `EndsWithDebugger`, `SessionCompletes`;
* the two programs (`Example1Ends`, `SaveRestore`), which are about one image each;
* `StopsAtBreakpoint`: it speaks of programs that do not write over their own instructions, which
  the plans of the run are and no assumption says.

## 5. What is not modelled

* In `gdb_protocol.c`, the text of the answers to q and H, on which no state depends, and the
  capacity of the answer buffer: an answer to m of 511 bytes or more does not fit in it.
* Formatting and printing: the two formats of the trace, the names of `arm_constants.c`, the
  wording of debug messages. What they tell is in `Trace`.
* The look-up of a name in `send_irq.c`, which ends in one byte to the irq port.
* The creation of the sockets and the port numbers in `arm_simulator.c`, before the threads start.
* `arm_init` of `arm.c`, an empty function.
* `csapp.c`, vendored: what matters of it, that a failing call ends the process, is in `Simulator`
  and `GdbLink`. A write to the debugger that blocks for ever, because it reads nothing, is left
  out: the packet then keeps the lock as a program in a loop does (`threads_loop`).
* Functions nothing calls: `arm_coprocessor_load_store`, `arm_data_processing_immediate_msr`.

## 6. Plan

Done, in this order: memory and registers with their abstractions; the instruction set; the
processor; the threads; the link; the handlers of the debugger on the whole processor; options,
debug messages and the trace.

Proved since: the control bits of `Arm`; registers, memory and X in `GdbSession`; the
exchange of `GdbLink`; the trace of `Logging`; the results of `ArmAlu`; single and multiple
transfers of `Arm`. Every safety property of the passing runs is now a theorem, but for the three
named in section 4.

What is left:

1. The capacity of the answer buffer of `gdb_protocol.c`, with a memory larger than it.
2. `Examples/example2.s` to `example4.s` as programs of the run `session`.
3. `StopsAtBreakpoint` for every program that stores nothing in its own text.
