------------------------------ MODULE Logging ------------------------------
(***************************************************************************)
(* What the command line of arm_simulator.c turns on, debug messages and   *)
(* traces, and what is written while packets and exceptions come.  Every   *)
(* handler holds the lock, so that a packet, an exception or a turn of     *)
(* cont is a step (Simulator shows that they are atomic for each other).   *)
(*                                                                         *)
(* An instruction is the accesses it makes: the fetch, then one of Bodies. *)
(***************************************************************************)
EXTENDS Debug, Trace

CONSTANTS
    CommandLines,  \* sequences of options: [opt, arg]
    Messages,      \* the source files that have debug messages to print
    Bodies,        \* [calls, jump, exits]: what an instruction does after its fetch
    PcValues,      \* what the debugger writes into the pc
    MaxSteps,      \* bound: instructions
    MaxEvents      \* bound: packets that access registers, and exceptions

\* "" stands for the argument of an option that has none.
Options == [opt : {"d"}, arg : Names]
           \cup [opt : {"h", "t", "r", "m", "s", "p", "?"}, arg : STRING]

ASSUME LoggingAssumption ==
    /\ CommandLines \subseteq Seq(Options)
    /\ Messages \subseteq Names /\ PcValues \subseteq Nat
    /\ Bodies \subseteq [calls : Seq(Calls), jump : BOOLEAN, exits : BOOLEAN]
    /\ FirstAddress \in Int /\ DumpRegisters \in Seq(Nat)
    /\ MaxSteps \in Nat /\ MaxEvents \in Nat

VARIABLES
    argv,          \* the options that are left
    phase,         \* "options", "ready", "cont", "exit 0" or "exit 1"
    trace_file,    \* "stdout" or the file opened last
    trace,         \* the variables of trace.c
    pc, cycle_count,
    performed,     \* history: the accesses of the program and of exceptions
    events
vars == <<argv, phase, trace_file, trace, pc, cycle_count, performed, events,
          debugVars>>
processor == <<pc, cycle_count, performed, events>>

Init == /\ DebugInit
        /\ argv \in CommandLines /\ phase = "options"
        /\ trace_file = "stdout"
        /\ \E endFirst \in BOOLEAN : trace = trace_init(endFirst)
        /\ pc = 0 /\ cycle_count = -1 /\ performed = <<>> /\ events = 0

-----------------------------------------------------------------------------
(* main.  The ports of -g and -i only reach the sockets.                   *)
Option(opt) == /\ ~ overrun /\ phase = "options" /\ argv # <<>> /\ Head(argv).opt = opt
               /\ argv' = Tail(argv)
               /\ UNCHANGED <<processor>>

Help    == Option("h") /\ phase' = "exit 0" /\ UNCHANGED <<trace_file, trace, debugVars>>
Unknown == Option("?") /\ phase' = "exit 1" /\ UNCHANGED <<trace_file, trace, debugVars>>

\* fopen succeeds or not.
TraceFile == /\ Option("t")
             /\ \/ trace_file' = Head(argv).arg /\ phase' = phase
                \/ trace_file' = trace_file /\ phase' = "exit 1"
             /\ UNCHANGED <<trace, debugVars>>

TraceFlag(opt, flag) == /\ Option(opt)
                        /\ trace' = trace_add(trace, flag)
                        /\ UNCHANGED <<phase, trace_file, debugVars>>

DebugOption == /\ Option("d")
               /\ add_debug_to(Head(argv).arg)
               /\ UNCHANGED <<phase, trace_file, trace>>

\* arm_exception in arm_create and in the irq thread.
Reset == <<Call(<<"arm_exception", 37>>, FALSE, <<>>, <<Register("WRITE", CPSR, "none")>>),
           Call(<<"arm_exception", 38>>, FALSE, <<>>, <<Register("WRITE", PC, "USR")>>)>>

\* performed, and the accesses of calls after it, each with where it was called.
Note(P, cycle, at, sum, accesses) ==
    ForEach(LAMBDA Q, access :
                Append(Q, [access |-> access, cycle |-> cycle, at |-> at, sum |-> sum]),
            P, accesses)
NoteAll(P, cycle, calls) ==
    ForEach(LAMBDA Q, c : Note(Note(Q, cycle, c.at, TRUE, c.inner), cycle, c.at, c.sum, c.accesses),
            P, calls)

\* cycle_count is read before arm_create has set it: any number is printed.
Garbage == -1
Start == /\ ~ overrun /\ phase = "options" /\ argv = <<>>
         /\ phase' = "ready"
         /\ trace' = PerformAll(set_trace_file(trace, trace_file), Garbage, Reset)
         /\ performed' = NoteAll(performed, Garbage, Reset)
         /\ pc' = 0 /\ cycle_count' = 0
         /\ UNCHANGED <<argv, trace_file, events, debugVars>>

-----------------------------------------------------------------------------
(* The gdb thread and the irq thread.                                      *)
Quiet == search.at = "idle" /\ UNCHANGED <<argv, trace_file, debugVars>>

\* Variant: the registers are accessed before tracing is disabled.
UntracedLate(t, calls) == trace_enable(trace_disable(PerformAll(t, cycle_count, calls)))

\* g, G, p and P between trace_disable and trace_enable.
Untraced(t, calls) == trace_enable(PerformAll(trace_disable(t), cycle_count, calls))

\* p and P access one register, the pc here, g and G also the cpsr.
Inspection ==
    <<Call(<<"gdb_protocol", 221>>, TRUE, <<>>, <<Register("READ", PC, "SYS")>>),
      Call(<<"gdb_protocol", 235>>, TRUE, <<>>, <<Register("READ", CPSR, "none")>>)>>
Change ==
    <<Call(<<"gdb_protocol", 297>>, FALSE, <<>>, <<Register("WRITE", PC, "SYS")>>),
      Call(<<"gdb_protocol", 322>>, FALSE, <<>>, <<Register("WRITE", CPSR, "none")>>)>>

ReadRegisters == /\ Quiet /\ phase = "ready" /\ events < MaxEvents
                 /\ \E n \in 1 .. 2 : trace' = Untraced(trace, SubSeq(Inspection, 1, n))
                 /\ events' = events + 1
                 /\ UNCHANGED <<phase, pc, cycle_count, performed>>
WriteRegisters == /\ Quiet /\ phase = "ready" /\ events < MaxEvents
                  /\ \E n \in 1 .. 2 : trace' = Untraced(trace, SubSeq(Change, 1, n))
                  /\ pc' \in PcValues
                  /\ events' = events + 1
                  /\ UNCHANGED <<phase, cycle_count, performed>>

\* debug(...) in a handler.
Debugging == /\ phase = "ready"
             /\ \E file \in Messages : is_debugged(file)
             /\ UNCHANGED <<argv, phase, trace_file, trace, processor>>
Look == /\ Searching
        /\ UNCHANGED <<argv, phase, trace_file, trace, processor>>

\* The pc is read and written in arm_fetch without macros.
Fetch == Call(<<"arm_instruction", 74>>, TRUE, <<>>,
              <<Register("READ", PC, "SYS"), Cell("READ", pc, "fetch"),
                Register("WRITE", PC, "SYS")>>)

\* arm_step and trace_arm_state, which an instruction that exits does not reach.
Step(t, body) ==
    LET calls == <<Fetch>> \o body.calls
        done  == PerformAll(t, cycle_count + 1, calls)
    IN  /\ cycle_count < MaxSteps
        /\ cycle_count' = cycle_count + 1
        /\ pc' = IF body.jump THEN 0 ELSE pc + 4
        /\ performed' = NoteAll(performed, cycle_count + 1, calls)
        /\ \/ body.exits /\ trace' = done /\ phase' = "exit 0"
           \/ ~ body.exits /\ trace' = trace_arm_state(done, cycle_count + 1) /\ phase' = phase
        /\ UNCHANGED events

SingleStep == /\ Quiet /\ phase = "ready"
              /\ \E body \in Bodies : Step(trace, body)

\* Each turn of cont looks at the next instruction with tracing disabled.
LookAhead == <<Call(<<"gdb_protocol", 169>>, TRUE, <<>>, <<Register("READ", PC, "SYS")>>),
               Call(<<"gdb_protocol", 170>>, TRUE, <<>>, <<Cell("READ", pc, "other")>>)>>
Continue == /\ Quiet /\ phase = "ready"
            /\ phase' = "cont"
            /\ UNCHANGED <<trace, processor>>
ContStep == /\ Quiet /\ phase = "cont"
            /\ \E body \in Bodies : Step(Untraced(trace, LookAhead), body)
ContStop == /\ Quiet /\ phase = "cont"
            /\ phase' = "ready"
            /\ trace' = Untraced(trace, LookAhead)
            /\ UNCHANGED processor

\* RESET; the other exceptions access nothing.
Exception == /\ Quiet /\ phase = "ready" /\ events < MaxEvents
             /\ trace' = PerformAll(trace, cycle_count, Reset)
             /\ performed' = NoteAll(performed, cycle_count, Reset)
             /\ pc' = 0 /\ events' = events + 1
             /\ UNCHANGED <<phase, cycle_count>>

\* The process has ended, does what nobody knows, or has reached a bound.
Ended == /\ overrun \/ phase \in {"exit 0", "exit 1"} \/ cycle_count = MaxSteps
         /\ UNCHANGED vars

Next == \/ Help \/ Unknown \/ TraceFile \/ DebugOption \/ Start
        \/ TraceFlag("r", "REGISTERS") \/ TraceFlag("m", "MEMORY")
        \/ TraceFlag("s", "STATE") \/ TraceFlag("p", "POSITION")
        \/ ReadRegisters \/ WriteRegisters \/ Debugging \/ Look
        \/ SingleStep \/ Continue \/ ContStep \/ ContStop \/ Exception
        \/ Ended

Spec == Init /\ [][Next]_vars

-----------------------------------------------------------------------------
(* The table, the variables of trace.c and main's keep their types.        *)
TypeOK ==
    /\ DebugTypeOK
    /\ phase \in {"options", "ready", "cont", "exit 0", "exit 1"}
    /\ trace.enabled \in BOOLEAN /\ trace.flags \subseteq Flags
    /\ trace.file \in {"none", trace_file} /\ trace.last_address \in Int
    /\ pc \in Nat /\ cycle_count \in -1 .. MaxSteps /\ events \in 0 .. MaxEvents

\* The entries that the program's accesses should have left, and those that are
\* there.  With --trace-state the dump's own reads of registers are between them.
Wanted(flags) == {kind \in {"memory", "register"} :
                     IF kind = "memory" THEN "MEMORY" \in flags
                     ELSE "REGISTERS" \in flags /\ "STATE" \notin flags}
OfKind(s, kinds) ==
    ForEach(LAMBDA u, e : IF e.access.kind \in kinds THEN Append(u, e) ELSE u, <<>>, s)
Program == OfKind(performed, Wanted(trace.flags))
Log     == OfKind(trace.output, Wanted(trace.flags))

(* Every access of the program and of exceptions is in the trace file once, *)
(* in order, under the cycle of its instruction, and nothing else is,       *)
(* whatever the debugger reads, writes and looks at in between.             *)
LogExact ==
    /\ Len(Log) = Len(Program)
    /\ \A k \in 1 .. Len(Log) :
           /\ Log[k].access = Program[k].access /\ Log[k].cycle = Program[k].cycle
           /\ Log[k].file = trace_file

(* An access is marked sequential when it is four bytes after the previous *)
(* one in the trace, the look-ahead of cont and the debugger's own reads   *)
(* notwithstanding.                                                        *)
SequentialMark ==
    LET cells == OfKind(trace.output, {"memory"})
    IN  \A k \in 1 .. Len(cells) :
            cells[k].seq <=> cells[k].access.place = 4 + (IF k = 1 THEN FirstAddress
                                                        ELSE cells[k - 1].access.place)

(* With --trace-position no entry about the program shows a place other    *)
(* than that of its call, also when the call has another one among its     *)
(* arguments; and it shows that place whenever the location ends after the *)
(* access: always in the macros of register writes (a comma), in the other *)
(* macros (a sum) when the build evaluates the call before END_LOCATION.   *)
(* No location is left behind.                                             *)
PositionRight ==
    /\ trace.stack = <<>>
    /\ "POSITION" \in trace.flags =>
           \A k \in 1 .. Len(Log) :
               /\ Log[k].at \in {Program[k].at, Nowhere}
               /\ ~ Program[k].sum \/ ~ trace.endFirst => Log[k].at = Program[k].at

(* The usage text of arm_simulator.c: --trace-position outputs the file    *)
(* and the line "for each traced access", in every build.                  *)
PositionTold ==
    "POSITION" \in trace.flags =>
        \A k \in 1 .. Len(trace.output) :
            trace.output[k].access.kind \in {"memory", "register"} =>
                trace.output[k].at # Nowhere
=============================================================================
