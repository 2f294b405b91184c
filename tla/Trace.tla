------------------------------- MODULE Trace -------------------------------
(***************************************************************************)
(* trace.c and trace_location.h: what the options --trace-... have written *)
(* about each access to the processor.  The static variables of trace.c    *)
(* are a record, and its functions are functions on it.  An entry is what  *)
(* one fprintf tells, in one of the two formats; values are left out.      *)
(***************************************************************************)
EXTENDS Integers, Sequences, SequencesExt

CONSTANTS
    FirstAddress,   \* 0x12345678, the "randomly" chosen last_address
    DumpRegisters   \* the registers, in order, that arm_print_state writes: 0-15

\* A loop over a sequence, as a function of the number of turns.
ForEach(F(_, _), s, seq) ==
    LET after[k \in 0 .. Len(seq)] == IF k = 0 THEN s ELSE F(after[k - 1], seq[k])
    IN  after[Len(seq)]

Flags == {"MEMORY", "REGISTERS", "STATE", "POSITION"}
PC   == 15
CPSR == 16
Nowhere == <<"no file", 0>>

\* endFirst is not a variable of the code: whether the build evaluates the right
\* operand of f(...)+END_LOCATION first, which C leaves open.
trace_init(endFirst) ==
    [enabled |-> TRUE, flags |-> {}, stack |-> <<>>, last_address |-> FirstAddress,
     file |-> "none", output |-> <<>>, endFirst |-> endFirst]
set_trace_file(t, f) == [t EXCEPT !.file = f]

trace_add(t, flag) == [t EXCEPT !.flags = @ \cup {flag}]
trace_disable(t) == [t EXCEPT !.enabled = FALSE]
trace_enable(t)  == [t EXCEPT !.enabled = TRUE]

\* Variant: a location is pushed even when tracing is disabled.
trace_start_location_always(t, at) == [t EXCEPT !.stack = Append(@, at)]

trace_start_location(t, at) == IF t.enabled THEN [t EXCEPT !.stack = Append(@, at)] ELSE t
trace_end_location(t) == IF t.enabled THEN [t EXCEPT !.stack = Front(@)] ELSE t

trace_print_location(t) ==
    IF "POSITION" \in t.flags /\ t.stack # <<>> THEN Last(t.stack) ELSE Nowhere

\* An access is a record: the kind ("memory" or "register"), the type (READ or
\* WRITE), the address or register, and the cause (OPCODE_FETCH or not) or mode.
Fprintf(t, cycle, access, at, seq) ==
    [t EXCEPT !.output = Append(@, [access |-> access, cycle |-> cycle, at |-> at,
                                    seq |-> seq, file |-> t.file])]

\* Variant: only the address of a fetch is remembered.
trace_memory_fetched(t, cycle, access) ==
    IF t.enabled /\ "MEMORY" \in t.flags
    THEN [Fprintf(t, cycle, access, trace_print_location(t), access.place = t.last_address + 4)
             EXCEPT !.last_address = IF access.of = "fetch" THEN access.place ELSE @]
    ELSE t

trace_memory(t, cycle, access) ==
    IF t.enabled /\ "MEMORY" \in t.flags
    THEN [Fprintf(t, cycle, access, trace_print_location(t), access.place = t.last_address + 4)
             EXCEPT !.last_address = access.place]
    ELSE t

trace_register(t, cycle, access) ==
    IF t.enabled /\ "REGISTERS" \in t.flags
    THEN Fprintf(t, cycle, access, trace_print_location(t), FALSE)
    ELSE t

\* arm_core.c calls one of them after each access, a failed one too.
Traced(t, cycle, access) == IF access.kind = "memory" THEN trace_memory(t, cycle, access)
                                                      ELSE trace_register(t, cycle, access)

-----------------------------------------------------------------------------
\* The modes that have a name, in the order of their numbers.
NamedModes == <<"USR", "FIQ", "IRQ", "SVC", "ABT", "UND", "SYS">>

Register(type, reg, mode) == [kind |-> "register", type |-> type, place |-> reg, of |-> mode]
Cell(type, address, cause) == [kind |-> "memory", type |-> type, place |-> address, of |-> cause]

\* Under the name of every mode but USR it reads the registers of the current
\* one, which is SYS.  Each read is itself traced, before its value is printed.
Dumped ==
    LET R == Len(DumpRegisters)
    IN  [k \in 1 .. Len(NamedModes) * R + 1 |->
            IF k <= R THEN Register("READ", DumpRegisters[k], "USR")
            ELSE IF k = R + 1 THEN Register("READ", CPSR, "none")
            ELSE Register("READ", DumpRegisters[1 + ((k - R - 2) % R)], "SYS")]
DumpRead(t, cycle, read) ==
    Fprintf(Traced(t, cycle, read), cycle, [read EXCEPT !.kind = "state"], Nowhere, FALSE)
arm_print_state(t, cycle) == ForEach(LAMBDA s, read : DumpRead(s, cycle, read), t, Dumped)
trace_arm_state(t, cycle) == IF t.enabled /\ "STATE" \in t.flags THEN arm_print_state(t, cycle)
                                                                 ELSE t

-----------------------------------------------------------------------------
(* A call through a macro of trace_location.h: its location, whether      *)
(* END_LOCATION is added to its result or follows it, what the read among  *)
(* its arguments accesses, on the same line (only a write has one), and    *)
(* what it accesses itself.                                                *)
Call(at, sum, inner, accesses) ==
    [at |-> at, sum |-> sum, inner |-> inner, accesses |-> accesses]

Places == {"arm_exception", "arm_instruction", "arm_branch_other", "arm_data_processing",
           "arm_load_store", "gdb_protocol", "no file"} \X Nat
ProgramAccesses ==
    [kind : {"memory", "register"}, type : {"READ", "WRITE"}, place : Int,
     of : {"fetch", "other", "none"} \cup {NamedModes[k] : k \in 1 .. Len(NamedModes)}]
Calls == {c \in [at : Places, sum : BOOLEAN, inner : Seq(ProgramAccesses),
                 accesses : Seq(ProgramAccesses)] : c.sum => c.inner = <<>>}

Accesses(t, cycle, accesses) ==
    ForEach(LAMBDA s, access : Traced(s, cycle, access), t, accesses)
PerformAlone(t, cycle, at, sum, accesses) ==
    LET s == trace_start_location(t, at)
    IN  IF sum /\ t.endFirst THEN Accesses(trace_end_location(s), cycle, accesses)
                             ELSE trace_end_location(Accesses(s, cycle, accesses))
Perform(t, cycle, call) ==
    IF call.inner = <<>> THEN PerformAlone(t, cycle, call.at, call.sum, call.accesses)
    ELSE LET s == PerformAlone(trace_start_location(t, call.at), cycle, call.at, TRUE, call.inner)
         IN  trace_end_location(Accesses(s, cycle, call.accesses))
PerformAll(t, cycle, calls) == ForEach(LAMBDA s, c : Perform(s, cycle, c), t, calls)
=============================================================================
