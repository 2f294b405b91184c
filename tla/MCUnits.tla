------------------------------ MODULE MCUnits ------------------------------
(***************************************************************************)
(* memory.c, registers.c and arm_data_processing.c, each by itself.  They  *)
(* share no state: unit is the one that is used, the others stay as they   *)
(* are, so that the states of the run are the sum of the units' states.    *)
(***************************************************************************)
EXTENDS MCAlu, Memory, Registers, FiniteSets

CONSTANT MaxSet   \* bound: registers that differ from 0

VARIABLE unit
unitVars == <<unit, memoryVars, fileVars, vars>>

\* What a unit that is not used holds: one of its initial states.
MemoryAtRest == memory = [i \in 0 .. Size - 1 |-> 0] /\ call = <<>> /\ ret = 0 /\ value = 0
AluAtRest == /\ code = Addition /\ next = 1
             /\ start = Processor([i \in 0 .. 3 |-> 0], 0) /\ arm = start

UnitsInit == /\ FileInit
             /\ \/ unit = "memory" /\ memory_create /\ AluAtRest
                \/ unit = "registers" /\ MemoryAtRest /\ AluAtRest
                \/ unit = "alu" /\ MemoryAtRest /\ Init

\* A process that dereferenced NULL does nothing more.
UnitsNext == \/ unit = "memory" /\ MemoryNext /\ UNCHANGED <<unit, fileVars, vars>>
             \/ unit = "registers" /\ FileNext /\ UNCHANGED <<unit, memoryVars, vars>>
             \/ crashed /\ UNCHANGED unitVars
             \/ unit = "alu" /\ Next /\ UNCHANGED <<unit, memoryVars, fileVars>>

UnitsSpec == UnitsInit /\ [][UnitsNext]_unitVars

\* No call of memory.h or registers.h depends on the one before it: the states
\* that differ in call or asked only are explored once, and every step is still
\* checked with its call.
Observed == <<unit, memory, ret, value, r, got, crashed, vars>>

\* From states with at most MaxSet registers that differ from 0.  The steps that
\* set one more are checked, not continued: a write that shows in a second
\* register, or spoils it, is one such step.
FewSet == Cardinality({i \in PhysicalRegs : r.registers[i] # 0}) <= MaxSet
=============================================================================
