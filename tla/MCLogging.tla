----------------------------- MODULE MCLogging -----------------------------
(***************************************************************************)
(* Logging for TLC: command lines with every set of trace options, and     *)
(* with up to four files to debug in a table of three.                     *)
(***************************************************************************)
EXTENDS Logging

Given(opt, arg) == [opt |-> opt, arg |-> arg]
DebugLines == UNION {{[k \in 1 .. n |-> Given("d", f[k])] : f \in [1 .. n -> Names]} : n \in 0 .. 4}
TraceOptions == <<Given("r", ""), Given("m", ""), Given("s", ""), Given("p", "")>>
TraceLines == {SelectSeq(TraceOptions, LAMBDA o : o.opt \in S) : S \in SUBSET {"r", "m", "s", "p"}}
OtherLines == {<<Given("m", ""), Given("t", "file"), Given("p", ""), Given("t", "other")>>,
               <<Given("d", 1), Given("h", "")>>, <<Given("?", ""), Given("d", 1)>>}
Lines == DebugLines \cup TraceLines \cup OtherLines

\* A load or store of one word at address a; a branch, whose call to write the pc
\* has one to read it among its arguments; a swi that ends.
Transfer(type, a) ==
    [calls |-> <<Call(<<"arm_instruction", 33>>, TRUE, <<>>, <<Register("READ", CPSR, "none")>>),
                 Call(<<"arm_load_store", 208>>, TRUE, <<>>, <<Cell(type, a, "other")>>)>>,
     jump |-> FALSE, exits |-> FALSE]
Branching ==
    [calls |-> <<Call(<<"arm_branch_other", 37>>, FALSE,
                      <<Register("READ", PC, "SYS")>>, <<Register("WRITE", PC, "SYS")>>)>>,
     jump |-> TRUE, exits |-> FALSE]
Exiting == [calls |-> <<>>, jump |-> FALSE, exits |-> TRUE]
SomeBodies == {Transfer("READ", 4), Transfer("WRITE", 8), Branching, Exiting}
SomeRegisters == <<0, PC>>
=============================================================================
