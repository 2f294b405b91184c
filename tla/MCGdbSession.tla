---------------------------- MODULE MCGdbSession ----------------------------
(***************************************************************************)
(* GdbSession for TLC, with four kinds of debugger.                        *)
(***************************************************************************)
EXTENDS GdbSession, ArmPrograms

\* Word 139 is the breakpoint, 0xE7F000F0.
DecodeSession(w) ==
    IF w = 139 THEN [Blank EXCEPT !.op = 3, !.p = 1, !.u = 1, !.b = 1, !.w = 1, !.l = 1,
                                  !.b7 = 1, !.sh = 3, !.b4 = 1]
    ELSE IF w = 140 THEN [Blank EXCEPT !.op = 2, !.u = 1, !.l = 1, !.p = 1, !.rn = 1, !.rd = 2]
    ELSE IF w = 141 THEN Branch(14, 0, -4)
    ELSE DecodeProgram(w)

Idle(name, image, cycles) ==
    [name |-> name, image |-> image, cycles |-> cycles, breaks |-> {}, asks |-> FALSE,
     G |-> {}, P |-> {}, p |-> {}, m |-> {}, X |-> {}]

\* One stops example1.s where its loop passes.
Example1Plan == [Idle("example1", ImageExample1, 70) EXCEPT !.breaks = {16}]

\* One sets the registers, then runs stm, instructions that overwrite what was
\* saved, ldm and swi, in every mode, without write-back.
SaveImage(k) == Image(<<1 + k, 129, 130, 131, 65 + k, 132>>)
SavePlan(k) == [Idle("save", SaveImage(k), 10) EXCEPT !.G = {WithBase(44)}, !.breaks = {8}]
SavePlans == {SavePlan(k) : k \in {j \in 0 .. 31 : (j \div 4) % 2 = 0}}

\* A load that aborts when r1 is beyond the memory, an undefined instruction, and
\* a branch back.
InspectImage == Image(<<140, 0, 141>>)

\* One reads the registers, one by one or all together, and changes them.
RegisterPlan(p, P) == [Idle("registers", InspectImage, 3) EXCEPT
                          !.G = {WithBase(4660)}, !.P = P, !.p = p, !.breaks = {8}, !.asks = TRUE]

\* One reads and writes the memory, before, across and beyond its end; 13 is
\* the escape character and 3 stands for another one that has to be escaped.
MemoryPlan == [Idle("memory", InspectImage, 2) EXCEPT
                  !.m = {<<4, 2>>, <<62, 4>>, <<64, 2>>},
                  !.X = {<<61, <<13, 15>>>>, <<62, <<3, 13, 2>>>>, <<64, <<1>>>>, <<63, <<>>>>}]

\* 15 and 16 are taken for 0 and 10, and 25 ends the process.
SessionPlans ==
    {Example1Plan, MemoryPlan,
     RegisterPlan({9, 15, 16, 25}, {<<9, 4661>>, <<15, 66>>, <<25, 19>>})}
    \cup SavePlans

\* The debuggers that run programs set the registers first, and are followed
\* until they interfere.
RunsFirst == ~ plan.asks => /\ ~ disturbed
                            /\ arm.cycle_count > 0 /\ plan.G # {} => writes = 1

-----------------------------------------------------------------------------
(* example1.s runs to its swi, the only place that ends the simulation,    *)
(* and ends with the counter at 0, whatever exceptions the irq port raises *)
(* and wherever the debugger inserts and removes breakpoints on the way,   *)
(* as long as it steps over none: calls return, the loop is left in time,  *)
(* and an exception costs at most one more run of the 22 instructions.     *)
Example1Ends ==
    plan.name = "example1" /\ ~ disturbed =>
        /\ Running => arm.cycle_count < 22 * (1 + irqs)
        /\ ~ Running => result = EXIT /\ Reg(arm, 0) = 0

(* What stm saves, ldm with the same base and mode restores, whatever the  *)
(* mode and the list, when the registers were overwritten in between and   *)
(* the debugger stopped the program there.                                 *)
SaveRestore ==
    plan.name = "save" /\ writes = 1 /\ irqs = 0 /\ ~ disturbed /\ result = EXIT =>
        \A i \in {1} \cup RegisterList(DecodeProgram(memory_read_word(plan.image, 0))) :
            Reg(arm, i) = WithBase(44)[i]
=============================================================================
