--------------------------- MODULE ArmInstruction ---------------------------
(***************************************************************************)
(* arm_instruction.c and arm_branch_other.c: the condition field, the      *)
(* dispatch on the instruction class, branches, swi and mrs.               *)
(***************************************************************************)
EXTENDS ArmLoadStore

\* The condition cond with the flags n, z, c and v.
Condition(cond, n, z, c, v) ==
    CASE cond = 0  -> z           [] cond = 1  -> ~ z
      [] cond = 2  -> c           [] cond = 3  -> ~ c
      [] cond = 4  -> n           [] cond = 5  -> ~ n
      [] cond = 6  -> v           [] cond = 7  -> ~ v
      [] cond = 8  -> c /\ ~ z    [] cond = 9  -> ~ c \/ z
      [] cond = 10 -> v = n       [] cond = 11 -> v # n
      [] cond = 12 -> ~ z /\ v = n
      [] cond = 13 -> z \/ v # n
      [] cond = 14 -> TRUE        [] cond = 15 -> FALSE

conditionPassed(p, cond) ==
    LET flag(i) == get_bit(arm_read_cpsr(p), i) = 1
    IN  Condition(cond, flag(N), flag(Z), flag(C), flag(V))

\* Bits 23-0 sign-extended and multiplied by 4.
BranchOffset(ins) == ((IF ins.u = 1 THEN imm24(ins) - 2^24 ELSE imm24(ins)) * 4) % Modulus

\* Variant: the link register skips an instruction.
arm_branch_skips(p, ins) ==
    LET pc == arm_read_register(p, 15)
        q  == IF ins.p = 1 THEN arm_write_register(p, 14, pc) ELSE p
    IN  Ends(arm_write_register(q, 15, Plus(pc, BranchOffset(ins))), 0)

arm_branch(p, ins) ==
    LET pc == arm_read_register(p, 15)
        q  == IF ins.p = 1 THEN arm_write_register(p, 14, Minus(pc, 4)) ELSE p
    IN  Ends(arm_write_register(q, 15, Plus(pc, BranchOffset(ins))), 0)

ExitNumber == 1193046   \* 0x123456

arm_coprocessor_others_swi(p, ins) ==
    CASE ins.p = 1 /\ imm24(ins) = ExitNumber -> Ends(p, EXIT)
      [] ins.p = 1 /\ imm24(ins) # ExitNumber -> Ends(p, SOFTWARE_INTERRUPT)
      [] ins.p = 0 -> Ends(p, UNDEFINED_INSTRUCTION)

\* mrs; an msr, with bit 21 set, is executed as one too.
arm_miscellaneous(p, ins) ==
    CASE ins.b = 0 -> Ends(arm_write_register(p, ins.rd, arm_read_cpsr(p)), 0)
      [] ins.b = 1 /\ arm_current_mode_has_spsr(p) ->
           Ends(arm_write_register(p, ins.rd, arm_read_spsr(p)), 0)
      [] ins.b = 1 /\ ~ arm_current_mode_has_spsr(p) -> Ends(p, CRASH)

IsExtraLoadStore(ins) == ins.op = 0 /\ ins.b7 = 1 /\ ins.b4 = 1
IsMiscellaneous(ins) ==
    /\ ins.op = 0 /\ ~ IsExtraLoadStore(ins)
    /\ ins.p = 1 /\ ins.u = 0 /\ ins.l = 0 /\ ins.b4 = 0

\* The switch of arm_execute_instruction.
Dispatch(p, ins) ==
    CASE IsExtraLoadStore(ins) \/ ins.op \in {2, 3} -> arm_load_store(p, ins)
      [] IsMiscellaneous(ins) -> arm_miscellaneous(p, ins)
      [] ins.op \in {0, 1} /\ ~ IsExtraLoadStore(ins) /\ ~ IsMiscellaneous(ins) ->
           arm_data_processing_shift(p, ins)
      [] ins.op = 4 -> arm_load_store_multiple(p, ins)
      [] ins.op = 5 -> arm_branch(p, ins)
      [] ins.op = 6 -> Ends(p, UNDEFINED_INSTRUCTION)
      [] ins.op = 7 -> arm_coprocessor_others_swi(p, ins)
=============================================================================
