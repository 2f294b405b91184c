------------------------------ MODULE ArmStep ------------------------------
(***************************************************************************)
(* arm_step: fetch, execute, raise.                                        *)
(***************************************************************************)
EXTENDS ArmInstruction

CONSTANT Decode(_)   \* the instruction a memory word encodes

\* Every word encodes an instruction, and is wide enough for the cpsr of RESET.
WellFormed == ResetCpsr \in Word /\ \A w \in Word : Decode(w) \in Instructions

\* The instruction that arm_fetch reads.
Fetched(p) == Decode(arm_read(p, FetchAddress(p), 4))

\* f is the processor after the fetch, ins what was fetched.
Execute(f, ins) ==
    CASE f.result # 0 -> f
      [] f.result = 0 /\ conditionPassed(f.p, ins.cond) -> Dispatch(f.p, ins)
      [] f.result = 0 /\ ~ conditionPassed(f.p, ins.cond) -> f
arm_execute_instruction(p) == Execute(arm_fetch(p), Fetched(p))

\* e is what arm_execute_instruction leaves.
Raise(e) == IF e.result # 0 THEN Ends(arm_exception(e.p, e.result), e.result) ELSE e
arm_step(p) == Raise(arm_execute_instruction(p))

\* What a register holds, without the adjustment of the pc.
Reg(p, i) == read_register(p.reg, i)
=============================================================================
