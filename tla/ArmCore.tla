------------------------------ MODULE ArmCore ------------------------------
(***************************************************************************)
(* arm_core.c and arm_exception.c: the processor is its register file and  *)
(* the memory it was created on.  Operators take a processor p and return  *)
(* the processor after the call.                                           *)
(***************************************************************************)
EXTENDS MemoryData, RegistersData

RESET                 == 1
UNDEFINED_INSTRUCTION == 2
SOFTWARE_INTERRUPT    == 3
PREFETCH_ABORT        == 4
DATA_ABORT            == 5
INTERRUPT             == 6
FAST_INTERRUPT        == 7
Exceptions == RESET .. FAST_INTERRUPT

\* What a handler returns: the processor and a result, 0 on success.  EXIT and
\* CRASH stand for the end of the process, by exit(0) and by following NULL.
EXIT  == 100
CRASH == 101
Ends(p, res) == [p |-> p, result |-> res]

\* Where the condition flags are in the cpsr.
N == WordBits - 1
Z == WordBits - 2
C == WordBits - 3
V == WordBits - 4

albit(x, i, b) == IF b THEN set_bit(x, i) ELSE clr_bit(x, i)

\* The pc was incremented by the fetch, and one more instruction is added on
\* every read; 0xFFFFFFFD clears bit 1 and leaves bit 0.
PcRead(v) == clr_bit(Plus(v, 4), 1)

arm_read_register(p, i) ==
    IF i = 15 THEN PcRead(read_register(p.reg, i)) ELSE read_register(p.reg, i)
arm_read_usr_register(p, i) ==
    IF i = 15 THEN PcRead(read_usr_register(p.reg, i)) ELSE read_usr_register(p.reg, i)
arm_read_cpsr(p) == read_cpsr(p.reg)
arm_read_spsr(p) == read_spsr(p.reg)
arm_current_mode_has_spsr(p) == current_mode_has_spsr(p.reg)

arm_write_register(p, i, v)     == [p EXCEPT !.reg = write_register(p.reg, i, v)]
arm_write_usr_register(p, i, v) == [p EXCEPT !.reg = write_usr_register(p.reg, i, v)]
arm_write_cpsr(p, v)            == [p EXCEPT !.reg = write_cpsr(p.reg, v)]

arm_read(p, a, n) == CASE n = 1 -> memory_read_byte(p.mem, a)
                       [] n = 2 -> memory_read_half(p.mem, a)
                       [] n = 4 -> memory_read_word(p.mem, a)
arm_write(p, a, n, v) ==
    [p EXCEPT !.mem = CASE n = 1 -> memory_write_byte(p.mem, a, v)
                        [] n = 2 -> memory_write_half(p.mem, a, v)
                        [] n = 4 -> memory_write_word(p.mem, a, v)]

ResetCpsr == 467   \* 0x1d3: Supervisor mode, both interrupts disabled

\* Every exception but RESET is ignored.
arm_exception(p, e) ==
    IF e = RESET THEN arm_write_usr_register(arm_write_cpsr(p, ResetCpsr), 15, 0)
                 ELSE p

arm_create(m) ==
    arm_exception([cycle_count |-> 0, reg |-> registers_create, mem |-> m], RESET)

\* The address fetched from, and the pc it leaves even when the read fails.
FetchAddress(p) == Minus(arm_read_register(p, 15), 4)
arm_fetch(p) ==
    Ends(arm_write_register([p EXCEPT !.cycle_count = Plus(p.cycle_count, 1)], 15,
                            Plus(FetchAddress(p), 4)),
         IF Accessible(FetchAddress(p), 4) THEN 0 ELSE -1)
=============================================================================
