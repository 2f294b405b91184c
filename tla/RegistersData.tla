--------------------------- MODULE RegistersData ---------------------------
(***************************************************************************)
(* registers.c: the register file.  37 physical registers are seen through *)
(* a table that gives, for each of 7 modes and each of 18 register numbers *)
(* (r0-r15, the cpsr as 16, the spsr as 17), the physical register meant.  *)
(*                                                                         *)
(* r is the struct: its mode and its registers.  Memory safety is the      *)
(* caller's: an operator here may only be used where Points(m, i).         *)
(***************************************************************************)
EXTENDS Integers

USR == 16
FIQ == 17
IRQ == 18
SVC == 19
ABT == 23
UND == 27
SYS == 31
Modes == {USR, FIQ, IRQ, SVC, ABT, UND, SYS}

CPSR == 16
SPSR == 17
VirtualRegs  == 0 .. 17
PhysicalRegs == 0 .. 36

NULL == -1

get_mode_num(mode) ==
    CASE mode = USR -> 0 [] mode = FIQ -> 1 [] mode = IRQ -> 2 [] mode = SVC -> 3
      [] mode = ABT -> 4 [] mode = UND -> 5
      [] mode \notin {USR, FIQ, IRQ, SVC, ABT, UND} -> 6

\* Variant: the System mode has a bank of its own.
virtual_regs_system ==
    [m \in 0 .. 6 |-> [i \in VirtualRegs |->
        CASE i \in 0 .. 7   -> i
          [] i \in 8 .. 12  -> IF m = 1 THEN i + 5 ELSE i
          [] i \in 13 .. 14 -> i + 5 + 2 * m
          [] i \in 15 .. 16 -> i + 5 + 5 * 2
          [] i = SPSR       -> IF m \in {0, 6} THEN NULL ELSE 17 + 5 + 5 * 2 + (m - 1)]]

\* The table that registers_create fills: row m is the mode of number m.
virtual_regs ==
    [m \in 0 .. 6 |-> [i \in VirtualRegs |->
        CASE i \in 0 .. 7   -> i
          [] i \in 8 .. 12  -> IF m = 1 THEN i + 5 ELSE i
          [] i \in 13 .. 14 -> IF m = 6 THEN i + 5 ELSE i + 5 + 2 * m
          [] i = 15         -> 15 + 5 + 5 * 2
          [] i = CPSR       -> 16 + 5 + 5 * 2
          [] i = SPSR       -> IF m \in {0, 6} THEN NULL
                                              ELSE 17 + 5 + 5 * 2 + (m - 1)]]

Points(m, i) == virtual_regs[m][i] # NULL

\* Variant: the mode is not set.
registers_create_unset == [mode |-> 0, registers |-> [i \in PhysicalRegs |-> 0]]

registers_create == [mode |-> SYS, registers |-> [i \in PhysicalRegs |-> 0]]

current_mode_has_spsr(r) == Points(get_mode_num(r.mode), SPSR)
in_a_privileged_mode(r)  == get_mode_num(r.mode) # 0

read_register(r, i)     == r.registers[virtual_regs[get_mode_num(r.mode)][i]]
read_usr_register(r, i) == r.registers[virtual_regs[0][i]]
read_cpsr(r)            == read_register(r, CPSR)
read_spsr(r)            == read_register(r, SPSR)

write_register(r, i, v) ==
    [r EXCEPT !.registers[virtual_regs[get_mode_num(r.mode)][i]] = v]
write_usr_register(r, i, v) == [r EXCEPT !.registers[virtual_regs[0][i]] = v]
\* Writing the cpsr does not touch r.mode, whatever mode its low bits name.
write_cpsr(r, v) == write_register(r, CPSR, v)
write_spsr(r, v) == write_register(r, SPSR, v)
=============================================================================
