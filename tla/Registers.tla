----------------------------- MODULE Registers -----------------------------
(***************************************************************************)
(* The calls of registers.h as a state machine: a client changes the mode  *)
(* and reads and writes registers in any order.  registers_test.c is such  *)
(* a client; it sets r->mode itself, which nothing in registers.c does.    *)
(***************************************************************************)
EXTENDS RegistersData

CONSTANT Value   \* the values of a uint32_t

ASSUME ValueAssumption == {0, 1} \subseteq Value

VARIABLES r,        \* the struct registers_data
          asked,    \* the last call: what the client asked for
          got,      \* the last value returned
          crashed   \* a NULL entry of the table was dereferenced
fileVars == <<r, asked, got, crashed>>

FileInit == r = registers_create /\ asked = <<>> /\ got = 0 /\ crashed = FALSE

\* r->mode = get_mode_from_num(j)
SetMode(m) == /\ asked' = <<"mode", m>>
              /\ r' = [r EXCEPT !.mode = m]
              /\ UNCHANGED <<got, crashed>>

\* A read of w, or a write of w giving the struct s, through the row of mode m.
ReadThrough(m, i, w) ==
    /\ asked' = <<"read", m, i>>
    /\ IF Points(get_mode_num(m), i)
       THEN got' = w /\ UNCHANGED <<r, crashed>>
       ELSE crashed' = TRUE /\ UNCHANGED <<r, got>>
WriteThrough(m, i, w, s) ==
    /\ asked' = <<"write", m, i, w>>
    /\ IF Points(get_mode_num(m), i)
       THEN r' = s /\ UNCHANGED <<got, crashed>>
       ELSE crashed' = TRUE /\ UNCHANGED <<r, got>>

ReadRegister(i)        == ReadThrough(r.mode, i, read_register(r, i))
ReadUsrRegister(i)     == ReadThrough(USR, i, read_usr_register(r, i))
ReadCpsr               == ReadThrough(r.mode, CPSR, read_cpsr(r))
ReadSpsr               == ReadThrough(r.mode, SPSR, read_spsr(r))
WriteRegister(i, v)    == WriteThrough(r.mode, i, v, write_register(r, i, v))
WriteUsrRegister(i, v) == WriteThrough(USR, i, v, write_usr_register(r, i, v))
WriteCpsr(v)           == WriteThrough(r.mode, CPSR, v, write_cpsr(r, v))
WriteSpsr(v)           == WriteThrough(r.mode, SPSR, v, write_spsr(r, v))

Answer(question, b) == /\ asked' = <<question>>
                       /\ got' = IF b THEN 1 ELSE 0
                       /\ UNCHANGED <<r, crashed>>

FileNext ==
    /\ ~crashed
    /\ \/ \E m \in Modes : SetMode(m)
       \/ \E i \in VirtualRegs : ReadRegister(i) \/ ReadUsrRegister(i)
       \/ \E i \in VirtualRegs, v \in Value : WriteRegister(i, v) \/ WriteUsrRegister(i, v)
       \/ ReadCpsr \/ ReadSpsr
       \/ \E v \in Value : WriteCpsr(v) \/ WriteSpsr(v)
       \/ Answer("has_spsr", current_mode_has_spsr(r))
       \/ Answer("privileged", in_a_privileged_mode(r))

FileSpec == FileInit /\ [][FileNext]_fileVars

-----------------------------------------------------------------------------
(* The mode is one of the seven and every register holds a value.          *)
FileTypeOK == /\ r \in [mode : Modes, registers : [PhysicalRegs -> Value]]
              /\ got \in Value
              /\ crashed \in BOOLEAN

\* What each mode reads in each register the table gives it.
View == [m \in Modes |->
            [i \in {i \in VirtualRegs : Points(get_mode_num(m), i)} |->
                r.registers[virtual_regs[get_mode_num(m)][i]]]]

Banked == INSTANCE BankedRegisters WITH Word <- Value, mode <- r.mode, view <- View,
                                        call <- asked, value <- got, fault <- crashed

(* The table of registers_create shares and separates the registers of the *)
(* modes as the architecture says: a write in one mode is seen in exactly  *)
(* the modes that share the register, and only a missing spsr is NULL.     *)
ImplementsBanked == Banked!Spec
=============================================================================
