-------------------------------- MODULE Arm --------------------------------
(***************************************************************************)
(* The simulated processor as its clients drive it: gdb steps it and       *)
(* writes its registers, the irq port raises exceptions.  Every operation  *)
(* is atomic: each client holds the simulator's lock around it.            *)
(***************************************************************************)
EXTENDS ArmStep, FiniteSets

CONSTANTS
    Images,          \* the memories a debugger may have loaded
    RegisterImages,  \* what it may write with a G packet: r0-r15 and the cpsr
    MaxWrites,       \* bound: G packets
    MaxIrqs,         \* bound: connections to the irq port
    MaxCycles        \* bound: instructions

ASSUME ArmAssumption == /\ WellFormed
                        /\ Images \subseteq Contents
                        /\ RegisterImages \subseteq [0 .. 16 -> Word]
                        /\ MaxWrites \in Nat /\ MaxIrqs \in Nat
                        /\ MaxCycles \in Word

VARIABLES arm,      \* the processor
          result,   \* what the last arm_step returned
          writes, irqs
vars == <<arm, result, writes, irqs>>

Init == /\ \E m \in Images : arm = arm_create(m)
        /\ result = 0 /\ writes = 0 /\ irqs = 0

-----------------------------------------------------------------------------
Running == result \notin {EXIT, CRASH}

Step == /\ Running /\ arm.cycle_count < MaxCycles
        /\ \E s \in {arm_step(arm)} : arm' = s.p /\ result' = s.result
        /\ UNCHANGED <<writes, irqs>>

Exception(e) == /\ Running /\ irqs < MaxIrqs
                /\ arm' = arm_exception(arm, e)
                /\ irqs' = irqs + 1
                /\ UNCHANGED <<result, writes>>

\* The registers in the order the packet gives them, then the cpsr.
WriteRegisters(f) ==
    /\ Running /\ writes < MaxWrites
    /\ arm' = arm_write_cpsr(
                  Ascending(LAMBDA i, p : arm_write_register(p, i, f[i]), arm, 0 .. 15), f[16])
    /\ writes' = writes + 1
    /\ UNCHANGED <<result, irqs>>

\* The process has ended, or the bound is reached.
Stopped == (~ Running \/ arm.cycle_count = MaxCycles) /\ UNCHANGED vars

Next == \/ Step
        \/ \E e \in Exceptions : Exception(e)
        \/ \E f \in RegisterImages : WriteRegisters(f)
        \/ Stopped

Spec == Init /\ [][Next]_vars

-----------------------------------------------------------------------------
(* The registers, the memory and the results keep their types.             *)
TypeOK == /\ arm.cycle_count \in Word
          /\ arm.reg \in [mode : Modes, registers : [PhysicalRegs -> Word]]
          /\ arm.mem \in Contents
          /\ result \in {-1, 0, EXIT, CRASH} \cup Exceptions
          /\ writes \in 0 .. MaxWrites /\ irqs \in 0 .. MaxIrqs

\* An instruction has been executed: arm_fetch counts it.
Stepped == arm'.cycle_count # arm.cycle_count

ControlBits(p) == arm_read_cpsr(p) % Exp2[V]

(* An instruction changes at most the condition flags of the cpsr: mode    *)
(* and interrupt bits only change by RESET or from the debugger, whatever  *)
(* mixture of flag-setting instructions and s-suffixed writes to the pc is *)
(* executed (albit, handle_rd15, ldm).                                     *)
ControlBitsKept == [][Stepped => ControlBits(arm') = ControlBits(arm)]_vars

\* The mode in the low bits of the cpsr, and the registers that the table of
\* registers_create gives to mode m.
CpsrMode(p)    == arm_read_cpsr(p) % 32
RegistersOf(m) == {virtual_regs[get_mode_num(m)][i] : i \in VirtualRegs}

(* README says of arm_core that it "provides access to proper registers    *)
(* and memory depending on cpsr content": an instruction that runs while   *)
(* the cpsr names a mode changes registers of that mode only, whoever      *)
(* wrote the cpsr before it (RESET, a G packet).                           *)
ProperRegisters ==
    [][Stepped /\ CpsrMode(arm) \in Modes =>
         \A k \in PhysicalRegs \ RegistersOf(CpsrMode(arm)) :
             arm'.reg.registers[k] = arm.reg.registers[k]]_vars

\* The instruction about to be executed is there, and its condition holds.
Ready == /\ Running
         /\ Accessible(FetchAddress(arm), 4)
         /\ conditionPassed(arm, Fetched(arm).cond)

\* The registers as the fetch leaves them, and as an instruction reads them:
\* the pc is then two instructions ahead of the one executed.
After(p, k) == IF k = 15 THEN Plus(FetchAddress(p), 4) ELSE Reg(p, k)
Seen(p, k)  == IF k = 15 THEN Plus(FetchAddress(p), 8) ELSE Reg(p, k)

\* A datum of n bytes as the target orders them.
Loaded(mem, a, n) ==
    LET byte(k) == mem[a + (IF TargetBigEndian THEN n - 1 - k ELSE k)]
    IN  CASE n = 1 -> byte(0)
          [] n = 2 -> byte(1) * Base + byte(0)
          [] n = 4 -> ((byte(3) * Base + byte(2)) * Base + byte(1)) * Base + byte(0)

\* A word loaded into register k: the low bits of a new pc are cleared.
NewValue(k, word) == IF k = 15 THEN word - (word % 4) ELSE word

\* The offset, with the form of a half's and the shift of a register as the code
\* decodes them: what is judged is what the transfer does with the offset.
Distance(p, i) == CASE i.op = 2 -> imm12(i)
                    [] i.op = 3 -> decode_off(arm_fetch(p).p, i)
                    [] i.op = 0 /\ i.b = 0 -> i.rs * 16 + i.rm
                    [] i.op = 0 /\ i.b = 1 -> Seen(p, i.rm)

\* The processor q and the result r are what the single transfer i makes of p.
Transferred(p, i, q, r) ==
    LET size  == IF i.op = 0 THEN 2 ELSE IF i.b = 1 THEN 1 ELSE 4
        base  == Seen(p, i.rn)
        off   == Distance(p, i)
        moved == (IF i.u = 1 THEN base + off ELSE base - off) % Modulus
        a     == IF i.p = 1 THEN moved ELSE base
        done  == a + size <= Size
        datum == Loaded(p.mem, a, size)
    IN  /\ r = IF done THEN 0 ELSE DATA_ABORT
        /\ \A k \in 0 .. 16 : Reg(q, k) =
             IF k = i.rd /\ i.l = 1 /\ done
             THEN IF size = 4 THEN NewValue(k, datum) ELSE datum
             ELSE IF k = i.rn /\ (i.p = 0 \/ i.w = 1) THEN moved ELSE After(p, k)
        /\ i.l = 0 /\ done => Loaded(q.mem, a, size) = Truncate(Seen(p, i.rd), size)
        /\ \A k \in 0 .. Size - 1 :
             i.l = 1 \/ ~ done \/ k \notin a .. a + size - 1 => q.mem[k] = p.mem[k]

(* A single transfer of a word, a half or a byte does what its address     *)
(* says: with base and offset off it accesses base, base + off or base -   *)
(* off, aborts exactly when the datum does not fit there, updates the base *)
(* even then ("base updated abort model"), moves the datum as the target   *)
(* orders its bytes, whichever registers coincide and also when one is the *)
(* pc, and otherwise changes nothing, flags included.  An aborted one      *)
(* leaves destination and memory as they were.                             *)
TransferEffect ==
    [][Stepped /\ Ready /\ (Fetched(arm).op \in {2, 3} \/ IsExtraLoadStore(Fetched(arm)))
         => Transferred(arm, Fetched(arm), arm', result')]_vars

\* Words of a multiple transfer are numbered in the order of the registers, in
\* the direction of the transfer; Place(p, i, d) is the address of number d.
Place(p, i, d) ==
    (IF i.u = 1 THEN Seen(p, i.rn) + 4 * (i.p + d) ELSE Seen(p, i.rn) - 4 * (i.p + d)) % Modulus
Rank(i, k) == Cardinality({j \in RegisterList(i) : j < k})

\* q and r are what the multiple transfer i makes of p.
TransferredAll(p, i, q, r) ==
    LET list    == RegisterList(i)
        n       == Rank(i, 16)
        base    == Seen(p, i.rn)
        Fits(d) == Place(p, i, d) + 4 <= Size
        Touched == UNION {Place(p, i, d) .. Place(p, i, d) + 3 : d \in 0 .. n - 1}
    IN  /\ r = IF \A d \in 0 .. n - 1 : Fits(d) THEN 0 ELSE DATA_ABORT
        /\ i.w = 1 => Reg(q, i.rn)
                        = (IF i.u = 1 THEN base + 4 * n ELSE base - 4 * n) % Modulus
        /\ \A k \in (0 .. 16) \ (IF i.w = 1 THEN {i.rn} ELSE {}) :
             /\ i.l = 0 \/ k \notin list => Reg(q, k) = After(p, k)
             /\ i.l = 1 /\ k \in list /\ Fits(Rank(i, k)) =>
                  Reg(q, k) = NewValue(k, Loaded(p.mem, Place(p, i, Rank(i, k)), 4))
        /\ \A k \in list :
             i.l = 0 /\ Fits(Rank(i, k)) =>
               Loaded(q.mem, Place(p, i, Rank(i, k)), 4) = Seen(p, k)
        /\ \A k \in 0 .. Size - 1 :
             i.l = 1 \/ k \notin Touched => q.mem[k] = p.mem[k]

(* A multiple transfer of n registers covers the n words that its mode     *)
(* (increment or decrement, before or after) puts next to the base, aborts *)
(* exactly when one of them is outside the memory, moves each register to  *)
(* or from its own word if that one is inside, moves the base by 4n when   *)
(* asked to, and changes nothing else; this holds for the loops of ldm and *)
(* stm at both ends of the memory, where addresses wrap, and when base or  *)
(* pc are in the list.                                                     *)
MultipleEffect ==
    [][Stepped /\ Ready /\ Fetched(arm).op = 4 /\ result' # CRASH
         => TransferredAll(arm, Fetched(arm), arm', result')]_vars
=============================================================================
