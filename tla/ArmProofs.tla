----------------------------- MODULE ArmProofs ------------------------------
(***************************************************************************)
(* Whatever memory is loaded and whatever the debugger and the irq port    *)
(* do, r->mode stays SYS (which is not what the cpsr says after a RESET:   *)
(* ProperRegisters, which TLC refutes).  That is why no instruction        *)
(* changes the control bits of the cpsr: of the two places that copy an    *)
(* spsr into it, handle_rd15 asks arm_current_mode_has_spsr before, and    *)
(* ldm, which does not, dereferences NULL and ends the process.            *)
(* TypeOK allows any mode and is not inductive; ArmInv is.                 *)
(*                                                                         *)
(* The second part is about loads and stores: what one instruction does to *)
(* registers and memory, from the fetch, which leaves a pc two words ahead *)
(* of the instruction, to the last byte written. The loops of ldm and stm  *)
(* are followed register by register, the words counted by Rank.           *)
(***************************************************************************)
EXTENDS Arm, ArmStepProofs, FiniteSetTheorems

\* The registers that a G packet writes, register 0 first.
WriteAll(start, list, f) ==
    Ascending(LAMBDA i, s : arm_write_register(s, i, f[i]), start, list)

\* What p may be after some of them.
Packets(p) == {q \in Processors : q.cycle_count = p.cycle_count}

(* One register of a G packet.                                             *)
LEMMA PacketWrites ==
    ASSUME NEW p, NEW f \in [0 .. 16 -> Word], NEW s \in Packets(p), NEW i \in 0 .. 15
    PROVE  arm_write_register(s, i, f[i]) \in Packets(p)
<1>1. s \in Processors /\ s.cycle_count = p.cycle_count
    BY DEF Packets
<1>2. f[i] \in Word
    OBVIOUS
<1>3. Follows(s, arm_write_register(s, i, f[i]))
    BY <1>1, <1>2, RegisterWritten
<1>. QED BY <1>1, <1>3 DEF Follows, Packets

(* The registers of a G packet, in order.                                  *)
LEMMA PacketLoop ==
    ASSUME NEW p, NEW v \in [0 .. 16 -> Word], NEW start \in Packets(p), NEW list
    PROVE  WriteAll(start, list, v) \in Packets(p)
<1> DEFINE S == Packets(p)
           turn(i, s) == IF i - 1 \in list THEN arm_write_register(s, i - 1, v[i - 1]) ELSE s
           g == [i \in 1 .. 16 |-> [s \in S |-> turn(i, s)]]
           b == CHOOSE f : f = [i \in 0 .. 16 |-> IF i = 0 THEN start ELSE turn(i, f[i - 1])]
<1>0. \A i \in 1 .. 16 : i - 1 \in 0 .. 15 /\ i - 1 \in 0 .. 16
    OBVIOUS
<1>1. \A i \in 1 .. 16, s \in S : turn(i, s) \in S
    BY <1>0, PacketWrites
<1>2. WriteAll(start, list, v) = b[16]
    BY DEF Ascending, WriteAll
<1> HIDE DEF S, turn
<1>3. PICK f \in [0 .. 16 -> S] : f[0] = start /\ \A i \in 1 .. 16 : f[i] = g[i][f[i - 1]]
    <2>1. g \in [1 .. 16 -> [S -> S]]
        BY <1>1
    <2>2. start \in S /\ 16 \in Nat
        BY DEF S
    <2> HIDE DEF g
    <2>3. Iterates(16, S, start, g)
        BY <2>1, <2>2, Recursion
    <2>. QED BY <2>3 DEF Iterates
<1>4. \A i \in 1 .. 16 : f[i] = turn(i, f[i - 1])
    <2> TAKE i \in 1 .. 16
    <2>1. f[i - 1] \in S
        BY <1>0
    <2>2. g[i][f[i - 1]] = turn(i, f[i - 1])
        BY <2>1
    <2>. QED BY <1>3, <2>2
<1>5. f = [i \in 0 .. 16 |-> IF i = 0 THEN start ELSE turn(i, f[i - 1])]
    <2>1. \A i \in 0 .. 16 : f[i] = IF i = 0 THEN start ELSE turn(i, f[i - 1])
        BY <1>3, <1>4
    <2>. QED BY <2>1
<1>6. b = [i \in 0 .. 16 |-> IF i = 0 THEN start ELSE turn(i, b[i - 1])]
    BY <1>5
<1> HIDE DEF b, g
<1> DEFINE U == {i \in 0 .. 16 : b[i] \in S}
<1>7. 0 .. 16 \subseteq U
    <2>1. 0 \in U
        BY <1>6 DEF S
    <2>2. ASSUME NEW n \in 0 .. 16 - 1, n \in U PROVE n + 1 \in U
        <3>1. n + 1 \in 1 .. 16 /\ n + 1 \in 0 .. 16 /\ n + 1 # 0 /\ (n + 1) - 1 = n
            OBVIOUS
        <3>2. b[n + 1] = turn(n + 1, b[n])
            BY <1>6, <3>1
        <3>. QED BY <1>1, <2>2, <3>1, <3>2
    <2>3. 16 \in Nat
        OBVIOUS
    <2> HIDE DEF U
    <2>. QED BY <2>1, <2>2, <2>3, BoundedInduction
<1>8. 16 \in 0 .. 16
    OBVIOUS
<1>. QED BY <1>2, <1>7, <1>8 DEF S

(* The whole G packet, the cpsr included.                                  *)
LEMMA PacketKeeps ==
    ASSUME NEW p \in Processors, NEW f \in [0 .. 16 -> Word]
    PROVE  arm_write_cpsr(WriteAll(p, 0 .. 15, f), f[16]) \in Packets(p)
<1> DEFINE q == WriteAll(p, 0 .. 15, f)
<1>1. p \in Packets(p)
    BY DEF Packets
<1>2. q \in Packets(p)
    BY <1>1, PacketLoop
<1> HIDE DEF q
<1>3. q \in Processors /\ q.cycle_count = p.cycle_count /\ f[16] \in Word
    BY <1>2 DEF Packets
<1>. QED BY <1>3, CpsrWritten DEF Packets, q

\* The inductive invariant.
ArmInv == /\ arm \in Processors
          /\ result \in {-1, 0, EXIT, CRASH} \cup Exceptions
          /\ writes \in 0 .. MaxWrites /\ irqs \in 0 .. MaxIrqs

(* The invariant implies the types.                                        *)
LEMMA InvImplies == ArmInv => TypeOK
<1> SUFFICES ASSUME ArmInv PROVE TypeOK
    OBVIOUS
<1>1. /\ arm.cycle_count \in Word /\ arm.mem \in Contents
      /\ arm.reg \in [mode : {SYS}, registers : Banks]
    BY DEF ArmInv, Processors
<1>2. arm.reg \in [mode : Modes, registers : [PhysicalRegs -> Word]]
    BY <1>1 DEF Banks, Modes
<1>. QED BY <1>1, <1>2 DEF TypeOK, ArmInv

(* The invariant holds after arm_create.                                   *)
LEMMA InvInit == Init => ArmInv
BY ArmAssumption, Created DEF Init, ArmInv, WellFormed

(* Every operation keeps the invariant, and an instruction keeps the bits  *)
(* of the cpsr below the flags.                                            *)
LEMMA InvNext ==
    ASSUME ArmInv, [Next]_vars
    PROVE  ArmInv' /\ (Stepped => ControlBits(arm') = ControlBits(arm))
<1>0. /\ arm \in Processors /\ WellFormed /\ ResetCpsr \in Word
      /\ MaxWrites \in Nat /\ MaxIrqs \in Nat
    BY ArmAssumption DEF ArmInv, WellFormed
<1>1. CASE Step
    <2>1. Steps(arm, arm_step(arm))
        BY <1>0, StepKeeps
    <2>2. arm' = arm_step(arm).p /\ result' = arm_step(arm).result /\ UNCHANGED <<writes, irqs>>
        BY <1>1 DEF Step
    <2>3. arm' \in Processors /\ result' \in Outcomes \cup {-1} /\ Flagless(arm') = Flagless(arm)
        BY <2>1, <2>2 DEF Steps
    <2>4. result' \in {-1, 0, EXIT, CRASH} \cup Exceptions
        BY <2>3 DEF Outcomes, Exceptions, RESET, FAST_INTERRUPT, UNDEFINED_INSTRUCTION,
                    SOFTWARE_INTERRUPT, DATA_ABORT
    <2>. QED BY <2>2, <2>3, <2>4 DEF ArmInv, ControlBits, Flagless
<1>2. CASE \E e \in Exceptions : Exception(e)
    <2>1. PICK e \in Exceptions : Exception(e)
        BY <1>2
    <2>2. arm' \in Processors /\ arm'.cycle_count = arm.cycle_count
        BY <1>0, <2>1, ExceptionKeeps DEF Exception
    <2>3. irqs' \in 0 .. MaxIrqs /\ UNCHANGED <<result, writes>>
        BY <1>0, <2>1 DEF Exception, ArmInv
    <2>. QED BY <2>2, <2>3 DEF ArmInv, Stepped
<1>3. CASE \E f \in RegisterImages : WriteRegisters(f)
    <2>1. PICK f \in RegisterImages : WriteRegisters(f)
        BY <1>3
    <2>2. f \in [0 .. 16 -> Word]
        BY ArmAssumption
    <2>3. arm' = arm_write_cpsr(WriteAll(arm, 0 .. 15, f), f[16])
        BY <2>1 DEF WriteRegisters, WriteAll
    <2>4. arm' \in Processors /\ arm'.cycle_count = arm.cycle_count
        BY <1>0, <2>2, <2>3, PacketKeeps DEF Packets
    <2>5. writes < MaxWrites /\ writes' = writes + 1 /\ UNCHANGED <<result, irqs>>
        BY <2>1 DEF WriteRegisters
    <2>6. writes' \in 0 .. MaxWrites
        BY <1>0, <2>5 DEF ArmInv
    <2>. QED BY <2>4, <2>5, <2>6 DEF ArmInv, Stepped
<1>4. CASE Stopped \/ UNCHANGED vars
    <2>1. UNCHANGED <<arm, result, writes, irqs>>
        BY <1>4 DEF Stopped, vars
    <2>. QED BY <2>1 DEF ArmInv, ControlBits, Stepped
<1>. QED BY <1>1, <1>2, <1>3, <1>4 DEF Next

(* In every behaviour r->mode is SYS, the registers hold words and the     *)
(* memory bytes, and the banks of the exception modes are as               *)
(* registers_create left them.                                             *)
THEOREM ArmInvariant == Spec => []ArmInv
<1>1. ArmInv /\ [Next]_vars => ArmInv'
    BY InvNext
<1>. QED BY <1>1, InvInit, PTL DEF Spec

(* Registers, memory and results keep their types: no handler of           *)
(* arm_data_processing.c, arm_load_store.c or arm_branch_other.c leaves a  *)
(* value that does not fit a register.                                     *)
THEOREM ArmTypeCorrect == Spec => []TypeOK
<1>1. ArmInv => TypeOK
    BY InvImplies
<1>. QED BY <1>1, ArmInvariant, PTL

(* No instruction changes the bits of the cpsr below the flags (albit,     *)
(* handle_rd15, ldm).                                                      *)
THEOREM ControlBitsStay == Spec => ControlBitsKept
<1>1. ArmInv /\ [Next]_vars => [Stepped => ControlBits(arm') = ControlBits(arm)]_vars
    BY InvNext
<1>. QED BY <1>1, ArmInvariant, PTL DEF Spec, ControlBitsKept

-----------------------------------------------------------------------------
(* Addresses wrap at a multiple of the size of a word.                     *)
LEMMA WordsInSpace == \E j \in Nat : Modulus = 4 * j
<1>1. 2 \in 0 .. WordBits /\ 1 \in 1 .. WordBits /\ 2 \in 1 .. WordBits
    BY Widths
<1>2. Exp2[2] = 4
    BY <1>1, Doubling
<1>3. Modulus = Exp2[2] * Exp2[WordBits - 2] /\ Exp2[WordBits - 2] \in Nat \ {0}
    BY <1>1, Cut
<1>. QED BY <1>2, <1>3

(* Reading the pc clears bit 1 of a word that arm_fetch has made of one    *)
(* with bit 1 cleared: the second time nothing is lost.                    *)
LEMMA PcAhead ==
    ASSUME NEW w \in Word
    PROVE  LET a == Minus(PcRead(w), 4) IN PcRead(Plus(a, 4)) = Plus(a, 8)
<1> DEFINE u == Plus(w, 4)
           v == clr_bit(u, 1)
           a == Minus(v, 4)
           x == Plus(v, 4)
<1>1. u \in Word
    BY Sums, Words
<1>2. 1 \in 0 .. WordBits - 1 /\ 1 \in 1 .. WordBits
    BY Widths
<1>3. Exp2[1] = 2
    BY <1>2, Doubling
<1> HIDE DEF u
<1>4. v \in Word
    BY <1>1, <1>2, SetClear
<1>5. (v \div 2) % 2 = 0
    BY <1>1, <1>3, Words DEF clr_bit, get_bit
<1> HIDE DEF v
<1>6. v \in Nat /\ v < Modulus /\ Modulus \in Nat \ {0} /\ Modulus >= 16
    BY <1>4, Words, Bases
<1>n. ASSUME NEW z \in Int, -4 <= z, z < Modulus + 8
      PROVE  z % Modulus = IF z < 0 THEN z + Modulus ELSE IF z < Modulus THEN z ELSE z - Modulus
    <2>1. -Modulus <= z /\ z < 2 * Modulus /\ Modulus \in Nat \ {0}
        BY <1>6, <1>n
    <2>. QED BY <2>1, NearMod
<1>7. a = IF v < 4 THEN (v - 4) + Modulus ELSE v - 4
    <2>1. v - 4 \in Int /\ -4 <= v - 4 /\ v - 4 < Modulus + 8
        BY <1>6
    <2>. QED BY <1>6, <1>n, <2>1 DEF Minus
<1>8. x = IF v + 4 < Modulus THEN v + 4 ELSE (v + 4) - Modulus
    <2>1. v + 4 \in Int /\ -4 <= v + 4 /\ v + 4 < Modulus + 8
        BY <1>6
    <2>. QED BY <1>6, <1>n, <2>1 DEF Plus
<1> HIDE DEF a, x
<1>9. Plus(a, 4) = v
    <2>1. a + 4 \in Int /\ -4 <= a + 4 /\ a + 4 < Modulus + 8
        BY <1>6, <1>7
    <2>2. (a + 4) % Modulus = IF a + 4 < 0 THEN (a + 4) + Modulus
                              ELSE IF a + 4 < Modulus THEN a + 4 ELSE (a + 4) - Modulus
        BY <1>n, <2>1
    <2>. QED BY <1>6, <1>7, <2>2 DEF Plus
<1>10. Plus(a, 8) = x
    <2>1. a + 8 \in Int /\ -4 <= a + 8 /\ a + 8 < Modulus + 8
        BY <1>6, <1>7
    <2>2. (a + 8) % Modulus = IF a + 8 < 0 THEN (a + 8) + Modulus
                              ELSE IF a + 8 < Modulus THEN a + 8 ELSE (a + 8) - Modulus
        BY <1>n, <2>1
    <2>. QED BY <1>6, <1>7, <1>8, <2>2 DEF Plus
<1>11. (x \div 2) % 2 = 0
    <2>1. PICK j \in Nat : Modulus = 4 * j
        BY WordsInSpace
    <2>. QED BY <1>5, <1>6, <1>8, <2>1
<1>12. clr_bit(x, 1) = x
    BY <1>3, <1>11 DEF clr_bit, get_bit
<1>. QED BY <1>9, <1>10, <1>12 DEF PcRead, a, v, u, x

(* What arm_fetch leaves to the instruction.                               *)
LEMMA FetchLeaves ==
    ASSUME NEW p \in Processors
    PROVE  LET f == arm_fetch(p).p
           IN  /\ f \in Processors /\ f.mem = p.mem /\ arm_read_cpsr(f) = arm_read_cpsr(p)
               /\ \A k \in 0 .. 16 : Reg(f, k) = After(p, k)
               /\ \A k \in 0 .. 15 : /\ arm_read_register(f, k) = Seen(p, k)
                                     /\ arm_read_usr_register(f, k) = Seen(p, k)
                                     /\ Seen(p, k) \in Word
<1> DEFINE a == FetchAddress(p)
           c == [p EXCEPT !.cycle_count = Plus(p.cycle_count, 1)]
           f == arm_write_register(c, 15, Plus(a, 4))
<1>1. arm_fetch(p).p = f
    BY DEF arm_fetch, Ends
<1>2. a \in Word
    BY Fetches
<1>3. Plus(a, 4) \in Word
    BY <1>2, Sums
<1>4. c \in Processors /\ c.reg = p.reg /\ c.mem = p.mem
    <2>1. p.cycle_count \in Word
        BY DEF Processors
    <2>2. Plus(p.cycle_count, 1) \in Word
        BY <2>1, Sums
    <2>. QED BY <2>2 DEF Processors
<1>5. Reg(p, 15) \in Word
    BY RegistersRead DEF Reg
<1>6. PcRead(Plus(a, 4)) = Plus(a, 8)
    <2>1. a = Minus(PcRead(Reg(p, 15)), 4)
        BY DEF FetchAddress, arm_read_register, Reg
    <2>. QED BY <1>5, <2>1, PcAhead
<1> HIDE DEF a, c
<1>7. Assigned(c, f, 15, Plus(a, 4))
    BY <1>3, <1>4, RegisterAssigned
<1> HIDE DEF f
<1>8. f \in Processors /\ f.mem = p.mem
    BY <1>4, <1>7 DEF Assigned
<1>9. \A k \in 0 .. 16 : Reg(f, k) = After(p, k)
    BY <1>4, <1>7 DEF Assigned, After, Reg, a
<1>10. ASSUME NEW k \in 0 .. 15
       PROVE  /\ arm_read_register(f, k) = Seen(p, k) /\ arm_read_usr_register(f, k) = Seen(p, k)
              /\ Seen(p, k) \in Word
    <2>1. Reg(f, k) = After(p, k)
        BY <1>9
    <2>2. read_usr_register(f.reg, k) = Reg(f, k)
        BY <1>8, SystemRow DEF read_usr_register, read_register, Reg, Processors
    <2>3. arm_read_register(f, k) = Seen(p, k) /\ arm_read_usr_register(f, k) = Seen(p, k)
        BY <1>6, <2>1, <2>2 DEF arm_read_register, arm_read_usr_register, Reg, After, Seen, a
    <2>. QED BY <1>8, <2>3, RegistersRead
<1>11. arm_read_cpsr(f) = arm_read_cpsr(p)
    <2>1. 16 \in 0 .. 16 /\ Reg(f, 16) = Reg(p, 16)
        BY <1>9 DEF After
    <2>. QED BY <2>1 DEF arm_read_cpsr, read_cpsr, CPSR, Reg
<1>. QED BY <1>1, <1>8, <1>9, <1>10, <1>11

(* The test of each access is that the last byte is inside.                *)
LEMMA InsideMemory ==
    ASSUME NEW a \in Word, NEW n \in {1, 2, 4}
    PROVE  /\ Accessible(a, n) <=> a + n <= Size
           /\ a \in Nat
BY Words, MemoryAssumption DEF Accessible

(* The memory_read functions give the datum as the target orders it.       *)
LEMMA ReadsLoaded ==
    ASSUME NEW p \in Processors, NEW a \in Word, NEW n \in {1, 2, 4}, a + n <= Size
    PROVE  arm_read(p, a, n) = Loaded(p.mem, a, n)
<1> DEFINE m == p.mem
<1>1. m \in [0 .. Size - 1 -> Byte] /\ a \in Nat /\ Size \in Nat
    BY Words, MemoryAssumption DEF Processors, Contents
<1>2. \A k \in 0 .. n - 1 : m[a + k] \in Byte
    BY <1>1
<1> HIDE DEF m
<1>3. CASE n = 1
    <2>1. a + 0 = a
        BY <1>1
    <2>. QED BY <1>3, <2>1, MemoryAssumption DEF arm_read, memory_read_byte, Loaded, m
<1>4. CASE n = 2
    <2>1. m[a] \in Byte /\ m[a + 1] \in Byte /\ a + 0 = a
        <3>1. 0 \in 0 .. n - 1 /\ 1 \in 0 .. n - 1 /\ a + 0 = a
            BY <1>1, <1>4
        <3>. QED BY <1>2, <3>1
    <2>2. Loaded(m, a, 2) = IF TargetBigEndian THEN m[a] * Base + m[a + 1]
                                              ELSE m[a + 1] * Base + m[a]
        BY <2>1, MemoryAssumption DEF Loaded
    <2>3. reverse_2(HostLoad2(m, a)) = IF HostBigEndian THEN m[a + 1] * Base + m[a]
                                                      ELSE m[a] * Base + m[a + 1]
        BY <2>1, Digits2, MemoryAssumption DEF HostLoad2, reverse_2
    <2>4. arm_read(p, a, 2) = memory_read_half(m, a)
        BY DEF arm_read, m
    <2>. QED BY <1>4, <2>2, <2>3, <2>4, MemoryAssumption
             DEF memory_read_half, SameEndian, HostLoad2, m
<1>5. CASE n = 4
    <2>1. /\ m[a] \in Byte /\ m[a + 1] \in Byte /\ m[a + 2] \in Byte /\ m[a + 3] \in Byte
          /\ a + 0 = a
        <3>1. 0 \in 0 .. n - 1 /\ 1 \in 0 .. n - 1 /\ 2 \in 0 .. n - 1 /\ 3 \in 0 .. n - 1
              /\ a + 0 = a
            BY <1>1, <1>5
        <3>. QED BY <1>2, <3>1
    <2> DEFINE up   == ((m[a + 3] * Base + m[a + 2]) * Base + m[a + 1]) * Base + m[a]
               down == ((m[a] * Base + m[a + 1]) * Base + m[a + 2]) * Base + m[a + 3]
    <2>2. Loaded(m, a, 4) = IF TargetBigEndian THEN down ELSE up
        BY <2>1, MemoryAssumption DEF Loaded
    <2>3. HostLoad4(m, a) = IF HostBigEndian THEN down ELSE up
        BY DEF HostLoad4
    <2>4. /\ Digit(up, 0) = m[a] /\ Digit(up, 1) = m[a + 1]
          /\ Digit(up, 2) = m[a + 2] /\ Digit(up, 3) = m[a + 3]
        BY <2>1, Digits4
    <2>5. /\ Digit(down, 0) = m[a + 3] /\ Digit(down, 1) = m[a + 2]
          /\ Digit(down, 2) = m[a + 1] /\ Digit(down, 3) = m[a]
        BY <2>1, Digits4
    <2>6. reverse_4(up) = down /\ reverse_4(down) = up
        BY <2>4, <2>5 DEF reverse_4
    <2>7. arm_read(p, a, 4) = memory_read_word(m, a)
        BY DEF arm_read, m
    <2> HIDE DEF up, down
    <2>. QED BY <1>5, <2>2, <2>3, <2>6, <2>7, MemoryAssumption
             DEF memory_read_word, SameEndian, m
<1>. QED BY <1>3, <1>4, <1>5

(* A half is made of its two bytes.                                        *)
LEMMA RecomposedHalf ==
    ASSUME NEW v \in Half
    PROVE  v = Digit(v, 1) * Base + Digit(v, 0)
<1> DEFINE q == v \div Base
<1>1. Base \in Nat \ {0} /\ v \in Nat /\ v < Base * Base
    BY Bases DEF Half
<1>2. q \in Nat /\ v = q * Base + (v % Base)
    BY <1>1, Division
<1>3. q < Base
    BY <1>1, Quotient
<1>4. Digit(v, 0) = v % Base /\ Digit(v, 1) = q % Base
    BY DEF Digit
<1> HIDE DEF q
<1>5. q % Base = q
    BY <1>1, <1>2, <1>3
<1>. QED BY <1>2, <1>4, <1>5

(* A store through the host's pointer puts each byte where the target has  *)
(* it, on hosts of both endiannesses.                                      *)
LEMMA StoredBytes ==
    ASSUME NEW m \in Contents, NEW a \in Nat, NEW n \in {2, 4}, NEW v \in Nat, a + n <= Size,
           NEW w, w = IF SameEndian THEN v ELSE IF n = 2 THEN reverse_2(v) ELSE reverse_4(v)
    PROVE  LET s == HostStore(m, a, n, w)
           IN  /\ \A k \in 0 .. n - 1 :
                    s[a + k] = Digit(v, IF TargetBigEndian THEN n - 1 - k ELSE k)
               /\ \A i \in (0 .. Size - 1) \ (a .. a + n - 1) : s[i] = m[i]
<1> DEFINE s == HostStore(m, a, n, w)
<1>0. Size \in Nat /\ TargetBigEndian \in BOOLEAN /\ HostBigEndian \in BOOLEAN
    BY MemoryAssumption
<1>1. ASSUME NEW k \in 0 .. n - 1
      PROVE  s[a + k] = Digit(v, IF TargetBigEndian THEN n - 1 - k ELSE k)
    <2>1. /\ a + k \in 0 .. Size - 1 /\ a + k \in a .. a + n - 1 /\ (a + k) - a = k
          /\ n - 1 - k \in 0 .. n - 1 /\ n - 1 - (n - 1 - k) = k
        BY <1>0
    <2>2. s[a + k] = Digit(w, IF HostBigEndian THEN n - 1 - k ELSE k)
        BY <2>1 DEF HostStore
    <2> HIDE DEF s
    <2>3. ASSUME ~ SameEndian, NEW j \in 0 .. n - 1 PROVE Digit(w, j) = Digit(v, n - 1 - j)
        <3>1. CASE n = 2
            BY <2>3, <3>1, Reversed
        <3>2. CASE n = 4
            BY <2>3, <3>2, Reversed
        <3>. QED BY <3>1, <3>2
    <2>4. CASE SameEndian
        BY <1>0, <2>2, <2>4 DEF SameEndian
    <2>5. CASE ~ SameEndian
        <3>1. Digit(w, k) = Digit(v, n - 1 - k) /\ Digit(w, n - 1 - k) = Digit(v, k)
            BY <2>1, <2>3, <2>5
        <3>. QED BY <1>0, <2>2, <2>5, <3>1 DEF SameEndian
    <2>. QED BY <2>4, <2>5
<1>2. \A i \in (0 .. Size - 1) \ (a .. a + n - 1) : s[i] = m[i]
    BY DEF HostStore
<1>. QED BY <1>1, <1>2

\* q is p with the n bytes from a on changed to the datum v, if they are there.
Stored(p, q, a, n, v) ==
    /\ q \in Processors /\ q.reg = p.reg
    /\ a + n <= Size => Loaded(q.mem, a, n) = v
    /\ \A i \in 0 .. Size - 1 :
         a + n > Size \/ i \notin a .. a + n - 1 => q.mem[i] = p.mem[i]

(* arm_write, of words, halfs and bytes.                                   *)
LEMMA WritesStored ==
    ASSUME NEW p \in Processors, NEW a \in Word, NEW n \in {1, 2, 4}, NEW x \in Word,
           NEW v, v = Truncate(x, n)
    PROVE  Stored(p, arm_write(p, a, n, v), a, n, v)
<1> DEFINE m == p.mem
           s == CASE n = 1 -> memory_write_byte(m, a, v)
                  [] n = 2 -> memory_write_half(m, a, v)
                  [] n = 4 -> memory_write_word(m, a, v)
           q == arm_write(p, a, n, v)
<1>1. v \in Word /\ (n = 1 => v \in Byte) /\ v \in Nat
    BY Truncates, Words
<1>2. q \in Processors
    BY <1>1, MemoryWritten DEF Follows
<1>3. q.reg = p.reg /\ q.mem = s
    BY DEF arm_write, Processors
<1>4. m \in Contents /\ Size \in Nat /\ a \in Nat /\ (Accessible(a, n) <=> a + n <= Size)
    BY InsideMemory, MemoryAssumption DEF Processors
<1> HIDE DEF m, q
<1>5. ASSUME a + n > Size PROVE s = m
    BY <1>4, <1>5 DEF memory_write_byte, memory_write_half, memory_write_word
<1>6. ASSUME a + n <= Size
      PROVE  /\ \A k \in 0 .. n - 1 :
                  s[a + k] = Digit(v, IF TargetBigEndian THEN n - 1 - k ELSE k)
             /\ \A i \in (0 .. Size - 1) \ (a .. a + n - 1) : s[i] = m[i]
    <2>1. CASE n = 1
        <3>1. s = [m EXCEPT ![a] = v] /\ m \in [0 .. Size - 1 -> Byte] /\ a \in 0 .. Size - 1
            BY <1>4, <1>6, <2>1 DEF memory_write_byte, Contents
        <3>2. 0 .. n - 1 = {0} /\ n - 1 - 0 = 0 /\ a + 0 = a
            BY <1>4, <2>1
        <3>3. Digit(v, 0) = v
            BY <1>1, <2>1, Bases DEF Digit, Byte
        <3>4. a .. a + n - 1 = {a}
            BY <1>4, <2>1
        <3>. QED BY <3>1, <3>2, <3>3, <3>4
    <2>2. CASE n = 2
        <3>1. s = HostStore(m, a, 2, IF SameEndian THEN v ELSE reverse_2(v))
            BY <1>4, <1>6, <2>2 DEF memory_write_half
        <3>. QED BY <1>1, <1>4, <1>6, <2>2, <3>1, StoredBytes
    <2>3. CASE n = 4
        <3>1. s = HostStore(m, a, 4, IF SameEndian THEN v ELSE reverse_4(v))
            BY <1>4, <1>6, <2>3 DEF memory_write_word
        <3>. QED BY <1>1, <1>4, <1>6, <2>3, <3>1, StoredBytes
    <2>. QED BY <2>1, <2>2, <2>3
<1> HIDE DEF s
<1>7. ASSUME a + n <= Size PROVE Loaded(s, a, n) = v
    <2> DEFINE byte(k) == s[a + (IF TargetBigEndian THEN n - 1 - k ELSE k)]
    <2>1. ASSUME NEW k \in 0 .. n - 1 PROVE byte(k) = Digit(v, k)
        <3>1. n - 1 - k \in 0 .. n - 1 /\ n - 1 - (n - 1 - k) = k
            OBVIOUS
        <3>. QED BY <1>6, <1>7, <3>1, MemoryAssumption
    <2>2. Loaded(s, a, n) =
            CASE n = 1 -> byte(0)
              [] n = 2 -> byte(1) * Base + byte(0)
              [] n = 4 -> ((byte(3) * Base + byte(2)) * Base + byte(1)) * Base + byte(0)
        BY DEF Loaded
    <2> HIDE DEF byte
    <2>3. CASE n = 1
        <3>1. byte(0) = Digit(v, 0)
            BY <2>1, <2>3
        <3>2. Digit(v, 0) = v
            BY <1>1, <2>3, Bases DEF Digit, Byte
        <3>. QED BY <2>2, <2>3, <3>1, <3>2
    <2>4. CASE n = 2
        <3>1. byte(0) = Digit(v, 0) /\ byte(1) = Digit(v, 1)
            BY <2>1, <2>4
        <3>2. v \in Half
            <4> DEFINE b == Base * Base
            <4>1. b \in Nat \ {0} /\ x \in Nat
                BY Bases, Words
            <4>2. v = x % b
                BY <2>4 DEF Truncate
            <4>3. Half = 0 .. b - 1
                BY DEF Half
            <4> HIDE DEF b
            <4>. QED BY <4>1, <4>2, <4>3
        <3>3. v = Digit(v, 1) * Base + Digit(v, 0)
            BY <3>2, RecomposedHalf
        <3>. QED BY <2>2, <2>4, <3>1, <3>3
    <2>5. CASE n = 4
        <3>1. /\ byte(0) = Digit(v, 0) /\ byte(1) = Digit(v, 1)
              /\ byte(2) = Digit(v, 2) /\ byte(3) = Digit(v, 3)
            BY <2>1, <2>5
        <3>2. v = ((Digit(v, 3) * Base + Digit(v, 2)) * Base + Digit(v, 1)) * Base + Digit(v, 0)
            BY <1>1, Recomposed
        <3>. QED BY <2>2, <2>5, <3>1, <3>2
    <2>. QED BY <2>3, <2>4, <2>5
<1>8. ASSUME NEW i \in 0 .. Size - 1, a + n > Size \/ i \notin a .. a + n - 1
      PROVE  s[i] = m[i]
    BY <1>4, <1>5, <1>6, <1>8
<1>. QED BY <1>2, <1>3, <1>7, <1>8 DEF Stored, q, m

-----------------------------------------------------------------------------
\* What a single transfer of n bytes does, off being the offset, v the datum of
\* a store, f the processor after the fetch: Transferred without the fetch.
Effect(f, i, n, base, off, v, q, r) ==
    LET moved == (IF i.u = 1 THEN base + off ELSE base - off) % Modulus
        a     == IF i.p = 1 THEN moved ELSE base
        done  == a + n <= Size
        datum == Loaded(f.mem, a, n)
    IN  /\ r = IF done THEN 0 ELSE DATA_ABORT
        /\ \A k \in 0 .. 16 : Reg(q, k) =
             IF k = i.rd /\ i.l = 1 /\ done
             THEN IF n = 4 THEN NewValue(k, datum) ELSE datum
             ELSE IF k = i.rn /\ (i.p = 0 \/ i.w = 1) THEN moved ELSE Reg(f, k)
        /\ i.l = 0 /\ done => Loaded(q.mem, a, n) = Truncate(v, n)
        /\ \A k \in 0 .. Size - 1 :
             i.l = 1 \/ ~ done \/ k \notin a .. a + n - 1 => q.mem[k] = f.mem[k]

(* The update of the base changes no other register and no memory.         *)
LEMMA BaseWritten ==
    ASSUME NEW f \in Processors, NEW base \in Word, NEW off \in Nat, NEW i \in Instructions
    PROVE  LET q == WriteBase(f, base, off, i)
           IN  /\ q \in Processors /\ q.mem = f.mem
               /\ \A k \in 0 .. 16 :
                    Reg(q, k) = IF k = i.rn /\ (i.p = 0 \/ i.w = 1)
                                THEN Indexed(base, off, i) ELSE Reg(f, k)
<1>1. i.rn \in 0 .. 15 /\ Indexed(base, off, i) \in Word
    BY IndexedWord DEF Instructions
<1>2. Assigned(f, arm_write_register(f, i.rn, Indexed(base, off, i)), i.rn, Indexed(base, off, i))
    BY <1>1, RegisterAssigned
<1>. QED BY <1>2 DEF WriteBase, Assigned

(* str, strh and strb.                                                     *)
LEMMA StoreEffect ==
    ASSUME NEW f \in Processors, NEW i \in Instructions, NEW off \in Nat, NEW n \in {1, 2, 4},
           i.l = 0, NEW e, e = Store(f, i, off, n)
    PROVE  Effect(f, i, n, arm_read_register(f, i.rn), off, arm_read_register(f, i.rd),
                  e.p, e.result)
<1> DEFINE base == arm_read_register(f, i.rn)
           x    == arm_read_register(f, i.rd)
           a    == Accessed(base, off, i)
           v    == Truncate(x, n)
           s    == arm_write(f, a, n, v)
           q    == WriteBase(s, base, off, i)
<1>1. base \in Word /\ x \in Word
    BY RegistersRead DEF Instructions
<1>2. e.p = q /\ e.result = IF Accessible(a, n) THEN 0 ELSE DATA_ABORT
    BY DEF Store, Ends
<1> HIDE DEF base, x
<1>3. a \in Word
    BY <1>1, IndexedWord
<1>4. a = IF i.p = 1 THEN (IF i.u = 1 THEN base + off ELSE base - off) % Modulus ELSE base
    BY DEF Accessed, Indexed, Plus, Minus
<1>5. Indexed(base, off, i) = (IF i.u = 1 THEN base + off ELSE base - off) % Modulus
    BY DEF Indexed, Plus, Minus
<1> HIDE DEF a
<1>6. Accessible(a, n) <=> a + n <= Size
    BY <1>3, InsideMemory
<1>7. Stored(f, s, a, n, v)
    BY <1>1, <1>3, WritesStored
<1> HIDE DEF s
<1>8. /\ s \in Processors /\ s.reg = f.reg
      /\ a + n <= Size => Loaded(s.mem, a, n) = v
      /\ \A k \in 0 .. Size - 1 :
           a + n > Size \/ k \notin a .. a + n - 1 => s.mem[k] = f.mem[k]
    BY <1>7 DEF Stored
<1>9. \A k \in 0 .. 16 : Reg(s, k) = Reg(f, k)
    BY <1>8 DEF Reg
<1>10. /\ q.mem = s.mem
       /\ \A k \in 0 .. 16 : Reg(q, k) = IF k = i.rn /\ (i.p = 0 \/ i.w = 1)
                                         THEN Indexed(base, off, i) ELSE Reg(s, k)
    BY <1>1, <1>8, BaseWritten
<1> HIDE DEF q
<1>11. ~ (a + n <= Size) => a + n > Size
    BY <1>3, Words, MemoryAssumption
<1> DEFINE moved == (IF i.u = 1 THEN base + off ELSE base - off) % Modulus
<1>12. a = (IF i.p = 1 THEN moved ELSE base) /\ Indexed(base, off, i) = moved
    BY <1>4, <1>5
<1> HIDE DEF moved
<1>13. e.result = IF a + n <= Size THEN 0 ELSE DATA_ABORT
    BY <1>2, <1>6
<1>14. \A k \in 0 .. 16 : Reg(e.p, k) = IF k = i.rn /\ (i.p = 0 \/ i.w = 1) THEN moved
                                        ELSE Reg(f, k)
    BY <1>2, <1>9, <1>10, <1>12
<1>15. a + n <= Size => Loaded(e.p.mem, a, n) = Truncate(x, n)
    BY <1>2, <1>8, <1>10
<1>16. \A k \in 0 .. Size - 1 :
          ~ (a + n <= Size) \/ k \notin a .. a + n - 1 => e.p.mem[k] = f.mem[k]
    BY <1>2, <1>8, <1>10, <1>11
<1>. QED BY <1>12, <1>13, <1>14, <1>15, <1>16 DEF Effect, moved, base, x

(* ldr, ldrh and ldrb: the datum is written after the base.                *)
LEMMA LoadEffect ==
    ASSUME NEW f \in Processors, NEW i \in Instructions, NEW off \in Nat, NEW n \in {1, 2, 4},
           i.l = 1, NEW e, e = Load(f, i, off, n), NEW x
    PROVE  Effect(f, i, n, arm_read_register(f, i.rn), off, x, e.p, e.result)
<1> DEFINE base == arm_read_register(f, i.rn)
           a    == Accessed(base, off, i)
           q    == WriteBase(f, base, off, i)
           v    == arm_read(f, a, n)
           w    == IF n = 4 /\ i.rd = 15 THEN v - (v % 4) ELSE v
           moved == (IF i.u = 1 THEN base + off ELSE base - off) % Modulus
<1>1. base \in Word /\ i.rd \in 0 .. 15
    BY RegistersRead DEF Instructions
<1>2. e = IF Accessible(a, n) THEN Ends(arm_write_register(q, i.rd, w), 0)
                              ELSE Ends(q, DATA_ABORT)
    BY DEF Load
<1> HIDE DEF base
<1>3. a \in Word
    BY <1>1, IndexedWord
<1>4. a = (IF i.p = 1 THEN moved ELSE base) /\ Indexed(base, off, i) = moved
    BY DEF Accessed, Indexed, Plus, Minus
<1> HIDE DEF a, moved
<1>6. Accessible(a, n) <=> a + n <= Size
    BY <1>3, InsideMemory
<1>7. /\ q \in Processors /\ q.mem = f.mem
      /\ \A k \in 0 .. 16 : Reg(q, k) = IF k = i.rn /\ (i.p = 0 \/ i.w = 1)
                                        THEN moved ELSE Reg(f, k)
    BY <1>1, <1>4, BaseWritten
<1> HIDE DEF q
<1>8. e.result = IF a + n <= Size THEN 0 ELSE DATA_ABORT
    BY <1>2, <1>6 DEF Ends
<1>9. CASE a + n <= Size
    <2>1. v = Loaded(f.mem, a, n) /\ v \in Word
        BY <1>3, <1>6, <1>9, ReadsLoaded, MemoryRead
    <2> HIDE DEF v
    <2>2. w \in Word
        BY <2>1, Aligned
    <2>3. w = IF n = 4 THEN NewValue(i.rd, v) ELSE v
        BY DEF NewValue
    <2> HIDE DEF w
    <2>4. e.p = arm_write_register(q, i.rd, w)
        BY <1>2, <1>6, <1>9 DEF Ends
    <2>5. Assigned(q, e.p, i.rd, w)
        BY <1>1, <1>7, <2>2, <2>4, RegisterAssigned
    <2>6. e.p.mem = f.mem /\ \A k \in 0 .. 16 : Reg(e.p, k) = IF k = i.rd THEN w ELSE Reg(q, k)
        BY <1>7, <2>5 DEF Assigned
    <2>7. \A k \in 0 .. 16 : Reg(e.p, k) =
             IF k = i.rd /\ i.l = 1 /\ a + n <= Size
             THEN IF n = 4 THEN NewValue(k, Loaded(f.mem, a, n)) ELSE Loaded(f.mem, a, n)
             ELSE IF k = i.rn /\ (i.p = 0 \/ i.w = 1) THEN moved ELSE Reg(f, k)
        BY <1>7, <1>9, <2>1, <2>3, <2>6
    <2>. QED BY <1>4, <1>8, <2>6, <2>7 DEF Effect, moved, base
<1>10. CASE ~ (a + n <= Size)
    <2>1. e.p = q
        BY <1>2, <1>6, <1>10 DEF Ends
    <2>2. \A k \in 0 .. 16 : Reg(e.p, k) =
             IF k = i.rd /\ i.l = 1 /\ a + n <= Size
             THEN IF n = 4 THEN NewValue(k, Loaded(f.mem, a, n)) ELSE Loaded(f.mem, a, n)
             ELSE IF k = i.rn /\ (i.p = 0 \/ i.w = 1) THEN moved ELSE Reg(f, k)
        BY <1>7, <1>10, <2>1
    <2>. QED BY <1>4, <1>7, <1>8, <2>1, <2>2 DEF Effect, moved, base
<1>. QED BY <1>9, <1>10

(* Every single transfer, after the fetch.                                 *)
LEMMA TransferMade ==
    ASSUME NEW f \in Processors, NEW i \in Instructions,
           i.op \in {2, 3} \/ IsExtraLoadStore(i), NEW e, e = arm_load_store(f, i)
    PROVE  Effect(f, i, IF i.op = 0 THEN 2 ELSE IF i.b = 1 THEN 1 ELSE 4,
                  arm_read_register(f, i.rn),
                  IF i.op \in {2, 3} THEN decode_off(f, i) ELSE decode_off_h(f, i),
                  arm_read_register(f, i.rd), e.p, e.result)
<1> DEFINE off == IF i.op \in {2, 3} THEN decode_off(f, i) ELSE decode_off_h(f, i)
           n == IF i.op = 0 THEN 2 ELSE IF i.b = 1 THEN 1 ELSE 4
<1>1. off \in Nat
    BY Offsets
<1>2. e = Transfer(f, i, off)
    BY DEF arm_load_store
<1> HIDE DEF off
<1>3. i.b \in {0, 1} /\ i.l \in {0, 1} /\ i.op \in {0, 2, 3}
    BY DEF Instructions, Bit, IsExtraLoadStore
<1>4. n \in {1, 2, 4}
    OBVIOUS
<1>5. e = IF i.l = 0 THEN Store(f, i, off, n) ELSE Load(f, i, off, n)
    BY <1>2, <1>3 DEF Transfer, str, strh, strb, ldr, ldrh, ldrb
<1> HIDE DEF n
<1>6. Effect(f, i, n, arm_read_register(f, i.rn), off, arm_read_register(f, i.rd), e.p, e.result)
    <2>1. CASE i.l = 0
        BY <1>1, <1>4, <1>5, <2>1, StoreEffect
    <2>2. CASE i.l = 1
        BY <1>1, <1>4, <1>5, <2>2, LoadEffect
    <2>. QED BY <1>3, <2>1, <2>2
<1>. QED BY <1>6 DEF off, n

(* Only Step counts an instruction.                                        *)
LEMMA OnlySteps ==
    ASSUME ArmInv, [Next]_vars, Stepped
    PROVE  arm' = arm_step(arm).p /\ result' = arm_step(arm).result
<1>0. arm \in Processors /\ ResetCpsr \in Word
    BY ArmAssumption DEF ArmInv, WellFormed
<1>1. CASE Step
    BY <1>1 DEF Step
<1>2. ASSUME NEW e \in Exceptions, Exception(e) PROVE FALSE
    BY <1>0, <1>2, ExceptionKeeps DEF Exception, Stepped
<1>3. ASSUME NEW f \in RegisterImages, WriteRegisters(f) PROVE FALSE
    <2>1. f \in [0 .. 16 -> Word]
        BY ArmAssumption
    <2>2. arm' = arm_write_cpsr(WriteAll(arm, 0 .. 15, f), f[16])
        BY <1>3 DEF WriteRegisters, WriteAll
    <2>. QED BY <1>0, <2>1, <2>2, PacketKeeps DEF Packets, Stepped
<1>4. CASE Stopped \/ UNCHANGED vars
    BY <1>4 DEF Stopped, vars, Stepped
<1>. QED BY <1>1, <1>2, <1>3, <1>4 DEF Next

(* An instruction whose condition holds is dispatched after the fetch, and *)
(* the exception it returns changes nothing.                               *)
LEMMA StepDispatches ==
    ASSUME NEW p \in Processors, WellFormed, Accessible(FetchAddress(p), 4),
           conditionPassed(p, Fetched(p).cond)
    PROVE  LET e == Dispatch(arm_fetch(p).p, Fetched(p))
           IN  /\ Fetched(p) \in Instructions
               /\ arm_step(p).p = e.p /\ arm_step(p).result = e.result
<1> DEFINE f == arm_fetch(p)
           i == Fetched(p)
           e == Dispatch(f.p, i)
<1>1. f.result = 0 /\ FetchAddress(p) \in Word
    BY Fetches DEF arm_fetch, Ends
<1>2. i \in Instructions
    BY <1>1, MemoryRead DEF Fetched, WellFormed
<1>3. f.p \in Processors /\ arm_read_cpsr(f.p) = arm_read_cpsr(p)
    BY FetchLeaves
<1>4. arm_step(p) = Raise(Execute(f, i))
    BY DEF arm_step, arm_execute_instruction
<1>5. conditionPassed(p, i.cond)
    OBVIOUS
<1> HIDE DEF f, i
<1>6. conditionPassed(f.p, i.cond)
    BY <1>3, <1>5 DEF conditionPassed
<1>7. Execute(f, i) = e
    BY <1>1, <1>6 DEF Execute
<1>8. Handles(f.p, e)
    BY <1>2, <1>3, Dispatches DEF WellFormed
<1> HIDE DEF e
<1>9. e.result # RESET
    BY <1>8 DEF Handles, Outcomes, EXIT, CRASH, UNDEFINED_INSTRUCTION, SOFTWARE_INTERRUPT,
                DATA_ABORT, RESET
<1>10. Raise(e) = e \/ Raise(e) = Ends(e.p, e.result)
    BY <1>9 DEF Raise, arm_exception
<1>11. Raise(e).p = e.p /\ Raise(e).result = e.result
    BY <1>10 DEF Ends
<1>. QED BY <1>2, <1>4, <1>7, <1>11 DEF e, f, i

(* A single transfer, with the fetch before it.                            *)
LEMMA TransferStep ==
    ASSUME NEW p \in Processors, WellFormed, Accessible(FetchAddress(p), 4),
           conditionPassed(p, Fetched(p).cond),
           Fetched(p).op \in {2, 3} \/ IsExtraLoadStore(Fetched(p))
    PROVE  Transferred(p, Fetched(p), arm_step(p).p, arm_step(p).result)
<1> DEFINE f == arm_fetch(p).p
           i == Fetched(p)
           e == Dispatch(f, i)
           n == IF i.op = 0 THEN 2 ELSE IF i.b = 1 THEN 1 ELSE 4
           off == IF i.op \in {2, 3} THEN decode_off(f, i) ELSE decode_off_h(f, i)
<1>1. i \in Instructions /\ arm_step(p).p = e.p /\ arm_step(p).result = e.result
    BY StepDispatches
<1>2. /\ f \in Processors /\ f.mem = p.mem
      /\ \A k \in 0 .. 16 : Reg(f, k) = After(p, k)
      /\ \A k \in 0 .. 15 : arm_read_register(f, k) = Seen(p, k)
    BY FetchLeaves
<1>3. i.op \in {2, 3} \/ IsExtraLoadStore(i)
    OBVIOUS
<1>4. Distance(p, i) = CASE i.op = 2 -> imm12(i)
                         [] i.op = 3 -> decode_off(f, i)
                         [] i.op = 0 /\ i.b = 0 -> i.rs * 16 + i.rm
                         [] i.op = 0 /\ i.b = 1 -> Seen(p, i.rm)
    BY DEF Distance
<1> HIDE DEF f, i
<1>5. e = arm_load_store(f, i)
    BY <1>3 DEF Dispatch, IsMiscellaneous, IsExtraLoadStore
<1> HIDE DEF e
<1>6. Effect(f, i, n, arm_read_register(f, i.rn), off, arm_read_register(f, i.rd), e.p, e.result)
    BY <1>1, <1>2, <1>3, <1>5, TransferMade
<1>7. i.rn \in 0 .. 15 /\ i.rd \in 0 .. 15 /\ i.rm \in 0 .. 15 /\ i.b \in {0, 1}
    BY <1>1 DEF Instructions, Bit
<1>8. off = Distance(p, i)
    <2>1. CASE i.op = 2
        BY <1>4, <2>1 DEF decode_off
    <2>2. CASE i.op = 3
        BY <1>4, <2>2
    <2>3. CASE i.op \notin {2, 3}
        <3>1. i.op = 0
            BY <1>3, <2>3 DEF IsExtraLoadStore
        <3>. QED BY <1>2, <1>4, <1>7, <3>1 DEF decode_off_h
    <2>. QED BY <2>1, <2>2, <2>3
<1> HIDE DEF off, n
<1>9. Effect(f, i, n, Seen(p, i.rn), Distance(p, i), Seen(p, i.rd), e.p, e.result)
    BY <1>2, <1>6, <1>7, <1>8
<1> DEFINE moved == (IF i.u = 1 THEN Seen(p, i.rn) + Distance(p, i)
                                ELSE Seen(p, i.rn) - Distance(p, i)) % Modulus
           a     == IF i.p = 1 THEN moved ELSE Seen(p, i.rn)
<1>10. /\ e.result = IF a + n <= Size THEN 0 ELSE DATA_ABORT
       /\ \A k \in 0 .. 16 : Reg(e.p, k) =
             IF k = i.rd /\ i.l = 1 /\ a + n <= Size
             THEN IF n = 4 THEN NewValue(k, Loaded(f.mem, a, n)) ELSE Loaded(f.mem, a, n)
             ELSE IF k = i.rn /\ (i.p = 0 \/ i.w = 1) THEN moved ELSE Reg(f, k)
       /\ i.l = 0 /\ a + n <= Size => Loaded(e.p.mem, a, n) = Truncate(Seen(p, i.rd), n)
       /\ \A k \in 0 .. Size - 1 :
             i.l = 1 \/ ~ (a + n <= Size) \/ k \notin a .. a + n - 1 => e.p.mem[k] = f.mem[k]
    BY <1>9 DEF Effect
<1>11. Transferred(p, i, e.p, e.result) <=>
       /\ e.result = IF a + n <= Size THEN 0 ELSE DATA_ABORT
       /\ \A k \in 0 .. 16 : Reg(e.p, k) =
             IF k = i.rd /\ i.l = 1 /\ a + n <= Size
             THEN IF n = 4 THEN NewValue(k, Loaded(p.mem, a, n)) ELSE Loaded(p.mem, a, n)
             ELSE IF k = i.rn /\ (i.p = 0 \/ i.w = 1) THEN moved ELSE After(p, k)
       /\ i.l = 0 /\ a + n <= Size => Loaded(e.p.mem, a, n) = Truncate(Seen(p, i.rd), n)
       /\ \A k \in 0 .. Size - 1 :
             i.l = 1 \/ ~ (a + n <= Size) \/ k \notin a .. a + n - 1 => e.p.mem[k] = p.mem[k]
    BY DEF Transferred, n
<1> HIDE DEF a, moved
<1>12. Transferred(p, i, e.p, e.result)
    BY <1>2, <1>10, <1>11
<1>. QED BY <1>1, <1>12 DEF i

(* Single transfers do what their address says, for every width of a word, *)
(* every size and byte order of the memory and every instruction word      *)
(* (arm_load_store, with the fetch before it and arm_exception after it).  *)
THEOREM TransfersHaveEffect == Spec => TransferEffect
<1> DEFINE A == Stepped /\ Ready
                  /\ (Fetched(arm).op \in {2, 3} \/ IsExtraLoadStore(Fetched(arm)))
                => Transferred(arm, Fetched(arm), arm', result')
<1>1. ArmInv /\ [Next]_vars => A
    <2> SUFFICES ASSUME ArmInv, [Next]_vars, Stepped, Ready,
                        Fetched(arm).op \in {2, 3} \/ IsExtraLoadStore(Fetched(arm))
                 PROVE  Transferred(arm, Fetched(arm), arm', result')
        OBVIOUS
    <2>1. arm \in Processors /\ WellFormed
        BY ArmAssumption DEF ArmInv
    <2>2. arm' = arm_step(arm).p /\ result' = arm_step(arm).result
        BY OnlySteps
    <2>3. Accessible(FetchAddress(arm), 4) /\ conditionPassed(arm, Fetched(arm).cond)
        BY DEF Ready
    <2>. QED BY <2>1, <2>2, <2>3, TransferStep
<1>2. ArmInv /\ [Next]_vars => [A]_vars
    BY <1>1
<1>. QED BY <1>2, ArmInvariant, PTL DEF Spec, TransferEffect

-----------------------------------------------------------------------------
(* How many registers of the list come before each one.                    *)
LEMMA Ranks ==
    ASSUME NEW i
    PROVE  /\ Rank(i, 0) = 0
           /\ \A k \in 0 .. 15 :
                Rank(i, k + 1) = IF k \in RegisterList(i) THEN Rank(i, k) + 1 ELSE Rank(i, k)
           /\ \A k \in 0 .. 16 : Rank(i, k) \in 0 .. k
<1> DEFINE list == RegisterList(i)
           below(k) == {j \in list : j < k}
<1>1. list \subseteq 0 .. 15
    BY DEF RegisterList
<1>2. \A k : Rank(i, k) = Cardinality(below(k))
    BY DEF Rank
<1> HIDE DEF list
<1>i. \A j \in list : j \in Int /\ j >= 0
    BY <1>1
<1>3. \A k \in 0 .. 16 : IsFiniteSet(below(k))
    <2> TAKE k \in 0 .. 16
    <2>1. IsFiniteSet(0 .. 15)
        <3>1. 0 \in Int /\ 15 \in Int
            OBVIOUS
        <3>. QED BY <3>1, FS_Interval
    <2>2. below(k) \subseteq 0 .. 15
        BY <1>1
    <2>. QED BY <2>1, <2>2, FS_Subset
<1>4. Rank(i, 0) = 0
    <2>1. below(0) = {}
        BY <1>i
    <2>. QED BY <1>2, <2>1, FS_EmptySet
<1>5. ASSUME NEW k \in 0 .. 15
      PROVE  Rank(i, k + 1) = IF k \in list THEN Rank(i, k) + 1 ELSE Rank(i, k)
    <2>1. CASE k \in list
        <3>0. ~ (k < k) /\ \A j \in list : j < k + 1 <=> j < k \/ j = k
            BY <1>i
        <3>1. below(k + 1) = below(k) \cup {k} /\ k \notin below(k)
            BY <2>1, <3>0
        <3>2. IsFiniteSet(below(k))
            BY <1>3
        <3> HIDE DEF below
        <3>3. Cardinality(below(k) \cup {k}) = Cardinality(below(k)) + 1
            BY <3>1, <3>2, FS_AddElement
        <3>. QED BY <1>2, <2>1, <3>1, <3>3
    <2>2. CASE k \notin list
        <3>0. \A j \in list : j < k + 1 <=> j < k \/ j = k
            BY <1>i
        <3>1. below(k + 1) = below(k)
            BY <2>2, <3>0
        <3>. QED BY <1>2, <2>2, <3>1
    <2>. QED BY <2>1, <2>2
<1>6. \A k \in 0 .. 16 : Rank(i, k) \in 0 .. k
    <2> DEFINE T == {k \in 0 .. 16 : Rank(i, k) \in 0 .. k}
    <2>1. 0 \in T
        BY <1>4
    <2>2. ASSUME NEW k \in 0 .. 16 - 1, k \in T PROVE k + 1 \in T
        <3>1. k \in 0 .. 15 /\ k + 1 \in 0 .. 16 /\ Rank(i, k) \in 0 .. k
            BY <2>2
        <3>2. Rank(i, k + 1) \in {Rank(i, k), Rank(i, k) + 1}
            BY <1>5, <3>1
        <3>. QED BY <3>1, <3>2
    <2>3. 16 \in Nat
        OBVIOUS
    <2> HIDE DEF T
    <2>4. 0 .. 16 \subseteq T
        BY <2>1, <2>2, <2>3, BoundedInduction
    <2>. QED BY <2>4 DEF T
<1>. QED BY <1>4, <1>5, <1>6 DEF list

(* The registers before one in the list have smaller numbers.              *)
LEMMA RanksGrow ==
    ASSUME NEW i, NEW j \in RegisterList(i)
    PROVE  \A k \in 0 .. 16 : j < k => Rank(i, j) < Rank(i, k)
<1> DEFINE T == {k \in 0 .. 16 : j < k => Rank(i, j) < Rank(i, k)}
<1>1. j \in 0 .. 15 /\ j + 1 \in 0 .. 16
    BY DEF RegisterList
<1>2. 0 \in T
    BY <1>1
<1>3. ASSUME NEW k \in 0 .. 16 - 1, k \in T PROVE k + 1 \in T
    <2>1. /\ k \in 0 .. 15 /\ k \in 0 .. 16 /\ k + 1 \in 0 .. 16 /\ j \in 0 .. 16
          /\ j < k => Rank(i, j) < Rank(i, k)
        BY <1>1, <1>3
    <2>2. Rank(i, k + 1) = IF k \in RegisterList(i) THEN Rank(i, k) + 1 ELSE Rank(i, k)
        BY <2>1, Ranks
    <2>3. Rank(i, k) \in Nat /\ Rank(i, j) \in Nat
        BY <2>1, Ranks
    <2>4. CASE j = k
        BY <2>1, <2>2, <2>3, <2>4
    <2>5. CASE j < k
        BY <2>1, <2>2, <2>3, <2>5
    <2>6. CASE j > k
        BY <1>1, <2>1, <2>6
    <2>. QED BY <1>1, <2>1, <2>4, <2>5, <2>6
<1>4. 16 \in Nat
    OBVIOUS
<1> HIDE DEF T
<1>5. 0 .. 16 \subseteq T
    BY <1>2, <1>3, <1>4, BoundedInduction
<1>. QED BY <1>5 DEF T

\* The place of word d before it is reduced, and whether the word is inside.
Unreduced(p, i, d) ==
    IF i.u = 1 THEN Seen(p, i.rn) + 4 * (i.p + d) ELSE Seen(p, i.rn) - 4 * (i.p + d)
InPlace(p, i, d) == Place(p, i, d) + 4 <= Size

(* The words of a multiple transfer follow each other.                     *)
LEMMA Places ==
    ASSUME NEW p \in Processors, NEW i \in Instructions
    PROVE  /\ \A d \in Int : Place(p, i, d) = Unreduced(p, i, d) % Modulus
           /\ \A d \in Int : Unreduced(p, i, d) \in Int /\ Place(p, i, d) \in Word
           /\ \A d \in Int : Move(Place(p, i, d), 4, i) = Place(p, i, d + 1)
           /\ \A d \in Int : (IF i.u = 1 THEN Minus(Place(p, i, d + 1), 4)
                                         ELSE Plus(Place(p, i, d + 1), 4)) = Place(p, i, d)
<1>1. Seen(p, i.rn) \in Int /\ i.p \in Int /\ Modulus \in Nat \ {0}
    <2>1. i.rn \in 0 .. 15 /\ i.p \in Int
        BY DEF Instructions, Bit
    <2>2. Seen(p, i.rn) \in Word
        BY <2>1, FetchLeaves
    <2>3. Seen(p, i.rn) \in Nat
        BY <2>2, Words
    <2>. QED BY <2>1, <2>3, Bases
<1>2. ASSUME NEW d \in Int
      PROVE  /\ Place(p, i, d) = Unreduced(p, i, d) % Modulus
             /\ Unreduced(p, i, d) \in Int /\ Place(p, i, d) \in Word
    <2>1. Unreduced(p, i, d) \in Int
        BY <1>1 DEF Unreduced
    <2>2. Place(p, i, d) = Unreduced(p, i, d) % Modulus
        BY DEF Place, Unreduced
    <2>. QED BY <2>1, <2>2, Wraps
<1>3. ASSUME NEW d \in Int
      PROVE  /\ Move(Place(p, i, d), 4, i) = Place(p, i, d + 1)
             /\ (IF i.u = 1 THEN Minus(Place(p, i, d + 1), 4)
                            ELSE Plus(Place(p, i, d + 1), 4)) = Place(p, i, d)
    <2> DEFINE x == Unreduced(p, i, d)
               y == Unreduced(p, i, d + 1)
    <2>1. d + 1 \in Int /\ x \in Int /\ y \in Int /\ y = IF i.u = 1 THEN x + 4 ELSE x + (-4)
        BY <1>1, <1>2 DEF Unreduced
    <2>2. Place(p, i, d) = x % Modulus /\ Place(p, i, d + 1) = y % Modulus
        BY <1>2, <2>1
    <2>3. x % Modulus \in Int /\ y % Modulus \in Int
        BY <1>1, <2>1
    <2> HIDE DEF x, y
    <2>4. /\ ((x % Modulus) + 4) % Modulus = (x + 4) % Modulus
          /\ ((x % Modulus) + (-4)) % Modulus = (x + (-4)) % Modulus
          /\ ((y % Modulus) + 4) % Modulus = (y + 4) % Modulus
          /\ ((y % Modulus) + (-4)) % Modulus = (y + (-4)) % Modulus
        <3>1. \A z, k \in Int : ((z % Modulus) + k) % Modulus = (z + k) % Modulus
            BY <1>1, ModAdd
        <3>2. 4 \in Int /\ -4 \in Int
            OBVIOUS
        <3>. QED BY <2>1, <3>1, <3>2
    <2>5. /\ (x % Modulus) + (-4) = (x % Modulus) - 4 /\ (y % Modulus) + (-4) = (y % Modulus) - 4
        BY <2>3
    <2>6. CASE i.u = 1
        <3>1. y = x + 4 /\ y + (-4) = x
            BY <2>1, <2>6
        <3>2. Move(Place(p, i, d), 4, i) = ((x % Modulus) + 4) % Modulus
            BY <2>2, <2>6 DEF Move, Plus
        <3>3. Minus(Place(p, i, d + 1), 4) = ((y % Modulus) + (-4)) % Modulus
            BY <2>2, <2>5 DEF Minus
        <3>. QED BY <2>2, <2>4, <2>6, <3>1, <3>2, <3>3
    <2>7. CASE i.u # 1
        <3>1. y = x + (-4) /\ y + 4 = x
            BY <2>1, <2>7
        <3>2. Move(Place(p, i, d), 4, i) = ((x % Modulus) + (-4)) % Modulus
            BY <2>2, <2>5, <2>7 DEF Move, Minus
        <3>3. Plus(Place(p, i, d + 1), 4) = ((y % Modulus) + 4) % Modulus
            BY <2>2 DEF Plus
        <3>. QED BY <2>2, <2>4, <2>7, <3>1, <3>2, <3>3
    <2>. QED BY <2>6, <2>7
<1>. QED BY <1>2, <1>3

(* Two words of a multiple transfer do not overlap.                        *)
LEMMA PlacesApart ==
    ASSUME NEW p \in Processors, NEW i \in Instructions, WellFormed,
           NEW c \in 0 .. 15, NEW d \in 0 .. 15, c # d
    PROVE  Place(p, i, c) - Place(p, i, d) >= 4 \/ Place(p, i, c) - Place(p, i, d) <= -4
<1>1. PICK j \in Nat : Modulus = 4 * j
    BY WordsInSpace
<1>2. j > 15
    BY <1>1, Words DEF WellFormed, ResetCpsr
<1> DEFINE x == Unreduced(p, i, c)
           y == Unreduced(p, i, d)
           e == IF i.u = 1 THEN c - d ELSE d - c
<1>3. x \in Int /\ y \in Int /\ Place(p, i, c) = x % (4 * j) /\ Place(p, i, d) = y % (4 * j)
    BY <1>1, Places
<1>4. e \in -15 .. 15 /\ e # 0
    OBVIOUS
<1>5. x - y = 4 * e
    <2>1. Seen(p, i.rn) \in Int /\ i.p \in Int
        <3>1. i.rn \in 0 .. 15 /\ i.p \in Int
            BY DEF Instructions, Bit
        <3>2. Seen(p, i.rn) \in Word
            BY <3>1, FetchLeaves
        <3>3. Seen(p, i.rn) \in Nat
            BY <3>2, Words
        <3>. QED BY <3>1, <3>3
    <2>. QED BY <2>1 DEF Unreduced
<1> HIDE DEF x, y, e
<1>. QED BY <1>2, <1>3, <1>4, <1>5, Apart

(* What is loaded depends on the bytes that are there only.                *)
LEMMA SameLoaded ==
    ASSUME NEW m, NEW s, NEW a \in Nat, \A x \in a .. a + 3 : m[x] = s[x]
    PROVE  Loaded(m, a, 4) = Loaded(s, a, 4)
<1>1. /\ a + 0 \in a .. a + 3 /\ a + 1 \in a .. a + 3 /\ a + 2 \in a .. a + 3
      /\ a + 3 \in a .. a + 3 /\ a + (4 - 1 - 0) = a + 3 /\ a + (4 - 1 - 1) = a + 2
      /\ a + (4 - 1 - 2) = a + 1 /\ a + (4 - 1 - 3) = a + 0
    OBVIOUS
<1>2. m[a + 0] = s[a + 0] /\ m[a + 1] = s[a + 1] /\ m[a + 2] = s[a + 2] /\ m[a + 3] = s[a + 3]
    BY <1>1
<1>. QED BY <1>1, <1>2, MemoryAssumption DEF Loaded

-----------------------------------------------------------------------------
\* What the loops of ldm and stm know when they come to register m: the address
\* of the next word, and whether one was outside.
Walked(p, i, m, s) ==
    /\ s.address = Place(p, i, Rank(i, m))
    /\ s.failed <=> \E d \in 0 .. Rank(i, m) - 1 : ~ InPlace(p, i, d)

\* The registers below m are stored, those that have room.
StoredBelow(p, i, m, s) ==
    LET f == arm_fetch(p).p
    IN  /\ s \in Loops(f) /\ s.p.reg = f.reg
        /\ \A k \in RegisterList(i) :
             k < m /\ InPlace(p, i, Rank(i, k)) =>
               Loaded(s.p.mem, Place(p, i, Rank(i, k)), 4) = Seen(p, k)
        /\ \A x \in 0 .. Size - 1 :
             (\A d \in 0 .. Rank(i, m) - 1 : x \notin Place(p, i, d) .. Place(p, i, d) + 3)
               => s.p.mem[x] = f.mem[x]

\* The registers below m are loaded, those that have a word.
LoadedBelow(p, i, m, s) ==
    LET f == arm_fetch(p).p
    IN  /\ s \in Loops(f) /\ s.p.mem = f.mem
        /\ \A k \in 0 .. 16 : k \notin RegisterList(i) \/ k >= m => Reg(s.p, k) = Reg(f, k)
        /\ \A k \in RegisterList(i) :
             k < m /\ InPlace(p, i, Rank(i, k)) =>
               Reg(s.p, k) = NewValue(k, Loaded(f.mem, Place(p, i, Rank(i, k)), 4))

(* Both loops start at the first word.                                     *)
LEMMA WalkBegins ==
    ASSUME NEW p \in Processors, NEW i \in Instructions
    PROVE  LET s == Begin(arm_fetch(p).p, i)
           IN  /\ Walked(p, i, 0, s) /\ StoredBelow(p, i, 0, s) /\ LoadedBelow(p, i, 0, s)
<1> DEFINE f == arm_fetch(p).p
           s == Begin(f, i)
<1>1. f \in Processors /\ \A k \in 0 .. 15 : arm_read_register(f, k) = Seen(p, k)
    BY FetchLeaves
<1> HIDE DEF f
<1>2. i.rn \in 0 .. 15 /\ i.p \in {0, 1} /\ Rank(i, 0) = 0
    BY Ranks DEF Instructions, Bit
<1>3. Seen(p, i.rn) \in Word /\ Seen(p, i.rn) \in Int
    <2>1. Seen(p, i.rn) \in Word
        BY <1>1, <1>2, RegistersRead
    <2>2. Seen(p, i.rn) \in Nat
        BY <2>1, Words
    <2>. QED BY <2>1, <2>2
<1>4. s.address = IF i.p = 1 THEN Move(Seen(p, i.rn), 4, i) ELSE Seen(p, i.rn)
    BY <1>1, <1>2 DEF Begin
<1>5. s.p = f /\ s.failed = FALSE
    BY DEF Begin
<1>6. s \in Loops(f)
    BY <1>1, LoopBegin
<1> HIDE DEF s
<1>7. Seen(p, i.rn) % Modulus = Seen(p, i.rn)
    BY <1>3, Bases DEF Word
<1>8. s.address = Place(p, i, 0)
    <2>1. CASE i.p = 0
        <3>1. Seen(p, i.rn) + 4 * (0 + 0) = Seen(p, i.rn)
              /\ Seen(p, i.rn) - 4 * (0 + 0) = Seen(p, i.rn)
            BY <1>3
        <3>. QED BY <1>4, <1>7, <2>1, <3>1 DEF Place
    <2>2. CASE i.p = 1
        <3>1. 4 * (1 + 0) = 4
            OBVIOUS
        <3>. QED BY <1>4, <2>2, <3>1 DEF Place, Move, Plus, Minus
    <2>. QED BY <1>2, <2>1, <2>2
<1>9. RegisterList(i) \subseteq 0 .. 15
    BY DEF RegisterList
<1>10. \A k \in RegisterList(i) : ~ (k < 0)
    BY <1>9
<1>11. 0 .. Rank(i, 0) - 1 = {}
    BY <1>2
<1>. QED BY <1>2, <1>5, <1>6, <1>8, <1>10, <1>11 DEF Walked, StoredBelow, LoadedBelow, f, s

(* Each register of the list moves the address by a word.                  *)
LEMMA WalkGoesOn ==
    ASSUME NEW p \in Processors, NEW i \in Instructions, NEW m \in 0 .. 15,
           m \in RegisterList(i), NEW s, Walked(p, i, m, s), NEW t,
           t.address = Move(s.address, 4, i),
           t.failed <=> (s.failed \/ ~ Accessible(s.address, 4))
    PROVE  Walked(p, i, m + 1, t)
<1> DEFINE r == Rank(i, m)
<1>1. r \in Nat /\ Rank(i, m + 1) = r + 1
    <2>1. m \in 0 .. 16
        OBVIOUS
    <2>. QED BY <2>1, Ranks
<1>2. s.address = Place(p, i, r) /\ (s.failed <=> \E d \in 0 .. r - 1 : ~ InPlace(p, i, d))
    BY DEF Walked
<1> HIDE DEF r
<1>3. t.address = Place(p, i, r + 1) /\ Place(p, i, r) \in Word
    BY <1>1, <1>2, Places
<1>4. Accessible(s.address, 4) <=> InPlace(p, i, r)
    BY <1>2, <1>3, InsideMemory DEF InPlace
<1>5. \A d : d \in 0 .. (r + 1) - 1 <=> d \in 0 .. r - 1 \/ d = r
    BY <1>1
<1>. QED BY <1>1, <1>2, <1>3, <1>4, <1>5 DEF Walked

(* A register that is not in the list changes nothing.                     *)
LEMMA WalkSkips ==
    ASSUME NEW p, NEW i, NEW m \in 0 .. 15, m \notin RegisterList(i), NEW s
    PROVE  /\ Walked(p, i, m, s) => Walked(p, i, m + 1, s)
           /\ StoredBelow(p, i, m, s) => StoredBelow(p, i, m + 1, s)
           /\ LoadedBelow(p, i, m, s) => LoadedBelow(p, i, m + 1, s)
<1>1. Rank(i, m + 1) = Rank(i, m)
    BY Ranks
<1>2. \A k \in RegisterList(i) : k \in 0 .. 15
    BY DEF RegisterList
<1>3. \A k \in RegisterList(i) : k < m + 1 <=> k < m
    BY <1>2
<1>4. \A k \in 0 .. 16 : k >= m + 1 => k >= m
    OBVIOUS
<1>. QED BY <1>1, <1>3, <1>4 DEF Walked, StoredBelow, LoadedBelow

(* One register of an stm.                                                 *)
LEMMA StoreGoesOn ==
    ASSUME NEW p \in Processors, NEW i \in Instructions, WellFormed, NEW m \in 0 .. 15,
           m \in RegisterList(i), NEW s, Walked(p, i, m, s), StoredBelow(p, i, m, s)
    PROVE  LET t == StoreOne(m, s, i) IN Walked(p, i, m + 1, t) /\ StoredBelow(p, i, m + 1, t)
<1> DEFINE f == arm_fetch(p).p
           v == IF i.b = 1 THEN arm_read_usr_register(s.p, m) ELSE arm_read_register(s.p, m)
           a == Place(p, i, Rank(i, m))
           q == arm_write(s.p, a, 4, v)
           t == StoreOne(m, s, i)
<1>1. /\ f \in Processors
      /\ \A k \in 0 .. 15 : /\ arm_read_register(f, k) = Seen(p, k)
                            /\ arm_read_usr_register(f, k) = Seen(p, k)
                            /\ Seen(p, k) \in Word
    BY FetchLeaves
<1>2. /\ s \in Loops(f) /\ s.p.reg = f.reg
      /\ \A k \in RegisterList(i) :
           k < m /\ InPlace(p, i, Rank(i, k)) =>
             Loaded(s.p.mem, Place(p, i, Rank(i, k)), 4) = Seen(p, k)
      /\ \A x \in 0 .. Size - 1 :
           (\A d \in 0 .. Rank(i, m) - 1 : x \notin Place(p, i, d) .. Place(p, i, d) + 3)
             => s.p.mem[x] = f.mem[x]
    BY DEF StoredBelow
<1>3. s.address = a
    BY DEF Walked
<1> HIDE DEF f
<1>4. s.p \in Processors /\ s = [p |-> s.p, address |-> s.address, value |-> s.value,
                                  failed |-> s.failed]
    BY <1>2 DEF Loops
<1>5. v = Seen(p, m) /\ v \in Word
    BY <1>1, <1>2 DEF arm_read_register, arm_read_usr_register
<1>6. Rank(i, m) \in 0 .. m /\ Rank(i, m) \in 0 .. 15 /\ Rank(i, m) \in Int
      /\ Rank(i, m + 1) = Rank(i, m) + 1
    <2>1. m \in 0 .. 16
        OBVIOUS
    <2>2. Rank(i, m) \in 0 .. m /\ Rank(i, m + 1) = Rank(i, m) + 1
        BY <2>1, Ranks
    <2>. QED BY <2>2
<1>7. a \in Word /\ a \in Nat
    <2>1. a \in Word
        BY <1>6, Places
    <2>. QED BY <2>1, Words
<1>8. t.p = q /\ t.address = Move(s.address, 4, i)
      /\ (t.failed <=> (s.failed \/ ~ Accessible(s.address, 4)))
    BY <1>3, <1>4 DEF StoreOne
<1>9. Walked(p, i, m + 1, t)
    BY <1>8, WalkGoesOn
<1>10. t \in Loops(f)
    BY <1>2, LoopStores
<1> HIDE DEF v, a, t
<1>11. Truncate(v, 4) = v
    BY DEF Truncate
<1>12. Stored(s.p, q, a, 4, v)
    BY <1>4, <1>5, <1>7, <1>11, WritesStored
<1> HIDE DEF q
<1>13. /\ q.reg = s.p.reg /\ (a + 4 <= Size => Loaded(q.mem, a, 4) = v)
       /\ \A x \in 0 .. Size - 1 :
            a + 4 > Size \/ x \notin a .. a + 4 - 1 => q.mem[x] = s.p.mem[x]
    BY <1>12 DEF Stored
<1>14. ASSUME NEW k \in RegisterList(i), k < m + 1, InPlace(p, i, Rank(i, k))
       PROVE  Loaded(q.mem, Place(p, i, Rank(i, k)), 4) = Seen(p, k)
    <2>1. CASE k = m
        BY <1>5, <1>13, <1>14, <2>1 DEF InPlace, a
    <2>2. CASE k # m
        <3> DEFINE z == Place(p, i, Rank(i, k))
        <3>1. k \in 0 .. 15 /\ k < m
            BY <1>14, <2>2 DEF RegisterList
        <3>2. k \in 0 .. 16 /\ m \in 0 .. 16
            BY <3>1
        <3>3. Rank(i, k) < Rank(i, m) /\ Rank(i, k) \in Nat
            BY <3>1, <3>2, Ranks, RanksGrow
        <3>4. Rank(i, k) \in 0 .. 15 /\ Rank(i, k) \in Int /\ Rank(i, k) # Rank(i, m)
            BY <1>6, <3>3
        <3>5. z - a >= 4 \/ z - a <= -4
            BY <1>6, <3>4, PlacesApart DEF a
        <3>6. z \in Nat
            <4>1. z \in Word
                BY <3>4, Places
            <4>. QED BY <4>1, Words
        <3>7. z + 4 <= Size /\ Loaded(s.p.mem, z, 4) = Seen(p, k)
            BY <1>2, <1>14, <3>1 DEF InPlace
        <3> HIDE DEF z
        <3>8. \A x \in z .. z + 3 : x \in 0 .. Size - 1 /\ x \notin a .. a + 4 - 1
            BY <1>7, <3>5, <3>6, <3>7, MemoryAssumption
        <3>9. \A x \in z .. z + 3 : q.mem[x] = s.p.mem[x]
            BY <1>13, <3>8
        <3>10. Loaded(q.mem, z, 4) = Loaded(s.p.mem, z, 4)
            BY <3>6, <3>9, SameLoaded
        <3>. QED BY <3>7, <3>10 DEF z
    <2>. QED BY <2>1, <2>2
<1>15. ASSUME NEW x \in 0 .. Size - 1,
              \A d \in 0 .. Rank(i, m + 1) - 1 : x \notin Place(p, i, d) .. Place(p, i, d) + 3
       PROVE  q.mem[x] = f.mem[x]
    <2>1. Rank(i, m) \in 0 .. Rank(i, m + 1) - 1
        BY <1>6
    <2>2. x \notin a .. a + 3 /\ a + 4 - 1 = a + 3
        BY <1>7, <1>15, <2>1 DEF a
    <2>3. \A d \in 0 .. Rank(i, m) - 1 : d \in 0 .. Rank(i, m + 1) - 1
        BY <1>6
    <2>. QED BY <1>2, <1>13, <1>15, <2>2, <2>3
<1>16. StoredBelow(p, i, m + 1, t)
    BY <1>2, <1>8, <1>10, <1>13, <1>14, <1>15 DEF StoredBelow, f
<1>. QED BY <1>9, <1>16 DEF t

(* One register of an ldm.                                                 *)
LEMMA LoadGoesOn ==
    ASSUME NEW p \in Processors, NEW i \in Instructions, NEW m \in 0 .. 15,
           m \in RegisterList(i), NEW s, Walked(p, i, m, s), LoadedBelow(p, i, m, s)
    PROVE  LET t == LoadOne(m, s, i) IN Walked(p, i, m + 1, t) /\ LoadedBelow(p, i, m + 1, t)
<1> DEFINE f == arm_fetch(p).p
           a == Place(p, i, Rank(i, m))
           v == IF Accessible(s.address, 4) THEN arm_read(s.p, s.address, 4) ELSE s.value
           w == IF m = 15 THEN v - (v % 4) ELSE v
           q == IF i.b = 1 THEN arm_write_usr_register(s.p, m, w)
                           ELSE arm_write_register(s.p, m, w)
           t == LoadOne(m, s, i)
<1>2. /\ s \in Loops(f) /\ s.p.mem = f.mem
      /\ \A k \in 0 .. 16 : k \notin RegisterList(i) \/ k >= m => Reg(s.p, k) = Reg(f, k)
      /\ \A k \in RegisterList(i) :
           k < m /\ InPlace(p, i, Rank(i, k)) =>
             Reg(s.p, k) = NewValue(k, Loaded(f.mem, Place(p, i, Rank(i, k)), 4))
    BY DEF LoadedBelow
<1>3. s.address = a
    BY DEF Walked
<1> HIDE DEF f
<1>4. s.p \in Processors /\ s.address \in Word /\ s.value \in Word
    BY <1>2 DEF Loops
<1>5. v \in Word
    BY <1>4, MemoryRead
<1>6. InPlace(p, i, Rank(i, m)) => v = Loaded(f.mem, a, 4)
    <2>1. ASSUME InPlace(p, i, Rank(i, m)) PROVE v = Loaded(f.mem, a, 4)
        <3>1. a + 4 <= Size /\ a \in Word
            BY <1>3, <1>4, <2>1 DEF InPlace
        <3>2. Accessible(a, 4)
            BY <3>1, InsideMemory
        <3>3. arm_read(s.p, a, 4) = Loaded(s.p.mem, a, 4)
            BY <1>4, <3>1, ReadsLoaded
        <3>. QED BY <1>2, <1>3, <3>2, <3>3
    <2>. QED BY <2>1
<1>7. t.p = q /\ t.address = Move(s.address, 4, i)
      /\ (t.failed <=> (s.failed \/ ~ Accessible(s.address, 4)))
    BY DEF LoadOne
<1>8. Walked(p, i, m + 1, t)
    BY <1>7, WalkGoesOn
<1>9. t \in Loops(f)
    BY <1>2, LoopLoads
<1> HIDE DEF v, a, t
<1>10. w \in Word /\ w = NewValue(m, v)
    BY <1>5, Aligned DEF NewValue
<1> HIDE DEF w
<1>11. Assigned(s.p, q, m, w)
    BY <1>4, <1>10, RegisterAssigned
<1> HIDE DEF q
<1>12. q.mem = f.mem /\ \A k \in 0 .. 16 : Reg(q, k) = IF k = m THEN w ELSE Reg(s.p, k)
    BY <1>2, <1>11 DEF Assigned
<1>13. ASSUME NEW k \in 0 .. 16, k \notin RegisterList(i) \/ k >= m + 1
       PROVE  Reg(q, k) = Reg(f, k)
    <2>1. k # m /\ (k \notin RegisterList(i) \/ k >= m)
        BY <1>13
    <2>. QED BY <1>2, <1>12, <2>1
<1>14. ASSUME NEW k \in RegisterList(i), k < m + 1, InPlace(p, i, Rank(i, k))
       PROVE  Reg(q, k) = NewValue(k, Loaded(f.mem, Place(p, i, Rank(i, k)), 4))
    <2>1. k \in 0 .. 15 /\ k \in 0 .. 16
        BY DEF RegisterList
    <2>2. CASE k = m
        BY <1>6, <1>10, <1>12, <1>14, <2>1, <2>2 DEF a
    <2>3. CASE k # m
        <3>1. k < m
            BY <1>14, <2>1, <2>3
        <3>. QED BY <1>2, <1>12, <1>14, <2>1, <2>3, <3>1
    <2>. QED BY <2>2, <2>3
<1>15. LoadedBelow(p, i, m + 1, t)
    BY <1>7, <1>9, <1>12, <1>13, <1>14 DEF LoadedBelow, f
<1>. QED BY <1>8, <1>15 DEF t

(* The whole loop of stm.                                                  *)
LEMMA StoreWalk ==
    ASSUME NEW p \in Processors, NEW i \in Instructions, WellFormed, NEW s,
           s = StoreAll(Begin(arm_fetch(p).p, i), RegisterList(i), i)
    PROVE  Walked(p, i, 16, s) /\ StoredBelow(p, i, 16, s)
<1> DEFINE f == arm_fetch(p).p
           start == Begin(f, i)
           list == RegisterList(i)
<1>1. f \in Processors
    BY FetchLeaves
<1>2. Walked(p, i, 0, start) /\ StoredBelow(p, i, 0, start)
    BY WalkBegins
<1> HIDE DEF f
<1>3. start \in Loops(f)
    BY <1>1, LoopBegin
<1>4. s = StoreAll(start, list, i)
    BY DEF f
<1> HIDE DEF start
<1>5. PICK b : /\ s = b[16] /\ b[0] = start
               /\ \A n \in 0 .. 15 : b[n + 1] = IF n \in list THEN StoreOne(n, b[n], i) ELSE b[n]
    BY <1>3, <1>4, StoreTurns DEF StoresThrough
<1> DEFINE T == {n \in 0 .. 16 : Walked(p, i, n, b[n]) /\ StoredBelow(p, i, n, b[n])}
<1>6. 0 \in T
    BY <1>2, <1>5
<1>7. ASSUME NEW n \in 0 .. 16 - 1, n \in T PROVE n + 1 \in T
    <2>1. n \in 0 .. 15 /\ n + 1 \in 0 .. 16
        OBVIOUS
    <2>2. Walked(p, i, n, b[n]) /\ StoredBelow(p, i, n, b[n])
        BY <1>7
    <2>3. CASE n \in list
        <3>1. b[n + 1] = StoreOne(n, b[n], i)
            BY <1>5, <2>1, <2>3
        <3>2. Walked(p, i, n + 1, b[n + 1]) /\ StoredBelow(p, i, n + 1, b[n + 1])
            BY <2>1, <2>2, <2>3, <3>1, StoreGoesOn
        <3>. QED BY <2>1, <3>2
    <2>4. CASE n \notin list
        <3>1. b[n + 1] = b[n]
            BY <1>5, <2>1, <2>4
        <3>2. Walked(p, i, n + 1, b[n]) /\ StoredBelow(p, i, n + 1, b[n])
            BY <2>1, <2>2, <2>4, WalkSkips
        <3>. QED BY <2>1, <3>1, <3>2
    <2>. QED BY <2>3, <2>4
<1>8. 16 \in Nat /\ 16 \in 0 .. 16
    OBVIOUS
<1> HIDE DEF T
<1>9. 0 .. 16 \subseteq T
    BY <1>6, <1>7, <1>8, BoundedInduction
<1>. QED BY <1>5, <1>8, <1>9 DEF T

(* The whole loop of ldm.                                                  *)
LEMMA LoadWalk ==
    ASSUME NEW p \in Processors, NEW i \in Instructions, NEW s,
           s = LoadAll(Begin(arm_fetch(p).p, i), RegisterList(i), i)
    PROVE  Walked(p, i, 16, s) /\ LoadedBelow(p, i, 16, s)
<1> DEFINE f == arm_fetch(p).p
           start == Begin(f, i)
           list == RegisterList(i)
<1>1. f \in Processors
    BY FetchLeaves
<1>2. Walked(p, i, 0, start) /\ LoadedBelow(p, i, 0, start)
    BY WalkBegins
<1> HIDE DEF f
<1>3. start \in Loops(f)
    BY <1>1, LoopBegin
<1>4. s = LoadAll(start, list, i)
    BY DEF f
<1> HIDE DEF start
<1>5. PICK b : /\ s = b[16] /\ b[0] = start
               /\ \A n \in 0 .. 15 : b[n + 1] = IF n \in list THEN LoadOne(n, b[n], i) ELSE b[n]
    BY <1>3, <1>4, LoadTurns DEF LoadsThrough
<1> DEFINE T == {n \in 0 .. 16 : Walked(p, i, n, b[n]) /\ LoadedBelow(p, i, n, b[n])}
<1>6. 0 \in T
    BY <1>2, <1>5
<1>7. ASSUME NEW n \in 0 .. 16 - 1, n \in T PROVE n + 1 \in T
    <2>1. n \in 0 .. 15 /\ n + 1 \in 0 .. 16
        OBVIOUS
    <2>2. Walked(p, i, n, b[n]) /\ LoadedBelow(p, i, n, b[n])
        BY <1>7
    <2>3. CASE n \in list
        <3>1. b[n + 1] = LoadOne(n, b[n], i)
            BY <1>5, <2>1, <2>3
        <3>2. Walked(p, i, n + 1, b[n + 1]) /\ LoadedBelow(p, i, n + 1, b[n + 1])
            BY <2>1, <2>2, <2>3, <3>1, LoadGoesOn
        <3>. QED BY <2>1, <3>2
    <2>4. CASE n \notin list
        <3>1. b[n + 1] = b[n]
            BY <1>5, <2>1, <2>4
        <3>2. Walked(p, i, n + 1, b[n]) /\ LoadedBelow(p, i, n + 1, b[n])
            BY <2>1, <2>2, <2>4, WalkSkips
        <3>. QED BY <2>1, <3>1, <3>2
    <2>. QED BY <2>3, <2>4
<1>8. 16 \in Nat /\ 16 \in 0 .. 16
    OBVIOUS
<1> HIDE DEF T
<1>9. 0 .. 16 \subseteq T
    BY <1>6, <1>7, <1>8, BoundedInduction
<1>. QED BY <1>5, <1>8, <1>9 DEF T

\* The base after the n words of a multiple transfer.
BaseMoved(p, i, n) ==
    (IF i.u = 1 THEN Seen(p, i.rn) + 4 * n ELSE Seen(p, i.rn) - 4 * n) % Modulus

(* What is written back is the base moved by the words, in every mode: the *)
(* first increment of the "before" modes is undone.                        *)
LEMMA BaseComesBack ==
    ASSUME NEW p \in Processors, NEW i \in Instructions, NEW n \in Nat
    PROVE  (IF i.p = 0 THEN Place(p, i, n)
            ELSE IF i.u = 1 THEN Minus(Place(p, i, n), 4) ELSE Plus(Place(p, i, n), 4))
             = BaseMoved(p, i, n)
<1>1. i.p \in {0, 1} /\ n - 1 \in Int /\ (n - 1) + 1 = n
    BY DEF Instructions, Bit
<1>2. CASE i.p = 0
    <2>1. 0 + n = n
        OBVIOUS
    <2>. QED BY <1>2, <2>1 DEF Place, BaseMoved
<1>3. CASE i.p = 1
    <2>1. (IF i.u = 1 THEN Minus(Place(p, i, n), 4) ELSE Plus(Place(p, i, n), 4))
            = Place(p, i, n - 1)
        <3>1. (IF i.u = 1 THEN Minus(Place(p, i, (n - 1) + 1), 4)
                          ELSE Plus(Place(p, i, (n - 1) + 1), 4)) = Place(p, i, n - 1)
            BY <1>1, Places
        <3>. QED BY <1>1, <3>1
    <2>2. 1 + (n - 1) = n
        OBVIOUS
    <2>3. Place(p, i, n - 1) = BaseMoved(p, i, n)
        BY <1>3, <2>2 DEF Place, BaseMoved
    <2>. QED BY <1>3, <2>1, <2>3
<1>. QED BY <1>1, <1>2, <1>3

(* The end of ldm and stm: the result, and the base if it is asked for.    *)
LEMMA Finishes ==
    ASSUME NEW p \in Processors, NEW i \in Instructions, NEW s, s.p \in Processors,
           Walked(p, i, 16, s), NEW e, e = Finish(s, i)
    PROVE  /\ e.result = IF \A d \in 0 .. Rank(i, 16) - 1 : InPlace(p, i, d)
                         THEN 0 ELSE DATA_ABORT
           /\ e.p.mem = s.p.mem
           /\ i.w = 1 => Reg(e.p, i.rn) = BaseMoved(p, i, Rank(i, 16))
           /\ \A k \in (0 .. 16) \ (IF i.w = 1 THEN {i.rn} ELSE {}) : Reg(e.p, k) = Reg(s.p, k)
<1> DEFINE n == Rank(i, 16)
           v == IF i.p = 0 THEN s.address
                ELSE IF i.u = 1 THEN Minus(s.address, 4) ELSE Plus(s.address, 4)
<1>1. n \in Nat
    <2>1. 16 \in 0 .. 16
        OBVIOUS
    <2>. QED BY <2>1, Ranks
<1>2. s.address = Place(p, i, n) /\ (s.failed <=> \E d \in 0 .. n - 1 : ~ InPlace(p, i, d))
    BY DEF Walked
<1>3. /\ e.p = IF i.w = 1 THEN arm_write_register(s.p, i.rn, v) ELSE s.p
      /\ e.result = IF s.failed THEN DATA_ABORT ELSE 0
    BY DEF Finish, Ends
<1> HIDE DEF n
<1>4. v = BaseMoved(p, i, n)
    BY <1>1, <1>2, BaseComesBack
<1> HIDE DEF v
<1>5. i.rn \in 0 .. 15 /\ i.rn \in 0 .. 16
    BY DEF Instructions
<1>6. v \in Word
    <2>1. Seen(p, i.rn) \in Word
        BY <1>5, FetchLeaves
    <2>2. Seen(p, i.rn) \in Nat
        BY <2>1, Words
    <2>3. Seen(p, i.rn) + 4 * n \in Int /\ Seen(p, i.rn) - 4 * n \in Int
        BY <1>1, <2>2
    <2>. QED BY <1>4, <2>3, Wraps DEF BaseMoved
<1>7. Assigned(s.p, arm_write_register(s.p, i.rn, v), i.rn, v)
    BY <1>5, <1>6, RegisterAssigned
<1>8. e.result = IF \A d \in 0 .. n - 1 : InPlace(p, i, d) THEN 0 ELSE DATA_ABORT
    BY <1>2, <1>3
<1>9. CASE i.w = 1
    <2>1. Assigned(s.p, e.p, i.rn, v)
        BY <1>3, <1>7, <1>9
    <2>. QED BY <1>4, <1>5, <1>8, <1>9, <2>1 DEF Assigned, n
<1>10. CASE i.w # 1
    BY <1>3, <1>8, <1>10 DEF n
<1>. QED BY <1>9, <1>10

(* A multiple transfer, after the fetch: an ldm that restores the cpsr has *)
(* no saved one to restore in the mode the simulator stays in.             *)
LEMMA MultipleMade ==
    ASSUME NEW p \in Processors, NEW i \in Instructions, WellFormed, NEW e,
           e = arm_load_store_multiple(arm_fetch(p).p, i), e.result # CRASH
    PROVE  TransferredAll(p, i, e.p, e.result)
<1> DEFINE f == arm_fetch(p).p
           list == RegisterList(i)
           ls == LoadAll(Begin(f, i), list, i)
           ss == StoreAll(Begin(f, i), list, i)
           n == Rank(i, 16)
           kept == (0 .. 16) \ (IF i.w = 1 THEN {i.rn} ELSE {})
           Touched == UNION {Place(p, i, d) .. Place(p, i, d) + 3 : d \in 0 .. n - 1}
<1>1. f \in Processors /\ f.mem = p.mem /\ \A k \in 0 .. 16 : Reg(f, k) = After(p, k)
    BY FetchLeaves
<1>2. Walked(p, i, 16, ls) /\ LoadedBelow(p, i, 16, ls)
    BY LoadWalk
<1>3. Walked(p, i, 16, ss) /\ StoredBelow(p, i, 16, ss)
    BY StoreWalk
<1>4. e = arm_load_store_multiple(f, i) /\ ls \in Loops(f) /\ ss \in Loops(f)
    BY <1>2, <1>3 DEF LoadedBelow, StoredBelow
<1>5. i.b \in {0, 1} /\ i.l \in {0, 1} /\ list \subseteq 0 .. 15 /\ kept \subseteq 0 .. 16
    BY DEF Instructions, Bit, RegisterList
<1>6. \A k \in list : k < 16
    BY <1>5
<1>7. LoadedBelow(p, i, 16, ls) =>
        /\ ls.p.mem = f.mem
        /\ \A k \in 0 .. 16 : k \notin list \/ k >= 16 => Reg(ls.p, k) = Reg(f, k)
        /\ \A k \in list : k < 16 /\ InPlace(p, i, Rank(i, k)) =>
             Reg(ls.p, k) = NewValue(k, Loaded(f.mem, Place(p, i, Rank(i, k)), 4))
    BY DEF LoadedBelow
<1>8. StoredBelow(p, i, 16, ss) =>
        /\ ss.p.reg = f.reg
        /\ \A k \in list : k < 16 /\ InPlace(p, i, Rank(i, k)) =>
             Loaded(ss.p.mem, Place(p, i, Rank(i, k)), 4) = Seen(p, k)
        /\ \A x \in 0 .. Size - 1 :
             (\A d \in 0 .. n - 1 : x \notin Place(p, i, d) .. Place(p, i, d) + 3)
               => ss.p.mem[x] = f.mem[x]
    BY DEF StoredBelow
<1>9. TransferredAll(p, i, e.p, e.result) <=>
        /\ e.result = IF \A d \in 0 .. n - 1 : InPlace(p, i, d) THEN 0 ELSE DATA_ABORT
        /\ i.w = 1 => Reg(e.p, i.rn) = BaseMoved(p, i, n)
        /\ \A k \in kept :
             /\ i.l = 0 \/ k \notin list => Reg(e.p, k) = After(p, k)
             /\ i.l = 1 /\ k \in list /\ InPlace(p, i, Rank(i, k)) =>
                  Reg(e.p, k) = NewValue(k, Loaded(p.mem, Place(p, i, Rank(i, k)), 4))
        /\ \A k \in list :
             i.l = 0 /\ InPlace(p, i, Rank(i, k)) =>
               Loaded(e.p.mem, Place(p, i, Rank(i, k)), 4) = Seen(p, k)
        /\ \A k \in 0 .. Size - 1 :
             i.l = 1 \/ k \notin Touched => e.p.mem[k] = p.mem[k]
    BY DEF TransferredAll, InPlace, BaseMoved
<1>10. \A x : x \notin Touched =>
                \A d \in 0 .. n - 1 : x \notin Place(p, i, d) .. Place(p, i, d) + 3
    OBVIOUS
<1> HIDE DEF Touched, kept
<1>11. CASE i.l = 1
    <2>1. e = Ends(f, CRASH) \/ e = Finish(ls, i)
        <3>1. e = CASE i.b = 1 /\ 15 \in list /\ ~ arm_current_mode_has_spsr(f) -> Ends(f, CRASH)
                    [] i.b = 1 /\ 15 \in list /\ arm_current_mode_has_spsr(f) ->
                         Finish(Begin(arm_write_cpsr(f, arm_read_spsr(f)), i), i)
                    [] i.b = 0 \/ 15 \notin list -> Finish(ls, i)
            BY <1>4, <1>11 DEF arm_load_store_multiple, ldm, LoadAll
        <3>2. ~ arm_current_mode_has_spsr(f)
            BY <1>1, NoSpsr
        <3> HIDE DEF list, ls, f
        <3>. QED BY <1>5, <3>1, <3>2
    <2>2. e = Finish(ls, i)
        BY <2>1 DEF Ends
    <2> HIDE DEF ls, f, list
    <2>3. ls.p \in Processors
        BY <1>4 DEF Loops
    <2>4. /\ e.result = IF \A d \in 0 .. Rank(i, 16) - 1 : InPlace(p, i, d)
                        THEN 0 ELSE DATA_ABORT
          /\ e.p.mem = ls.p.mem
          /\ i.w = 1 => Reg(e.p, i.rn) = BaseMoved(p, i, Rank(i, 16))
          /\ \A k \in kept : Reg(e.p, k) = Reg(ls.p, k)
        BY <1>2, <2>2, <2>3, Finishes DEF kept
    <2> HIDE DEF n
    <2>5. ASSUME NEW k \in kept
          PROVE  /\ k \notin list => Reg(e.p, k) = After(p, k)
                 /\ k \in list /\ InPlace(p, i, Rank(i, k)) =>
                      Reg(e.p, k) = NewValue(k, Loaded(p.mem, Place(p, i, Rank(i, k)), 4))
        BY <1>1, <1>2, <1>5, <1>6, <1>7, <2>4
    <2>6. e.p.mem = p.mem
        BY <1>1, <1>2, <1>7, <2>4
    <2>. QED BY <1>9, <1>11, <2>4, <2>5, <2>6 DEF n
<1>12. CASE i.l = 0
    <2>0. i.l # 1
        BY <1>12
    <2>1. e = Finish(ss, i)
        BY <1>4, <2>0 DEF arm_load_store_multiple, stm, StoreAll
    <2> HIDE DEF ss, f, list
    <2>2. ss.p \in Processors
        BY <1>4 DEF Loops
    <2>3. /\ e.result = IF \A d \in 0 .. Rank(i, 16) - 1 : InPlace(p, i, d)
                        THEN 0 ELSE DATA_ABORT
          /\ e.p.mem = ss.p.mem
          /\ i.w = 1 => Reg(e.p, i.rn) = BaseMoved(p, i, Rank(i, 16))
          /\ \A k \in kept : Reg(e.p, k) = Reg(ss.p, k)
        BY <1>3, <2>1, <2>2, Finishes DEF kept
    <2> HIDE DEF n
    <2>4. \A k \in kept : Reg(e.p, k) = After(p, k)
        <3> TAKE k \in kept
        <3>1. Reg(ss.p, k) = Reg(f, k)
            BY <1>3, <1>8 DEF Reg
        <3>. QED BY <1>1, <1>5, <2>3, <3>1
    <2>5. \A k \in list : InPlace(p, i, Rank(i, k)) =>
            Loaded(e.p.mem, Place(p, i, Rank(i, k)), 4) = Seen(p, k)
        BY <1>3, <1>6, <1>8, <2>3
    <2>6. \A k \in 0 .. Size - 1 : k \notin Touched => e.p.mem[k] = p.mem[k]
        BY <1>1, <1>3, <1>8, <1>10, <2>3
    <2>. QED BY <1>9, <1>12, <2>3, <2>4, <2>5, <2>6 DEF n
<1>. QED BY <1>5, <1>11, <1>12

(* A multiple transfer, with the fetch before it.                          *)
LEMMA MultipleStep ==
    ASSUME NEW p \in Processors, WellFormed, Accessible(FetchAddress(p), 4),
           conditionPassed(p, Fetched(p).cond), Fetched(p).op = 4,
           arm_step(p).result # CRASH
    PROVE  TransferredAll(p, Fetched(p), arm_step(p).p, arm_step(p).result)
<1> DEFINE i == Fetched(p)
           e == Dispatch(arm_fetch(p).p, i)
<1>1. i \in Instructions /\ arm_step(p).p = e.p /\ arm_step(p).result = e.result
    BY StepDispatches
<1>2. i.op = 4
    OBVIOUS
<1> HIDE DEF i
<1>3. e = arm_load_store_multiple(arm_fetch(p).p, i)
    BY <1>2 DEF Dispatch, IsMiscellaneous, IsExtraLoadStore
<1>4. e.result # CRASH
    BY <1>1
<1> HIDE DEF e
<1>5. TransferredAll(p, i, e.p, e.result)
    BY <1>1, <1>3, <1>4, MultipleMade
<1>. QED BY <1>1, <1>5 DEF i

(* ldm and stm move each register to or from its own word, in every mode,  *)
(* for every list of registers, every width of a word and every size and   *)
(* byte order of the memory, and leave the rest alone                      *)
(* (arm_load_store_multiple, with the fetch before and the exception       *)
(* after it).                                                              *)
THEOREM MultiplesHaveEffect == Spec => MultipleEffect
<1> DEFINE A == Stepped /\ Ready /\ Fetched(arm).op = 4 /\ result' # CRASH
                => TransferredAll(arm, Fetched(arm), arm', result')
<1>1. ArmInv /\ [Next]_vars => A
    <2> SUFFICES ASSUME ArmInv, [Next]_vars, Stepped, Ready, Fetched(arm).op = 4,
                        result' # CRASH
                 PROVE  TransferredAll(arm, Fetched(arm), arm', result')
        OBVIOUS
    <2>1. arm \in Processors /\ WellFormed
        BY ArmAssumption DEF ArmInv
    <2>2. arm' = arm_step(arm).p /\ result' = arm_step(arm).result
        BY OnlySteps
    <2>3. Accessible(FetchAddress(arm), 4) /\ conditionPassed(arm, Fetched(arm).cond)
        BY DEF Ready
    <2>. QED BY <2>1, <2>2, <2>3, MultipleStep
<1>2. ArmInv /\ [Next]_vars => [A]_vars
    BY <1>1
<1>. QED BY <1>2, ArmInvariant, PTL DEF Spec, MultipleEffect
=============================================================================
