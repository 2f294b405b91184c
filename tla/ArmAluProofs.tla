---------------------------- MODULE ArmAluProofs ----------------------------
(***************************************************************************)
(* What the programs of ArmAlu compute, for every word width and from      *)
(* every contents of the registers: the conditions after cmp, the double   *)
(* word sums and differences, the laws of the logical operations and the   *)
(* shifts.  The invariant keeps the processors between the instructions    *)
(* (AluInv); a program has ended when each of them has made its change,    *)
(* and what is left is arithmetic on words and their bits.                 *)
(***************************************************************************)
EXTENDS ArmAlu, ArmStepProofs

-----------------------------------------------------------------------------
(* An instruction with a register operand leaves a processor, whatever the *)
(* word width: only an immediate operand needs words of eight bits.        *)
LEMMA ShiftDecoded ==
    ASSUME NEW p \in Processors, NEW ins \in Shifts
    PROVE  decode_so(p, ins) \in Operands
<1> DEFINE c  == get_bit(arm_read_cpsr(p), C)
           rm == arm_read_register(p, ins.rm)
           n  == arm_read_register(p, ins.rs) % (8 * WordBits)
<1>1. ins \in Instructions /\ ins.op = 0 /\ ins.b4 \in {0, 1} /\ ins.rs \in 0 .. 15
      /\ ins.rm \in 0 .. 15 /\ ins.sh \in 0 .. 3
    BY DEF Shifts, Instructions, Bit
<1>2. c \in Bit
    BY RegistersRead, FlagPlaces, BitValue DEF Bit
<1>3. rm \in Word /\ arm_read_register(p, ins.rs) \in Word
    BY <1>1, RegistersRead
<1>4. n \in Nat
    <2>1. 8 * WordBits \in Nat \ {0}
        BY Widths
    <2>2. arm_read_register(p, ins.rs) \in Nat
        BY <1>3, Words
    <2>3. \A a \in Nat, d \in Nat \ {0} : a % d \in Nat
        OBVIOUS
    <2>. QED BY <2>1, <2>2, <2>3
<1>5. ins.op % 2 = 0
    BY <1>1
<1>6. decode_so(p, ins) = IF ins.b4 = 0 THEN ShiftByImmediate(rm, ins.sh, shift_imm(ins), c)
                                        ELSE ShiftByRegister(rm, ins.sh, n, c)
    BY <1>1, <1>5 DEF decode_so
<1> HIDE DEF c, rm, n
<1>7. ShiftByImmediate(rm, ins.sh, shift_imm(ins), c) \in Operands
    BY <1>1, <1>2, <1>3, Fields, ShiftImmediate
<1>8. ShiftByRegister(rm, ins.sh, n, c) \in Operands
    BY <1>1, <1>2, <1>3, <1>4, ShiftRegister
<1>. QED BY <1>6, <1>7, <1>8

(* arm_data_processing_shift leaves a processor.                           *)
LEMMA ShiftKeeps ==
    ASSUME NEW p \in Processors, NEW ins \in Shifts
    PROVE  arm_data_processing_shift(p, ins).p \in Processors
<1>1. ins \in Instructions /\ ins.rn \in 0 .. 15
    BY DEF Shifts, Instructions
<1>2. arm_read_register(p, ins.rn) \in Word
    BY <1>1, RegistersRead
<1>3. decode_so(p, ins) \in Operands
    BY ShiftDecoded
<1>4. Follows(p, Operate(p, ins, arm_read_register(p, ins.rn), decode_so(p, ins)))
    BY <1>1, <1>2, <1>3, Operations
<1>. QED BY <1>4 DEF arm_data_processing_shift, Ends, Follows

(* Two flags at once are a cpsr.                                           *)
LEMMA TwoFlags == Exp2[C] + Exp2[V] \in Word
<1> USE Widths
<1>1. /\ WordBits - 4 \in 0 .. WordBits /\ WordBits - 3 \in 1 .. WordBits
      /\ WordBits - 2 \in 1 .. WordBits /\ WordBits - 1 \in 1 .. WordBits
      /\ WordBits \in 1 .. WordBits
      /\ (WordBits - 3) - 1 = WordBits - 4 /\ (WordBits - 2) - 1 = WordBits - 3
      /\ (WordBits - 1) - 1 = WordBits - 2
    OBVIOUS
<1> DEFINE e == Exp2[WordBits - 4]
<1>2. e \in Nat /\ e >= 1
    BY <1>1, Powers
<1>3. Exp2[WordBits - 3] = 2 * e /\ Exp2[WordBits - 2] = 2 * Exp2[WordBits - 3]
      /\ Exp2[WordBits - 1] = 2 * Exp2[WordBits - 2] /\ Exp2[WordBits] = 2 * Exp2[WordBits - 1]
    BY <1>1, Doubling
<1>4. Exp2[C] = 2 * e /\ Exp2[V] = e /\ Modulus = 16 * e
    <2> HIDE DEF e
    <2>1. Exp2[WordBits] = 16 * e
        BY <1>2, <1>3
    <2>. QED BY <1>3, <2>1, Bases DEF C, V, e
<1> HIDE DEF e
<1>5. Exp2[C] + Exp2[V] \in Nat /\ Exp2[C] + Exp2[V] < Modulus
    BY <1>2, <1>4
<1>. QED BY <1>5, Words

(* The processor a program starts with.                                    *)
LEMMA Starting ==
    ASSUME NEW f \in [0 .. 3 -> Word], NEW c \in Word
    PROVE  Processor(f, c) \in Processors
<1> DEFINE g == [k \in PhysicalRegs |-> CASE k \in 0 .. 3 -> f[k]
                                          [] k = 31 -> c
                                          [] k \notin (0 .. 3) \cup {31} -> 0]
           file == [registers_create EXCEPT !.registers = g]
           m == [i \in 0 .. Size - 1 |-> 0]
<1>1. \A k \in PhysicalRegs : g[k] \in Word
    <2> TAKE k \in PhysicalRegs
    <2>1. CASE k \in 0 .. 3
        BY <2>1
    <2>2. CASE k = 31
        BY <2>2
    <2>3. CASE k \notin (0 .. 3) \cup {31}
        BY <2>3, Words
    <2>. QED BY <2>1, <2>2, <2>3
<1>2. \A k \in PhysicalRegs \ Visible : g[k] = 0
    BY DEF Visible
<1>3. g \in Banks
    BY <1>1, <1>2 DEF Banks
<1> HIDE DEF g
<1>4. file \in [mode : {SYS}, registers : Banks]
    BY <1>3 DEF registers_create
<1>5. m \in Contents
    BY Bases DEF Contents, Byte
<1>6. Processor(f, c) = [cycle_count |-> 0, reg |-> file, mem |-> m]
    BY DEF Processor, g
<1> HIDE DEF file, m
<1>. QED BY <1>4, <1>5, <1>6, Words DEF Processors

-----------------------------------------------------------------------------
\* The processors before the instructions done so far and after the last.
Path(h) ==
    /\ h \in [1 .. Len(code) + 1 -> Processors]
    /\ h[1] = start /\ h[next] = arm
    /\ \A k \in 1 .. next - 1 : h[k + 1] = arm_data_processing_shift(h[k], code[k]).p

(* The inductive invariant: arm is where the instructions done so far lead *)
(* from start (arm_data_processing_shift).                                 *)
AluInv == /\ code \in Programs /\ next \in 1 .. Len(code) + 1
          /\ start \in Processors /\ arm \in Processors
          /\ \E h : Path(h)

(* The length of a program and its instructions.                           *)
LEMMA ProgramText ==
    ASSUME NEW c \in Programs
    PROVE  Len(c) \in Nat /\ \A k \in 1 .. Len(c) : c[k] \in Shifts
<1>1. c \in Seq(Shifts)
    BY ProgramsAssumption
<1>. QED BY <1>1

(* One instruction more.                                                   *)
LEMMA PathGrows ==
    ASSUME AluInv, ExecuteNext
    PROVE  AluInv'
<1>1. /\ code \in Programs /\ next \in 1 .. Len(code) /\ Len(code) \in Nat
      /\ start \in Processors /\ arm \in Processors
    BY ProgramText DEF AluInv, ExecuteNext
<1>2. /\ arm' = arm_data_processing_shift(arm, code[next]).p /\ next' = next + 1
      /\ code' = code /\ start' = start
    BY DEF ExecuteNext
<1>3. arm' \in Processors
    <2>1. code[next] \in Shifts
        BY <1>1, ProgramText
    <2>. QED BY <1>1, <1>2, <2>1, ShiftKeeps
<1>4. PICK h : Path(h)
    BY DEF AluInv
<1>5. /\ h \in [1 .. Len(code) + 1 -> Processors] /\ h[1] = start /\ h[next] = arm
      /\ \A k \in 1 .. next - 1 : h[k + 1] = arm_data_processing_shift(h[k], code[k]).p
    BY <1>4 DEF Path
<1> DEFINE n == Len(code)
<1>g. PICK g : g = [h EXCEPT ![next + 1] = arm']
    OBVIOUS
<1>6. g \in [1 .. n + 1 -> Processors]
    BY <1>g, <1>3, <1>5
<1>7. g[next + 1] = arm' /\ \A k \in 1 .. next : g[k] = h[k]
    <2>1. next + 1 \in 1 .. n + 1 /\ \A k \in 1 .. next : k \in 1 .. n + 1 /\ k # next + 1
        BY <1>1
    <2>. QED BY <1>g, <1>5, <2>1
<1>8. 1 \in 1 .. next /\ next \in 1 .. next /\ (next + 1) - 1 = next /\ next + 1 \in 1 .. n + 1
      /\ next \in Nat
    BY <1>1
<1> HIDE DEF n
<1>9. ASSUME NEW k \in 1 .. next
      PROVE  g[k + 1] = arm_data_processing_shift(g[k], code[k]).p
    <2>1. CASE k = next
        BY <1>2, <1>5, <1>7, <1>8, <2>1
    <2>2. CASE k # next
        <3>1. k \in 1 .. next - 1 /\ k + 1 \in 1 .. next
            BY <1>8, <2>2
        <3>. QED BY <1>5, <1>7, <3>1
    <2>. QED BY <2>1, <2>2
<1>10. Path(g)'
    <2>1. g[1] = start
        BY <1>5, <1>7, <1>8
    <2>2. \A k \in 1 .. next' - 1 : g[k + 1] = arm_data_processing_shift(g[k], code'[k]).p
        BY <1>2, <1>8, <1>9
    <2>3. g[next'] = arm' /\ g[1] = start' /\ g \in [1 .. Len(code') + 1 -> Processors]
        BY <1>2, <1>6, <1>7, <2>1 DEF n
    <2>. QED BY <2>2, <2>3 DEF Path
<1>. QED BY <1>1, <1>2, <1>3, <1>8, <1>10 DEF AluInv, n

(* arm is always the processor that the instructions done so far make of   *)
(* start, for every word width, every program and every start.             *)
THEOREM AluInvariant == Spec => []AluInv
<1>1. Init => AluInv
    <2> SUFFICES ASSUME Init PROVE AluInv
        OBVIOUS
    <2>1. PICK f \in Starts(code), c \in {0, Exp2[C] + Exp2[V]} : start = Processor(f, c)
        BY DEF Init
    <2>2. code \in Programs /\ Len(code) \in Nat /\ arm = start /\ next = 1
        BY ProgramText DEF Init
    <2>3. f \in [0 .. 3 -> Word]
        BY <2>2, StartsAssumption
    <2>4. start \in Processors
        BY <2>1, <2>3, Starting, TwoFlags, Words
    <2> DEFINE g == [k \in 1 .. Len(code) + 1 |-> start]
    <2>5. g \in [1 .. Len(code) + 1 -> Processors] /\ g[1] = start
        BY <2>2, <2>4
    <2> HIDE DEF g
    <2>6. 1 .. next - 1 = {}
        BY <2>2
    <2>7. Path(g)
        BY <2>2, <2>5, <2>6 DEF Path
    <2>. QED BY <2>2, <2>4, <2>7 DEF AluInv
<1>2. AluInv /\ [Next]_vars => AluInv'
    <2> SUFFICES ASSUME AluInv, [Next]_vars PROVE AluInv'
        OBVIOUS
    <2>1. CASE ExecuteNext
        BY <2>1, PathGrows
    <2>2. CASE UNCHANGED vars
        BY <2>2 DEF AluInv, Path, vars
    <2>. QED BY <2>1, <2>2 DEF Next, Done
<1>. QED BY <1>1, <1>2, PTL DEF Spec

(* The registers and the memory keep their types while the instructions of *)
(* arm_data_processing_shift run, whatever the width of a word.            *)
THEOREM AluTypeCorrect == Spec => []TypeOK
<1>1. AluInv => TypeOK
    BY DEF AluInv, TypeOK, Processors, Banks, Modes
<1>. QED BY <1>1, AluInvariant, PTL

-----------------------------------------------------------------------------
(* Dividing twice is dividing by the product: what lies above a bit.       *)
LEMMA DivideTwice ==
    ASSUME NEW x \in Nat, NEW a \in Nat \ {0}, NEW b \in Nat \ {0}
    PROVE  x \div (a * b) = (x \div a) \div b
<1> DEFINE q == x \div a
           s == x % a
           u == q \div b
           w == q % b
<1>1. q \in Nat /\ s \in 0 .. a - 1 /\ x = q * a + s
    BY Division
<1> HIDE DEF q, s
<1>2. u \in Nat /\ w \in 0 .. b - 1 /\ q = u * b + w
    BY <1>1, Division
<1> HIDE DEF u, w
<1>3. x = u * (a * b) + (w * a + s)
    BY <1>1, <1>2
<1>4. w * a + s \in Nat /\ w * a + s < a * b /\ a * b \in Nat \ {0}
    <2>1. (w + 1) * a <= b * a
        BY <1>2
    <2>. QED BY <1>1, <1>2, <2>1
<1>5. (u * (a * b) + (w * a + s)) \div (a * b) = u
    <2>1. w * a + s \in 0 .. (a * b) - 1
        BY <1>4
    <2>. QED BY <1>2, <1>4, <2>1, DivMod
<1>. QED BY <1>3, <1>5 DEF u, q

(* An even number added to a number does not change its lowest bit.        *)
LEMMA EvenAdded ==
    ASSUME NEW x \in Nat, NEW k \in Nat
    PROVE  (x + 2 * k) % 2 = x % 2
OBVIOUS

(* Adding 2^i where bit i is clear sets it and leaves the others alone.    *)
LEMMA BitAdded ==
    ASSUME NEW x \in Nat, NEW i \in 0 .. WordBits - 1, get_bit(x, i) = 0
    PROVE  /\ get_bit(x + Exp2[i], i) = 1
           /\ \A j \in 0 .. WordBits - 1 : j # i => get_bit(x + Exp2[i], j) = get_bit(x, j)
<1> USE Widths
<1> DEFINE d == Exp2[i]
           q == x \div d
           s == x % d
<1>1. i \in 0 .. WordBits /\ i + 1 \in 1 .. WordBits /\ (i + 1) - 1 = i /\ i + 1 \in 0 .. WordBits
    OBVIOUS
<1>2. d \in Nat \ {0} /\ Exp2[i + 1] = 2 * d
    <2>1. d \in Nat \ {0}
        BY <1>1, Powers
    <2>2. Exp2[i + 1] = 2 * Exp2[(i + 1) - 1]
        BY <1>1, Doubling
    <2>. QED BY <1>1, <2>1, <2>2
<1>3. q % 2 = 0
    BY DEF get_bit
<1> HIDE DEF d
<1>4. q \in Nat /\ s \in 0 .. d - 1 /\ x = q * d + s
    BY <1>2, Division
<1> HIDE DEF q, s
<1>5. (x + d) \div d = q + 1
    <2>1. x + d = (q + 1) * d + s
        BY <1>2, <1>4
    <2>2. q + 1 \in Nat
        BY <1>4
    <2>3. ((q + 1) * d + s) \div d = q + 1
        BY <1>2, <1>4, <2>2, DivMod
    <2>. QED BY <2>1, <2>3
<1>6. (q + 1) % 2 = 1 /\ (q + 1) \div 2 = q \div 2
    BY <1>3, <1>4
<1>7. get_bit(x + d, i) = 1
    BY <1>5, <1>6 DEF get_bit, d
<1>8. (x + d) \div (2 * d) = x \div (2 * d)
    <2>0. x + d \in Nat /\ 2 \in Nat \ {0}
        BY <1>2
    <2>1. (x + d) \div (d * 2) = ((x + d) \div d) \div 2 /\ x \div (d * 2) = (x \div d) \div 2
        <3>1. \A y \in Nat, b \in Nat \ {0} : y \div (d * b) = (y \div d) \div b
            BY <1>2, DivideTwice
        <3>. QED BY <2>0, <3>1
    <2>2. d * 2 = 2 * d
        BY <1>2
    <2>. QED BY <1>5, <1>6, <2>1, <2>2 DEF q
<1>9. ASSUME NEW j \in 0 .. WordBits - 1, j # i
      PROVE  get_bit(x + d, j) = get_bit(x, j)
    <2>1. CASE j > i
        <3> DEFINE e == Exp2[j - (i + 1)]
        <3>1. j - (i + 1) \in 0 .. WordBits /\ j - (i + 1) \in 0 .. WordBits - (i + 1)
              /\ (i + 1) + (j - (i + 1)) = j
            BY <2>1
        <3>2. Exp2[(i + 1) + (j - (i + 1))] = Exp2[i + 1] * e
            BY <1>1, <3>1, PowerSum
        <3>3. Exp2[j] = (2 * d) * e /\ e \in Nat \ {0}
            BY <1>2, <3>1, <3>2, Powers
        <3> HIDE DEF e
        <3>4. x + d \in Nat /\ 2 * d \in Nat \ {0}
            BY <1>2
        <3>5. (x + d) \div ((2 * d) * e) = ((x + d) \div (2 * d)) \div e
            BY <3>3, <3>4, DivideTwice
        <3>6. x \div ((2 * d) * e) = (x \div (2 * d)) \div e
            BY <3>3, <3>4, DivideTwice
        <3>. QED BY <1>8, <3>3, <3>5, <3>6 DEF get_bit
    <2>2. CASE j < i
        <3> DEFINE e == Exp2[j]
                   k == Exp2[(i - j) - 1]
        <3>1. j \in 0 .. WordBits /\ (i - j) - 1 \in 0 .. WordBits /\ i - j \in 1 .. WordBits
              /\ i - j \in 0 .. WordBits - j /\ j + (i - j) = i
            BY <2>2
        <3>2. Exp2[j + (i - j)] = e * Exp2[i - j]
            BY <3>1, PowerSum
        <3>3. Exp2[i - j] = 2 * k /\ e \in Nat \ {0} /\ k \in Nat
            <4>1. Exp2[i - j] = 2 * k
                BY <3>1, Doubling
            <4>2. e \in Nat \ {0} /\ k \in Nat
                BY <3>1, Powers
            <4>. QED BY <4>1, <4>2
        <3>4. d = e * Exp2[i - j]
            BY <3>1, <3>2 DEF d
        <3> HIDE DEF e, k
        <3>5. d = (2 * k) * e /\ 2 * k \in Nat
            BY <3>3, <3>4
        <3>6. (x + (2 * k) * e) \div e = (x \div e) + 2 * k
            BY <3>3, <3>5, Multiple
        <3>7. x \div e \in Nat
            BY <3>3, Division
        <3>8. ((x \div e) + 2 * k) % 2 = (x \div e) % 2
            BY <3>3, <3>7, EvenAdded
        <3>. QED BY <3>5, <3>6, <3>8 DEF get_bit, e
    <2>. QED BY <1>9, <2>1, <2>2
<1>. QED BY <1>7, <1>9 DEF d

(* albit gives bit i the value b and leaves the others alone.              *)
LEMMA BitChanged ==
    ASSUME NEW x \in Word, NEW i \in 0 .. WordBits - 1, NEW b \in BOOLEAN
    PROVE  /\ albit(x, i, b) \in Word
           /\ get_bit(albit(x, i, b), i) = IF b THEN 1 ELSE 0
           /\ \A j \in 0 .. WordBits - 1 : j # i => get_bit(albit(x, i, b), j) = get_bit(x, j)
<1>0. get_bit(x, i) \in {0, 1} /\ x \in Nat /\ set_bit(x, i) \in Word /\ clr_bit(x, i) \in Word
    BY BitValue, SetClear, Words
<1>1. CASE b
    <2>1. albit(x, i, b) = set_bit(x, i)
        BY <1>1 DEF albit
    <2>2. CASE get_bit(x, i) = 1
        BY <1>0, <1>1, <2>1, <2>2 DEF set_bit
    <2>3. CASE get_bit(x, i) = 0
        <3>1. set_bit(x, i) = x + Exp2[i]
            BY <2>3 DEF set_bit
        <3>2. /\ get_bit(x + Exp2[i], i) = 1
              /\ \A j \in 0 .. WordBits - 1 : j # i => get_bit(x + Exp2[i], j) = get_bit(x, j)
            BY <1>0, <2>3, BitAdded
        <3>. QED BY <1>0, <1>1, <2>1, <3>1, <3>2
    <2>. QED BY <1>0, <2>2, <2>3
<1>2. CASE ~ b
    <2>1. albit(x, i, b) = clr_bit(x, i)
        BY <1>2 DEF albit
    <2>2. CASE get_bit(x, i) = 0
        BY <1>0, <1>2, <2>1, <2>2 DEF clr_bit
    <2>3. CASE get_bit(x, i) = 1
        <3> DEFINE d == Exp2[i]
                   q == x \div d
                   s == x % d
                   y == x - d
        <3>1. d \in Nat \ {0} /\ q \in Nat /\ s \in 0 .. d - 1 /\ x = q * d + s
            BY BitPlace
        <3>2. q % 2 = 1
            BY <2>3 DEF get_bit
        <3>3. y \in Word /\ y \in Nat
            BY <2>3, BitClear, Words
        <3>4. albit(x, i, b) = y
            BY <2>1, <2>3 DEF clr_bit
        <3> HIDE DEF d, q, s
        <3>5. q - 1 \in Nat /\ (q - 1) % 2 = 0
            BY <3>1, <3>2
        <3>6. y = (q - 1) * d + s
            BY <3>1
        <3>7. ((q - 1) * d + s) \div d = q - 1
            BY <3>1, <3>5, DivMod
        <3>8. y + d = x
            BY <1>0, <3>1
        <3> HIDE DEF y
        <3>9. get_bit(y, i) = 0
            BY <3>5, <3>6, <3>7 DEF get_bit, d
        <3>10. \A j \in 0 .. WordBits - 1 : j # i => get_bit(y + Exp2[i], j) = get_bit(y, j)
            BY <3>3, <3>9, BitAdded
        <3>. QED BY <1>2, <3>3, <3>4, <3>8, <3>9, <3>10 DEF d
    <2>. QED BY <1>0, <2>2, <2>3
<1>. QED BY <1>1, <1>2

\* The flags of p are n, z, c and v.
Flagged(p, n, z, c, v) ==
    /\ get_bit(arm_read_cpsr(p), N) = IF n THEN 1 ELSE 0
    /\ get_bit(arm_read_cpsr(p), Z) = IF z THEN 1 ELSE 0
    /\ get_bit(arm_read_cpsr(p), C) = IF c THEN 1 ELSE 0
    /\ get_bit(arm_read_cpsr(p), V) = IF v THEN 1 ELSE 0

(* SetFlags sets the four flags, and no register.                          *)
LEMMA FlagsSet ==
    ASSUME NEW p \in Processors, NEW res \in Word, NEW c \in BOOLEAN, NEW v \in BOOLEAN
    PROVE  LET q == SetFlags(p, res, c, v)
           IN  /\ q \in Processors
               /\ \A k \in 0 .. 3 : q.reg.registers[k] = p.reg.registers[k]
               /\ Flagged(q, get_bit(res, WordBits - 1) = 1, res = 0, c, v)
<1> DEFINE q  == SetFlags(p, res, c, v)
           x0 == arm_read_cpsr(p)
           n  == get_bit(res, WordBits - 1) = 1
           z  == res = 0
           x1 == albit(x0, N, n)
           x2 == albit(x1, Z, z)
           x3 == albit(x2, C, c)
           x4 == albit(x3, V, v)
<1>0. n \in BOOLEAN /\ z \in BOOLEAN
    OBVIOUS
<1>s. q = arm_write_cpsr(p, x4)
    BY DEF SetFlags
<1>d. N # Z /\ N # C /\ N # V /\ Z # C /\ Z # V /\ C # V
      /\ N \in 0 .. WordBits - 1 /\ Z \in 0 .. WordBits - 1
      /\ C \in 0 .. WordBits - 1 /\ V \in 0 .. WordBits - 1
    BY Widths DEF N, Z, C, V
<1>1. x0 \in Word
    BY RegistersRead
<1> HIDE DEF x0, n, z, q
<1>2. x1 \in Word /\ get_bit(x1, N) = IF n THEN 1 ELSE 0
    BY <1>0, <1>1, <1>d, BitChanged
<1> HIDE DEF x1
<1>3. x2 \in Word /\ get_bit(x2, N) = get_bit(x1, N) /\ get_bit(x2, Z) = IF z THEN 1 ELSE 0
    BY <1>0, <1>2, <1>d, BitChanged
<1> HIDE DEF x2
<1>4. x3 \in Word /\ get_bit(x3, N) = get_bit(x2, N) /\ get_bit(x3, Z) = get_bit(x2, Z)
      /\ get_bit(x3, C) = IF c THEN 1 ELSE 0
    BY <1>3, <1>d, BitChanged
<1> HIDE DEF x3
<1>5. x4 \in Word /\ get_bit(x4, N) = get_bit(x3, N) /\ get_bit(x4, Z) = get_bit(x3, Z)
      /\ get_bit(x4, C) = get_bit(x3, C) /\ get_bit(x4, V) = IF v THEN 1 ELSE 0
    BY <1>4, <1>d, BitChanged
<1> HIDE DEF x4
<1>6. arm_read_cpsr(q) = x4
    BY <1>s, <1>5, CpsrWritten
<1>7. q = [p EXCEPT !.reg = [p.reg EXCEPT !.registers[31] = x4]]
    BY <1>s, SystemRow DEF arm_write_cpsr, write_cpsr, write_register, Processors
<1>8. Changed(p, q, 31, x4)
    BY <1>5, <1>7, Put, VisibleRegs
<1>9. q \in Processors /\ \A k \in 0 .. 3 : q.reg.registers[k] = p.reg.registers[k]
    BY <1>8 DEF Changed, PhysicalRegs
<1>10. Flagged(q, n, z, c, v)
    BY <1>2, <1>3, <1>4, <1>5, <1>6 DEF Flagged
<1>. QED BY <1>9, <1>10 DEF q, n, z

(* r0-r3 are the first four registers of the file.                         *)
LEMMA LowRegisters ==
    ASSUME NEW p \in Processors, NEW i \in 0 .. 3
    PROVE  arm_read_register(p, i) = p.reg.registers[i] /\ p.reg.registers[i] \in Word
<1>1. virtual_regs[6][i] = i
    BY DEF virtual_regs, VirtualRegs, CPSR, SPSR, NULL
<1>2. arm_read_register(p, i) = p.reg.registers[i]
    BY <1>1, SystemRow DEF arm_read_register, read_register, Processors
<1>. QED BY <1>2, RegistersRead

(* A result written in one of r0-r3 changes this register only.            *)
LEMMA LowWritten ==
    ASSUME NEW p \in Processors, NEW rd \in 0 .. 3, NEW s, NEW res \in Word
    PROVE  LET q == WriteResult(p, rd, s, res)
           IN  /\ q \in Processors /\ arm_read_cpsr(q) = arm_read_cpsr(p)
               /\ \A k \in 0 .. 3 : q.reg.registers[k] = IF k = rd THEN res ELSE p.reg.registers[k]
<1> DEFINE q == arm_write_register(p, rd, res)
<1>1. virtual_regs[6][rd] = rd
    BY DEF virtual_regs, VirtualRegs, CPSR, SPSR, NULL
<1>2. q = [p EXCEPT !.reg = [p.reg EXCEPT !.registers[rd] = res]]
    BY <1>1, SystemRow DEF arm_write_register, write_register, Processors
<1> HIDE DEF q
<1>3. Changed(p, q, rd, res)
    <2>1. rd \in Visible
        BY DEF Visible
    <2>. QED BY <1>2, <2>1, Put
<1>4. q \in Processors /\ q.reg.registers[31] = p.reg.registers[31]
      /\ \A k \in 0 .. 3 : q.reg.registers[k] = IF k = rd THEN res ELSE p.reg.registers[k]
    BY <1>3 DEF Changed, PhysicalRegs
<1>5. arm_read_cpsr(q) = arm_read_cpsr(p)
    BY <1>4, RegistersRead
<1>6. WriteResult(p, rd, s, res) = q
    BY <1>4, NoSpsr DEF WriteResult, handle_rd15, q
<1>. QED BY <1>4, <1>5, <1>6

-----------------------------------------------------------------------------
\* The instructions of the programs, one at a time: opcode op with the S bit s.
Low(p, i) == p.reg.registers[i]
CarryOf(p) == get_bit(arm_read_cpsr(p), C)
OverflowOf(p) == get_bit(arm_read_cpsr(p), V)
Run(p, op, s, rd, rn, rm) == arm_data_processing_shift(p, Register(op, s, rd, rn, rm)).p

\* q is p with res in register rd, if that is one of r0-r3, and with new flags.
Makes(p, q, rd, res, c, v) ==
    /\ q \in Processors
    /\ \A k \in 0 .. 3 : Low(q, k) = IF k = rd THEN res ELSE Low(p, k)
    /\ Flagged(q, get_bit(res, WordBits - 1) = 1, res = 0, c, v)

(* The carry and the overflow flag are bits.                               *)
LEMMA FlagBits ==
    ASSUME NEW p \in Processors
    PROVE  CarryOf(p) \in Bit /\ OverflowOf(p) \in Bit
BY RegistersRead, FlagPlaces, BitValue DEF CarryOf, OverflowOf, Bit

\* Opcode op finds its operands unchanged in the registers rn and rm.
Plainly(p, op, s, rd, rn, rm) ==
    LET ins == Register(op, s, rd, rn, rm)
    IN  /\ opcode(ins) = op /\ ins.rd = rd /\ ins.l = s
        /\ Run(p, op, s, rd, rn, rm)
             = Operate(p, ins, Low(p, rn), Operand(Low(p, rm), CarryOf(p)))

(* An unshifted operand is the register and the carry flag (decode_so).    *)
LEMMA Plain ==
    ASSUME NEW p \in Processors, NEW op \in 0 .. 15, NEW s \in Bit,
           NEW rd \in 0 .. 3, NEW rn \in 0 .. 3, NEW rm \in 0 .. 3
    PROVE  Plainly(p, op, s, rd, rn, rm)
<1> DEFINE ins == Register(op, s, rd, rn, rm)
<1>1. /\ ins.op = 0 /\ ins.rd = rd /\ ins.rn = rn /\ ins.rm = rm /\ ins.l = s /\ ins.rs = 0
      /\ ins.b7 = 0 /\ ins.sh = 0 /\ ins.b4 = 0 /\ ins.p = op \div 8 /\ ins.u = (op \div 4) % 2
      /\ ins.b = (op \div 2) % 2 /\ ins.w = op % 2
    BY DEF Register, LSL
<1> HIDE DEF ins
<1>2. opcode(ins) = op
    <2>1. opcode(ins) = (op \div 8) * 8 + ((op \div 4) % 2) * 4 + ((op \div 2) % 2) * 2 + (op % 2)
        BY <1>1 DEF opcode
    <2>. QED BY <2>1
<1>3. shift_imm(ins) = 0
    BY <1>1, Widths DEF shift_imm
<1>4. decode_so(p, ins) = Operand(Low(p, rm), CarryOf(p))
    <2>1. decode_so(p, ins) = ShiftByImmediate(arm_read_register(p, rm), 0, 0, CarryOf(p))
        BY <1>1, <1>3 DEF decode_so, CarryOf
    <2>2. ShiftByImmediate(arm_read_register(p, rm), 0, 0, CarryOf(p))
            = Operand(arm_read_register(p, rm), CarryOf(p))
        BY DEF ShiftByImmediate, LSL, LSR, ASR, ROR
    <2>. QED BY <2>1, <2>2, LowRegisters DEF Low
<1>5. Run(p, op, s, rd, rn, rm) = Operate(p, ins, arm_read_register(p, ins.rn), decode_so(p, ins))
    BY DEF Run, arm_data_processing_shift, Ends, ins
<1>. QED BY <1>1, <1>2, <1>4, <1>5, LowRegisters DEF ins, Low, Plainly

(* A result and its flags.                                                 *)
LEMMA MakesResult ==
    ASSUME NEW p \in Processors, NEW rd \in 0 .. 3, NEW s, NEW res \in Word,
           NEW c \in BOOLEAN, NEW v \in BOOLEAN
    PROVE  /\ Makes(p, SetFlags(WriteResult(p, rd, s, res), res, c, v), rd, res, c, v)
           /\ Makes(p, SetFlags(p, res, c, v), -1, res, c, v)
           /\ OverflowOf(WriteResult(p, rd, s, res)) = OverflowOf(p)
<1> DEFINE q == WriteResult(p, rd, s, res)
<1>1. q \in Processors /\ arm_read_cpsr(q) = arm_read_cpsr(p)
      /\ \A k \in 0 .. 3 : q.reg.registers[k] = IF k = rd THEN res ELSE p.reg.registers[k]
    BY LowWritten
<1> HIDE DEF q
<1>2. Makes(p, SetFlags(q, res, c, v), rd, res, c, v)
    BY <1>1, FlagsSet DEF Makes, Low
<1>3. Makes(p, SetFlags(p, res, c, v), -1, res, c, v)
    BY FlagsSet DEF Makes, Low
<1>. QED BY <1>1, <1>2, <1>3 DEF q, OverflowOf

\* A logical operation takes the carry from the shifter and keeps the overflow.
MakesLogically(p, q, rd, res, carry) == Makes(p, q, rd, res, carry = 1, OverflowOf(p) = 1)

(* The logical operations.                                                 *)
LEMMA MakesLogical ==
    ASSUME NEW p \in Processors, NEW rd \in 0 .. 3, NEW res \in Word, NEW carry
    PROVE  /\ MakesLogically(p, Logical(p, rd, 1, res, carry), rd, res, carry)
           /\ MakesLogically(p, update_flags1(p, res, carry), -1, res, carry)
<1> DEFINE q == WriteResult(p, rd, 1, res)
           c == carry = 1
           v == OverflowOf(p) = 1
<1>1. c \in BOOLEAN /\ v \in BOOLEAN
    OBVIOUS
<1>2. WithFlags(rd, 1)
    BY DEF WithFlags
<1>3. Logical(p, rd, 1, res, carry) = update_flags1(q, res, carry)
    BY <1>2 DEF Logical
<1>4. OverflowOf(q) = OverflowOf(p)
    BY LowWritten DEF OverflowOf
<1>5. update_flags1(q, res, carry) = SetFlags(q, res, c, OverflowOf(q) = 1)
    BY Zenon DEF update_flags1, OverflowOf
<1>6. update_flags1(p, res, carry) = SetFlags(p, res, c, v)
    BY Zenon DEF update_flags1, OverflowOf
<1>7. update_flags1(q, res, carry) = SetFlags(q, res, c, v)
    BY <1>4, <1>5, Zenon
<1> HIDE DEF c, v
<1>8. Makes(p, SetFlags(q, res, c, v), rd, res, c, v)
      /\ Makes(p, SetFlags(p, res, c, v), -1, res, c, v)
    BY <1>1, MakesResult
<1>. QED BY <1>3, <1>6, <1>7, <1>8, Zenon DEF MakesLogically, c, v

(* The first addition or subtraction of two words, and the comparison.     *)
LEMMA MakesSum ==
    ASSUME NEW p \in Processors, NEW rd \in 0 .. 3, NEW x \in Word, NEW y \in Word
    PROVE  /\ Makes(p, add(p, rd, 1, x, y), rd, Plus(x, y), carryFrom(x, y),
                    overflowFrom(x, y, TRUE))
           /\ Makes(p, Subtract(p, rd, 1, x, y), rd, Minus(x, y), ~ borrowFrom(x, y),
                    overflowFrom(x, y, FALSE))
           /\ Makes(p, cmp(p, x, y), -1, Minus(x, y), ~ borrowFrom(x, y),
                    overflowFrom(x, y, FALSE))
<1>0. x \in Int /\ y \in Int
    BY Words
<1>1. Plus(x, y) \in Word /\ Minus(x, y) \in Word
    BY <1>0, Wraps
<1>2. /\ (~ borrowFrom(x, y)) \in BOOLEAN /\ carryFrom(x, y) \in BOOLEAN
      /\ overflowFrom(x, y, TRUE) \in BOOLEAN /\ overflowFrom(x, y, FALSE) \in BOOLEAN
    BY <1>0, <1>1, Words DEF carryFrom, overflowFrom
<1>f. WithFlags(rd, 1)
    BY DEF WithFlags
<1>3. add(p, rd, 1, x, y) = SetFlags(WriteResult(p, rd, 1, Plus(x, y)), Plus(x, y),
                                     carryFrom(x, y), overflowFrom(x, y, TRUE))
    BY <1>f, Zenon DEF add, update_flags3
<1>4. Subtract(p, rd, 1, x, y) = SetFlags(WriteResult(p, rd, 1, Minus(x, y)), Minus(x, y),
                                          ~ borrowFrom(x, y), overflowFrom(x, y, FALSE))
    BY <1>f, Zenon DEF Subtract, update_flags2
<1>5. cmp(p, x, y) = SetFlags(p, Minus(x, y), ~ borrowFrom(x, y), overflowFrom(x, y, FALSE))
    BY DEF cmp, update_flags2
<1>. QED BY <1>1, <1>2, <1>3, <1>4, <1>5, MakesResult

(* The second one, which takes the carry.                                  *)
LEMMA MakesLong ==
    ASSUME NEW p \in Processors, NEW rd \in 0 .. 3, NEW x \in Word, NEW y \in Word
    PROVE  /\ \E v : Makes(p, adc(p, rd, 1, x, y), rd, Plus(Plus(x, y), CarryOf(p)),
                           carryFrom(x, y) \/ carryFrom(Plus(x, y), CarryOf(p)), v)
           /\ \E c, v : Makes(p, SubtractWithCarry(p, rd, 1, x, y), rd,
                              Minus(Minus(x, y), 1 - CarryOf(p)), c, v)
<1>0. x \in Int /\ y \in Int
    BY Words
<1>1. Plus(x, y) \in Word /\ Minus(x, y) \in Word
    BY <1>0, Wraps
<1>c. CarryOf(p) \in {0, 1}
    BY FlagBits DEF Bit
<1>f. WithFlags(rd, 1)
    BY DEF WithFlags
<1>2. \E v : Makes(p, adc(p, rd, 1, x, y), rd, Plus(Plus(x, y), CarryOf(p)),
                   carryFrom(x, y) \/ carryFrom(Plus(x, y), CarryOf(p)), v)
    <2> DEFINE res == Plus(Plus(x, y), CarryOf(p))
               f == carryFrom(x, y) \/ carryFrom(Plus(x, y), CarryOf(p))
               g == overflowFrom(x, y, TRUE) \/ overflowFrom(Plus(x, y), CarryOf(p), TRUE)
    <2>1. res \in Word
        <3>1. \A z \in Word, b \in {0, 1} : Plus(z, b) \in Word
            BY Wraps, Words
        <3>. QED BY <1>1, <1>c, <3>1
    <2>2. f \in BOOLEAN /\ g \in BOOLEAN
        OBVIOUS
    <2>3. adc(p, rd, 1, x, y) = SetFlags(WriteResult(p, rd, 1, res), res, f, g)
        BY <1>f, Zenon DEF adc, CarryOf
    <2> HIDE DEF res, f, g
    <2>4. Makes(p, adc(p, rd, 1, x, y), rd, res, f, g)
        BY <2>1, <2>2, <2>3, MakesResult
    <2>5. \E v : Makes(p, adc(p, rd, 1, x, y), rd, res, f, v)
        BY <2>4
    <2>. QED BY <2>5 DEF res, f
<1>3. \E c, v : Makes(p, SubtractWithCarry(p, rd, 1, x, y), rd,
                      Minus(Minus(x, y), 1 - CarryOf(p)), c, v)
    <2> DEFINE b == 1 - CarryOf(p)
               res == Minus(Minus(x, y), b)
               f == ~ borrowFrom(x, y) \/ ~ borrowFrom(Minus(x, y), b)
               g == overflowFrom(x, y, FALSE) \/ overflowFrom(Minus(x, y), b, FALSE)
    <2>1. res \in Word
        <3>1. \A z \in Word, k \in {0, 1} : Minus(z, 1 - k) \in Word
            BY Wraps, Words
        <3>. QED BY <1>1, <1>c, <3>1
    <2>2. f \in BOOLEAN /\ g \in BOOLEAN
        OBVIOUS
    <2>3. SubtractWithCarry(p, rd, 1, x, y) = SetFlags(WriteResult(p, rd, 1, res), res, f, g)
        BY <1>f, Zenon DEF SubtractWithCarry, CarryOf
    <2> HIDE DEF res, f, g
    <2>4. Makes(p, SubtractWithCarry(p, rd, 1, x, y), rd, res, f, g)
        BY <2>1, <2>2, <2>3, MakesResult
    <2>5. \E c, v : Makes(p, SubtractWithCarry(p, rd, 1, x, y), rd, res, c, v)
        BY <2>4
    <2>. QED BY <2>5 DEF res
<1>. QED BY <1>2, <1>3

-----------------------------------------------------------------------------
(* What each opcode of arm_data_processing_shift makes of two unshifted    *)
(* registers.                                                              *)
LEMMA LogicalRuns ==
    ASSUME NEW p \in Processors, NEW rd \in 0 .. 3, NEW rn \in 0 .. 3, NEW rm \in 0 .. 3,
           NEW x, NEW y, x = Low(p, rn), y = Low(p, rm)
    PROVE  /\ MakesLogically(p, Run(p, 0, 1, rd, rn, rm), rd, And(x, y), CarryOf(p))
           /\ MakesLogically(p, Run(p, 1, 1, rd, rn, rm), rd, Xor(x, y), CarryOf(p))
           /\ MakesLogically(p, Run(p, 8, 1, rd, rn, rm), -1, And(x, y), CarryOf(p))
           /\ MakesLogically(p, Run(p, 9, 1, rd, rn, rm), -1, Xor(x, y), CarryOf(p))
           /\ MakesLogically(p, Run(p, 12, 1, rd, rn, rm), rd, Or(x, y), CarryOf(p))
           /\ MakesLogically(p, Run(p, 14, 1, rd, rn, rm), rd, And(x, Not(y)), CarryOf(p))
           /\ MakesLogically(p, Run(p, 15, 1, rd, rn, rm), rd, Not(y), CarryOf(p))
<1> DEFINE carry == CarryOf(p)
           ins(op) == Register(op, 1, rd, rn, rm)
           o == Operand(y, carry)
<1>1. x \in Word /\ y \in Word
    BY LowRegisters DEF Low
<1>2. Not(y) \in Word /\ And(x, y) \in Word /\ Or(x, y) \in Word /\ Xor(x, y) \in Word
      /\ And(x, Not(y)) \in Word
    <2>1. Not(y) \in Word
        BY <1>1, Logic
    <2>. QED BY <1>1, <2>1, Logic
<1>3. o.so = y /\ o.carry = carry
    BY DEF Operand
<1>4. ASSUME NEW op \in {0, 1, 8, 9, 12, 14, 15}
      PROVE  /\ Run(p, op, 1, rd, rn, rm) = Operate(p, ins(op), x, o)
             /\ opcode(ins(op)) = op /\ ins(op).rd = rd /\ ins(op).l = 1
    <2>1. op \in 0 .. 15 /\ 1 \in Bit
        BY DEF Bit
    <2>2. Plainly(p, op, 1, rd, rn, rm)
        BY <2>1, Plain
    <2>. QED BY <2>2 DEF Plainly
<1> HIDE DEF ins, o, carry
<1>5. Run(p, 0, 1, rd, rn, rm) = Logical(p, rd, 1, And(x, y), carry)
    BY <1>3, <1>4 DEF Operate, and
<1>6. Run(p, 1, 1, rd, rn, rm) = Logical(p, rd, 1, Xor(x, y), carry)
    BY <1>3, <1>4 DEF Operate, eor
<1>7. Run(p, 8, 1, rd, rn, rm) = update_flags1(p, And(x, y), carry)
    BY <1>3, <1>4 DEF Operate, tst
<1>8. Run(p, 9, 1, rd, rn, rm) = update_flags1(p, Xor(x, y), carry)
    BY <1>3, <1>4 DEF Operate, teq
<1>9. Run(p, 12, 1, rd, rn, rm) = Logical(p, rd, 1, Or(x, y), carry)
    BY <1>3, <1>4 DEF Operate, orr
<1>10. Run(p, 14, 1, rd, rn, rm) = Logical(p, rd, 1, And(x, Not(y)), carry)
    BY <1>3, <1>4 DEF Operate, bic
<1>11. Run(p, 15, 1, rd, rn, rm) = Logical(p, rd, 1, Not(y), carry)
    BY <1>3, <1>4 DEF Operate, mvn
<1>12. \A res \in Word :
          /\ MakesLogically(p, Logical(p, rd, 1, res, carry), rd, res, carry)
          /\ MakesLogically(p, update_flags1(p, res, carry), -1, res, carry)
    BY MakesLogical
<1>. QED BY <1>2, <1>5, <1>6, <1>7, <1>8, <1>9, <1>10, <1>11, <1>12 DEF carry

(* The same for the additions and the subtractions.                        *)
LEMMA SumRuns ==
    ASSUME NEW p \in Processors, NEW rd \in 0 .. 3, NEW rn \in 0 .. 3, NEW rm \in 0 .. 3,
           NEW x, NEW y, x = Low(p, rn), y = Low(p, rm)
    PROVE  /\ x \in Word /\ y \in Word
           /\ Run(p, 2, 1, rd, rn, rm) = Subtract(p, rd, 1, x, y)
           /\ Run(p, 3, 1, rd, rn, rm) = Subtract(p, rd, 1, y, x)
           /\ Run(p, 4, 1, rd, rn, rm) = add(p, rd, 1, x, y)
           /\ Run(p, 4, 0, rd, rn, rm) = WriteResult(p, rd, 0, Plus(x, y))
           /\ Run(p, 5, 1, rd, rn, rm) = adc(p, rd, 1, x, y)
           /\ Run(p, 6, 1, rd, rn, rm) = SubtractWithCarry(p, rd, 1, x, y)
           /\ Run(p, 7, 1, rd, rn, rm) = SubtractWithCarry(p, rd, 1, y, x)
           /\ Run(p, 10, 1, rd, rn, rm) = cmp(p, x, y)
<1> DEFINE carry == CarryOf(p)
           ins(op, s) == Register(op, s, rd, rn, rm)
           o == Operand(y, carry)
<1>1. x \in Word /\ y \in Word
    BY LowRegisters DEF Low
<1>3. o.so = y
    BY DEF Operand
<1>4. ASSUME NEW op \in {2, 3, 4, 5, 6, 7, 10}, NEW s \in {0, 1}
      PROVE  /\ Run(p, op, s, rd, rn, rm) = Operate(p, ins(op, s), x, o)
             /\ opcode(ins(op, s)) = op /\ ins(op, s).rd = rd /\ ins(op, s).l = s
    <2>1. op \in 0 .. 15 /\ s \in Bit
        BY DEF Bit
    <2>2. Plainly(p, op, s, rd, rn, rm)
        BY <2>1, Plain
    <2>. QED BY <2>2 DEF Plainly
<1> HIDE DEF ins, o, carry
<1>5. Run(p, 2, 1, rd, rn, rm) = Subtract(p, rd, 1, x, y)
    BY <1>3, <1>4 DEF Operate, sub
<1>6. Run(p, 3, 1, rd, rn, rm) = Subtract(p, rd, 1, y, x)
    BY <1>3, <1>4 DEF Operate, rsb
<1>7. Run(p, 4, 1, rd, rn, rm) = add(p, rd, 1, x, y)
    BY <1>3, <1>4 DEF Operate
<1>8. Run(p, 4, 0, rd, rn, rm) = WriteResult(p, rd, 0, Plus(x, y))
    <2>1. Run(p, 4, 0, rd, rn, rm) = add(p, rd, 0, x, y)
        BY <1>3, <1>4 DEF Operate
    <2>. QED BY <2>1 DEF add, WithFlags
<1>9. Run(p, 5, 1, rd, rn, rm) = adc(p, rd, 1, x, y)
    BY <1>3, <1>4 DEF Operate
<1>10. Run(p, 6, 1, rd, rn, rm) = SubtractWithCarry(p, rd, 1, x, y)
    BY <1>3, <1>4 DEF Operate, sbc
<1>11. Run(p, 7, 1, rd, rn, rm) = SubtractWithCarry(p, rd, 1, y, x)
    BY <1>3, <1>4 DEF Operate, rsc
<1>12. Run(p, 10, 1, rd, rn, rm) = cmp(p, x, y)
    BY <1>3, <1>4 DEF Operate
<1>. QED BY <1>1, <1>5, <1>6, <1>7, <1>8, <1>9, <1>10, <1>11, <1>12

(* The processors between the instructions of a program that has ended.    *)
LEMMA Ended ==
    ASSUME AluInv, next > Len(code)
    PROVE  \E h : /\ h \in [1 .. Len(code) + 1 -> Processors]
                  /\ h[1] = start /\ h[Len(code) + 1] = arm
                  /\ \A k \in 1 .. Len(code) :
                        h[k + 1] = arm_data_processing_shift(h[k], code[k]).p
<1>1. Len(code) \in Nat /\ next = Len(code) + 1
    BY ProgramText DEF AluInv
<1>2. next - 1 = Len(code)
    BY <1>1
<1>. QED BY <1>1, <1>2 DEF AluInv, Path

-----------------------------------------------------------------------------
(* What uint32_t additions and subtractions compute.                       *)
LEMMA SumValues ==
    ASSUME NEW x \in Word, NEW y \in Word
    PROVE  /\ x \in Nat /\ y \in Nat /\ x < Modulus /\ y < Modulus
           /\ Plus(x, y) = IF x + y < Modulus THEN x + y ELSE x + y - Modulus
           /\ Minus(x, y) = IF x < y THEN x - y + Modulus ELSE x - y
<1>1. x \in Nat /\ y \in Nat /\ x < Modulus /\ y < Modulus /\ Modulus \in Nat \ {0}
    BY Words, Bases
<1>2. Plus(x, y) = IF x + y < Modulus THEN x + y ELSE x + y - Modulus
    <2> DEFINE z == x + y
    <2>1. z \in Int /\ -Modulus <= z /\ z < 2 * Modulus /\ ~ (z < 0)
        BY <1>1
    <2> HIDE DEF z
    <2>2. z % Modulus = IF z < 0 THEN z + Modulus ELSE IF z < Modulus THEN z ELSE z - Modulus
        BY <1>1, <2>1, NearMod
    <2>3. z % Modulus = IF z < Modulus THEN z ELSE z - Modulus
        BY <2>1, <2>2
    <2>4. Plus(x, y) = z % Modulus
        BY DEF Plus, z
    <2>5. z = x + y
        BY DEF z
    <2>. QED BY <1>1, <2>1, <2>3, <2>4, <2>5
<1>3. Minus(x, y) = IF x < y THEN x - y + Modulus ELSE x - y
    <2>1. x - y \in Int /\ -Modulus <= x - y /\ x - y < 2 * Modulus /\ x - y < Modulus
        BY <1>1
    <2>2. (x - y) % Modulus = IF x - y < 0 THEN x - y + Modulus
                              ELSE IF x - y < Modulus THEN x - y ELSE x - y - Modulus
        BY <1>1, <2>1, NearMod
    <2>3. x - y < 0 <=> x < y
        BY <1>1
    <2>. QED BY <2>1, <2>2, <2>3 DEF Minus
<1>. QED BY <1>1, <1>2, <1>3

(* The highest bit of a word is its sign.                                  *)
LEMMA SignBit ==
    /\ Modulus \div 2 \in Nat \ {0} /\ Modulus = 2 * (Modulus \div 2)
    /\ Exp2[WordBits - 1] = Modulus \div 2
    /\ \A x \in Word : get_bit(x, WordBits - 1) = IF x >= Modulus \div 2 THEN 1 ELSE 0
<1> DEFINE e == Exp2[WordBits - 1]
<1>1. WordBits \in 1 .. WordBits /\ WordBits - 1 \in 0 .. WordBits
    BY Widths
<1>2. e \in Nat \ {0} /\ Modulus = 2 * e
    BY <1>1, Powers, Doubling, Bases
<1>3. Modulus \div 2 = e
    <2> HIDE DEF e
    <2>. QED BY <1>2
<1>4. ASSUME NEW x \in Word
      PROVE  get_bit(x, WordBits - 1) = IF x >= e THEN 1 ELSE 0
    <2> HIDE DEF e
    <2>1. x \in Nat /\ x < 2 * e
        BY <1>2, Words, Bases
    <2>2. x \div e = IF x >= e THEN 1 ELSE 0
        <3>1. CASE x >= e
            <4>1. x - e \in 0 .. e - 1 /\ x = 1 * e + (x - e)
                BY <1>2, <2>1, <3>1
            <4>2. (1 * e + (x - e)) \div e = 1
                BY <1>2, <4>1, DivMod
            <4>. QED BY <3>1, <4>1, <4>2
        <3>2. CASE x < e
            <4>1. x \in 0 .. e - 1 /\ x = 0 * e + x
                BY <1>2, <2>1, <3>2
            <4>2. (0 * e + x) \div e = 0
                BY <1>2, <4>1, DivMod
            <4>3. ~ (x >= e)
                BY <1>2, <2>1, <3>2
            <4>. QED BY <4>1, <4>2, <4>3
        <3>. QED BY <1>2, <2>1, <3>1, <3>2
    <2>. QED BY <2>2 DEF get_bit, e
<1>. QED BY <1>2, <1>3, <1>4

(* The flags of a comparison, as the orders of the two operands.           *)
LEMMA CompareFlags ==
    ASSUME NEW a \in Word, NEW b \in Word
    PROVE  LET n == get_bit(Minus(a, b), WordBits - 1) = 1
               v == overflowFrom(a, b, FALSE)
           IN  /\ Minus(a, b) = 0 <=> a = b
               /\ ~ borrowFrom(a, b) <=> a >= b
               /\ (v <=> n) <=> Signed(a) >= Signed(b)
               /\ Signed(a) \in Int /\ Signed(b) \in Int
               /\ Signed(a) = Signed(b) <=> a = b
               /\ n <=> Signed((a - b) % Modulus) < 0
               /\ v <=> Signed(a) - Signed(b) # Signed((a - b) % Modulus)
<1> DEFINE h == Modulus \div 2
           m == Minus(a, b)
<1>1. h \in Nat \ {0} /\ Modulus = 2 * h
    BY SignBit
<1>2. a \in Nat /\ b \in Nat /\ a < 2 * h /\ b < 2 * h
      /\ m = IF a < b THEN a - b + 2 * h ELSE a - b
    BY <1>1, SumValues
<1>3. m \in Word
    BY Wraps, Words
<1>4. /\ get_bit(a, WordBits - 1) = IF a >= h THEN 1 ELSE 0
      /\ get_bit(b, WordBits - 1) = IF b >= h THEN 1 ELSE 0
      /\ get_bit(m, WordBits - 1) = IF m >= h THEN 1 ELSE 0
    BY <1>3, SignBit
<1>5. Signed(a) = IF a >= h THEN a - 2 * h ELSE a
    BY <1>1 DEF Signed
<1>6. Signed(b) = IF b >= h THEN b - 2 * h ELSE b
    BY <1>1 DEF Signed
<1>7. overflowFrom(a, b, FALSE) <=> (~ (a >= h <=> b >= h) /\ ~ (a >= h <=> m >= h))
    <2> HIDE DEF m, h
    <2>1. overflowFrom(a, b, FALSE) <=>
             /\ get_bit(a, WordBits - 1) # get_bit(b, WordBits - 1)
             /\ get_bit(a, WordBits - 1) # get_bit(m, WordBits - 1)
        BY DEF overflowFrom, m
    <2>2. get_bit(a, WordBits - 1) # get_bit(b, WordBits - 1) <=> ~ (a >= h <=> b >= h)
        BY <1>4
    <2>3. get_bit(a, WordBits - 1) # get_bit(m, WordBits - 1) <=> ~ (a >= h <=> m >= h)
        BY <1>4
    <2>. QED BY <2>1, <2>2, <2>3, Zenon
<1>8. get_bit(m, WordBits - 1) = 1 <=> m >= h
    BY <1>4
<1> HIDE DEF m, h
<1>9. m = 0 <=> a = b
    BY <1>1, <1>2
<1>10. ~ borrowFrom(a, b) <=> a >= b
    BY <1>2 DEF borrowFrom
<1>11. Signed(a) \in Int /\ Signed(b) \in Int
    BY <1>1, <1>2, <1>5, <1>6
<1>12. Signed(a) = Signed(b) <=> a = b
    BY <1>1, <1>2, <1>5, <1>6
<1>13. (~ (a >= h <=> b >= h) /\ ~ (a >= h <=> m >= h) <=> m >= h) <=> Signed(a) >= Signed(b)
    <2>1. CASE a >= h /\ b >= h
        BY <1>1, <1>2, <1>5, <1>6, <2>1
    <2>2. CASE a >= h /\ b < h
        BY <1>1, <1>2, <1>5, <1>6, <2>2
    <2>3. CASE a < h /\ b >= h
        BY <1>1, <1>2, <1>5, <1>6, <2>3
    <2>4. CASE a < h /\ b < h
        BY <1>1, <1>2, <1>5, <1>6, <2>4
    <2>. QED BY <1>1, <1>2, <2>1, <2>2, <2>3, <2>4
<1>14. (overflowFrom(a, b, FALSE) <=> get_bit(m, WordBits - 1) = 1) <=> Signed(a) >= Signed(b)
    BY <1>7, <1>8, <1>13, Zenon
<1>15. m = (a - b) % Modulus
    BY DEF m, Minus
<1>16. Signed(m) = IF m >= h THEN m - 2 * h ELSE m
    BY <1>1 DEF Signed, h
<1>17. m \in Nat /\ m < 2 * h
    BY <1>1, <1>2
<1>18. get_bit(m, WordBits - 1) = 1 <=> Signed(m) < 0
    <2>1. m >= h <=> Signed(m) < 0
        BY <1>1, <1>16, <1>17
    <2>. QED BY <1>8, <2>1
<1>19. overflowFrom(a, b, FALSE) <=> Signed(a) - Signed(b) # Signed(m)
    <2>1. ~ (a >= h <=> b >= h) /\ ~ (a >= h <=> m >= h) <=> Signed(a) - Signed(b) # Signed(m)
        <3>1. CASE a >= h /\ b >= h
            BY <1>1, <1>2, <1>5, <1>6, <1>16, <3>1
        <3>2. CASE a >= h /\ b < h
            BY <1>1, <1>2, <1>5, <1>6, <1>16, <3>2
        <3>3. CASE a < h /\ b >= h
            BY <1>1, <1>2, <1>5, <1>6, <1>16, <3>3
        <3>4. CASE a < h /\ b < h
            BY <1>1, <1>2, <1>5, <1>6, <1>16, <3>4
        <3>. QED BY <1>1, <1>2, <3>1, <3>2, <3>3, <3>4
    <2>. QED BY <1>7, <2>1, Zenon
<1>20. /\ get_bit(m, WordBits - 1) = 1 <=> Signed((a - b) % Modulus) < 0
       /\ overflowFrom(a, b, FALSE) <=> Signed(a) - Signed(b) # Signed((a - b) % Modulus)
    BY <1>15, <1>18, <1>19, Zenon
<1>. QED BY <1>9, <1>10, <1>11, <1>12, <1>14, <1>20, Zenon DEF m

-----------------------------------------------------------------------------
(* conditionPassed tests the flags that its name says.                     *)
Tests(p, n, z, c, v) ==
    /\ conditionPassed(p, 0) = z /\ conditionPassed(p, 1) = ~ z
    /\ conditionPassed(p, 2) = c /\ conditionPassed(p, 3) = ~ c
    /\ conditionPassed(p, 4) = n /\ conditionPassed(p, 5) = ~ n
    /\ conditionPassed(p, 6) = v /\ conditionPassed(p, 7) = ~ v
    /\ conditionPassed(p, 8) = (c /\ ~ z) /\ conditionPassed(p, 9) = (~ c \/ z)
    /\ conditionPassed(p, 10) = (v <=> n) /\ conditionPassed(p, 11) = ~ (v <=> n)
    /\ conditionPassed(p, 12) = (~ z /\ (v <=> n))
    /\ conditionPassed(p, 13) = (z \/ ~ (v <=> n))
    /\ conditionPassed(p, 14) = TRUE /\ conditionPassed(p, 15) = FALSE

(* The flags n, z, c and v decide the conditions of p as named there.      *)
LEMMA Conditions ==
    ASSUME NEW p, NEW n \in BOOLEAN, NEW z \in BOOLEAN, NEW c \in BOOLEAN, NEW v \in BOOLEAN,
           Flagged(p, n, z, c, v)
    PROVE  Tests(p, n, z, c, v)
<1> DEFINE f(i) == get_bit(arm_read_cpsr(p), i) = 1
<1>1. f(N) = n /\ f(Z) = z /\ f(C) = c /\ f(V) = v
    BY DEF Flagged
<1>2. \A k : conditionPassed(p, k) = Condition(k, f(N), f(Z), f(C), f(V))
    BY DEF conditionPassed
<1>3. \A k : conditionPassed(p, k) = Condition(k, n, z, c, v)
    BY <1>1, <1>2
<1>4. /\ Condition(0, n, z, c, v) = z /\ Condition(1, n, z, c, v) = ~ z
      /\ Condition(2, n, z, c, v) = c /\ Condition(3, n, z, c, v) = ~ c
      /\ Condition(4, n, z, c, v) = n /\ Condition(5, n, z, c, v) = ~ n
      /\ Condition(6, n, z, c, v) = v /\ Condition(7, n, z, c, v) = ~ v
      /\ Condition(8, n, z, c, v) = (c /\ ~ z) /\ Condition(9, n, z, c, v) = (~ c \/ z)
    BY DEF Condition
<1>5. /\ Condition(10, n, z, c, v) = (v <=> n) /\ Condition(11, n, z, c, v) = ~ (v <=> n)
      /\ Condition(12, n, z, c, v) = (~ z /\ (v <=> n))
      /\ Condition(13, n, z, c, v) = (z \/ ~ (v <=> n))
      /\ Condition(14, n, z, c, v) = TRUE /\ Condition(15, n, z, c, v) = FALSE
    BY DEF Condition
<1>. QED BY <1>3, <1>4, <1>5 DEF Tests

(* Every condition after cmp is the comparison it is named after.          *)
LEMMA Compared ==
    ASSUME AluInv, Finished({Compare})
    PROVE  CompareOrders
<1> DEFINE a == X(0)
           b == X(1)
           n == get_bit(Minus(a, b), WordBits - 1) = 1
           v == overflowFrom(a, b, FALSE)
           z == Minus(a, b) = 0
           c == ~ borrowFrom(a, b)
<1>1. code = Compare /\ Len(code) = 1 /\ next > Len(code) /\ code[1] = Register(10, 1, 0, 0, 1)
    BY DEF Finished, Compare
<1>2. start \in Processors /\ arm = Run(start, 10, 1, 0, 0, 1)
    <2>1. PICK h : /\ h \in [1 .. Len(code) + 1 -> Processors]
                   /\ h[1] = start /\ h[Len(code) + 1] = arm
                   /\ \A k \in 1 .. Len(code) :
                         h[k + 1] = arm_data_processing_shift(h[k], code[k]).p
        BY <1>1, Ended
    <2>2. 1 \in 1 .. Len(code) /\ Len(code) + 1 = 1 + 1
        BY <1>1
    <2>. QED BY <1>1, <2>1, <2>2 DEF Run, AluInv
<1>3. a \in Word /\ b \in Word /\ a = Low(start, 0) /\ b = Low(start, 1)
    BY <1>2, LowRegisters DEF X, Low
<1>4. Makes(start, arm, -1, Minus(a, b), c, v)
    <2>1. arm = cmp(start, a, b)
        BY <1>2, <1>3, SumRuns
    <2> HIDE DEF a, b
    <2>2. Makes(start, cmp(start, a, b), -1, Minus(a, b), ~ borrowFrom(a, b),
                overflowFrom(a, b, FALSE))
        <3>1. 0 \in 0 .. 3
            OBVIOUS
        <3>. QED BY <1>2, <1>3, <3>1, MakesSum
    <2>. QED BY <2>1, <2>2
<1>5. Flagged(arm, n, z, c, v)
    BY <1>4 DEF Makes
<1>6. n \in BOOLEAN /\ v \in BOOLEAN /\ z \in BOOLEAN /\ c \in BOOLEAN
    BY DEF overflowFrom
<1>7. /\ z <=> a = b
      /\ c <=> a >= b
      /\ (v <=> n) <=> Signed(a) >= Signed(b)
      /\ Signed(a) \in Int /\ Signed(b) \in Int
      /\ Signed(a) = Signed(b) <=> a = b
      /\ n <=> Signed((a - b) % Modulus) < 0
      /\ v <=> Signed(a) - Signed(b) # Signed((a - b) % Modulus)
    <2> HIDE DEF a, b
    <2>1. a \in Word /\ b \in Word
        BY <1>3
    <2>. QED BY <2>1, CompareFlags, Zenon
<1> HIDE DEF n, v, z, c
<1> DEFINE P(k) == conditionPassed(arm, k)
<1>8. /\ P(0) = z /\ P(1) = ~ z /\ P(2) = c /\ P(3) = ~ c /\ P(4) = n /\ P(5) = ~ n
      /\ P(6) = v /\ P(7) = ~ v /\ P(8) = (c /\ ~ z) /\ P(9) = (~ c \/ z)
      /\ P(10) = (v <=> n) /\ P(11) = ~ (v <=> n)
      /\ P(12) = (~ z /\ (v <=> n)) /\ P(13) = (z \/ ~ (v <=> n))
      /\ P(14) = TRUE /\ P(15) = FALSE
    <2>1. Tests(arm, n, z, c, v)
        BY <1>5, <1>6, Conditions
    <2>. QED BY <2>1 DEF Tests
<1> HIDE DEF P, a, b
<1>9. P(0) = (a = b) /\ P(2) = (a >= b)
    BY <1>6, <1>7, <1>8
<1>10. P(8) = (a > b)
    <2>1. c /\ ~ z <=> a > b
        BY <1>3, <1>7, Words
    <2>. QED BY <1>8, <2>1
<1>11. P(10) = (Signed(a) >= Signed(b))
    BY <1>7, <1>8
<1>12. P(12) = (Signed(a) > Signed(b))
    <2>1. ~ z /\ (v <=> n) <=> Signed(a) > Signed(b)
        BY <1>7
    <2>. QED BY <1>8, <2>1
<1>13. \A k \in {0, 2, 4, 6, 8, 10, 12} : P(k) # P(k + 1)
    <2>1. P(0) # P(1) /\ P(2) # P(3) /\ P(4) # P(5) /\ P(6) # P(7) /\ P(8) # P(9)
          /\ P(10) # P(11) /\ P(12) # P(13)
        BY <1>6, <1>8
    <2>. QED BY <2>1
<1>14. P(14) /\ ~ P(15)
    BY <1>8
<1>15. /\ P(4) = (Signed((a - b) % Modulus) < 0)
       /\ P(6) = (Signed(a) - Signed(b) # Signed((a - b) % Modulus))
    BY <1>6, <1>7, <1>8
<1>. QED BY <1>9, <1>10, <1>11, <1>12, <1>13, <1>14, <1>15 DEF CompareOrders, P, a, b

(* For every word width and all operands, the flags of cmp and the tests   *)
(* of conditionPassed agree on the signed and the unsigned order, on the   *)
(* sign of the difference and on its overflow.                             *)
THEOREM ConditionsOrder == Spec => []CompareOrders
<1>1. AluInv => CompareOrders
    <2>1. ~ Finished({Compare}) => CompareOrders
        BY DEF CompareOrders
    <2>. QED BY <2>1, Compared
<1>. QED BY <1>1, AluInvariant, PTL

-----------------------------------------------------------------------------
(* A program of two instructions.                                          *)
LEMMA TwoRuns ==
    ASSUME AluInv, next > Len(code), NEW i, NEW j, code = <<i, j>>
    PROVE  /\ start \in Processors
           /\ arm = arm_data_processing_shift(arm_data_processing_shift(start, i).p, j).p
<1>1. Len(code) = 2 /\ code[1] = i /\ code[2] = j
    OBVIOUS
<1>2. PICK h : /\ h \in [1 .. Len(code) + 1 -> Processors]
               /\ h[1] = start /\ h[Len(code) + 1] = arm
               /\ \A k \in 1 .. Len(code) :
                     h[k + 1] = arm_data_processing_shift(h[k], code[k]).p
    BY Ended
<1>3. 1 \in 1 .. Len(code) /\ 2 \in 1 .. Len(code) /\ 1 + 1 = 2 /\ 2 + 1 = Len(code) + 1
    BY <1>1
<1>4. h[2] = arm_data_processing_shift(start, i).p
    BY <1>1, <1>2, <1>3
<1>5. arm = arm_data_processing_shift(h[2], j).p
    BY <1>1, <1>2, <1>3
<1>. QED BY <1>4, <1>5 DEF AluInv

(* Double words: the range of one, and its place among the multiples of    *)
(* the modulus.                                                            *)
LEMMA DoubleWords ==
    ASSUME NEW M \in Nat \ {0}, NEW x \in 0 .. M - 1, NEW y \in 0 .. M - 1
    PROVE  x * M + y \in 0 .. M * M - 1 /\ M * M \in Nat \ {0}
<1>1. x * M <= (M - 1) * M /\ x * M >= 0 /\ x * M \in Int
    OBVIOUS
<1>2. (M - 1) * M = M * M - M /\ M * M \in Int
    OBVIOUS
<1> DEFINE a == x * M
           b == M * M
<1>3. a <= b - M /\ a >= 0 /\ a \in Int /\ b \in Int
    BY <1>1, <1>2
<1> HIDE DEF a, b
<1>4. a + y \in 0 .. b - 1 /\ b \in Nat \ {0}
    BY <1>3
<1>. QED BY <1>4 DEF a, b

(* Addition of double words by two additions with a carry between them.    *)
LEMMA LongSum ==
    ASSUME NEW M \in Nat \ {0}, NEW a0 \in Nat, NEW a1 \in Nat, NEW b0 \in Nat, NEW b1 \in Nat,
           NEW lo \in 0 .. M - 1, NEW hi \in 0 .. M - 1, NEW c \in {0, 1}, NEW d \in {0, 1},
           lo + c * M = a0 + b0, hi + d * M = a1 + b1 + c
    PROVE  LET s == (a1 * M + a0) + (b1 * M + b0)
           IN  /\ hi * M + lo = s % (M * M)
               /\ d = s \div (M * M)
<1> DEFINE s == (a1 * M + a0) + (b1 * M + b0)
           B == M * M
           r == hi * M + lo
<1>1. r \in 0 .. B - 1 /\ B \in Nat \ {0}
    BY DoubleWords
<1>2. s = d * B + r
    <2>1. (a1 + b1) * M = (hi + d * M - c) * M
        <3>1. a1 + b1 = hi + d * M - c
            OBVIOUS
        <3>. QED BY <3>1
    <2>2. (a1 + b1) * M = a1 * M + b1 * M
        OBVIOUS
    <2>3. (hi + d * M - c) * M = hi * M + d * (M * M) - c * M
        <3>1. CASE c = 0 /\ d = 0
            BY <3>1
        <3>2. CASE c = 1 /\ d = 0
            BY <3>2
        <3>3. CASE c = 0 /\ d = 1
            BY <3>3
        <3>4. CASE c = 1 /\ d = 1
            BY <3>4
        <3>. QED BY <3>1, <3>2, <3>3, <3>4
    <2> DEFINE e1 == a1 * M
               e2 == b1 * M
               e3 == hi * M
               e4 == d * (M * M)
               e5 == c * M
    <2>4. e1 \in Int /\ e2 \in Int /\ e3 \in Int /\ e4 \in Int /\ e5 \in Int
          /\ e1 + e2 = e3 + e4 - e5 /\ lo + e5 = a0 + b0
        BY <2>1, <2>2, <2>3
    <2> HIDE DEF e1, e2, e3, e4, e5
    <2>5. (e1 + a0) + (e2 + b0) = e4 + (e3 + lo)
        BY <2>4
    <2>. QED BY <2>5 DEF e1, e2, e3, e4
<1> HIDE DEF s, B, r
<1>3. d \in Nat
    OBVIOUS
<1>4. (d * B + r) \div B = d /\ (d * B + r) % B = r
    BY <1>1, <1>3, DivMod
<1>5. r = s % B /\ d = s \div B
    BY <1>2, <1>4
<1>. QED BY <1>5 DEF s, B, r

(* Subtraction of double words by two subtractions with a borrow.          *)
LEMMA LongDifference ==
    ASSUME NEW M \in Nat \ {0}, NEW a0 \in 0 .. M - 1, NEW a1 \in 0 .. M - 1,
           NEW b0 \in 0 .. M - 1, NEW b1 \in 0 .. M - 1,
           NEW lo \in 0 .. M - 1, NEW hi \in 0 .. M - 1, NEW c \in {0, 1}, NEW d \in {0, 1},
           lo = a0 - b0 + c * M, hi = a1 - b1 - c + d * M
    PROVE  hi * M + lo = ((a1 * M + a0) - (b1 * M + b0)) % (M * M)
<1> DEFINE s == (a1 * M + a0) - (b1 * M + b0)
           B == M * M
           r == hi * M + lo
<1>1. r \in 0 .. B - 1 /\ B \in Nat \ {0}
    BY DoubleWords
<1>2. s = r - d * B
    <2>1. (a1 - b1) * M = (hi - d * M + c) * M
        <3>1. a1 - b1 = hi - d * M + c
            OBVIOUS
        <3>. QED BY <3>1
    <2>2. (a1 - b1) * M = a1 * M - b1 * M
        OBVIOUS
    <2>3. (hi - d * M + c) * M = hi * M - d * (M * M) + c * M
        <3>1. CASE c = 0 /\ d = 0
            BY <3>1
        <3>2. CASE c = 1 /\ d = 0
            BY <3>2
        <3>3. CASE c = 0 /\ d = 1
            BY <3>3
        <3>4. CASE c = 1 /\ d = 1
            BY <3>4
        <3>. QED BY <3>1, <3>2, <3>3, <3>4
    <2> DEFINE e1 == a1 * M
               e2 == b1 * M
               e3 == hi * M
               e4 == d * (M * M)
               e5 == c * M
    <2>4. e1 \in Int /\ e2 \in Int /\ e3 \in Int /\ e4 \in Int /\ e5 \in Int
          /\ e1 - e2 = e3 - e4 + e5 /\ lo = a0 - b0 + e5
        BY <2>1, <2>2, <2>3
    <2> HIDE DEF e1, e2, e3, e4, e5
    <2>5. (e1 + a0) - (e2 + b0) = (e3 + lo) - e4
        BY <2>4
    <2>. QED BY <2>5 DEF e1, e2, e3, e4
<1> HIDE DEF s, B, r
<1>3. CASE d = 0
    <2>1. s = r
        BY <1>1, <1>2, <1>3
    <2>2. s \in Int /\ -B <= s /\ s < 2 * B /\ ~ (s < 0) /\ s < B
        BY <1>1, <2>1
    <2>3. s % B = IF s < 0 THEN s + B ELSE IF s < B THEN s ELSE s - B
        BY <1>1, <2>2, NearMod
    <2>4. r = s % B
        BY <2>1, <2>2, <2>3
    <2>. QED BY <2>4 DEF s, B, r
<1>4. CASE d = 1
    <2>1. s = r - B
        BY <1>1, <1>2, <1>4
    <2>2. s \in Int /\ -B <= s /\ s < 2 * B /\ s < 0 /\ s + B = r
        BY <1>1, <2>1
    <2>3. s % B = IF s < 0 THEN s + B ELSE IF s < B THEN s ELSE s - B
        BY <1>1, <2>2, NearMod
    <2>4. r = s % B
        BY <2>2, <2>3
    <2>. QED BY <2>4 DEF s, B, r
<1>. QED BY <1>3, <1>4

\* A flag as a number.
One(b) == IF b THEN 1 ELSE 0

(* The carry and the borrow make up for what the width of a word loses.    *)
LEMMA Carried ==
    ASSUME NEW x \in Word, NEW y \in Word
    PROVE  /\ Plus(x, y) + One(carryFrom(x, y)) * Modulus = x + y
           /\ Minus(x, y) = x - y + One(borrowFrom(x, y)) * Modulus
<1>1. /\ x \in Nat /\ y \in Nat /\ x < Modulus /\ y < Modulus
      /\ Plus(x, y) = IF x + y < Modulus THEN x + y ELSE x + y - Modulus
      /\ Minus(x, y) = IF x < y THEN x - y + Modulus ELSE x - y
    BY SumValues
<1>2. Modulus \in Nat
    BY Bases
<1>3. carryFrom(x, y) <=> ~ (x + y < Modulus)
    BY <1>1, <1>2 DEF carryFrom
<1>4. Plus(x, y) + One(carryFrom(x, y)) * Modulus = x + y
    <2>1. CASE x + y < Modulus
        BY <1>1, <1>2, <1>3, <2>1 DEF One
    <2>2. CASE ~ (x + y < Modulus)
        BY <1>1, <1>2, <1>3, <2>2 DEF One
    <2>. QED BY <2>1, <2>2
<1>5. Minus(x, y) = x - y + One(borrowFrom(x, y)) * Modulus
    <2>1. CASE x < y
        BY <1>1, <1>2, <2>1 DEF One, borrowFrom
    <2>2. CASE ~ (x < y)
        BY <1>1, <1>2, <2>2 DEF One, borrowFrom
    <2>. QED BY <2>1, <2>2
<1>. QED BY <1>4, <1>5

\* The difference of x, y and a borrow, but for a multiple of the modulus.
Borrows(x, y, c) ==
    \E d \in {0, 1} : Minus(Minus(x, y), c) = x - y - c + d * Modulus

(* The same with a carry or a borrow coming in.                            *)
LEMMA CarriedOn ==
    ASSUME NEW x \in Word, NEW y \in Word, NEW c \in {0, 1}
    PROVE  /\ Plus(Plus(x, y), c) \in Word /\ Minus(Minus(x, y), c) \in Word
           /\ Plus(Plus(x, y), c) + One(carryFrom(x, y) \/ carryFrom(Plus(x, y), c)) * Modulus
                = x + y + c
           /\ Borrows(x, y, c)
<1> DEFINE p == Plus(x, y)
           m == Minus(x, y)
           f == carryFrom(x, y)
           g == carryFrom(p, c)
           b == borrowFrom(x, y)
           e == borrowFrom(m, c)
<1>1. x \in Nat /\ y \in Nat /\ x < Modulus /\ y < Modulus /\ Modulus \in Nat /\ c \in Word
    BY Words, Bases
<1>2. p \in Word /\ m \in Word
    BY <1>1, Wraps
<1>3. p + One(f) * Modulus = x + y /\ m = x - y + One(b) * Modulus
    BY Carried
<1> HIDE DEF p, m
<1>4. Plus(p, c) \in Word /\ Minus(m, c) \in Word
    BY <1>1, <1>2, Wraps, Words
<1>5. Plus(p, c) + One(g) * Modulus = p + c /\ Minus(m, c) = m - c + One(e) * Modulus
    BY <1>1, <1>2, Carried
<1>6. p \in Nat /\ p < Modulus /\ m \in Nat /\ m < Modulus
      /\ Plus(p, c) \in Nat /\ Plus(p, c) < Modulus /\ Minus(m, c) \in Nat
      /\ Minus(m, c) < Modulus
    BY <1>2, <1>4, Words
<1> DEFINE pc == Plus(p, c)
           mc == Minus(m, c)
<1> HIDE DEF f, g, b, e, pc, mc
<1>7. pc + One(f \/ g) * Modulus = x + y + c
    <2>1. CASE f /\ g
        BY <1>1, <1>3, <1>5, <1>6, <2>1 DEF One, pc
    <2>2. CASE f /\ ~ g
        BY <1>1, <1>3, <1>5, <1>6, <2>2 DEF One, pc
    <2>3. CASE ~ f /\ g
        BY <1>1, <1>3, <1>5, <1>6, <2>3 DEF One, pc
    <2>4. CASE ~ f /\ ~ g
        BY <1>1, <1>3, <1>5, <1>6, <2>4 DEF One, pc
    <2>. QED BY <2>1, <2>2, <2>3, <2>4
<1>8. \E d \in {0, 1} : mc = x - y - c + d * Modulus
    <2>1. CASE b /\ e
        BY <1>1, <1>3, <1>5, <1>6, <2>1 DEF One, mc
    <2>2. CASE b /\ ~ e
        <3>1. mc = x - y - c + 1 * Modulus
            BY <1>1, <1>3, <1>5, <1>6, <2>2 DEF One, mc
        <3>. QED BY <3>1
    <2>3. CASE ~ b /\ e
        <3>1. mc = x - y - c + 1 * Modulus
            BY <1>1, <1>3, <1>5, <1>6, <2>3 DEF One, mc
        <3>. QED BY <3>1
    <2>4. CASE ~ b /\ ~ e
        <3>1. mc = x - y - c + 0 * Modulus
            BY <1>1, <1>3, <1>5, <1>6, <2>4 DEF One, mc
        <3>. QED BY <3>1
    <2>. QED BY <2>1, <2>2, <2>3, <2>4
<1>9. Borrows(x, y, c)
    BY <1>8 DEF Borrows, mc, m
<1>. QED BY <1>4, <1>7, <1>9 DEF p, m, f, g, pc

\* q has res in register rd and the carry flag of c, and else the registers of p.
Carries(p, q, rd, res, c) ==
    /\ q \in Processors
    /\ \A k \in 0 .. 3 : Low(q, k) = IF k = rd THEN res ELSE Low(p, k)
    /\ CarryOf(q) = One(c)

(* adds and adcs, subs and sbcs, rsbs and rscs.                            *)
LEMMA LongRuns ==
    ASSUME NEW p \in Processors, NEW rd \in 0 .. 3, NEW rn \in 0 .. 3, NEW rm \in 0 .. 3,
           NEW x, NEW y, x = Low(p, rn), y = Low(p, rm)
    PROVE  /\ Carries(p, Run(p, 4, 1, rd, rn, rm), rd, Plus(x, y), carryFrom(x, y))
           /\ Carries(p, Run(p, 2, 1, rd, rn, rm), rd, Minus(x, y), ~ borrowFrom(x, y))
           /\ Carries(p, Run(p, 3, 1, rd, rn, rm), rd, Minus(y, x), ~ borrowFrom(y, x))
           /\ Carries(p, Run(p, 5, 1, rd, rn, rm), rd, Plus(Plus(x, y), CarryOf(p)),
                      carryFrom(x, y) \/ carryFrom(Plus(x, y), CarryOf(p)))
           /\ \E c : Carries(p, Run(p, 6, 1, rd, rn, rm), rd,
                             Minus(Minus(x, y), 1 - CarryOf(p)), c)
           /\ \E c : Carries(p, Run(p, 7, 1, rd, rn, rm), rd,
                             Minus(Minus(y, x), 1 - CarryOf(p)), c)
<1>1. \A q, res, c, v : Makes(p, q, rd, res, c, v) => Carries(p, q, rd, res, c)
    BY DEF Makes, Carries, Flagged, CarryOf, One
<1>2. /\ x \in Word /\ y \in Word
      /\ Run(p, 2, 1, rd, rn, rm) = Subtract(p, rd, 1, x, y)
      /\ Run(p, 3, 1, rd, rn, rm) = Subtract(p, rd, 1, y, x)
      /\ Run(p, 4, 1, rd, rn, rm) = add(p, rd, 1, x, y)
      /\ Run(p, 5, 1, rd, rn, rm) = adc(p, rd, 1, x, y)
      /\ Run(p, 6, 1, rd, rn, rm) = SubtractWithCarry(p, rd, 1, x, y)
      /\ Run(p, 7, 1, rd, rn, rm) = SubtractWithCarry(p, rd, 1, y, x)
    BY SumRuns
<1>3. /\ Makes(p, add(p, rd, 1, x, y), rd, Plus(x, y), carryFrom(x, y),
               overflowFrom(x, y, TRUE))
      /\ Makes(p, Subtract(p, rd, 1, x, y), rd, Minus(x, y), ~ borrowFrom(x, y),
               overflowFrom(x, y, FALSE))
      /\ Makes(p, Subtract(p, rd, 1, y, x), rd, Minus(y, x), ~ borrowFrom(y, x),
               overflowFrom(y, x, FALSE))
    BY <1>2, MakesSum
<1>4. /\ \E v : Makes(p, adc(p, rd, 1, x, y), rd, Plus(Plus(x, y), CarryOf(p)),
                      carryFrom(x, y) \/ carryFrom(Plus(x, y), CarryOf(p)), v)
      /\ \E c, v : Makes(p, SubtractWithCarry(p, rd, 1, x, y), rd,
                         Minus(Minus(x, y), 1 - CarryOf(p)), c, v)
      /\ \E c, v : Makes(p, SubtractWithCarry(p, rd, 1, y, x), rd,
                         Minus(Minus(y, x), 1 - CarryOf(p)), c, v)
    BY <1>2, MakesLong
<1>5. /\ Carries(p, add(p, rd, 1, x, y), rd, Plus(x, y), carryFrom(x, y))
      /\ Carries(p, Subtract(p, rd, 1, x, y), rd, Minus(x, y), ~ borrowFrom(x, y))
      /\ Carries(p, Subtract(p, rd, 1, y, x), rd, Minus(y, x), ~ borrowFrom(y, x))
    BY <1>1, <1>3, Zenon
<1>6. /\ Carries(p, adc(p, rd, 1, x, y), rd, Plus(Plus(x, y), CarryOf(p)),
                 carryFrom(x, y) \/ carryFrom(Plus(x, y), CarryOf(p)))
      /\ \E c : Carries(p, SubtractWithCarry(p, rd, 1, x, y), rd,
                        Minus(Minus(x, y), 1 - CarryOf(p)), c)
      /\ \E c : Carries(p, SubtractWithCarry(p, rd, 1, y, x), rd,
                        Minus(Minus(y, x), 1 - CarryOf(p)), c)
    BY <1>1, <1>4, Zenon
<1>. QED BY <1>2, <1>5, <1>6, Zenon

(* adds and adcs add double words.                                         *)
LEMMA LongAdded ==
    ASSUME AluInv, Finished({LongAdd})
    PROVE  /\ RR(2) = (XX(0) + XX(2)) % (Modulus * Modulus)
           /\ Flag(C) = (XX(0) + XX(2)) \div (Modulus * Modulus)
<1> DEFINE a0 == X(0)
           a1 == X(0 + 1)
           b0 == X(2)
           b1 == X(2 + 1)
           p  == Run(start, 4, 1, 2, 0, 2)
           c  == One(carryFrom(a0, b0))
           d  == One(carryFrom(a1, b1) \/ carryFrom(Plus(a1, b1), c))
<1>1. start \in Processors /\ arm = Run(p, 5, 1, 3, 1, 3)
    <2>1. next > Len(code) /\ code = <<Register(4, 1, 2, 0, 2), Register(5, 1, 3, 1, 3)>>
        BY DEF Finished, LongAdd
    <2>. QED BY <2>1, TwoRuns DEF Run
<1>2. a0 = Low(start, 0) /\ a1 = Low(start, 1) /\ b0 = Low(start, 2) /\ b1 = Low(start, 3)
    BY DEF X, Low
<1>3. a0 \in Word /\ a1 \in Word /\ b0 \in Word /\ b1 \in Word
    BY <1>1, <1>2, LowRegisters DEF Low
<1>4. Carries(start, p, 2, Plus(a0, b0), carryFrom(a0, b0))
    <2>1. 0 \in 0 .. 3 /\ 2 \in 0 .. 3
        OBVIOUS
    <2> HIDE DEF a0, b0
    <2>. QED BY <1>1, <1>2, <2>1, LongRuns
<1> HIDE DEF a0, a1, b0, b1, p
<1>5. /\ p \in Processors /\ Low(p, 1) = Low(start, 1) /\ Low(p, 3) = Low(start, 3)
      /\ Low(p, 2) = Plus(a0, b0) /\ CarryOf(p) = c
    BY <1>4 DEF Carries
<1>6. Carries(p, arm, 3, Plus(Plus(a1, b1), c), carryFrom(a1, b1) \/ carryFrom(Plus(a1, b1), c))
    <2>1. 1 \in 0 .. 3 /\ 3 \in 0 .. 3
        OBVIOUS
    <2>2. a1 = Low(p, 1) /\ b1 = Low(p, 3)
        BY <1>2, <1>5
    <2>3. Carries(p, Run(p, 5, 1, 3, 1, 3), 3, Plus(Plus(a1, b1), CarryOf(p)),
                  carryFrom(a1, b1) \/ carryFrom(Plus(a1, b1), CarryOf(p)))
        BY <1>5, <2>1, <2>2, LongRuns
    <2>. QED BY <1>1, <1>5, <2>3
<1>7. R(2) = Plus(a0, b0) /\ R(3) = Plus(Plus(a1, b1), c) /\ Flag(C) = d
    <2>1. Low(arm, 2) = Plus(a0, b0) /\ Low(arm, 3) = Plus(Plus(a1, b1), c) /\ CarryOf(arm) = d
        BY <1>5, <1>6 DEF Carries
    <2>. QED BY <2>1 DEF R, Low, Flag, CarryOf
<1>8. c \in {0, 1} /\ d \in {0, 1} /\ Modulus \in Nat \ {0}
    BY Bases DEF One
<1>9. Plus(a0, b0) + c * Modulus = a0 + b0 /\ Plus(a0, b0) \in Word
    BY <1>3, Carried, Wraps, Words
<1>10. Plus(Plus(a1, b1), c) + d * Modulus = a1 + b1 + c /\ Plus(Plus(a1, b1), c) \in Word
    <2> HIDE DEF c
    <2>. QED BY <1>3, <1>8, CarriedOn
<1> HIDE DEF c, d
<1>11. /\ R(3) * Modulus + R(2) = ((a1 * Modulus + a0) + (b1 * Modulus + b0)) % (Modulus * Modulus)
       /\ Flag(C) = ((a1 * Modulus + a0) + (b1 * Modulus + b0)) \div (Modulus * Modulus)
    <2> DEFINE lo == R(2)
               hi == R(3)
               s == (a1 * Modulus + a0) + (b1 * Modulus + b0)
    <2>1. lo + c * Modulus = a0 + b0 /\ hi + d * Modulus = a1 + b1 + c
          /\ lo \in 0 .. Modulus - 1 /\ hi \in 0 .. Modulus - 1
        BY <1>7, <1>9, <1>10 DEF Word
    <2>2. a0 \in Nat /\ a1 \in Nat /\ b0 \in Nat /\ b1 \in Nat
        BY <1>3, Words
    <2> HIDE DEF lo, hi
    <2>3. hi * Modulus + lo = s % (Modulus * Modulus) /\ d = s \div (Modulus * Modulus)
        BY <1>8, <2>1, <2>2, LongSum
    <2>. QED BY <1>7, <2>3 DEF lo, hi
<1>. QED BY <1>11 DEF RR, XX, a0, a1, b0, b1

(* subs and sbcs subtract the second double word from the first,            *)
LEMMA LongSubtracted ==
    ASSUME AluInv, Finished({LongSub})
    PROVE  RR(2) = (XX(0) - XX(2)) % (Modulus * Modulus)
<1> DEFINE a0 == X(0)
           a1 == X(0 + 1)
           b0 == X(2)
           b1 == X(2 + 1)
           p  == Run(start, 2, 1, 2, 0, 2)
           c  == One(borrowFrom(a0, b0))
<1>1. start \in Processors /\ arm = Run(p, 6, 1, 3, 1, 3)
    <2>1. next > Len(code) /\ code = <<Register(2, 1, 2, 0, 2), Register(6, 1, 3, 1, 3)>>
        BY DEF Finished, LongSub
    <2>. QED BY <2>1, TwoRuns DEF Run
<1>2. /\ a0 = Low(start, 0) /\ a1 = Low(start, 1)
      /\ b0 = Low(start, 2) /\ b1 = Low(start, 3)
    BY DEF X, Low
<1>3. a0 \in Word /\ a1 \in Word /\ b0 \in Word /\ b1 \in Word
    BY <1>1, <1>2, LowRegisters DEF Low
<1>4. Carries(start, p, 2, Minus(a0, b0), ~ borrowFrom(a0, b0))
    <2>1. 0 \in 0 .. 3 /\ 2 \in 0 .. 3
        OBVIOUS
    <2> HIDE DEF a0, b0
    <2>. QED BY <1>1, <1>2, <2>1, LongRuns
<1> HIDE DEF a0, a1, b0, b1, p
<1>5. /\ p \in Processors /\ Low(p, 1) = Low(start, 1) /\ Low(p, 3) = Low(start, 3)
      /\ Low(p, 2) = Minus(a0, b0) /\ 1 - CarryOf(p) = c
    BY <1>4 DEF Carries, One
<1>6. \E f : Carries(p, arm, 3, Minus(Minus(a1, b1), 1 - CarryOf(p)), f)
    <2>1. 1 \in 0 .. 3 /\ 3 \in 0 .. 3
        OBVIOUS
    <2>2. a1 = Low(p, 1) /\ b1 = Low(p, 3)
        BY <1>2, <1>5
    <2>3. \E f : Carries(p, Run(p, 6, 1, 3, 1, 3), 3, Minus(Minus(a1, b1), 1 - CarryOf(p)), f)
        BY <1>5, <2>1, <2>2, LongRuns
    <2>. QED BY <1>1, <2>3
<1>7. R(2) = Minus(a0, b0) /\ R(3) = Minus(Minus(a1, b1), c)
    <2>1. Low(arm, 2) = Minus(a0, b0) /\ Low(arm, 3) = Minus(Minus(a1, b1), c)
        BY <1>5, <1>6 DEF Carries
    <2>. QED BY <2>1 DEF R, Low
<1>8. c \in {0, 1} /\ Modulus \in Nat \ {0}
    BY Bases DEF One
<1>9. Minus(a0, b0) = a0 - b0 + c * Modulus /\ Minus(a0, b0) \in Word
    BY <1>3, Carried, Wraps, Words
<1> HIDE DEF c
<1>10. PICK d \in {0, 1} : Minus(Minus(a1, b1), c) = a1 - b1 - c + d * Modulus
    <2>1. Borrows(a1, b1, c)
        BY <1>3, <1>8, CarriedOn
    <2>. QED BY <2>1 DEF Borrows
<1>11. Minus(Minus(a1, b1), c) \in Word
    BY <1>3, <1>8, CarriedOn
<1>12. R(3) * Modulus + R(2) = ((a1 * Modulus + a0) - (b1 * Modulus + b0)) % (Modulus * Modulus)
    <2> DEFINE lo == R(2)
               hi == R(3)
    <2>1. lo = a0 - b0 + c * Modulus /\ hi = a1 - b1 - c + d * Modulus
          /\ lo \in 0 .. Modulus - 1 /\ hi \in 0 .. Modulus - 1
        BY <1>7, <1>9, <1>10, <1>11 DEF Word
    <2>2. a0 \in 0 .. Modulus - 1 /\ a1 \in 0 .. Modulus - 1
          /\ b0 \in 0 .. Modulus - 1 /\ b1 \in 0 .. Modulus - 1
        BY <1>3 DEF Word
    <2> HIDE DEF lo, hi
    <2>3. hi * Modulus + lo = ((a1 * Modulus + a0) - (b1 * Modulus + b0)) % (Modulus * Modulus)
        BY <1>8, <2>1, <2>2, LongDifference
    <2>. QED BY <2>3 DEF lo, hi
<1>. QED BY <1>12 DEF RR, XX, a0, a1, b0, b1

(* and rsbs and rscs the first from the second.                             *)
LEMMA LongReversed ==
    ASSUME AluInv, Finished({LongRsb})
    PROVE  RR(2) = (XX(2) - XX(0)) % (Modulus * Modulus)
<1> DEFINE a0 == X(2)
           a1 == X(2 + 1)
           b0 == X(0)
           b1 == X(0 + 1)
           p  == Run(start, 3, 1, 2, 0, 2)
           c  == One(borrowFrom(a0, b0))
<1>1. start \in Processors /\ arm = Run(p, 7, 1, 3, 1, 3)
    <2>1. next > Len(code) /\ code = <<Register(3, 1, 2, 0, 2), Register(7, 1, 3, 1, 3)>>
        BY DEF Finished, LongRsb
    <2>. QED BY <2>1, TwoRuns DEF Run
<1>2. /\ a0 = Low(start, 2) /\ a1 = Low(start, 3)
      /\ b0 = Low(start, 0) /\ b1 = Low(start, 1)
    BY DEF X, Low
<1>3. a0 \in Word /\ a1 \in Word /\ b0 \in Word /\ b1 \in Word
    BY <1>1, <1>2, LowRegisters DEF Low
<1>4. Carries(start, p, 2, Minus(a0, b0), ~ borrowFrom(a0, b0))
    <2>1. 0 \in 0 .. 3 /\ 2 \in 0 .. 3
        OBVIOUS
    <2> HIDE DEF a0, b0
    <2>. QED BY <1>1, <1>2, <2>1, LongRuns
<1> HIDE DEF a0, a1, b0, b1, p
<1>5. /\ p \in Processors /\ Low(p, 1) = Low(start, 1) /\ Low(p, 3) = Low(start, 3)
      /\ Low(p, 2) = Minus(a0, b0) /\ 1 - CarryOf(p) = c
    BY <1>4 DEF Carries, One
<1>6. \E f : Carries(p, arm, 3, Minus(Minus(a1, b1), 1 - CarryOf(p)), f)
    <2>1. 1 \in 0 .. 3 /\ 3 \in 0 .. 3
        OBVIOUS
    <2>2. b1 = Low(p, 1) /\ a1 = Low(p, 3)
        BY <1>2, <1>5
    <2>3. \E f : Carries(p, Run(p, 7, 1, 3, 1, 3), 3, Minus(Minus(a1, b1), 1 - CarryOf(p)), f)
        BY <1>5, <2>1, <2>2, LongRuns
    <2>. QED BY <1>1, <2>3
<1>7. R(2) = Minus(a0, b0) /\ R(3) = Minus(Minus(a1, b1), c)
    <2>1. Low(arm, 2) = Minus(a0, b0) /\ Low(arm, 3) = Minus(Minus(a1, b1), c)
        BY <1>5, <1>6 DEF Carries
    <2>. QED BY <2>1 DEF R, Low
<1>8. c \in {0, 1} /\ Modulus \in Nat \ {0}
    BY Bases DEF One
<1>9. Minus(a0, b0) = a0 - b0 + c * Modulus /\ Minus(a0, b0) \in Word
    BY <1>3, Carried, Wraps, Words
<1> HIDE DEF c
<1>10. PICK d \in {0, 1} : Minus(Minus(a1, b1), c) = a1 - b1 - c + d * Modulus
    <2>1. Borrows(a1, b1, c)
        BY <1>3, <1>8, CarriedOn
    <2>. QED BY <2>1 DEF Borrows
<1>11. Minus(Minus(a1, b1), c) \in Word
    BY <1>3, <1>8, CarriedOn
<1>12. R(3) * Modulus + R(2) = ((a1 * Modulus + a0) - (b1 * Modulus + b0)) % (Modulus * Modulus)
    <2> DEFINE lo == R(2)
               hi == R(3)
    <2>1. lo = a0 - b0 + c * Modulus /\ hi = a1 - b1 - c + d * Modulus
          /\ lo \in 0 .. Modulus - 1 /\ hi \in 0 .. Modulus - 1
        BY <1>7, <1>9, <1>10, <1>11 DEF Word
    <2>2. a0 \in 0 .. Modulus - 1 /\ a1 \in 0 .. Modulus - 1
          /\ b0 \in 0 .. Modulus - 1 /\ b1 \in 0 .. Modulus - 1
        BY <1>3 DEF Word
    <2> HIDE DEF lo, hi
    <2>3. hi * Modulus + lo = ((a1 * Modulus + a0) - (b1 * Modulus + b0)) % (Modulus * Modulus)
        BY <1>8, <2>1, <2>2, LongDifference
    <2>. QED BY <2>3 DEF lo, hi
<1>. QED BY <1>12 DEF RR, XX, a0, a1, b0, b1

(* For every word width and all operands, the carry between the two        *)
(* instructions makes them an operation on double words.                   *)
THEOREM DoubleWordRight == Spec => []DoubleWord
<1>1. AluInv => DoubleWord
    BY LongAdded, LongSubtracted, LongReversed DEF DoubleWord
<1>. QED BY <1>1, AluInvariant, PTL

-----------------------------------------------------------------------------
(* The bits of a word put together from bits are these bits.               *)
LEMMA BitsBack ==
    ASSUME NEW S \in SUBSET (0 .. WordBits - 1)
    PROVE  Bits(FromBits(S)) = S
<1> USE Widths
<1>1. PICK b : /\ FromBits(S) = b[WordBits] /\ b[0] = 0
               /\ \A n \in 0 .. WordBits - 1 :
                     b[n + 1] = b[n] + (IF n \in S THEN Exp2[n] ELSE 0)
    BY Assembled DEF Assembles
<1> DEFINE Has(x, n) == \A j \in 0 .. WordBits - 1 :
                           get_bit(x, j) = IF j < n /\ j \in S THEN 1 ELSE 0
           T == {n \in 0 .. WordBits : b[n] \in Nat /\ Has(b[n], n)}
<1>2. 0 .. WordBits \subseteq T
    <2>1. 0 \in T
        <3>1. ASSUME NEW j \in 0 .. WordBits - 1 PROVE get_bit(0, j) = 0
            <4> DEFINE d == Exp2[j]
            <4>1. d \in Nat \ {0}
                <5>1. j \in 0 .. WordBits
                    OBVIOUS
                <5>. QED BY <5>1, Powers
            <4>2. get_bit(0, j) = (0 \div d) % 2
                BY DEF get_bit
            <4> HIDE DEF d
            <4>3. 0 \div d = 0
                BY <4>1
            <4>. QED BY <4>2, <4>3
        <3>2. \A j \in 0 .. WordBits - 1 : ~ (j < 0)
            OBVIOUS
        <3>. QED BY <1>1, <3>1, <3>2
    <2>2. ASSUME NEW n \in 0 .. WordBits - 1, n \in T PROVE n + 1 \in T
        <3>1. n + 1 \in 0 .. WordBits /\ n \in 0 .. WordBits
            OBVIOUS
        <3>2. b[n + 1] = b[n] + (IF n \in S THEN Exp2[n] ELSE 0)
            BY <1>1
        <3>3. b[n] \in Nat /\ Has(b[n], n) /\ Exp2[n] \in Nat
            BY <2>2, <3>1, Powers
        <3>4. get_bit(b[n], n) = 0
            BY <3>3
        <3>5. \A j \in 0 .. WordBits - 1 : (j < n + 1 <=> j < n \/ j = n) /\ ~ (n < n)
            OBVIOUS
        <3>6. CASE n \in S
            <4>1. b[n + 1] = b[n] + Exp2[n]
                BY <3>2, <3>6
            <4>2. /\ get_bit(b[n] + Exp2[n], n) = 1
                  /\ \A j \in 0 .. WordBits - 1 :
                        j # n => get_bit(b[n] + Exp2[n], j) = get_bit(b[n], j)
                BY <3>3, <3>4, BitAdded
            <4>3. Has(b[n + 1], n + 1)
                BY <3>3, <3>5, <3>6, <4>1, <4>2
            <4>4. b[n + 1] \in Nat
                BY <3>3, <4>1
            <4>. QED BY <3>1, <4>3, <4>4
        <3>7. CASE n \notin S
            <4>1. b[n + 1] = b[n]
                BY <3>2, <3>3, <3>7
            <4>2. Has(b[n + 1], n + 1)
                BY <3>3, <3>5, <3>7, <4>1
            <4>. QED BY <3>1, <3>3, <4>1, <4>2
        <3>. QED BY <3>6, <3>7
    <2> HIDE DEF T
    <2>. QED BY <2>1, <2>2, BoundedInduction
<1>3. Has(b[WordBits], WordBits)
    <2>1. WordBits \in 0 .. WordBits
        OBVIOUS
    <2>. QED BY <1>2, <2>1
<1>4. \A j \in 0 .. WordBits - 1 : j < WordBits
    OBVIOUS
<1>5. \A j \in 0 .. WordBits - 1 : get_bit(FromBits(S), j) = 1 <=> j \in S
    BY <1>1, <1>3, <1>4
<1> HIDE DEF Has, T
<1>. QED BY <1>5 DEF Bits

(* The empty set of bits is 0.                                             *)
LEMMA NoBits == FromBits({}) = 0
<1> USE Widths
<1>1. PICK b : /\ FromBits({}) = b[WordBits] /\ b[0] = 0
               /\ \A n \in 0 .. WordBits - 1 :
                     b[n + 1] = b[n] + (IF n \in {} THEN Exp2[n] ELSE 0)
    BY Assembled DEF Assembles
<1> DEFINE T == {n \in 0 .. WordBits : b[n] = 0}
<1>2. 0 .. WordBits \subseteq T
    <2>1. 0 \in T
        BY <1>1
    <2>2. ASSUME NEW n \in 0 .. WordBits - 1, n \in T PROVE n + 1 \in T
        <3>1. n + 1 \in 0 .. WordBits /\ b[n] = 0
            BY <2>2
        <3>2. b[n + 1] = b[n] + 0
            BY <1>1
        <3>. QED BY <3>1, <3>2
    <2> HIDE DEF T
    <2>. QED BY <2>1, <2>2, BoundedInduction
<1>3. WordBits \in 0 .. WordBits
    OBVIOUS
<1>. QED BY <1>1, <1>2, <1>3

(* The complement has the bits that a word does not have.                  *)
LEMMA Complemented ==
    ASSUME NEW x \in Word
    PROVE  Bits(Not(x)) = (0 .. WordBits - 1) \ Bits(x)
<1>1. ASSUME NEW i \in 0 .. WordBits - 1
      PROVE  get_bit(Not(x), i) = 1 <=> get_bit(x, i) # 1
    <2> DEFINE d == Exp2[i]
               q == x \div d
               s == x % d
    <2>1. d \in Nat \ {0} /\ q \in Nat /\ s \in 0 .. d - 1 /\ x = q * d + s
        BY BitPlace
    <2>2. PICK h \in Nat \ {0} : Modulus = (2 * h) * d /\ q < 2 * h
        BY BitPlace
    <2>3. get_bit(x, i) = q % 2
        BY DEF get_bit
    <2>4. get_bit(Not(x), i) = (Not(x) \div d) % 2
        BY DEF get_bit
    <2> HIDE DEF d, q, s
    <2> DEFINE k == 2 * h - 1 - q
               r == d - 1 - s
    <2>5. k \in Nat /\ r \in 0 .. d - 1
        BY <2>1, <2>2
    <2>6. Not(x) = k * d + r
        <3>1. Not(x) = (2 * h) * d - 1 - (q * d + s)
            BY <2>1, <2>2 DEF Not
        <3>2. (2 * h - 1 - q) * d = (2 * h) * d - d - q * d
            BY <2>1, <2>2
        <3> DEFINE u == (2 * h) * d
                   w == q * d
        <3>3. u \in Int /\ w \in Int
            BY <2>1, <2>2
        <3> HIDE DEF u, w
        <3>4. u - 1 - (w + s) = (u - d - w) + (d - 1 - s)
            BY <2>1, <3>3
        <3>. QED BY <3>1, <3>2, <3>4 DEF u, w
    <2>7. k % 2 = 1 - (q % 2)
        BY <2>1, <2>2
    <2> HIDE DEF k, r
    <2>8. (k * d + r) \div d = k
        BY <2>1, <2>5, DivMod
    <2>9. get_bit(Not(x), i) = 1 - (q % 2) /\ q % 2 \in {0, 1}
        BY <2>1, <2>4, <2>6, <2>7, <2>8
    <2>. QED BY <2>3, <2>9
<1>. QED BY <1>1 DEF Bits

\* q has res in register rd, if that is one of r0-r3, the zero flag of res and
\* the overflow flag of p.
Logically(p, q, rd, res) ==
    /\ q \in Processors
    /\ \A k \in 0 .. 3 : Low(q, k) = IF k = rd THEN res ELSE Low(p, k)
    /\ get_bit(arm_read_cpsr(q), Z) = One(res = 0)
    /\ OverflowOf(q) = OverflowOf(p)

(* Of a logical operation, its result and these two flags are needed.      *)
LEMMA LogicallyMade ==
    ASSUME NEW p \in Processors, NEW q, NEW rd, NEW res, NEW carry,
           MakesLogically(p, q, rd, res, carry)
    PROVE  Logically(p, q, rd, res)
<1>1. OverflowOf(p) \in {0, 1}
    BY FlagBits DEF Bit
<1>2. Makes(p, q, rd, res, carry = 1, OverflowOf(p) = 1)
    BY DEF MakesLogically
<1>3. /\ q \in Processors
      /\ \A k \in 0 .. 3 : Low(q, k) = IF k = rd THEN res ELSE Low(p, k)
      /\ get_bit(arm_read_cpsr(q), Z) = IF res = 0 THEN 1 ELSE 0
      /\ OverflowOf(q) = IF OverflowOf(p) = 1 THEN 1 ELSE 0
    BY <1>2, Zenon DEF Makes, Flagged, OverflowOf
<1>. QED BY <1>1, <1>3 DEF Logically, One

(* The laws the two programs rest on.                                      *)
LEMMA Algebra ==
    ASSUME NEW x \in Word, NEW y \in Word
    PROVE  /\ And(Or(x, y), Not(And(x, y))) = Xor(x, y)
           /\ Xor(x, x) = 0
           /\ And(Not(x), x) = 0
           /\ Plus(Not(x), x) = Modulus - 1
<1> DEFINE A == Bits(x)
           B == Bits(y)
<1>1. A \subseteq 0 .. WordBits - 1 /\ B \subseteq 0 .. WordBits - 1
    BY DEF Bits
<1>2. Or(x, y) = FromBits(A \cup B) /\ And(x, y) = FromBits(A \cap B)
      /\ Xor(x, y) = FromBits((A \cup B) \ (A \cap B))
    BY DEF Or, And, Xor
<1>3. Bits(Or(x, y)) = A \cup B /\ Bits(And(x, y)) = A \cap B
    <2> HIDE DEF A, B
    <2>1. A \cup B \in SUBSET (0 .. WordBits - 1) /\ A \cap B \in SUBSET (0 .. WordBits - 1)
        BY <1>1
    <2>. QED BY <1>2, <2>1, BitsBack
<1>4. And(x, y) \in Word
    BY Logic
<1>5. Bits(Not(And(x, y))) = (0 .. WordBits - 1) \ (A \cap B)
    BY <1>3, <1>4, Complemented
<1>6. And(Or(x, y), Not(And(x, y))) = Xor(x, y)
    <2>1. And(Or(x, y), Not(And(x, y)))
             = FromBits(Bits(Or(x, y)) \cap Bits(Not(And(x, y))))
        BY DEF And
    <2>2. Bits(Or(x, y)) \cap Bits(Not(And(x, y))) = (A \cup B) \ (A \cap B)
        <3> HIDE DEF A, B
        <3>. QED BY <1>1, <1>3, <1>5
    <2>. QED BY <1>2, <2>1, <2>2
<1>7. Xor(x, x) = 0
    <2>1. Xor(x, x) = FromBits((A \cup A) \ (A \cap A))
        BY DEF Xor
    <2>2. (A \cup A) \ (A \cap A) = {}
        OBVIOUS
    <2>. QED BY <2>1, <2>2, NoBits
<1>8. And(Not(x), x) = 0
    <2>1. And(Not(x), x) = FromBits(Bits(Not(x)) \cap A)
        BY DEF And
    <2>2. Bits(Not(x)) \cap A = {}
        <3> HIDE DEF A
        <3>1. Bits(Not(x)) = (0 .. WordBits - 1) \ A
            BY Complemented DEF A
        <3>. QED BY <3>1
    <2>. QED BY <2>1, <2>2, NoBits
<1>9. Plus(Not(x), x) = Modulus - 1
    <2>1. Not(x) \in Word
        BY Logic
    <2>2. Plus(Not(x), x) = IF Not(x) + x < Modulus THEN Not(x) + x ELSE Not(x) + x - Modulus
        BY <2>1, SumValues
    <2>3. Not(x) + x = Modulus - 1 /\ Modulus - 1 < Modulus
        BY Words, Bases DEF Not
    <2>. QED BY <2>2, <2>3
<1>. QED BY <1>6, <1>7, <1>8, <1>9

(* orr, and, bic, eor and teq.                                             *)
LEMMA BooleanRight ==
    ASSUME AluInv, Finished({Boolean})
    PROVE  R(2) = R(3) /\ Flag(Z) = 1 /\ Flag(V) = get_bit(arm_read_cpsr(start), V)
<1> DEFINE x == X(0)
           y == X(1)
<1>1. /\ Len(code) = 5 /\ next > Len(code)
      /\ code[1] = Register(12, 1, 2, 0, 1) /\ code[2] = Register(0, 1, 3, 0, 1)
      /\ code[3] = Register(14, 1, 2, 2, 3) /\ code[4] = Register(1, 1, 3, 0, 1)
      /\ code[5] = Register(9, 1, 0, 2, 3)
    BY DEF Finished, Boolean
<1>2. PICK h : /\ h \in [1 .. Len(code) + 1 -> Processors]
               /\ h[1] = start /\ h[Len(code) + 1] = arm
               /\ \A k \in 1 .. Len(code) :
                     h[k + 1] = arm_data_processing_shift(h[k], code[k]).p
    BY <1>1, Ended
<1>3. /\ \A k \in 1 .. 6 : h[k] \in Processors
      /\ h[1] = start /\ h[6] = arm
      /\ h[2] = Run(h[1], 12, 1, 2, 0, 1) /\ h[3] = Run(h[2], 0, 1, 3, 0, 1)
      /\ h[4] = Run(h[3], 14, 1, 2, 2, 3) /\ h[5] = Run(h[4], 1, 1, 3, 0, 1)
      /\ h[6] = Run(h[5], 9, 1, 0, 2, 3)
    <2>1. 1 .. Len(code) + 1 = 1 .. 6 /\ Len(code) + 1 = 6
        BY <1>1
    <2>2. \A k \in {1, 2, 3, 4, 5} : h[k + 1] = arm_data_processing_shift(h[k], code[k]).p
        BY <1>1, <1>2
    <2>3. 1 + 1 = 2 /\ 2 + 1 = 3 /\ 3 + 1 = 4 /\ 4 + 1 = 5 /\ 5 + 1 = 6
        OBVIOUS
    <2>. QED BY <1>1, <1>2, <2>1, <2>2, <2>3 DEF Run
<1>4. x \in Word /\ y \in Word /\ x = Low(h[1], 0) /\ y = Low(h[1], 1)
    BY <1>3, LowRegisters DEF X, Low
<1> HIDE DEF x, y
<1>0. 0 \in 0 .. 3 /\ 1 \in 0 .. 3 /\ 2 \in 0 .. 3 /\ 3 \in 0 .. 3
    OBVIOUS
<1>p. h[1] \in Processors /\ h[2] \in Processors /\ h[3] \in Processors /\ h[4] \in Processors
      /\ h[5] \in Processors
    BY <1>3
<1>5. Logically(h[1], h[2], 2, Or(x, y))
    <2>1. MakesLogically(h[1], h[2], 2, Or(x, y), CarryOf(h[1]))
        BY <1>0, <1>3, <1>4, <1>p, LogicalRuns
    <2>. QED BY <1>p, <2>1, LogicallyMade
<1>6. Logically(h[2], h[3], 3, And(x, y))
    <2>1. x = Low(h[2], 0) /\ y = Low(h[2], 1)
        BY <1>0, <1>4, <1>5 DEF Logically
    <2>2. MakesLogically(h[2], h[3], 3, And(x, y), CarryOf(h[2]))
        BY <1>0, <1>3, <1>p, <2>1, LogicalRuns
    <2>. QED BY <1>p, <2>2, LogicallyMade
<1>7. Logically(h[3], h[4], 2, Xor(x, y))
    <2> DEFINE u == Or(x, y)
               w == And(x, y)
    <2>1. u = Low(h[3], 2) /\ w = Low(h[3], 3)
        BY <1>0, <1>5, <1>6 DEF Logically
    <2>2. And(u, Not(w)) = Xor(x, y)
        BY <1>4, Algebra
    <2> HIDE DEF u, w
    <2>3. MakesLogically(h[3], h[4], 2, And(u, Not(w)), CarryOf(h[3]))
        BY <1>0, <1>3, <1>p, <2>1, LogicalRuns
    <2>. QED BY <1>p, <2>2, <2>3, LogicallyMade
<1>8. Logically(h[4], h[5], 3, Xor(x, y))
    <2>1. x = Low(h[4], 0) /\ y = Low(h[4], 1)
        BY <1>0, <1>4, <1>5, <1>6, <1>7 DEF Logically
    <2>2. MakesLogically(h[4], h[5], 3, Xor(x, y), CarryOf(h[4]))
        BY <1>0, <1>3, <1>p, <2>1, LogicalRuns
    <2>. QED BY <1>p, <2>2, LogicallyMade
<1>9. Logically(h[5], h[6], -1, 0)
    <2> DEFINE u == Xor(x, y)
    <2>1. u = Low(h[5], 2) /\ u = Low(h[5], 3) /\ u \in Word
        BY <1>0, <1>4, <1>7, <1>8, Logic DEF Logically
    <2> HIDE DEF u
    <2>2. Xor(u, u) = 0
        BY <2>1, Algebra
    <2>3. MakesLogically(h[5], h[6], -1, Xor(u, u), CarryOf(h[5]))
        BY <1>0, <1>3, <1>p, <2>1, LogicalRuns
    <2>. QED BY <1>p, <2>2, <2>3, LogicallyMade
<1>10. Low(arm, 2) = Xor(x, y) /\ Low(arm, 3) = Xor(x, y)
    <2>1. 2 # -1 /\ 3 # -1 /\ 2 # 3
        OBVIOUS
    <2>. QED BY <1>0, <1>3, <1>7, <1>8, <1>9, <2>1 DEF Logically
<1>11. Flag(Z) = 1
    BY <1>3, <1>9 DEF Logically, One, Flag
<1>12. OverflowOf(arm) = OverflowOf(start)
    BY <1>3, <1>5, <1>6, <1>7, <1>8, <1>9 DEF Logically
<1>. QED BY <1>10, <1>11, <1>12 DEF R, Low, Flag, OverflowOf

(* mvn, add without flags and tst.                                         *)
LEMMA ComplementRight ==
    ASSUME AluInv, Finished({Complement})
    PROVE  /\ R(3) = Modulus - 1 /\ Flag(Z) = 1
           /\ Flag(V) = get_bit(arm_read_cpsr(start), V)
<1> DEFINE x == X(0)
           n == Not(x)
<1>1. /\ Len(code) = 3 /\ next > Len(code)
      /\ code[1] = Register(15, 1, 2, 0, 0) /\ code[2] = Register(4, 0, 3, 2, 0)
      /\ code[3] = Register(8, 1, 0, 2, 0)
    BY DEF Finished, Complement
<1>2. PICK h : /\ h \in [1 .. Len(code) + 1 -> Processors]
               /\ h[1] = start /\ h[Len(code) + 1] = arm
               /\ \A k \in 1 .. Len(code) :
                     h[k + 1] = arm_data_processing_shift(h[k], code[k]).p
    BY <1>1, Ended
<1>3. /\ \A k \in 1 .. 4 : h[k] \in Processors
      /\ h[1] = start /\ h[4] = arm
      /\ h[2] = Run(h[1], 15, 1, 2, 0, 0) /\ h[3] = Run(h[2], 4, 0, 3, 2, 0)
      /\ h[4] = Run(h[3], 8, 1, 0, 2, 0)
    <2>1. 1 .. Len(code) + 1 = 1 .. 4 /\ Len(code) + 1 = 4
        BY <1>1
    <2>2. \A k \in {1, 2, 3} : h[k + 1] = arm_data_processing_shift(h[k], code[k]).p
        BY <1>1, <1>2
    <2>3. 1 + 1 = 2 /\ 2 + 1 = 3 /\ 3 + 1 = 4
        OBVIOUS
    <2>. QED BY <1>1, <1>2, <2>1, <2>2, <2>3 DEF Run
<1>4. x \in Word /\ x = Low(h[1], 0) /\ n \in Word
    <2>1. x \in Word /\ x = Low(h[1], 0)
        BY <1>3, LowRegisters DEF X, Low
    <2>. QED BY <2>1, Logic
<1>5. Plus(n, x) = Modulus - 1 /\ And(n, x) = 0 /\ Plus(n, x) \in Word
    <2>1. Plus(n, x) = Modulus - 1 /\ And(n, x) = 0
        BY <1>4, Algebra
    <2>2. Plus(n, x) \in Word
        <3> HIDE DEF n, x
        <3>. QED BY <1>4, Wraps, Words
    <2>. QED BY <2>1, <2>2
<1>0. 0 \in 0 .. 3 /\ 2 \in 0 .. 3 /\ 3 \in 0 .. 3
    OBVIOUS
<1>p. h[1] \in Processors /\ h[2] \in Processors /\ h[3] \in Processors
    BY <1>3
<1>6. Logically(h[1], h[2], 2, n)
    <2> HIDE DEF x
    <2>1. MakesLogically(h[1], h[2], 2, Not(x), CarryOf(h[1]))
        BY <1>0, <1>3, <1>4, <1>p, LogicalRuns
    <2>. QED BY <1>p, <2>1, LogicallyMade
<1> HIDE DEF x, n
<1>7. /\ \A k \in 0 .. 3 : Low(h[3], k) = IF k = 3 THEN Plus(n, x) ELSE Low(h[2], k)
      /\ arm_read_cpsr(h[3]) = arm_read_cpsr(h[2])
    <2>1. n = Low(h[2], 2) /\ x = Low(h[2], 0)
        BY <1>0, <1>4, <1>6 DEF Logically
    <2>2. h[3] = WriteResult(h[2], 3, 0, Plus(n, x))
        BY <1>0, <1>3, <1>p, <2>1, SumRuns
    <2>3. /\ arm_read_cpsr(WriteResult(h[2], 3, 0, Plus(n, x))) = arm_read_cpsr(h[2])
          /\ \A k \in 0 .. 3 : WriteResult(h[2], 3, 0, Plus(n, x)).reg.registers[k]
                = IF k = 3 THEN Plus(n, x) ELSE h[2].reg.registers[k]
        BY <1>0, <1>5, <1>p, LowWritten
    <2>. QED BY <2>2, <2>3 DEF Low
<1>8. Logically(h[3], h[4], -1, 0)
    <2>1. n = Low(h[3], 2) /\ x = Low(h[3], 0)
        BY <1>0, <1>4, <1>6, <1>7 DEF Logically
    <2>2. MakesLogically(h[3], h[4], -1, And(n, x), CarryOf(h[3]))
        BY <1>0, <1>3, <1>p, <2>1, LogicalRuns
    <2>. QED BY <1>5, <1>p, <2>2, LogicallyMade
<1>9. Low(arm, 3) = Modulus - 1
    <2>1. 3 # -1
        OBVIOUS
    <2>. QED BY <1>0, <1>3, <1>5, <1>7, <1>8, <2>1 DEF Logically
<1>10. Flag(Z) = 1
    BY <1>3, <1>8 DEF Logically, One, Flag
<1>11. OverflowOf(arm) = OverflowOf(start)
    BY <1>3, <1>6, <1>7, <1>8 DEF Logically, OverflowOf
<1>. QED BY <1>9, <1>10, <1>11 DEF R, Low, Flag, OverflowOf

(* For every word width and all operands, the logical operations are those *)
(* of a Boolean algebra and keep the overflow flag.                        *)
THEOREM LogicIsBoolean == Spec => []BooleanLaws
<1>1. AluInv => BooleanLaws
    BY BooleanRight, ComplementRight DEF BooleanLaws
<1>. QED BY <1>1, AluInvariant, PTL

-----------------------------------------------------------------------------
(* A number cut short by a divisor that is larger.                         *)
LEMMA SmallQuotient ==
    ASSUME NEW B \in Nat \ {0}, NEW y \in Int, -B <= y, y < B
    PROVE  y \div B = IF y < 0 THEN -1 ELSE 0
<1>1. CASE y < 0
    <2>1. y + B \in 0 .. B - 1 /\ y = (-1) * B + (y + B) /\ -1 \in Int
        BY <1>1
    <2> DEFINE r == y + B
    <2> HIDE DEF r
    <2>2. ((-1) * B + r) \div B = -1
        <3>1. \A q \in Int : (q * B + r) \div B = q
            BY <2>1, FloorMod DEF r
        <3>. QED BY <2>1, <3>1
    <2>. QED BY <1>1, <2>1, <2>2 DEF r
<1>2. CASE ~ (y < 0)
    <2>1. y \in 0 .. B - 1 /\ y = 0 * B + y
        BY <1>2
    <2>2. \A q \in Int : (q * B + y) \div B = q
        BY <2>1, FloorMod
    <2>3. (0 * B + y) \div B = 0
        BY <2>2
    <2>. QED BY <1>2, <2>1, <2>3
<1>. QED BY <1>1, <1>2

(* Subtracting a multiple of the divisor changes the quotient by it.       *)
LEMMA LessMultiple ==
    ASSUME NEW m \in Nat \ {0}, NEW x \in Nat, NEW c \in Nat
    PROVE  (x - c * m) \div m = (x \div m) - c
<1> DEFINE q == x \div m
           r == x % m
<1>1. q \in Nat /\ r \in 0 .. m - 1 /\ x = q * m + r
    BY Division
<1> HIDE DEF q, r
<1>2. x - c * m = (q - c) * m + r /\ q - c \in Int
    BY <1>1
<1>3. ((q - c) * m + r) \div m = q - c
    BY <1>1, <1>2, FloorMod
<1>. QED BY <1>2, <1>3 DEF q

(* A doubled number, divided by a doubled divisor.                         *)
LEMMA HalfDivided ==
    ASSUME NEW y \in Int, NEW d \in Nat \ {0}
    PROVE  (2 * y) \div (2 * d) = y \div d
<1> DEFINE q == y \div d
           r == y % d
<1>1. q \in Int /\ r \in 0 .. d - 1 /\ y = q * d + r
    OBVIOUS
<1> HIDE DEF q, r
<1>2. 2 * y = q * (2 * d) + 2 * r /\ 2 * r \in 0 .. (2 * d) - 1 /\ 2 * d \in Nat \ {0}
    BY <1>1
<1> DEFINE B == 2 * d
           s == 2 * r
<1>3. B \in Nat \ {0} /\ s \in 0 .. B - 1
    BY <1>2
<1> HIDE DEF B, s
<1>4. (q * B + s) \div B = q
    BY <1>1, <1>3, FloorMod
<1>. QED BY <1>2, <1>4 DEF B, s, q

(* Pow2 satisfies the equations of its recursive definition.               *)
LEMMA PowerSteps ==
    /\ Pow2[0] = 1
    /\ \A n \in 1 .. 8 * WordBits : Pow2[n] = 2 * Pow2[n - 1]
<1> DEFINE m == 8 * WordBits
           g == [i \in 1 .. m |-> [x \in Nat |-> 2 * x]]
<1>0. m \in Nat
    BY Widths
<1>d. Pow2 = CHOOSE f : f = [n \in 0 .. m |-> IF n = 0 THEN 1 ELSE 2 * f[n - 1]]
    BY DEF Pow2
<1> HIDE DEF m
<1>1. PICK f \in [0 .. m -> Nat] : f[0] = 1 /\ \A i \in 1 .. m : f[i] = g[i][f[i - 1]]
    <2>1. g \in [1 .. m -> [Nat -> Nat]]
        OBVIOUS
    <2>2. 1 \in Nat
        OBVIOUS
    <2> HIDE DEF g
    <2>3. Iterates(m, Nat, 1, g)
        BY <1>0, <2>1, <2>2, Recursion
    <2>. QED BY <2>3 DEF Iterates
<1>2. ASSUME NEW i \in 1 .. m PROVE f[i] = 2 * f[i - 1]
    <2>1. i - 1 \in 0 .. m
        BY <1>0
    <2>2. f[i - 1] \in Nat
        BY <2>1
    <2>3. g[i][f[i - 1]] = 2 * f[i - 1]
        BY <2>2
    <2>. QED BY <1>1, <2>3
<1>3. f = [n \in 0 .. m |-> IF n = 0 THEN 1 ELSE 2 * f[n - 1]]
    <2>1. \A n \in 0 .. m : f[n] = IF n = 0 THEN 1 ELSE 2 * f[n - 1]
        BY <1>0, <1>1, <1>2
    <2>. QED BY <2>1
<1>4. Pow2 = [n \in 0 .. m |-> IF n = 0 THEN 1 ELSE 2 * Pow2[n - 1]]
    BY <1>3, <1>d
<1>5. 0 \in 0 .. m /\ \A n \in 1 .. m : n \in 0 .. m /\ n # 0
    BY <1>0
<1> HIDE DEF g
<1>6. Pow2[0] = 1 /\ \A n \in 1 .. m : Pow2[n] = 2 * Pow2[n - 1]
    BY <1>4, <1>5
<1>. QED BY <1>6 DEF m

(* The powers are those of util.h up to the width of a word.               *)
LEMMA PowersSame == \A n \in 0 .. WordBits : Pow2[n] = Exp2[n]
<1> USE Widths
<1> DEFINE T == {n \in 0 .. WordBits : Pow2[n] = Exp2[n]}
<1>1. 0 .. WordBits \subseteq T
    <2>1. 0 \in T
        <3>1. Pow2[0] = 1 /\ Exp2[0] = 1 /\ 0 \in 0 .. WordBits
            BY PowerSteps, Doubling
        <3>. QED BY <3>1
    <2>2. ASSUME NEW n \in 0 .. WordBits - 1, n \in T PROVE n + 1 \in T
        <3>1. n + 1 \in 1 .. WordBits /\ n + 1 \in 1 .. 8 * WordBits /\ (n + 1) - 1 = n
              /\ n + 1 \in 0 .. WordBits
            OBVIOUS
        <3>2. Pow2[n + 1] = 2 * Pow2[(n + 1) - 1]
            BY <3>1, PowerSteps
        <3>3. Exp2[n + 1] = 2 * Exp2[(n + 1) - 1]
            BY <3>1, Doubling
        <3>4. Pow2[n] = Exp2[n]
            BY <2>2
        <3>. QED BY <3>1, <3>2, <3>3, <3>4
    <2> HIDE DEF T
    <2>. QED BY <2>1, <2>2, BoundedInduction
<1>. QED BY <1>1

(* Above it they are even multiples of the modulus.                        *)
LEMMA PowersAbove ==
    \A n \in WordBits + 1 .. 8 * WordBits : \E k \in Nat \ {0} : Pow2[n] = Modulus * (2 * k)
<1> USE Widths
<1> DEFINE Above(n) == \E k \in Nat \ {0} : Pow2[n] = Modulus * (2 * k)
           m == 8 * WordBits
           T == {n \in 0 .. m : n > WordBits => Above(n)}
<1>0. m \in Nat
    OBVIOUS
<1>1. 0 .. m \subseteq T
    <2>1. 0 \in T
        OBVIOUS
    <2>2. ASSUME NEW n \in 0 .. m - 1, n \in T PROVE n + 1 \in T
        <3>1. n + 1 \in 1 .. 8 * WordBits /\ (n + 1) - 1 = n /\ n + 1 \in 0 .. m
            OBVIOUS
        <3>2. Pow2[n + 1] = 2 * Pow2[n]
            <4>1. Pow2[n + 1] = 2 * Pow2[(n + 1) - 1]
                BY <3>1, PowerSteps
            <4>. QED BY <3>1, <4>1
        <3>3. CASE n < WordBits
            <4>1. ~ (n + 1 > WordBits)
                BY <3>3
            <4>. QED BY <3>1, <4>1
        <3>4. CASE n = WordBits
            <4>1. Pow2[n] = Modulus /\ Modulus \in Nat
                BY <3>4, PowersSame, Bases
            <4>2. Pow2[n + 1] = Modulus * (2 * 1)
                BY <3>2, <4>1
            <4>3. Above(n + 1)
                BY <4>2
            <4>. QED BY <3>1, <4>3
        <3>5. CASE n > WordBits
            <4>1. PICK k \in Nat \ {0} : Pow2[n] = Modulus * (2 * k)
                BY <2>2, <3>5
            <4>2. 2 * (Modulus * (2 * k)) = Modulus * (2 * (2 * k)) /\ 2 * k \in Nat \ {0}
                BY Bases
            <4>3. Above(n + 1)
                BY <3>2, <4>1, <4>2
            <4>. QED BY <3>1, <4>3
        <3>. QED BY <3>3, <3>4, <3>5
    <2> HIDE DEF T, m
    <2>. QED BY <1>0, <2>1, <2>2, BoundedInduction
<1>2. ASSUME NEW n \in WordBits + 1 .. 8 * WordBits PROVE Above(n)
    <2>1. n \in 0 .. m /\ n > WordBits
        OBVIOUS
    <2>. QED BY <1>1, <2>1
<1>. QED BY <1>2

(* Bit 0, and the bit below place n, as quotients.                         *)
LEMMA LastBits ==
    ASSUME NEW x \in Word
    PROVE  /\ get_bit(x, 0) = x % 2
           /\ \A n \in 1 .. WordBits : get_bit(x, n - 1) = ((2 * x) \div Pow2[n]) % 2
<1>0. x \in Nat
    BY Words
<1>1. get_bit(x, 0) = x % 2
    <2>1. get_bit(x, 0) = (x \div 1) % 2
        BY Doubling DEF get_bit
    <2>. QED BY <1>0, <2>1
<1>2. ASSUME NEW n \in 1 .. WordBits
      PROVE  get_bit(x, n - 1) = ((2 * x) \div Pow2[n]) % 2
    <2> DEFINE d == Exp2[n - 1]
    <2>1. n \in 0 .. WordBits /\ n - 1 \in 0 .. WordBits
        BY Widths
    <2>2. Pow2[n] = 2 * d /\ d \in Nat \ {0}
        BY <2>1, PowersSame, Doubling, Powers
    <2>3. get_bit(x, n - 1) = (x \div d) % 2
        BY DEF get_bit
    <2> HIDE DEF d
    <2>4. (2 * x) \div (2 * d) = x \div d
        BY <1>0, <2>2, HalfDivided
    <2>. QED BY <2>2, <2>3, <2>4
<1>. QED BY <1>1, <1>2

(* A shift to the left is a multiplication modulo 2^WordBits.              *)
LEMMA ShiftedLeft ==
    ASSUME NEW x \in Word, NEW n \in 1 .. 8 * WordBits
    PROVE  ShiftOf(x, LSL, n)
             = IF n < WordBits THEN Operand(Lsl(x, n), get_bit(x, WordBits - n))
               ELSE IF n = WordBits THEN Operand(0, get_bit(x, 0)) ELSE Operand(0, 0)
<1> USE Widths
<1>0. x \in Nat /\ Modulus \in Nat \ {0}
    BY Words, Bases
<1>1. ShiftOf(x, LSL, n) = Operand((x * Pow2[n]) % Modulus, ((x * Pow2[n]) \div Modulus) % 2)
    BY DEF ShiftOf, LSL, LSR, ASR, ROR
<1>2. CASE n < WordBits
    <2> DEFINE d == Exp2[n]
               e == Exp2[WordBits - n]
    <2>1. n \in 0 .. WordBits
        BY <1>2
    <2>2. Pow2[n] = d /\ d \in Nat \ {0} /\ e \in Nat \ {0} /\ Modulus = d * e
        BY <2>1, PowersSame, Cut
    <2>3. Lsl(x, n) = (x * d) % Modulus /\ get_bit(x, WordBits - n) = (x \div e) % 2
        BY DEF Lsl, get_bit
    <2> HIDE DEF d, e
    <2>4. (x * d) \div Modulus = x \div e
        <3>1. x * d \in Nat /\ 0 \in 0 .. d - 1 /\ x * d + 0 = x * d
            BY <1>0, <2>2
        <3>2. (x * d + 0) \div d = x
            <4>1. \A r \in 0 .. d - 1 : (x * d + r) \div d = x
                BY <1>0, <2>2, DivMod
            <4>. QED BY <3>1, <4>1
        <3>3. (x * d) \div (d * e) = ((x * d) \div d) \div e
            <4> DEFINE y == x * d
            <4>1. y \in Nat
                BY <3>1
            <4> HIDE DEF y
            <4>2. y \div (d * e) = (y \div d) \div e
                BY <2>2, <4>1, DivideTwice
            <4>. QED BY <4>2 DEF y
        <3>. QED BY <2>2, <3>1, <3>2, <3>3
    <2>. QED BY <1>1, <1>2, <2>2, <2>3, <2>4
<1>3. CASE n >= WordBits
    <2>1. PICK k \in Nat : Pow2[n] = Modulus * k /\ (n = WordBits => k = 1)
                           /\ (n # WordBits => k % 2 = 0)
        <3>1. CASE n = WordBits
            <4>1. n \in 0 .. WordBits
                BY <3>1
            <4>2. Pow2[n] = Modulus * 1
                BY <1>0, <3>1, <4>1, PowersSame, Bases
            <4>. QED BY <3>1, <4>2
        <3>2. CASE n # WordBits
            <4>1. n \in WordBits + 1 .. 8 * WordBits
                BY <1>3, <3>2
            <4>2. PICK k \in Nat \ {0} : Pow2[n] = Modulus * (2 * k)
                BY <4>1, PowersAbove
            <4>3. 2 * k \in Nat /\ (2 * k) % 2 = 0
                OBVIOUS
            <4>. QED BY <3>2, <4>2, <4>3
        <3>. QED BY <3>1, <3>2
    <2>2. x * Pow2[n] = (x * k) * Modulus + 0 /\ x * k \in Nat
        BY <1>0, <2>1
    <2> DEFINE q == x * k
    <2>3. q \in Nat /\ 0 \in 0 .. Modulus - 1
        BY <1>0, <2>2
    <2>4. (q * Modulus + 0) \div Modulus = q /\ (q * Modulus + 0) % Modulus = 0
        <3> HIDE DEF q
        <3>1. \A r \in 0 .. Modulus - 1 : /\ (q * Modulus + r) \div Modulus = q
                                          /\ (q * Modulus + r) % Modulus = r
            BY <1>0, <2>3, DivMod
        <3>. QED BY <2>3, <3>1
    <2>5. ShiftOf(x, LSL, n) = Operand(0, q % 2)
        BY <1>1, <2>2, <2>4
    <2>6. CASE n = WordBits
        <3>1. q = x
            BY <1>0, <2>1, <2>6
        <3>. QED BY <2>5, <2>6, <3>1, LastBits
    <2>7. CASE n # WordBits
        <3>1. PICK j \in Nat : k = 2 * j
            BY <2>1, <2>7
        <3>2. q = 2 * (x * j) /\ x * j \in Nat
            BY <1>0, <3>1
        <3>3. q % 2 = 0
            <4> HIDE DEF q
            <4>1. \A y \in Nat : (2 * y) % 2 = 0
                OBVIOUS
            <4>. QED BY <3>2, <4>1
        <3>4. ~ (n < WordBits)
            BY <1>3
        <3>. QED BY <2>5, <2>7, <3>3, <3>4
    <2>. QED BY <2>6, <2>7
<1>. QED BY <1>2, <1>3

(* A logical shift to the right is a division.                             *)
LEMMA ShiftedRight ==
    ASSUME NEW x \in Word, NEW n \in 1 .. 8 * WordBits
    PROVE  ShiftOf(x, LSR, n)
             = IF n < WordBits THEN Operand(Lsr(x, n), get_bit(x, n - 1))
               ELSE IF n = WordBits THEN Operand(0, get_bit(x, WordBits - 1)) ELSE Operand(0, 0)
<1> USE Widths
<1>0. x \in Nat /\ x < Modulus /\ Modulus \in Nat \ {0}
    BY Words, Bases
<1>1. ShiftOf(x, LSR, n) = Operand(x \div Pow2[n], ((2 * x) \div Pow2[n]) % 2)
    BY DEF ShiftOf, LSL, LSR, ASR, ROR
<1>2. CASE n <= WordBits
    <2>1. n \in 0 .. WordBits /\ n \in 1 .. WordBits
        BY <1>2
    <2>2. ShiftOf(x, LSR, n) = Operand(x \div Exp2[n], get_bit(x, n - 1))
        BY <1>1, <2>1, PowersSame, LastBits
    <2>3. CASE n < WordBits
        BY <2>2, <2>3 DEF Lsr
    <2>4. CASE n = WordBits
        <3>1. x \div Modulus = 0
            <4>1. -Modulus <= x /\ ~ (x < 0) /\ x \in Int
                BY <1>0
            <4>2. x \div Modulus = IF x < 0 THEN -1 ELSE 0
                BY <1>0, <4>1, SmallQuotient
            <4>. QED BY <4>1, <4>2
        <3>2. ~ (n < WordBits)
            BY <2>4
        <3>. QED BY <2>2, <2>4, <3>1, <3>2, Bases
    <2>. QED BY <1>2, <2>3, <2>4
<1>3. CASE n > WordBits
    <2>1. n \in WordBits + 1 .. 8 * WordBits /\ ~ (n < WordBits) /\ n # WordBits
        BY <1>3
    <2>2. PICK k \in Nat \ {0} : Pow2[n] = Modulus * (2 * k)
        BY <2>1, PowersAbove
    <2> DEFINE P == Pow2[n]
    <2>3. P \in Nat \ {0} /\ P >= 2 * Modulus
        <3>1. Modulus * (2 * k) = 2 * (Modulus * k) /\ Modulus * k >= Modulus /\ Modulus * k \in Nat
            BY <1>0
        <3>. QED BY <1>0, <2>2, <3>1
    <2> HIDE DEF P
    <2>4. x \div P = 0 /\ (2 * x) \div P = 0
        <3>1. -P <= x /\ x < P /\ ~ (x < 0) /\ x \in Int
              /\ -P <= 2 * x /\ 2 * x < P /\ ~ (2 * x < 0) /\ 2 * x \in Int
            BY <1>0, <2>3
        <3>2. x \div P = IF x < 0 THEN -1 ELSE 0
            BY <2>3, <3>1, SmallQuotient
        <3>3. (2 * x) \div P = IF 2 * x < 0 THEN -1 ELSE 0
            BY <2>3, <3>1, SmallQuotient
        <3>. QED BY <3>1, <3>2, <3>3
    <2>. QED BY <1>1, <2>1, <2>4 DEF P
<1>. QED BY <1>2, <1>3

(* From the width of a word on, the powers are not below the modulus.      *)
LEMMA PowersLarge ==
    ASSUME NEW n \in WordBits .. 8 * WordBits
    PROVE  Pow2[n] \in Nat \ {0} /\ Pow2[n] >= Modulus
<1> USE Widths
<1>0. Modulus \in Nat \ {0}
    BY Bases
<1>1. CASE n = WordBits
    <2>1. n \in 0 .. WordBits
        BY <1>1
    <2>. QED BY <1>0, <1>1, <2>1, PowersSame, Bases
<1>2. CASE n # WordBits
    <2>1. n \in WordBits + 1 .. 8 * WordBits
        BY <1>2
    <2>2. PICK k \in Nat \ {0} : Pow2[n] = Modulus * (2 * k)
        BY <2>1, PowersAbove
    <2>3. Modulus * (2 * k) = 2 * (Modulus * k) /\ Modulus * k >= Modulus /\ Modulus * k \in Nat
        BY <1>0
    <2>. QED BY <1>0, <2>2, <2>3
<1>. QED BY <1>1, <1>2

(* The signed value of a word.                                             *)
LEMMA SignedValue ==
    ASSUME NEW x \in Word
    PROVE  LET h == Modulus \div 2
           IN  /\ h \in Nat \ {0} /\ Modulus = 2 * h
               /\ x \in Nat /\ x < 2 * h
               /\ get_bit(x, WordBits - 1) = One(x >= h)
               /\ Signed(x) = IF x >= h THEN x - Modulus ELSE x
<1>1. x \in Nat /\ x < Modulus
    BY Words
<1>2. get_bit(x, WordBits - 1) = One(x >= Modulus \div 2)
    BY SignBit DEF One
<1>3. Modulus \div 2 \in Nat \ {0} /\ Modulus = 2 * (Modulus \div 2)
    BY SignBit
<1>4. Signed(x) = IF x >= Modulus \div 2 THEN x - Modulus ELSE x
    BY DEF Signed
<1>. QED BY <1>1, <1>2, <1>3, <1>4

(* An arithmetic shift to the right is a division of the signed value.     *)
LEMMA ShiftedSigned ==
    ASSUME NEW x \in Word, NEW n \in 1 .. 8 * WordBits
    PROVE  ShiftOf(x, ASR, n)
             = IF n < WordBits THEN Operand(asr(x, n), get_bit(x, n - 1))
               ELSE Operand(SignFill(x), get_bit(x, WordBits - 1))
<1> USE Widths
<1> DEFINE h == Modulus \div 2
           S == Signed(x)
           P == Pow2[n]
<1>0. /\ h \in Nat \ {0} /\ Modulus = 2 * h /\ x \in Nat /\ x < 2 * h
      /\ get_bit(x, WordBits - 1) = One(x >= h) /\ S = IF x >= h THEN x - Modulus ELSE x
    BY SignedValue
<1>1. ShiftOf(x, ASR, n) = Operand((S \div P) % Modulus, ((2 * S) \div P) % 2)
    BY DEF ShiftOf, LSL, LSR, ASR, ROR
<1> HIDE DEF h, S, P
<1>2. CASE n < WordBits
    <2> DEFINE d == Exp2[n]
               e == Exp2[WordBits - n]
               d1 == Exp2[n - 1]
               l == x \div d
    <2>1. n \in 0 .. WordBits /\ n \in 1 .. WordBits /\ n - 1 \in 0 .. WordBits
        BY <1>2
    <2>2. P = d /\ d \in Nat \ {0} /\ e \in Nat \ {0} /\ Modulus = d * e
        BY <2>1, PowersSame, Cut DEF P
    <2>3. d = 2 * d1 /\ d1 \in Nat \ {0}
        <3>1. d = 2 * d1
            BY <2>1, Doubling
        <3>2. d1 \in Nat \ {0}
            BY <2>1, Powers
        <3>. QED BY <3>1, <3>2
    <2>4. l \in Nat /\ l < e /\ l < Modulus
        BY <2>1, ShiftRight, Words DEF Lsr
    <2>5. asr(x, n) = l + (IF x >= h THEN Modulus - e ELSE 0)
        BY <1>0 DEF asr, Lsr, One
    <2>6. get_bit(x, n - 1) = ((2 * x) \div d) % 2
        BY <2>1, <2>2, LastBits DEF P
    <2>7. get_bit(x, n - 1) = (x \div d1) % 2
        BY DEF get_bit
    <2> HIDE DEF d, e, d1
    <2>8. CASE ~ (x >= h)
        <3>1. S = x
            BY <1>0, <2>8
        <3>2. asr(x, n) = l
            BY <2>4, <2>5, <2>8
        <3>3. l % Modulus = l
            <4> HIDE DEF l
            <4>1. l \in Int /\ -Modulus <= l /\ l < 2 * Modulus /\ ~ (l < 0)
                  /\ Modulus \in Nat \ {0}
                BY <1>0, <2>4
            <4>2. l % Modulus
                    = IF l < 0 THEN l + Modulus ELSE IF l < Modulus THEN l ELSE l - Modulus
                BY <4>1, NearMod
            <4>. QED BY <2>4, <4>1, <4>2
        <3>. QED BY <1>1, <1>2, <2>2, <2>6, <3>1, <3>2, <3>3
    <2>9. CASE x >= h
        <3>1. S = x - e * d
            BY <1>0, <2>2, <2>9
        <3>2. S \div d = l - e
            <4>1. (x - e * d) \div d = (x \div d) - e
                BY <1>0, <2>2, LessMultiple
            <4>. QED BY <3>1, <4>1
        <3>3. (l - e) % Modulus = l + (Modulus - e)
            <4> HIDE DEF l
            <4>1. e <= Modulus /\ Modulus \in Nat \ {0}
                BY <1>0, <2>2
            <4>2. l - e \in Int /\ -Modulus <= l - e /\ l - e < 2 * Modulus /\ l - e < 0
                BY <2>2, <2>4, <4>1
            <4> DEFINE z == l - e
            <4>3. z \in Int /\ -Modulus <= z /\ z < 2 * Modulus /\ z < 0
                BY <4>2
            <4>4. z + Modulus = l + (Modulus - e)
                BY <2>2, <2>4, <4>1
            <4> HIDE DEF z
            <4>5. z % Modulus
                    = IF z < 0 THEN z + Modulus ELSE IF z < Modulus THEN z ELSE z - Modulus
                BY <4>1, <4>3, NearMod
            <4>6. z % Modulus = l + (Modulus - e)
                BY <4>3, <4>4, <4>5
            <4>. QED BY <4>6 DEF z
        <3>4. asr(x, n) = l + (Modulus - e)
            BY <2>5, <2>9
        <3>5. ((2 * S) \div d) % 2 = (x \div d1) % 2
            <4>1. S \in Int
                BY <1>0
            <4>2. (2 * S) \div (2 * d1) = S \div d1
                BY <2>3, <4>1, HalfDivided
            <4>3. S = x - (2 * e) * d1
                BY <1>0, <2>2, <2>3, <3>1
            <4>4. (x - (2 * e) * d1) \div d1 = (x \div d1) - (2 * e)
                <5> DEFINE c == 2 * e
                <5>1. c \in Nat
                    BY <2>2
                <5> HIDE DEF c
                <5>2. (x - c * d1) \div d1 = (x \div d1) - c
                    BY <1>0, <2>3, <5>1, LessMultiple
                <5>. QED BY <5>2 DEF c
            <4>5. x \div d1 \in Nat
                BY <1>0, <2>3, Division
            <4> DEFINE q == x \div d1
            <4>6. (q - 2 * e) % 2 = q % 2
                <5>1. q \in Nat
                    BY <4>5
                <5> HIDE DEF q
                <5>. QED BY <2>2, <5>1
            <4>. QED BY <2>3, <4>2, <4>3, <4>4, <4>6
        <3>. QED BY <1>1, <1>2, <2>2, <2>7, <3>2, <3>3, <3>4, <3>5
    <2>. QED BY <2>8, <2>9
<1>3. CASE ~ (n < WordBits)
    <2>1. n \in WordBits .. 8 * WordBits
        BY <1>3
    <2>2. P \in Nat \ {0} /\ P >= 2 * h
        BY <1>0, <2>1, PowersLarge DEF P
    <2>3. /\ S \in Int /\ -P <= S /\ S < P /\ (S < 0 <=> x >= h)
          /\ 2 * S \in Int /\ -P <= 2 * S /\ 2 * S < P /\ (2 * S < 0 <=> x >= h)
        <3>1. CASE x >= h
            BY <1>0, <2>2, <3>1
        <3>2. CASE ~ (x >= h)
            BY <1>0, <2>2, <3>2
        <3>. QED BY <3>1, <3>2
    <2>4. S \div P = IF S < 0 THEN -1 ELSE 0
        BY <2>2, <2>3, SmallQuotient
    <2>5. (2 * S) \div P = IF 2 * S < 0 THEN -1 ELSE 0
        <3> DEFINE y == 2 * S
        <3>1. y \in Int /\ -P <= y /\ y < P
            BY <2>3
        <3> HIDE DEF y
        <3>2. y \div P = IF y < 0 THEN -1 ELSE 0
            BY <2>2, <3>1, SmallQuotient
        <3>. QED BY <3>2 DEF y
    <2>6. CASE x >= h
        <3>1. S \div P = -1 /\ (2 * S) \div P = -1
            BY <2>3, <2>4, <2>5, <2>6
        <3>2. (-1) % Modulus = Modulus - 1 /\ (-1) % 2 = 1
            <4>1. ASSUME NEW B \in Nat \ {0} PROVE (-1) % B = B - 1
                <5>1. -1 \in Int /\ -B <= -1 /\ -1 < 2 * B /\ -1 < 0 /\ (-1) + B = B - 1
                    OBVIOUS
                <5>2. \A z \in Int : -B <= z /\ z < 2 * B =>
                         z % B = IF z < 0 THEN z + B ELSE IF z < B THEN z ELSE z - B
                    BY NearMod
                <5>. QED BY <5>1, <5>2
            <4>2. Modulus \in Nat \ {0} /\ 2 \in Nat \ {0} /\ 2 - 1 = 1
                BY <1>0
            <4>. QED BY <4>1, <4>2
        <3>3. SignFill(x) = Modulus - 1 /\ get_bit(x, WordBits - 1) = 1
            BY <1>0, <2>6 DEF SignFill, One
        <3>. QED BY <1>1, <1>3, <3>1, <3>2, <3>3
    <2>7. CASE ~ (x >= h)
        <3>1. S \div P = 0 /\ (2 * S) \div P = 0
            BY <2>3, <2>4, <2>5, <2>7
        <3>2. 0 % Modulus = 0 /\ 0 % 2 = 0
            BY <1>0
        <3>3. SignFill(x) = 0 /\ get_bit(x, WordBits - 1) = 0
            BY <1>0, <2>7 DEF SignFill, One
        <3>. QED BY <1>1, <1>3, <3>1, <3>2, <3>3
    <2>. QED BY <2>6, <2>7
<1>. QED BY <1>2, <1>3

(* The highest bit of a word, as a quotient.                               *)
LEMMA TopBit ==
    ASSUME NEW y \in Word
    PROVE  y \div (Modulus \div 2) = One(y >= Modulus \div 2)
<1> DEFINE h == Modulus \div 2
<1>1. h \in Nat \ {0} /\ y \in Nat /\ y < 2 * h
    BY SignedValue
<1> HIDE DEF h
<1>2. CASE y >= h
    <2>1. y - h \in 0 .. h - 1 /\ y = 1 * h + (y - h) /\ 1 \in Nat
        BY <1>1, <1>2
    <2> DEFINE r == y - h
    <2>2. \A q \in Nat : (q * h + r) \div h = q
        <3> HIDE DEF r
        <3>. QED BY <1>1, <2>1, DivMod DEF r
    <2>3. (1 * h + r) \div h = 1
        BY <2>2
    <2>. QED BY <1>2, <2>1, <2>3 DEF One, h
<1>3. CASE ~ (y >= h)
    <2>1. y \in Int /\ -h <= y /\ y < h /\ ~ (y < 0)
        BY <1>1, <1>3
    <2>2. y \div h = IF y < 0 THEN -1 ELSE 0
        BY <1>1, <2>1, SmallQuotient
    <2>. QED BY <1>3, <2>1, <2>2 DEF One, h
<1>. QED BY <1>2, <1>3

(* The word rotated by k places, as two copies of it side by side.         *)
LEMMA Turned ==
    ASSUME NEW x \in Word, NEW k \in 1 .. WordBits - 1
    PROVE  /\ ((x * Modulus + x) \div Exp2[k]) % Modulus = ror(x, k)
           /\ ror(x, k) \div (Modulus \div 2) = get_bit(x, k - 1)
<1> USE Widths
<1> DEFINE d == Exp2[k]
           e == Exp2[WordBits - k]
           d1 == Exp2[k - 1]
           q == x \div d
           s == x % d
<1>0. k \in 0 .. WordBits /\ k \in 1 .. WordBits /\ k - 1 \in 0 .. WordBits
      /\ k \in 0 .. WordBits - 1
    OBVIOUS
<1>1. d \in Nat \ {0} /\ e \in Nat \ {0} /\ Modulus = d * e /\ x \in Nat
    BY <1>0, Cut, Words
<1>2. d = 2 * d1 /\ d1 \in Nat \ {0}
    <2>1. d = 2 * d1
        BY <1>0, Doubling
    <2>2. d1 \in Nat \ {0}
        BY <1>0, Powers
    <2>. QED BY <2>1, <2>2
<1>3. q \in Nat /\ s \in 0 .. d - 1 /\ x = q * d + s
    BY <1>1, Division
<1>4. q < e
    BY <1>0, ShiftRight DEF Lsr
<1>5. ror(x, k) = q + s * e
    <2>1. Lsl(x, WordBits - k) = s * e
        BY <1>1, Scaled DEF Lsl
    <2>. QED BY <1>0, <2>1 DEF ror, Lsr
<1>6. get_bit(x, k - 1) = (x \div d1) % 2
    BY DEF get_bit
<1>7. ror(x, k) \in Word
    BY <1>0, Rotate
<1> HIDE DEF d, e, d1, q, s
<1>8. ((x * Modulus + x) \div d) % Modulus = ror(x, k)
    <2> DEFINE u == x * e + q
               y == q + s * e
    <2>1. u \in Nat /\ y \in Nat
        BY <1>1, <1>3
    <2>2. x * Modulus + x = u * d + s
        <3>1. x * (d * e) = (x * e) * d
            BY <1>1
        <3>2. (x * e + q) * d = (x * e) * d + q * d
            BY <1>1, <1>3
        <3> DEFINE a == (x * e) * d
                   b == q * d
        <3>3. a \in Int /\ b \in Int /\ x = b + s
            BY <1>1, <1>3
        <3> HIDE DEF a, b
        <3>4. a + x = (a + b) + s
            BY <1>3, <3>3
        <3>. QED BY <1>1, <3>1, <3>2, <3>4 DEF a, b
    <2>3. u = q * Modulus + y
        <3>1. (q * d + s) * e = q * (d * e) + s * e
            BY <1>1, <1>3
        <3> DEFINE a == q * (d * e)
                   b == s * e
        <3>2. a \in Int /\ b \in Int
            BY <1>1, <1>3
        <3>3. x * e = a + b
            BY <1>3, <3>1
        <3> HIDE DEF a, b
        <3>4. (a + b) + q = a + (q + b)
            BY <1>3, <3>2
        <3>. QED BY <1>1, <3>3, <3>4 DEF a, b
    <2>4. y \in 0 .. Modulus - 1 /\ Modulus \in Nat \ {0}
        BY <1>5, <1>7, Bases DEF Word
    <2>5. y = ror(x, k)
        BY <1>5
    <2> HIDE DEF u, y
    <2>6. (u * d + s) \div d = u
        BY <1>1, <1>3, <2>1, DivMod
    <2>7. (q * Modulus + y) % Modulus = y
        BY <1>3, <2>4, DivMod
    <2>. QED BY <2>2, <2>3, <2>5, <2>6, <2>7
<1>9. x \div d1 = 2 * q + One(s >= d1)
    <2>1. s \in Nat /\ s < 2 * d1
        BY <1>2, <1>3
    <2>2. CASE s >= d1
        <3> DEFINE c == 2 * q + 1
                   r == s - d1
        <3>1. c \in Nat /\ r \in 0 .. d1 - 1
            BY <1>2, <1>3, <2>1, <2>2
        <3>2. x = c * d1 + r
            <4>1. q * (2 * d1) = (2 * q) * d1 /\ (2 * q + 1) * d1 = (2 * q) * d1 + d1
                BY <1>2, <1>3
            <4> DEFINE a == (2 * q) * d1
            <4>2. a \in Int /\ x = a + s
                BY <1>2, <1>3, <4>1
            <4> HIDE DEF a
            <4>3. x = (a + d1) + (s - d1)
                BY <1>2, <2>1, <4>2
            <4>. QED BY <4>1, <4>3 DEF a
        <3> HIDE DEF c, r
        <3>3. (c * d1 + r) \div d1 = c
            BY <1>2, <3>1, DivMod
        <3>. QED BY <2>2, <3>2, <3>3 DEF c, One
    <2>3. CASE ~ (s >= d1)
        <3> DEFINE c == 2 * q
        <3>1. c \in Nat /\ s \in 0 .. d1 - 1
            BY <1>2, <1>3, <2>1, <2>3
        <3>2. x = c * d1 + s
            BY <1>2, <1>3
        <3>4. c + 0 = c
            BY <3>1
        <3> HIDE DEF c
        <3>3. (c * d1 + s) \div d1 = c
            BY <1>2, <3>1, DivMod
        <3>. QED BY <2>3, <3>2, <3>3, <3>4 DEF c, One
    <2>. QED BY <2>2, <2>3
<1>10. get_bit(x, k - 1) = One(s >= d1)
    <2>1. \A b \in {0, 1} : (2 * q + b) % 2 = b
        BY <1>3
    <2>2. One(s >= d1) \in {0, 1}
        BY DEF One
    <2>. QED BY <1>6, <1>9, <2>1, <2>2
<1>11. q + s * e >= Modulus \div 2 <=> s >= d1
    <2>1. Modulus \div 2 = d1 * e
        <3>1. Modulus = 2 * (d1 * e) /\ d1 * e \in Nat
            BY <1>1, <1>2
        <3> DEFINE a == d1 * e
        <3> HIDE DEF a
        <3>2. Modulus = 2 * a /\ a \in Nat
            BY <3>1 DEF a
        <3>3. Modulus \div 2 = a
            BY <3>2
        <3>. QED BY <3>3 DEF a
    <2>2. CASE s >= d1
        <3>1. s * e >= d1 * e /\ s * e \in Int /\ d1 * e \in Int
            BY <1>1, <1>2, <1>3, <2>2
        <3>. QED BY <1>3, <2>1, <2>2, <3>1
    <2>3. CASE ~ (s >= d1)
        <3>1. (s + 1) * e <= d1 * e
            <4>1. s + 1 <= d1 /\ s + 1 \in Nat
                BY <1>2, <1>3, <2>3
            <4>. QED BY <1>1, <1>2, <4>1
        <3>2. (s + 1) * e = s * e + e /\ s * e \in Int /\ d1 * e \in Int
            BY <1>1, <1>2, <1>3
        <3>. QED BY <1>1, <1>3, <1>4, <2>1, <2>3, <3>1, <3>2
    <2>. QED BY <2>2, <2>3
<1>12. ror(x, k) \div (Modulus \div 2) = get_bit(x, k - 1)
    <2>1. ror(x, k) \div (Modulus \div 2) = One(ror(x, k) >= Modulus \div 2)
        BY <1>7, TopBit
    <2>2. (ror(x, k) >= Modulus \div 2) <=> s >= d1
        BY <1>5, <1>11
    <2>. QED BY <1>10, <2>1, <2>2 DEF One
<1>. QED BY <1>8, <1>12 DEF d

(* A rotation is taken modulo the width.                                   *)
LEMMA Rotated ==
    ASSUME NEW x \in Word, NEW n \in 1 .. 8 * WordBits
    PROVE  ShiftOf(x, ROR, n)
             = IF n % WordBits = 0 THEN Operand(x, get_bit(x, WordBits - 1))
               ELSE Operand(ror(x, n % WordBits), get_bit(x, (n % WordBits) - 1))
<1> USE Widths
<1> DEFINE k == n % WordBits
           y == ((x * Modulus + x) \div Pow2[k]) % Modulus
<1>1. k \in 0 .. WordBits - 1 /\ k \in 0 .. WordBits
    OBVIOUS
<1>2. ShiftOf(x, ROR, n) = Operand(y, y \div (Modulus \div 2))
    BY DEF ShiftOf, LSL, LSR, ASR, ROR
<1> HIDE DEF k
<1>3. Pow2[k] = Exp2[k]
    BY <1>1, PowersSame
<1>4. CASE k = 0
    <2>1. x \in 0 .. Modulus - 1 /\ x \in Nat /\ Modulus \in Nat \ {0}
        BY Words, Bases DEF Word
    <2>2. (x * Modulus + x) % Modulus = x
        BY <2>1, DivMod
    <2>3. (x * Modulus + x) \div 1 = x * Modulus + x
        BY <2>1
    <2>4. y = x
        BY <1>3, <1>4, <2>2, <2>3, Doubling
    <2>5. x \div (Modulus \div 2) = get_bit(x, WordBits - 1)
        BY TopBit, SignedValue
    <2>. QED BY <1>2, <1>4, <2>4, <2>5 DEF k
<1>5. CASE k # 0
    <2>1. k \in 1 .. WordBits - 1
        BY <1>1, <1>5
    <2>2. y = ror(x, k) /\ ror(x, k) \div (Modulus \div 2) = get_bit(x, k - 1)
        BY <1>3, <2>1, Turned
    <2>. QED BY <1>2, <1>5, <2>2 DEF k
<1>. QED BY <1>4, <1>5

(* The immediate counts: 0 stands for the width, or for rrx.               *)
LEMMA ImmediateMatches ==
    ASSUME NEW x \in Word, NEW shift \in 0 .. 3, NEW n \in 0 .. WordBits - 1, NEW c \in {0, 1}
    PROVE  /\ n > 0 => ShiftByImmediate(x, shift, n, c) = ShiftOf(x, shift, n)
           /\ n = 0 /\ shift = LSL => ShiftByImmediate(x, shift, n, c) = Operand(x, c)
           /\ n = 0 /\ shift \in {LSR, ASR} =>
                 ShiftByImmediate(x, shift, n, c) = ShiftOf(x, shift, WordBits)
           /\ n = 0 /\ shift = ROR =>
                 ShiftByImmediate(x, shift, n, c)
                   = Operand((c * Modulus + x) \div 2, x % 2)
<1> USE Widths
<1>0. x \in Nat
    BY Words
<1>1. ASSUME n > 0 PROVE ShiftByImmediate(x, shift, n, c) = ShiftOf(x, shift, n)
    <2>1. n \in 1 .. 8 * WordBits /\ n < WordBits /\ n # 0
        BY <1>1
    <2>2. n % WordBits = n
        <3>1. n \in Int /\ -WordBits <= n /\ n < 2 * WordBits /\ ~ (n < 0)
              /\ WordBits \in Nat \ {0}
            BY <2>1
        <3>2. n % WordBits
                = IF n < 0 THEN n + WordBits ELSE IF n < WordBits THEN n ELSE n - WordBits
            BY <3>1, NearMod
        <3>. QED BY <2>1, <3>1, <3>2
    <2>3. CASE shift = 0
        <3>1. ShiftOf(x, 0, n) = Operand(Lsl(x, n), get_bit(x, WordBits - n))
            BY <2>1, ShiftedLeft DEF LSL
        <3>2. ShiftByImmediate(x, 0, n, c) = Operand(Lsl(x, n), get_bit(x, WordBits - n))
            BY <2>1 DEF ShiftByImmediate, LSL, LSR, ASR, ROR
        <3>. QED BY <2>3, <3>1, <3>2
    <2>4. CASE shift = 1
        <3>1. ShiftOf(x, 1, n) = Operand(Lsr(x, n), get_bit(x, n - 1))
            BY <2>1, ShiftedRight DEF LSR
        <3>2. ShiftByImmediate(x, 1, n, c) = Operand(Lsr(x, n), get_bit(x, n - 1))
            BY <2>1 DEF ShiftByImmediate, LSL, LSR, ASR, ROR
        <3>. QED BY <2>4, <3>1, <3>2
    <2>5. CASE shift = 2
        <3>1. ShiftOf(x, 2, n) = Operand(asr(x, n), get_bit(x, n - 1))
            BY <2>1, ShiftedSigned DEF ASR
        <3>2. ShiftByImmediate(x, 2, n, c) = Operand(asr(x, n), get_bit(x, n - 1))
            BY <2>1 DEF ShiftByImmediate, LSL, LSR, ASR, ROR
        <3>. QED BY <2>5, <3>1, <3>2
    <2>6. CASE shift = 3
        <3>1. ShiftOf(x, 3, n) = Operand(ror(x, n), get_bit(x, n - 1))
            BY <2>1, <2>2, Rotated DEF ROR
        <3>2. ShiftByImmediate(x, 3, n, c) = Operand(ror(x, n), get_bit(x, n - 1))
            BY <2>1 DEF ShiftByImmediate, LSL, LSR, ASR, ROR
        <3>. QED BY <2>6, <3>1, <3>2
    <2>. QED BY <2>3, <2>4, <2>5, <2>6
<1>2. ASSUME n = 0, shift = LSL PROVE ShiftByImmediate(x, shift, n, c) = Operand(x, c)
    BY <1>2 DEF ShiftByImmediate, LSL, LSR, ASR, ROR
<1>3. ASSUME n = 0, shift \in {LSR, ASR}
      PROVE  ShiftByImmediate(x, shift, n, c) = ShiftOf(x, shift, WordBits)
    <2>1. WordBits \in 1 .. 8 * WordBits /\ ~ (WordBits < WordBits)
        OBVIOUS
    <2>2. ShiftOf(x, LSR, WordBits) = Operand(0, get_bit(x, WordBits - 1))
        BY <2>1, ShiftedRight
    <2>3. ShiftOf(x, ASR, WordBits) = Operand(SignFill(x), get_bit(x, WordBits - 1))
        BY <2>1, ShiftedSigned
    <2>4. /\ ShiftByImmediate(x, LSR, 0, c) = Operand(0, get_bit(x, WordBits - 1))
          /\ ShiftByImmediate(x, ASR, 0, c) = Operand(SignFill(x), get_bit(x, WordBits - 1))
        BY DEF ShiftByImmediate, LSL, LSR, ASR, ROR
    <2>. QED BY <1>3, <2>2, <2>3, <2>4
<1>4. ASSUME n = 0, shift = ROR
      PROVE  ShiftByImmediate(x, shift, n, c) = Operand((c * Modulus + x) \div 2, x % 2)
    <2> DEFINE h == Exp2[WordBits - 1]
    <2>1. ShiftByImmediate(x, ROR, 0, c) = Operand(c * h + Lsr(x, 1), get_bit(x, 0))
        BY DEF ShiftByImmediate, LSL, LSR, ASR, ROR
    <2>2. Modulus = 2 * h /\ h \in Nat
        BY SignBit
    <2>3. Lsr(x, 1) = x \div 2
        <3>1. 1 \in 1 .. WordBits /\ 1 - 1 = 0
            OBVIOUS
        <3>2. Exp2[1] = 2 * Exp2[1 - 1] /\ Exp2[0] = 1
            BY <3>1, Doubling
        <3>3. Exp2[1] = 2
            BY <3>1, <3>2
        <3>. QED BY <3>3 DEF Lsr
    <2> HIDE DEF h
    <2>4. (c * Modulus + x) \div 2 = c * h + (x \div 2)
        <3>1. CASE c = 0
            BY <1>0, <2>2, <3>1
        <3>2. CASE c = 1
            BY <1>0, <2>2, <3>2
        <3>. QED BY <3>1, <3>2
    <2>. QED BY <1>4, <2>1, <2>3, <2>4, LastBits
<1>. QED BY <1>1, <1>2, <1>3, <1>4

(* The counts in a register.                                               *)
LEMMA RegisterMatches ==
    ASSUME NEW x \in Word, NEW shift \in 0 .. 3, NEW n \in 0 .. 8 * WordBits - 1, NEW c \in {0, 1}
    PROVE  /\ n > 0 => ShiftByRegister(x, shift, n, c) = ShiftOf(x, shift, n)
           /\ n = 0 /\ shift \in {LSL, ROR} => ShiftByRegister(x, shift, n, c) = Operand(x, c)
<1> USE Widths
<1>1. ASSUME n > 0 PROVE ShiftByRegister(x, shift, n, c) = ShiftOf(x, shift, n)
    <2>1. n \in 1 .. 8 * WordBits /\ n # 0 /\ (n \in 1 .. WordBits - 1 <=> n < WordBits)
          /\ WordBits # 0 /\ ~ (WordBits < WordBits) /\ ~ (WordBits > WordBits)
          /\ (n > WordBits <=> ~ (n < WordBits) /\ n # WordBits)
        BY <1>1
    <2>3. CASE shift = 0
        <3>1. ShiftOf(x, 0, n)
                = IF n < WordBits THEN Operand(Lsl(x, n), get_bit(x, WordBits - n))
                  ELSE IF n = WordBits THEN Operand(0, get_bit(x, 0)) ELSE Operand(0, 0)
            BY <2>1, ShiftedLeft DEF LSL
        <3>2. CASE n < WordBits
            <4>1. ShiftByRegister(x, 0, n, c) = Operand(Lsl(x, n), get_bit(x, WordBits - n))
                BY <2>1, <3>2 DEF ShiftByRegister, LSL, LSR, ASR, ROR
            <4>. QED BY <2>3, <3>1, <3>2, <4>1
        <3>3. CASE n = WordBits
            <4>1. ShiftByRegister(x, 0, n, c) = Operand(0, get_bit(x, 0))
                BY <2>1, <3>3 DEF ShiftByRegister, LSL, LSR, ASR, ROR
            <4>. QED BY <2>1, <2>3, <3>1, <3>3, <4>1
        <3>4. CASE n > WordBits
            <4>1. ShiftByRegister(x, 0, n, c) = Operand(0, 0)
                BY <2>1, <3>4 DEF ShiftByRegister, LSL, LSR, ASR, ROR
            <4>. QED BY <2>1, <2>3, <3>1, <3>4, <4>1
        <3>. QED BY <2>1, <3>2, <3>3, <3>4
    <2>4. CASE shift = 1
        <3>1. ShiftOf(x, 1, n)
                = IF n < WordBits THEN Operand(Lsr(x, n), get_bit(x, n - 1))
                  ELSE IF n = WordBits THEN Operand(0, get_bit(x, WordBits - 1))
                  ELSE Operand(0, 0)
            BY <2>1, ShiftedRight DEF LSR
        <3>2. CASE n < WordBits
            <4>1. ShiftByRegister(x, 1, n, c) = Operand(Lsr(x, n), get_bit(x, n - 1))
                BY <2>1, <3>2 DEF ShiftByRegister, LSL, LSR, ASR, ROR
            <4>. QED BY <2>4, <3>1, <3>2, <4>1
        <3>3. CASE n = WordBits
            <4>1. ShiftByRegister(x, 1, n, c) = Operand(0, get_bit(x, WordBits - 1))
                BY <2>1, <3>3 DEF ShiftByRegister, LSL, LSR, ASR, ROR
            <4>. QED BY <2>1, <2>4, <3>1, <3>3, <4>1
        <3>4. CASE n > WordBits
            <4>1. ShiftByRegister(x, 1, n, c) = Operand(0, 0)
                BY <2>1, <3>4 DEF ShiftByRegister, LSL, LSR, ASR, ROR
            <4>. QED BY <2>1, <2>4, <3>1, <3>4, <4>1
        <3>. QED BY <2>1, <3>2, <3>3, <3>4
    <2>5. CASE shift = 2
        <3>1. ShiftOf(x, 2, n)
                = IF n < WordBits THEN Operand(asr(x, n), get_bit(x, n - 1))
                  ELSE Operand(SignFill(x), get_bit(x, WordBits - 1))
            BY <2>1, ShiftedSigned DEF ASR
        <3>2. ShiftByRegister(x, 2, n, c)
                = IF n \in 1 .. WordBits - 1 THEN Operand(asr(x, n), get_bit(x, n - 1))
                  ELSE Operand(SignFill(x), get_bit(x, WordBits - 1))
            BY DEF ShiftByRegister, LSL, LSR, ASR, ROR
        <3>. QED BY <2>1, <2>5, <3>1, <3>2
    <2>6. CASE shift = 3
        <3> DEFINE k == n % WordBits
        <3>0. k \in Nat /\ (k > 0 <=> k # 0)
            OBVIOUS
        <3>1. ShiftOf(x, 3, n)
                = IF k = 0 THEN Operand(x, get_bit(x, WordBits - 1))
                  ELSE Operand(ror(x, k), get_bit(x, k - 1))
            BY <2>1, Rotated DEF ROR
        <3>2. CASE k = 0
            <4>1. ShiftByRegister(x, 3, n, c) = Operand(x, get_bit(x, WordBits - 1))
                BY <1>1, <2>1, <3>2 DEF ShiftByRegister, LSL, LSR, ASR, ROR
            <4>. QED BY <2>6, <3>1, <3>2, <4>1
        <3>3. CASE k # 0
            <4>1. ShiftByRegister(x, 3, n, c) = Operand(ror(x, k), get_bit(x, k - 1))
                BY <1>1, <2>1, <3>0, <3>3 DEF ShiftByRegister, LSL, LSR, ASR, ROR
            <4>. QED BY <2>6, <3>1, <3>3, <4>1
        <3>. QED BY <3>2, <3>3
    <2>. QED BY <2>3, <2>4, <2>5, <2>6
<1>2. ASSUME n = 0, shift \in {LSL, ROR} PROVE ShiftByRegister(x, shift, n, c) = Operand(x, c)
    <2>1. ~ (0 \in 1 .. WordBits - 1) /\ 0 # WordBits /\ ~ (0 > WordBits) /\ ~ (0 > 0)
          /\ 0 % WordBits = 0
        OBVIOUS
    <2>2. ShiftByRegister(x, 0, 0, c) = Operand(x, c) /\ ShiftByRegister(x, 3, 0, c) = Operand(x, c)
        BY <2>1 DEF ShiftByRegister, LSL, LSR, ASR, ROR
    <2>. QED BY <1>2, <2>2 DEF LSL, ROR
<1>. QED BY <1>1, <1>2

(* The only instruction of a shift program: movs r3, r0 with a shift.      *)
LEMMA ShiftText ==
    ASSUME AluInv, Finished(ImmShift \cup RegShift)
    PROVE  /\ Len(code) = 1 /\ next > Len(code) /\ code[1] \in Shifts
           /\ code[1].op = 0 /\ code[1].rd = 3 /\ code[1].rn = 0 /\ code[1].rm = 0
           /\ code[1].l = 1 /\ code[1].sh \in 0 .. 3 /\ code[1].b4 \in {0, 1}
           /\ opcode(code[1]) = 13
           /\ code[1].b4 = 1 => code[1].rs = 1
<1> DEFINE i == Register(13, 1, 3, 0, 0)
<1>1. /\ i.op = 0 /\ i.rd = 3 /\ i.rn = 0 /\ i.rm = 0 /\ i.l = 1 /\ i.b4 = 0
      /\ i.p = 1 /\ i.u = 1 /\ i.b = 0 /\ i.w = 1
      /\ DOMAIN i = {"cond", "op", "p", "u", "b", "w", "l", "rn", "rd", "rs", "b7", "sh",
                     "b4", "rm"}
    <2>1. 13 \div 8 = 1 /\ (13 \div 4) % 2 = 1 /\ (13 \div 2) % 2 = 0 /\ 13 % 2 = 1
        OBVIOUS
    <2>. QED BY <2>1 DEF Register
<1> HIDE DEF i
<1>2. CASE code \in ImmShift
    <2>1. PICK s \in LSL .. ROR, n \in 0 .. WordBits - 1 : code = <<ShiftedImm(i, s, n)>>
        BY <1>2 DEF ImmShift, i
    <2>2. code[1] = [i EXCEPT !.sh = s, !.rs = n \div 2, !.b7 = n % 2] /\ Len(code) = 1
        BY <2>1 DEF ShiftedImm
    <2> DEFINE j == [i EXCEPT !.sh = s, !.rs = n \div 2, !.b7 = n % 2]
    <2>3. /\ j.op = 0 /\ j.rd = 3 /\ j.rn = 0 /\ j.rm = 0 /\ j.l = 1 /\ j.b4 = 0
          /\ j.p = 1 /\ j.u = 1 /\ j.b = 0 /\ j.w = 1 /\ j.sh = s
        BY <1>1
    <2> HIDE DEF j
    <2>4. opcode(j) = 13
        BY <2>3 DEF opcode
    <2>5. s \in 0 .. 3
        BY <2>1 DEF LSL, ROR
    <2>6. code[1] = j /\ Len(code) = 1
        BY <2>2 DEF j
    <2>7. code[1] \in Shifts /\ next > Len(code)
        BY <2>6, ProgramText DEF AluInv, Finished
    <2>8. j.sh \in 0 .. 3 /\ j.b4 \in {0, 1} /\ (j.b4 = 1 => j.rs = 1)
        BY <2>3, <2>5
    <2>. QED BY <2>3, <2>4, <2>6, <2>7, <2>8
<1>3. CASE code \in RegShift
    <2>1. PICK s \in LSL .. ROR : code = <<ShiftedReg(i, s, 1)>>
        BY <1>3 DEF RegShift, i
    <2>2. code[1] = [i EXCEPT !.sh = s, !.rs = 1, !.b4 = 1] /\ Len(code) = 1
        BY <2>1 DEF ShiftedReg
    <2> DEFINE j == [i EXCEPT !.sh = s, !.rs = 1, !.b4 = 1]
    <2>3. /\ j.op = 0 /\ j.rd = 3 /\ j.rn = 0 /\ j.rm = 0 /\ j.l = 1 /\ j.b4 = 1
          /\ j.p = 1 /\ j.u = 1 /\ j.b = 0 /\ j.w = 1 /\ j.sh = s /\ j.rs = 1
        BY <1>1
    <2> HIDE DEF j
    <2>4. opcode(j) = 13
        BY <2>3 DEF opcode
    <2>5. s \in 0 .. 3
        BY <2>1 DEF LSL, ROR
    <2>6. code[1] = j /\ Len(code) = 1
        BY <2>2 DEF j
    <2>7. code[1] \in Shifts /\ next > Len(code)
        BY <2>6, ProgramText DEF AluInv, Finished
    <2>8. j.sh \in 0 .. 3 /\ j.b4 \in {0, 1} /\ (j.b4 = 1 => j.rs = 1)
        BY <2>3, <2>5
    <2>. QED BY <2>3, <2>4, <2>6, <2>7, <2>8
<1>4. code \in ImmShift \/ code \in RegShift
    BY DEF Finished
<1>. QED BY <1>2, <1>3, <1>4, Zenon

(* r3 and the carry flag are the operand that decode_so gives.             *)
LEMMA ShiftEffect ==
    ASSUME AluInv, Finished(ImmShift \cup RegShift)
    PROVE  /\ start \in Processors
           /\ R(3) = decode_so(start, code[1]).so /\ Flag(C) = decode_so(start, code[1]).carry
<1> DEFINE ins == code[1]
           o == decode_so(start, ins)
<1>1. /\ Len(code) = 1 /\ next > Len(code) /\ ins \in Shifts
      /\ ins.rd = 3 /\ ins.l = 1 /\ opcode(ins) = 13
    BY ShiftText
<1>2. start \in Processors /\ arm = arm_data_processing_shift(start, ins).p
    <2>1. PICK h : /\ h \in [1 .. Len(code) + 1 -> Processors]
                   /\ h[1] = start /\ h[Len(code) + 1] = arm
                   /\ \A k \in 1 .. Len(code) :
                         h[k + 1] = arm_data_processing_shift(h[k], code[k]).p
        BY <1>1, Ended
    <2>2. 1 \in 1 .. Len(code) /\ Len(code) + 1 = 1 + 1
        BY <1>1
    <2>. QED BY <2>1, <2>2 DEF AluInv
<1>3. o.so \in Word /\ o.carry \in {0, 1}
    <2>1. o \in Operands
        BY <1>1, <1>2, ShiftDecoded
    <2>. QED BY <2>1 DEF Operands, Bit
<1> HIDE DEF ins, o
<1>4. arm = Logical(start, 3, 1, o.so, o.carry)
    <2>1. arm = Operate(start, ins, arm_read_register(start, ins.rn), o)
        BY <1>2 DEF arm_data_processing_shift, Ends, o
    <2>. QED BY <1>1, <2>1 DEF Operate, mov
<1>5. MakesLogically(start, arm, 3, o.so, o.carry)
    <2>1. 3 \in 0 .. 3
        OBVIOUS
    <2>. QED BY <1>2, <1>3, <1>4, <2>1, MakesLogical
<1>6. Low(arm, 3) = o.so /\ CarryOf(arm) = IF o.carry = 1 THEN 1 ELSE 0
    <2>1. Makes(start, arm, 3, o.so, o.carry = 1, OverflowOf(start) = 1)
        BY <1>5 DEF MakesLogically
    <2>2. 3 \in 0 .. 3
        OBVIOUS
    <2>3. Low(arm, 3) = o.so
        BY <2>1, <2>2 DEF Makes
    <2>4. CarryOf(arm) = IF o.carry = 1 THEN 1 ELSE 0
        BY <2>1, Zenon DEF Makes, Flagged, CarryOf
    <2>. QED BY <2>3, <2>4
<1>7. CarryOf(arm) = o.carry
    BY <1>3, <1>6
<1>. QED BY <1>2, <1>6, <1>7 DEF R, Low, Flag, CarryOf, o, ins

(* The operand is the one expected.                                        *)
LEMMA ShifterRight ==
    ASSUME AluInv, Finished(ImmShift \cup RegShift)
    PROVE  ShifterMatches
<1> DEFINE ins == code[1]
           x == X(0)
           c == CarryIn
           shift == ins.sh
<1>1. /\ start \in Processors
      /\ R(3) = decode_so(start, ins).so /\ Flag(C) = decode_so(start, ins).carry
    BY ShiftEffect
<1>2. /\ ins \in Shifts /\ ins.op = 0 /\ ins.rm = 0 /\ shift \in 0 .. 3 /\ ins.b4 \in {0, 1}
      /\ (ins.b4 = 1 => ins.rs = 1)
    BY ShiftText
<1>3. x \in Word /\ arm_read_register(start, 0) = x /\ arm_read_register(start, 1) = X(1)
      /\ X(1) \in Word
    BY <1>1, LowRegisters DEF X
<1>4. c \in {0, 1} /\ c = get_bit(arm_read_cpsr(start), C)
    BY <1>1, FlagBits DEF CarryIn, CarryOf, Bit
<1>5. \/ Expected = decode_so(start, ins)
      \/ ins.b4 = 1 /\ shift \in {LSR, ASR} /\ X(1) % (8 * WordBits) = 0
    <2>0. ins.op % 2 = 0
        BY <1>2
    <2>1. CASE ins.b4 = 0
        <3> DEFINE n == shift_imm(ins)
        <3>1. n \in 0 .. WordBits - 1
            BY <1>2, Fields DEF Shifts
        <3>2. decode_so(start, ins) = ShiftByImmediate(x, shift, n, c)
            BY <1>2, <1>3, <1>4, <2>0, <2>1 DEF decode_so
        <3>3. Expected = CASE n > 0 -> ShiftOf(x, shift, n)
                           [] n = 0 /\ shift = LSL -> Operand(x, c)
                           [] n = 0 /\ shift \in {LSR, ASR} -> ShiftOf(x, shift, WordBits)
                           [] n = 0 /\ shift = ROR -> Operand((c * Modulus + x) \div 2, x % 2)
            <4> HIDE DEF n, x, c
            <4>. QED BY <2>1 DEF Expected, n, x, c
        <3>4. /\ n > 0 => ShiftByImmediate(x, shift, n, c) = ShiftOf(x, shift, n)
              /\ n = 0 /\ shift = LSL => ShiftByImmediate(x, shift, n, c) = Operand(x, c)
              /\ n = 0 /\ shift \in {LSR, ASR} =>
                    ShiftByImmediate(x, shift, n, c) = ShiftOf(x, shift, WordBits)
              /\ n = 0 /\ shift = ROR =>
                    ShiftByImmediate(x, shift, n, c)
                      = Operand((c * Modulus + x) \div 2, x % 2)
            <4> HIDE DEF n, x, c, shift
            <4>. QED BY <1>2, <1>3, <1>4, <3>1, ImmediateMatches
        <3> HIDE DEF n, x, c, shift, ins
        <3>5. n > 0 \/ n = 0
            BY <3>1, Widths
        <3>6. shift = LSL \/ shift = LSR \/ shift = ASR \/ shift = ROR
            BY <1>2 DEF LSL, LSR, ASR, ROR
        <3>7. ~ (n > 0 /\ n = 0) /\ LSL # LSR /\ LSL # ASR /\ LSL # ROR /\ LSR # ROR /\ ASR # ROR
            BY <3>1, Widths DEF LSL, LSR, ASR, ROR
        <3>8. Expected = ShiftByImmediate(x, shift, n, c)
            BY <3>3, <3>4, <3>5, <3>6, <3>7
        <3>. QED BY <3>2, <3>8
    <2>2. CASE ins.b4 = 1
        <3> DEFINE n == X(1) % (8 * WordBits)
        <3>1. n \in 0 .. 8 * WordBits - 1
            <4>1. 8 * WordBits \in Nat \ {0}
                BY Widths
            <4>2. X(1) \in Nat
                BY <1>3, Words
            <4>3. \A a \in Nat, d \in Nat \ {0} : a % d \in 0 .. d - 1
                OBVIOUS
            <4>. QED BY <4>1, <4>2, <4>3
        <3>2. decode_so(start, ins) = ShiftByRegister(x, shift, n, c)
            BY <1>2, <1>3, <1>4, <2>0, <2>2 DEF decode_so
        <3>3. Expected = CASE n > 0 -> ShiftOf(x, shift, n)
                           [] n = 0 -> Operand(x, c)
            <4>1. ins.rs = 1
                BY <1>2, <2>2
            <4> HIDE DEF n, x, c
            <4>. QED BY <2>2, <4>1 DEF Expected, n, x, c
        <3>4. /\ n > 0 => ShiftByRegister(x, shift, n, c) = ShiftOf(x, shift, n)
              /\ n = 0 /\ shift \in {LSL, ROR} =>
                    ShiftByRegister(x, shift, n, c) = Operand(x, c)
            <4> HIDE DEF n, x, c, shift
            <4>. QED BY <1>2, <1>3, <1>4, <3>1, RegisterMatches
        <3> HIDE DEF n, x, c, shift, ins
        <3>5. (n > 0 \/ n = 0) /\ ~ (n > 0 /\ n = 0)
            BY <3>1, Widths
        <3>6. shift \in {LSL, ROR} \/ shift \in {LSR, ASR}
            BY <1>2 DEF LSL, LSR, ASR, ROR
        <3>7. Expected = ShiftByRegister(x, shift, n, c) \/ (n = 0 /\ shift \in {LSR, ASR})
            BY <3>3, <3>4, <3>5, <3>6
        <3>. QED BY <2>2, <3>2, <3>7 DEF n
    <2>. QED BY <1>2, <2>1, <2>2
<1>. QED BY <1>1, <1>5 DEF ShifterMatches

(* For every word width, all operands and all counts, the shifter does     *)
(* what integer arithmetic says.                                           *)
THEOREM ShifterIsArithmetic == Spec => []ShifterMatches
<1>1. AluInv => ShifterMatches
    <2>1. ~ Finished(ImmShift \cup RegShift) => ShifterMatches
        BY DEF ShifterMatches
    <2>. QED BY <2>1, ShifterRight
<1>. QED BY <1>1, AluInvariant, PTL

=============================================================================
