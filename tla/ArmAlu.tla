------------------------------- MODULE ArmAlu -------------------------------
(***************************************************************************)
(* Short programs of data-processing instructions, run from every contents *)
(* of the registers they use: a debugger may set any registers and flags   *)
(* before it steps (the G packet of gdb_protocol.c).  The fetch is left to *)
(* Arm; here the instructions are handed to arm_data_processing_shift one  *)
(* after the other.                                                        *)
(***************************************************************************)
EXTENDS ArmInstruction, Sequences

CONSTANTS Programs,   \* sequences of instructions
          Starts(_)   \* what r0-r3 may hold before a program: functions on 0 .. 3

\* The instructions whose operand is a register: bits 27-25 are clear.
Shifts == {i \in Instructions : i.op = 0}

ASSUME ProgramsAssumption == \A c \in Programs : c \in Seq(Shifts)
ASSUME StartsAssumption == \A c \in Programs : Starts(c) \subseteq [0 .. 3 -> Word]

VARIABLES arm, start, code, next
vars == <<arm, start, code, next>>

\* A processor with the low registers f and the cpsr c.
Processor(f, c) ==
    [cycle_count |-> 0,
     reg |-> [registers_create EXCEPT !.registers =
                 [k \in PhysicalRegs |-> CASE k \in 0 .. 3 -> f[k]
                                           [] k = 31 -> c
                                           [] k \notin (0 .. 3) \cup {31} -> 0]],
     mem |-> [i \in 0 .. Size - 1 |-> 0]]

Init == /\ code \in Programs
        /\ \E f \in Starts(code), c \in {0, Exp2[C] + Exp2[V]} : start = Processor(f, c)
        /\ arm = start
        /\ next = 1

ExecuteNext == /\ next <= Len(code)
               /\ arm' = arm_data_processing_shift(arm, code[next]).p
               /\ next' = next + 1
               /\ UNCHANGED <<start, code>>

Done == next > Len(code) /\ UNCHANGED vars

Next == ExecuteNext \/ Done

Spec == Init /\ [][Next]_vars

-----------------------------------------------------------------------------
(* The instructions the programs below are made of.                        *)
Register(op, s, rd, rn, rm) ==
    [cond |-> 14, op |-> 0, p |-> op \div 8, u |-> (op \div 4) % 2, b |-> (op \div 2) % 2,
     w |-> op % 2, l |-> s, rn |-> rn, rd |-> rd, rs |-> 0, b7 |-> 0, sh |-> LSL,
     b4 |-> 0, rm |-> rm]
ShiftedImm(i, shift, n) == [i EXCEPT !.sh = shift, !.rs = n \div 2, !.b7 = n % 2]
ShiftedReg(i, shift, r) == [i EXCEPT !.sh = shift, !.rs = r, !.b4 = 1]

Compare    == <<Register(10, 1, 0, 0, 1)>>
ImmShift   == {<<ShiftedImm(Register(13, 1, 3, 0, 0), s, n)>> :
                   s \in LSL .. ROR, n \in 0 .. WordBits - 1}
RegShift   == {<<ShiftedReg(Register(13, 1, 3, 0, 0), s, 1)>> : s \in LSL .. ROR}
LongAdd    == <<Register(4, 1, 2, 0, 2), Register(5, 1, 3, 1, 3)>>
LongSub    == <<Register(2, 1, 2, 0, 2), Register(6, 1, 3, 1, 3)>>
LongRsb    == <<Register(3, 1, 2, 0, 2), Register(7, 1, 3, 1, 3)>>
Boolean    == <<Register(12, 1, 2, 0, 1), Register(0, 1, 3, 0, 1),
                Register(14, 1, 2, 2, 3), Register(1, 1, 3, 0, 1), Register(9, 1, 0, 2, 3)>>
Complement == <<Register(15, 1, 2, 0, 0), Register(4, 0, 3, 2, 0), Register(8, 1, 0, 2, 0)>>
Addition   == <<Register(4, 1, 3, 0, 1)>>

-----------------------------------------------------------------------------
Finished(programs) == code \in programs /\ next > Len(code)

R(i)    == arm.reg.registers[i]
X(i)    == start.reg.registers[i]
Flag(i) == get_bit(arm_read_cpsr(arm), i)
CarryIn == get_bit(arm_read_cpsr(start), C)
Signed(x) == IF x >= Modulus \div 2 THEN x - Modulus ELSE x

(* The flags cmp leaves in the cpsr and the tests conditionPassed makes on *)
(* them agree: for every pair of operands each condition is the comparison *)
(* it is named after, signed or unsigned, MI the sign of the difference as *)
(* a word, and VS that the signed difference does not fit in one.          *)
CompareOrders ==
    Finished({Compare}) =>
        LET passed(c) == conditionPassed(arm, c)
            a  == X(0)
            b  == X(1)
            sa == Signed(X(0))
            sb == Signed(X(1))
        IN  /\ passed(0) = (a = b)
            /\ passed(2) = (a >= b)
            /\ passed(4) = (Signed((a - b) % Modulus) < 0)
            /\ passed(6) = (sa - sb # Signed((a - b) % Modulus))
            /\ passed(8) = (a > b)
            /\ passed(10) = (sa >= sb)
            /\ passed(12) = (sa > sb)
            /\ passed(14) /\ ~ passed(15)
            /\ \A k \in {0, 2, 4, 6, 8, 10, 12} : passed(k) # passed(k + 1)

\* 2^n, for the counts that the low byte of a register holds.
Pow2[n \in 0 .. 8 * WordBits] == IF n = 0 THEN 1 ELSE 2 * Pow2[n - 1]

\* x shifted by n > 0 places, and the last bit that leaves it.
ShiftOf(x, shift, n) ==
    CASE shift = LSL -> Operand((x * Pow2[n]) % Modulus, ((x * Pow2[n]) \div Modulus) % 2)
      [] shift = LSR -> Operand(x \div Pow2[n], ((2 * x) \div Pow2[n]) % 2)
      [] shift = ASR -> Operand((Signed(x) \div Pow2[n]) % Modulus,
                                ((2 * Signed(x)) \div Pow2[n]) % 2)
      [] shift = ROR -> LET y == ((x * Modulus + x) \div Pow2[n % WordBits]) % Modulus
                        IN  Operand(y, y \div (Modulus \div 2))

\* The operand of the only instruction of the program.
Expected ==
    LET ins == code[1]
        n   == IF ins.b4 = 1 THEN X(ins.rs) % (8 * WordBits) ELSE shift_imm(ins)
    IN  CASE n > 0 -> ShiftOf(X(0), ins.sh, n)
          [] n = 0 /\ (ins.b4 = 1 \/ ins.sh = LSL) -> Operand(X(0), CarryIn)
          [] n = 0 /\ ins.b4 = 0 /\ ins.sh \in {LSR, ASR} -> ShiftOf(X(0), ins.sh, WordBits)
          [] n = 0 /\ ins.b4 = 0 /\ ins.sh = ROR ->
               Operand((CarryIn * Modulus + X(0)) \div 2, X(0) % 2)

(* decode_so shifts as integer arithmetic does and carries out the last    *)
(* bit shifted out, for immediate counts (where 0 means 32 or rrx) and for *)
(* counts of 0, below, equal to and above the width in a register.  LSR    *)
(* and ASR by a register whose low byte is 0 are left out: the code shifts *)
(* by 32, the architecture not at all.                                     *)
ShifterMatches ==
    Finished(ImmShift \cup RegShift) =>
        \/ R(3) = Expected.so /\ Flag(C) = Expected.carry
        \/ code[1].b4 = 1 /\ code[1].sh \in {LSR, ASR} /\ X(1) % (8 * WordBits) = 0

(* The logical operations obey the laws of Boolean algebra: (x or y) and   *)
(* not (x and y) is x xor y, which teq sees as equal; x and its complement *)
(* add up to all ones and share no bit, which tst sees.  None of them      *)
(* touches the overflow flag.                                              *)
BooleanLaws ==
    /\ Finished({Boolean}) => /\ R(2) = R(3) /\ Flag(Z) = 1
                              /\ Flag(V) = get_bit(arm_read_cpsr(start), V)
    /\ Finished({Complement}) => /\ R(3) = Modulus - 1 /\ Flag(Z) = 1
                                 /\ Flag(V) = get_bit(arm_read_cpsr(start), V)

\* The double word in r(i+1):r(i), before and after.
XX(i) == X(i + 1) * Modulus + X(i)
RR(i) == R(i + 1) * Modulus + R(i)

(* The carry that adds, subs and rsbs leave is the one adcs, sbcs and rscs *)
(* take: two of them in a row are addition and subtraction of double       *)
(* words, and the carry out of the addition is right again.                *)
DoubleWord ==
    /\ Finished({LongAdd}) => /\ RR(2) = (XX(0) + XX(2)) % (Modulus * Modulus)
                              /\ Flag(C) = (XX(0) + XX(2)) \div (Modulus * Modulus)
    /\ Finished({LongSub}) => RR(2) = (XX(0) - XX(2)) % (Modulus * Modulus)
    /\ Finished({LongRsb}) => RR(2) = (XX(2) - XX(0)) % (Modulus * Modulus)

(* The overflow flag after adds says that the signed sum does not fit: the *)
(* comment of overflowFrom tells additions from subtractions.              *)
AddOverflow ==
    Finished({Addition}) => (Flag(V) = 1 <=> Signed(X(0)) + Signed(X(1)) # Signed(R(3)))

(* The registers, the memory and the flags have their types.               *)
TypeOK == /\ arm.reg \in [mode : Modes, registers : [PhysicalRegs -> Word]]
          /\ arm.mem \in Contents
          /\ code \in Programs /\ next \in 1 .. Len(code) + 1
=============================================================================
