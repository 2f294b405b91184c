------------------------- MODULE ArmDataProcessing -------------------------
(***************************************************************************)
(* arm_data_processing.c: the shifter operand and the sixteen operations.  *)
(* shifter_carry_out is a global that decode_so always sets before an      *)
(* operation reads it, so decode_so returns it with the operand.           *)
(***************************************************************************)
EXTENDS ArmCore, ArmInstructionSet

LSL == 0
LSR == 1
ASR == 2
ROR == 3

Operand(x, c) == [so |-> x, carry |-> c]

SignFill(x) == IF get_bit(x, WordBits - 1) = 1 THEN Modulus - 1 ELSE 0

\* The count is an immediate: 0 stands for 32, or for rrx.
ShiftByImmediate(x, shift, n, c) ==
    CASE shift = LSL ->
           IF n = 0 THEN Operand(x, c)
                    ELSE Operand(Lsl(x, n), get_bit(x, WordBits - n))
      [] shift = LSR ->
           IF n = 0 THEN Operand(0, get_bit(x, WordBits - 1))
                    ELSE Operand(Lsr(x, n), get_bit(x, n - 1))
      [] shift = ASR ->
           IF n = 0 THEN Operand(SignFill(x), get_bit(x, WordBits - 1))
                    ELSE Operand(asr(x, n), get_bit(x, n - 1))
      [] shift = ROR ->
           IF n = 0 THEN Operand(c * Exp2[WordBits - 1] + Lsr(x, 1), get_bit(x, 0))
                    ELSE Operand(ror(x, n), get_bit(x, n - 1))

\* The count is the low byte of a register.
ShiftByRegister(x, shift, n, c) ==
    LET inside == n \in 1 .. WordBits - 1
        k      == n % WordBits
    IN  CASE shift = LSL ->
               (CASE n = 0        -> Operand(x, c)
                  [] inside       -> Operand(Lsl(x, n), get_bit(x, WordBits - n))
                  [] n = WordBits -> Operand(0, get_bit(x, 0))
                  [] n > WordBits -> Operand(0, 0))
          [] shift = LSR ->
               (CASE n \in {0, WordBits} -> Operand(0, get_bit(x, WordBits - 1))
                  [] inside       -> Operand(Lsr(x, n), get_bit(x, n - 1))
                  [] n > WordBits -> Operand(0, 0))
          [] shift = ASR ->
               (IF inside THEN Operand(asr(x, n), get_bit(x, n - 1))
                          ELSE Operand(SignFill(x), get_bit(x, WordBits - 1)))
          [] shift = ROR ->
               (CASE n = 0          -> Operand(x, c)
                  [] n > 0 /\ k = 0 -> Operand(x, get_bit(x, WordBits - 1))
                  [] k > 0          -> Operand(ror(x, k), get_bit(x, k - 1)))

\* The five bits of shift_imm, the 0xFF and the even rotations scale with the
\* word: modulo 32, 256 and 32 when it has 32 bits.
shift_imm(ins) == (ins.rs * 2 + ins.b7) % WordBits

decode_so(p, ins) ==
    LET c  == get_bit(arm_read_cpsr(p), C)
        rm == arm_read_register(p, ins.rm)
    IN  CASE ins.op % 2 = 1 ->
               LET x == ror(imm8(ins), (ins.rs * 2) % WordBits)
               IN  Operand(x, IF ins.rs = 0 THEN c ELSE get_bit(x, WordBits - 1))
          [] ins.op % 2 = 0 /\ ins.b4 = 0 ->
               ShiftByImmediate(rm, ins.sh, shift_imm(ins), c)
          [] ins.op % 2 = 0 /\ ins.b4 = 1 ->
               ShiftByRegister(rm, ins.sh,
                               arm_read_register(p, ins.rs) % (8 * WordBits), c)

-----------------------------------------------------------------------------
handle_rd15(p, rd, s) ==
    IF s = 1 /\ rd = 15 /\ arm_current_mode_has_spsr(p)
    THEN arm_write_cpsr(p, arm_read_spsr(p)) ELSE p

\* Variants: equal operands borrow, and carry.
borrowFromEqual(x, y) == x <= y
carryFromEqual(x, y)  == Plus(x, y) <= x

borrowFrom(x, y) == x < y
carryFrom(x, y)  == Plus(x, y) < x

\* Sign(rn - rm) is used for the addition too.
overflowFrom(x, y, add) ==
    LET sx == get_bit(x, WordBits - 1)
        sy == get_bit(y, WordBits - 1)
        sd == get_bit(Minus(x, y), WordBits - 1)
    IN  IF add THEN sx = sy /\ sd # sx ELSE sx # sy /\ sx # sd

\* Variant: the other bits of the cpsr are lost.
SetFlagsAlone(p, res, c, v) ==
    LET nz == albit(albit(0, N, get_bit(res, WordBits - 1) = 1), Z, res = 0)
    IN  arm_write_cpsr(p, albit(albit(nz, C, c), V, v))

SetFlags(p, res, c, v) ==
    LET nz == albit(albit(arm_read_cpsr(p), N, get_bit(res, WordBits - 1) = 1), Z, res = 0)
    IN  arm_write_cpsr(p, albit(albit(nz, C, c), V, v))

\* Variant: a logical operation clears the overflow.
update_flags1_clears(p, res, carry) == SetFlags(p, res, carry = 1, FALSE)

update_flags1(p, res, carry) ==
    SetFlags(p, res, carry = 1, get_bit(arm_read_cpsr(p), V) = 1)
update_flags2(p, res, x, y) == SetFlags(p, res, ~ borrowFrom(x, y), overflowFrom(x, y, FALSE))
update_flags3(p, res, x, y) == SetFlags(p, res, carryFrom(x, y), overflowFrom(x, y, TRUE))

\* The tail of an operation that has a destination: q is p with res in rd.
WriteResult(p, rd, s, res) == handle_rd15(arm_write_register(p, rd, res), rd, s)
WithFlags(rd, s) == s = 1 /\ rd # 15

Logical(p, rd, s, res, carry) ==
    LET q == WriteResult(p, rd, s, res)
    IN  IF WithFlags(rd, s) THEN update_flags1(q, res, carry) ELSE q

Subtract(p, rd, s, x, y) ==
    LET q == WriteResult(p, rd, s, Minus(x, y))
    IN  IF WithFlags(rd, s) THEN update_flags2(q, Minus(x, y), x, y) ELSE q

\* adc, sbc and rsc combine the flags of two additions or subtractions.
adc(p, rd, s, x, y) ==
    LET c   == get_bit(arm_read_cpsr(p), C)
        res == Plus(Plus(x, y), c)
        q   == WriteResult(p, rd, s, res)
    IN  IF WithFlags(rd, s)
        THEN SetFlags(q, res, carryFrom(x, y) \/ carryFrom(Plus(x, y), c),
                      overflowFrom(x, y, TRUE) \/ overflowFrom(Plus(x, y), c, TRUE))
        ELSE q

SubtractWithCarry(p, rd, s, x, y) ==
    LET nc  == 1 - get_bit(arm_read_cpsr(p), C)
        res == Minus(Minus(x, y), nc)
        q   == WriteResult(p, rd, s, res)
    IN  IF WithFlags(rd, s)
        THEN SetFlags(q, res, ~ borrowFrom(x, y) \/ ~ borrowFrom(Minus(x, y), nc),
                      overflowFrom(x, y, FALSE) \/ overflowFrom(Minus(x, y), nc, FALSE))
        ELSE q

add(p, rd, s, x, y) ==
    LET q == WriteResult(p, rd, s, Plus(x, y))
    IN  IF WithFlags(rd, s) THEN update_flags3(q, Plus(x, y), x, y) ELSE q

and(p, rd, s, rn, so, carry) == Logical(p, rd, s, And(rn, so), carry)
eor(p, rd, s, rn, so, carry) == Logical(p, rd, s, Xor(rn, so), carry)
orr(p, rd, s, rn, so, carry) == Logical(p, rd, s, Or(rn, so), carry)
mov(p, rd, s, so, carry)     == Logical(p, rd, s, so, carry)
bic(p, rd, s, rn, so, carry) == Logical(p, rd, s, And(rn, Not(so)), carry)
mvn(p, rd, s, so, carry)     == Logical(p, rd, s, Not(so), carry)
sub(p, rd, s, rn, so) == Subtract(p, rd, s, rn, so)
rsb(p, rd, s, rn, so) == Subtract(p, rd, s, so, rn)
sbc(p, rd, s, rn, so) == SubtractWithCarry(p, rd, s, rn, so)
rsc(p, rd, s, rn, so) == SubtractWithCarry(p, rd, s, so, rn)

\* The tests set the flags whatever the S bit says.
tst(p, rn, so, carry) == update_flags1(p, And(rn, so), carry)
teq(p, rn, so, carry) == update_flags1(p, Xor(rn, so), carry)
cmp(p, rn, so) == update_flags2(p, Minus(rn, so), rn, so)
cmn(p, rn, so) == update_flags3(p, Plus(rn, so), rn, so)

\* The switch on the opcode; operand is what the shifter gives.
Operate(p, ins, rn, operand) ==
    LET rd    == ins.rd
        s     == ins.l
        so    == operand.so
        carry == operand.carry
    IN  CASE opcode(ins) = 0  -> and(p, rd, s, rn, so, carry)
          [] opcode(ins) = 1  -> eor(p, rd, s, rn, so, carry)
          [] opcode(ins) = 2  -> sub(p, rd, s, rn, so)
          [] opcode(ins) = 3  -> rsb(p, rd, s, rn, so)
          [] opcode(ins) = 4  -> add(p, rd, s, rn, so)
          [] opcode(ins) = 5  -> adc(p, rd, s, rn, so)
          [] opcode(ins) = 6  -> sbc(p, rd, s, rn, so)
          [] opcode(ins) = 7  -> rsc(p, rd, s, rn, so)
          [] opcode(ins) = 8  -> tst(p, rn, so, carry)
          [] opcode(ins) = 9  -> teq(p, rn, so, carry)
          [] opcode(ins) = 10 -> cmp(p, rn, so)
          [] opcode(ins) = 11 -> cmn(p, rn, so)
          [] opcode(ins) = 12 -> orr(p, rd, s, rn, so, carry)
          [] opcode(ins) = 13 -> mov(p, rd, s, so, carry)
          [] opcode(ins) = 14 -> bic(p, rd, s, rn, so, carry)
          [] opcode(ins) = 15 -> mvn(p, rd, s, so, carry)

arm_data_processing_shift(p, ins) ==
    Ends(Operate(p, ins, arm_read_register(p, ins.rn), decode_so(p, ins)), 0)
=============================================================================
