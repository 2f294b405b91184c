------------------------------- MODULE MCAlu -------------------------------
(* ArmAlu with four-bit words: every operand of every program, double words  *)
(* with every lower half and the upper halves next to a change of sign or   *)
(* to a carry.                                                              *)
EXTENDS ArmAlu

\* Two operands, or two double words r1:r0 and r3:r2.
Pairs == {[i \in 0 .. 3 |-> IF i = 0 THEN a ELSE IF i = 1 THEN b ELSE 0] : a, b \in Word}
Edges == {0, Modulus \div 2 - 1, Modulus \div 2, Modulus - 1}
Quads == {[i \in 0 .. 3 |-> <<a, h, b, k>>[i + 1]] : a, b \in Word, h, k \in Edges}

Long     == {LongAdd, LongSub, LongRsb}
All      == {Compare, Boolean, Complement, Addition} \cup ImmShift \cup RegShift \cup Long
OnlyAddition == {Addition}
Operands(c)  == IF c \in Long THEN Quads ELSE Pairs
=============================================================================
