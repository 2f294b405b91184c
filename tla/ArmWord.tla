------------------------------ MODULE ArmWord ------------------------------
(***************************************************************************)
(* Machine words and the bit operations of util.h and util.c.  The width   *)
(* is a parameter: a byte has ByteBits bits (8 in the code) and a word is  *)
(* four bytes (uint32_t), so every address and every register wraps at     *)
(* 2^WordBits exactly where the C code wraps at 2^32.  "31" in the source  *)
(* is WordBits-1 here.                                                     *)
(***************************************************************************)
EXTENDS Integers

CONSTANT ByteBits

ASSUME WordAssumption == ByteBits \in Nat \ {0}

WordBits == 4 * ByteBits

\* 1 << n
Exp2[n \in 0 .. WordBits] == IF n = 0 THEN 1 ELSE 2 * Exp2[n - 1]

\* The number of values of a byte and of a word.
Base     == Exp2[ByteBits]
Modulus  == Base * Base * Base * Base

Byte == 0 .. Base - 1
Half == 0 .. Base * Base - 1
Word == 0 .. Modulus - 1

\* Variants, here and below, that a wrong edit of the code would give: the runs
\* use them to show that a property can fail.  This one forgets to wrap.
PlusUnbounded(x, y)  == x + y

\* uint32_t addition and subtraction.
Plus(x, y)  == (x + y) % Modulus
Minus(x, y) == (x - y) % Modulus

get_bit(x, i) == (x \div Exp2[i]) % 2
set_bit(x, i) == IF get_bit(x, i) = 1 THEN x ELSE x + Exp2[i]
clr_bit(x, i) == IF get_bit(x, i) = 1 THEN x - Exp2[i] ELSE x

\* The i-th byte of a value, the least significant first.
Digit(x, i) ==
    CASE i = 0 -> x % Base
      [] i = 1 -> (x \div Base) % Base
      [] i = 2 -> ((x \div Base) \div Base) % Base
      [] i = 3 -> (((x \div Base) \div Base) \div Base) % Base

reverse_2(x) == Digit(x, 0) * Base + Digit(x, 1)
reverse_4(x) == ((Digit(x, 0) * Base + Digit(x, 1)) * Base + Digit(x, 2)) * Base
                    + Digit(x, 3)

\* The bits that are set in a word, and the word in which the bits of a set are.
Bits(x) == {i \in 0 .. WordBits - 1 : get_bit(x, i) = 1}
FromBits(S) ==
    LET below[i \in 0 .. WordBits] ==
            IF i = 0 THEN 0 ELSE below[i-1] + (IF i-1 \in S THEN Exp2[i-1] ELSE 0)
    IN  below[WordBits]

And(x, y) == FromBits(Bits(x) \cap Bits(y))
Or(x, y)  == FromBits(Bits(x) \cup Bits(y))
Xor(x, y) == FromBits((Bits(x) \cup Bits(y)) \ (Bits(x) \cap Bits(y)))
Not(x)    == Modulus - 1 - x

\* Variant: the shift keeps what leaves the word.
LslUnbounded(x, n) == x * Exp2[n]

Lsl(x, n) == (x * Exp2[n]) % Modulus
Lsr(x, n) == x \div Exp2[n]

\* Variant: the sign is not copied.
asrUnsigned(x, n) == Lsr(x, n)

\* asr is only called with 0 < shift < 32.
asr(x, n) == Lsr(x, n) + (IF get_bit(x, WordBits - 1) = 1
                          THEN Modulus - Exp2[WordBits - n] ELSE 0)

\* ror by 0 shifts left by 32, which C leaves undefined: the shift instruction
\* of the host takes the count modulo 32, and dropping the term instead gives
\* the same result.
ror(x, n) == IF n = 0 THEN x ELSE Lsr(x, n) + Lsl(x, WordBits - n)
=============================================================================
