--------------------------- MODULE SessionProofs ---------------------------
(***************************************************************************)
(* What the debugger holds is what the processor and its memory hold, and  *)
(* what it is told about a stop is about the last instruction: for every   *)
(* program, every plan, both byte orders of host and target, and any       *)
(* number of packets and exceptions.                                       *)
(***************************************************************************)
EXTENDS GdbSession, ArmStepProofs, SequenceTheorems

-----------------------------------------------------------------------------
(* The byte that 0x1d3 needs has room for the bit of an escaped character. *)
LEMMA WideBytes ==
    ASSUME WellFormed
    PROVE  ByteBits >= 3
<1> USE Widths
<1> SUFFICES ASSUME ByteBits < 3 PROVE FALSE
    OBVIOUS
<1>1. ByteBits = 1 \/ ByteBits = 2
    OBVIOUS
<1>2. /\ Exp2[0] = 1 /\ Exp2[1] = 2 * Exp2[0] /\ Exp2[2] = 2 * Exp2[1]
      /\ \A n \in 1 .. WordBits : Exp2[n] = 2 * Exp2[n - 1]
    BY Doubling
<1>3. Base = 2 \/ Base = 4
    BY <1>1, <1>2 DEF Base
<1>4. 467 < Modulus
    BY Bases DEF WellFormed, ResetCpsr, Word
<1>. QED BY <1>3, <1>4 DEF Modulus

(* Bit 5 of a byte flipped twice is as it was.                             *)
LEMMA FlipTwice ==
    ASSUME WellFormed, NEW c \in Byte
    PROVE  Flip(c) \in Word /\ Flip(Flip(c)) = c
<1> DEFINE i == ByteBits - 3
           d == Exp2[i]
           q == c \div d
           r == c % d
<1>1. i \in 0 .. WordBits - 1
    BY WideBytes, Widths
<1>2. c \in Word /\ c \in Nat
    BY Widening, Words
<1>3. /\ d \in Nat \ {0} /\ q \in Nat /\ r \in 0 .. d - 1 /\ c = q * d + r
    BY <1>1, <1>2, BitPlace
<1>4. \A x \in Nat : get_bit(x, i) = (x \div d) % 2
    BY DEF get_bit
<1>5. \A x \in Nat : set_bit(x, i) = (IF get_bit(x, i) = 1 THEN x ELSE x + d)
    BY DEF set_bit
<1>6. \A x \in Nat : clr_bit(x, i) = (IF get_bit(x, i) = 1 THEN x - d ELSE x)
    BY DEF clr_bit
<1>7. Flip(c) = IF get_bit(c, i) = 1 THEN clr_bit(c, i) ELSE set_bit(c, i)
    BY DEF Flip
<1>8. \A x \in Nat : Flip(x) = IF get_bit(x, i) = 1 THEN clr_bit(x, i) ELSE set_bit(x, i)
    BY DEF Flip
<1>9. clr_bit(c, i) \in Word /\ set_bit(c, i) \in Word
    BY <1>1, <1>2, SetClear
<1> HIDE DEF i, d, q, r
<1>10. CASE get_bit(c, i) = 1
    <2>1. q % 2 = 1
        BY <1>2, <1>4, <1>10 DEF q
    <2>2. q - 1 \in Nat /\ (q - 1) % 2 = 0
        BY <1>3, <2>1
    <2>3. c - d = (q - 1) * d + r
        BY <1>3, <2>2
    <2>4. (c - d) \div d = q - 1
        BY <1>3, <2>2, <2>3, DivMod
    <2>5. Flip(c) = c - d /\ c - d \in Word
        BY <1>2, <1>6, <1>7, <1>9, <1>10
    <2>6. c - d \in Nat
        BY <2>5, Words
    <2>7. get_bit(c - d, i) = 0
        BY <1>4, <2>2, <2>4, <2>6
    <2>8. Flip(c - d) = (c - d) + d
        BY <1>5, <1>8, <2>6, <2>7
    <2>. QED BY <1>2, <1>3, <2>5, <2>8
<1>11. CASE get_bit(c, i) # 1
    <2>1. q % 2 = 0
        BY <1>2, <1>3, <1>4, <1>11 DEF q
    <2>2. q + 1 \in Nat /\ (q + 1) % 2 = 1
        BY <1>3, <2>1
    <2>3. c + d = (q + 1) * d + r
        BY <1>3, <2>2
    <2>4. (c + d) \div d = q + 1
        BY <1>3, <2>2, <2>3, DivMod
    <2>5. Flip(c) = c + d /\ c + d \in Word
        BY <1>2, <1>5, <1>7, <1>9, <1>11
    <2>6. c + d \in Nat
        BY <2>5, Words
    <2>7. get_bit(c + d, i) = 1
        BY <1>4, <2>2, <2>4, <2>6
    <2>8. Flip(c + d) = (c + d) - d
        BY <1>6, <1>8, <2>6, <2>7
    <2>. QED BY <1>2, <1>3, <2>5, <2>8
<1>. QED BY <1>10, <1>11

(* write_uint32 and read_uint32 agree with the debugger, on hosts of both  *)
(* endiannesses.                                                           *)
LEMMA ValuesTravel ==
    ASSUME NEW v \in Word
    PROVE  /\ TargetValue(write_uint32(v)) = v
           /\ read_uint32(TargetBytes(v)) = v
           /\ TargetBytes(v) \in [1 .. 4 -> Byte]
<1> DEFINE d0 == Digit(v, 0)
           d1 == Digit(v, 1)
           d2 == Digit(v, 2)
           d3 == Digit(v, 3)
           x == ((d3 * Base + d2) * Base + d1) * Base + d0
           t == TargetBytes(v)
           u == write_uint32(v)
           h == [i \in 0 .. 3 |-> t[IF SameEndian THEN i + 1 ELSE 4 - i]]
<1>1. v = x
    BY Recomposed
<1>2. d0 \in Byte /\ d1 \in Byte /\ d2 \in Byte /\ d3 \in Byte
    BY DigitByte, Words
<1>3. /\ t[1] = IF TargetBigEndian THEN d3 ELSE d0
      /\ t[2] = IF TargetBigEndian THEN d2 ELSE d1
      /\ t[3] = IF TargetBigEndian THEN d1 ELSE d2
      /\ t[4] = IF TargetBigEndian THEN d0 ELSE d3
      /\ t = [k \in 1 .. 4 |-> t[k]]
    BY DEF TargetBytes
<1>4. u[1] = t[1] /\ u[2] = t[2] /\ u[3] = t[3] /\ u[4] = t[4]
    BY <1>3, MemoryAssumption DEF write_uint32, HostByte, SameEndian
<1>5. t \in [1 .. 4 -> Byte]
    <2>1. \A k \in 1 .. 4 : t[k] \in Byte
        BY <1>2, <1>3
    <2>. QED BY <1>3, <2>1
<1>6. TargetValue(u) = x
    BY <1>3, <1>4 DEF TargetValue
<1>7. read_uint32(t) = HostLoad4(h, 0)
    BY DEF read_uint32
<1>8. /\ h[0] = IF SameEndian THEN t[1] ELSE t[4]
      /\ h[1] = IF SameEndian THEN t[2] ELSE t[3]
      /\ h[2] = IF SameEndian THEN t[3] ELSE t[2]
      /\ h[3] = IF SameEndian THEN t[4] ELSE t[1]
    OBVIOUS
<1> HIDE DEF t, u, h
<1>9. /\ h[0] = IF HostBigEndian THEN d3 ELSE d0
      /\ h[1] = IF HostBigEndian THEN d2 ELSE d1
      /\ h[2] = IF HostBigEndian THEN d1 ELSE d2
      /\ h[3] = IF HostBigEndian THEN d0 ELSE d3
    BY <1>3, <1>8, MemoryAssumption DEF SameEndian
<1>10. HostLoad4(h, 0) = x
    BY <1>9 DEF HostLoad4
<1>. QED BY <1>1, <1>5, <1>6, <1>7, <1>10 DEF t, u

(* G writes every register and the cpsr, and nothing else.                 *)
LEMMA AllAssigned ==
    ASSUME NEW p \in Processors, NEW f \in [Registers -> Word], NEW content,
           \A k \in 1 .. 16 : content[k] = TargetBytes(f[k - 1]),
           content[CpsrWord] = TargetBytes(f[16]),
           NEW q, q = write_general_registers(p, content)
    PROVE  /\ q \in Processors /\ q.cycle_count = p.cycle_count /\ q.mem = p.mem
           /\ \A i \in Registers : Reg(q, i) = f[i]
<1> DEFINE value(k) == read_uint32(content[k])
           g == [k \in 1 .. 16 |-> [r \in Processors |-> arm_write_register(r, k - 1, value(k))]]
           b == CHOOSE w : w = [k \in 0 .. 16 |->
                    IF k = 0 THEN p ELSE arm_write_register(w[k-1], k - 1, read_uint32(content[k]))]
<1>0. \A k \in 1 .. 16 : k - 1 \in 0 .. 15 /\ k - 1 \in 0 .. 16 /\ k - 1 \in Registers
    BY DEF Registers
<1>1. /\ \A k \in 1 .. 16 : value(k) = f[k - 1] /\ value(k) \in Word
      /\ value(CpsrWord) = f[16] /\ f[16] \in Word
    <2>1. \A i \in Registers : f[i] \in Word /\ read_uint32(TargetBytes(f[i])) = f[i]
        BY ValuesTravel
    <2>2. 16 \in Registers
        BY DEF Registers
    <2>. QED BY <1>0, <2>1, <2>2
<1>2. q = arm_write_cpsr(b[16], value(CpsrWord))
    BY DEF write_general_registers
<1> HIDE DEF value
<1>3. \A k \in 1 .. 16, r \in Processors :
          /\ Assigned(r, arm_write_register(r, k - 1, value(k)), k - 1, value(k))
          /\ arm_write_register(r, k - 1, value(k)) \in Processors
    <2> TAKE k \in 1 .. 16, r \in Processors
    <2>1. Assigned(r, arm_write_register(r, k - 1, value(k)), k - 1, value(k))
        BY <1>0, <1>1, RegisterAssigned
    <2>. QED BY <2>1 DEF Assigned, Registers
<1>4. PICK w \in [0 .. 16 -> Processors] :
          w[0] = p /\ \A k \in 1 .. 16 : w[k] = g[k][w[k - 1]]
    <2>1. g \in [1 .. 16 -> [Processors -> Processors]]
        BY <1>3
    <2>2. 16 \in Nat
        OBVIOUS
    <2> HIDE DEF g
    <2>3. Iterates(16, Processors, p, g)
        BY <2>1, <2>2, Recursion
    <2>. QED BY <2>3 DEF Iterates
<1>5. \A k \in 1 .. 16 : w[k] = arm_write_register(w[k-1], k - 1, value(k))
    <2> TAKE k \in 1 .. 16
    <2>1. w[k - 1] \in Processors
        BY <1>0
    <2>2. g[k][w[k - 1]] = arm_write_register(w[k-1], k - 1, value(k))
        BY <2>1
    <2>. QED BY <1>4, <2>2
<1>6. w = [k \in 0 .. 16 |-> IF k = 0 THEN p ELSE arm_write_register(w[k-1], k - 1, value(k))]
    <2>1. \A k \in 0 .. 16 :
              w[k] = IF k = 0 THEN p ELSE arm_write_register(w[k-1], k - 1, value(k))
        BY <1>4, <1>5
    <2>. QED BY <2>1
<1>7. b = [k \in 0 .. 16 |-> IF k = 0 THEN p ELSE arm_write_register(b[k-1], k - 1, value(k))]
    BY <1>6 DEF value
<1> HIDE DEF b, g
<1> DEFINE Kept(r) == r \in Processors /\ r.cycle_count = p.cycle_count /\ r.mem = p.mem
           T == {k \in 0 .. 16 : Kept(b[k]) /\ \A i \in 0 .. k - 1 : Reg(b[k], i) = f[i]}
<1>8. 0 .. 16 \subseteq T
    <2>1. 0 \in T
        BY <1>7
    <2>2. ASSUME NEW n \in 0 .. 16 - 1, n \in T PROVE n + 1 \in T
        <3>1. n + 1 \in 1 .. 16 /\ n + 1 \in 0 .. 16 /\ n + 1 # 0 /\ (n + 1) - 1 = n
            OBVIOUS
        <3>2. b[n + 1] = arm_write_register(b[n], n, value(n + 1))
            BY <1>7, <3>1
        <3>3. Kept(b[n]) /\ \A i \in 0 .. n - 1 : Reg(b[n], i) = f[i]
            BY <2>2
        <3>4. Assigned(b[n], b[n + 1], n, f[n])
            BY <1>1, <1>3, <3>1, <3>2, <3>3
        <3>5. Kept(b[n + 1])
            BY <3>3, <3>4 DEF Assigned, Registers
        <3>6. ASSUME NEW i \in 0 .. n PROVE Reg(b[n + 1], i) = f[i]
            <4>1. i \in Registers /\ (i # n => i \in 0 .. n - 1)
                BY DEF Registers
            <4>. QED BY <3>3, <3>4, <4>1 DEF Assigned, Registers
        <3>. QED BY <3>1, <3>5, <3>6
    <2>3. 16 \in Nat
        OBVIOUS
    <2> HIDE DEF T
    <2>. QED BY <2>1, <2>2, <2>3, BoundedInduction
<1>9. Kept(b[16]) /\ \A i \in 0 .. 15 : Reg(b[16], i) = f[i]
    <2>1. 16 \in T
        BY <1>8
    <2>. QED BY <2>1
<1>10. Assigned(b[16], q, 16, f[16])
    BY <1>1, <1>2, <1>9, RegisterAssigned
<1>11. ASSUME NEW i \in Registers PROVE Reg(q, i) = f[i]
    <2>1. i = 16 \/ i \in 0 .. 15
        BY DEF Registers
    <2>. QED BY <1>9, <1>10, <2>1 DEF Assigned, Registers
<1>. QED BY <1>9, <1>10, <1>11 DEF Assigned, Registers

(* The loop of m ends at the end of the memory.                            *)
LEMMA Room ==
    ASSUME Size < Modulus, NEW a \in Word, NEW n \in Nat
    PROVE  /\ Within(a, n) \in 0 .. n
           /\ a >= Size => Within(a, n) = 0
           /\ a < Size => Within(a, n) = IF n <= Size - a THEN n ELSE Size - a
           /\ \A j \in 0 .. Within(a, n) : a < Size => Plus(a, j) = a + j
<1> DEFINE Fits(k) == /\ \A j \in 0 .. k - 1 : Accessible(Plus(a, j), 1)
                      /\ k = n \/ ~ Accessible(Plus(a, k), 1)
           w == Within(a, n)
           m == IF a >= Size THEN 0 ELSE IF n <= Size - a THEN n ELSE Size - a
<1>1. a \in Nat /\ Size \in Nat /\ Modulus \in Nat
    BY Words, MemoryAssumption, Bases
<1>2. \A j \in Nat : a + j < Modulus => Plus(a, j) = a + j
    BY <1>1 DEF Plus
<1>3. \A x \in Nat : Accessible(x, 1) <=> x < Size
    BY <1>1 DEF Accessible
<1>4. m \in 0 .. n
    BY <1>1
<1>5. Plus(a, 0) = a
    BY <1>1, <1>2, Words
<1>6. \A j \in 0 .. m : a < Size => Plus(a, j) = a + j
    BY <1>1, <1>2
<1>7. Fits(m)
    <2>1. CASE a >= Size
        BY <1>1, <1>3, <1>5, <2>1
    <2>2. CASE a < Size
        BY <1>1, <1>3, <1>6, <2>2
    <2>. QED BY <1>1, <2>1, <2>2
<1>8. w \in 0 .. n /\ Fits(w)
    BY <1>4, <1>7 DEF Within
<1> HIDE DEF w
<1>9. w = m
    <2>1. CASE a >= Size
        <3>1. ~ Accessible(Plus(a, 0), 1)
            BY <1>1, <1>3, <1>5, <2>1
        <3>2. ~ (0 \in 0 .. w - 1)
            BY <1>8, <3>1
        <3>. QED BY <1>8, <2>1, <3>2
    <2>2. CASE a < Size
        <3>1. w <= m
            <4> SUFFICES ASSUME w > m PROVE FALSE
                BY <1>4, <1>8
            <4>1. m \in 0 .. w - 1 /\ m < n /\ m \in 0 .. m
                BY <1>4, <1>8
            <4>2. Plus(a, m) = a + m /\ a + m = Size
                BY <1>1, <1>6, <2>2, <4>1
            <4>. QED BY <1>1, <1>3, <1>8, <4>1, <4>2
        <3>2. w >= m
            <4> SUFFICES ASSUME w < m PROVE FALSE
                BY <1>4, <1>8
            <4>1. w \in 0 .. m /\ w # n
                BY <1>4, <1>8
            <4>2. Plus(a, w) = a + w /\ a + w < Size /\ a + w \in Nat
                BY <1>1, <1>6, <2>2, <1>8, <4>1
            <4>. QED BY <1>3, <1>8, <4>1, <4>2
        <3>. QED BY <1>4, <1>8, <3>1, <3>2
    <2>. QED BY <1>1, <2>1, <2>2
<1>. QED BY <1>1, <1>4, <1>6, <1>9 DEF w

\* In content, the bytes of data begin after pos[0], pos[1] ... characters.
Found(data, content, pos, k) ==
    IF data[k] \in EscapedBytes
    THEN /\ content[pos[k-1] + 1] = EscapeByte /\ content[pos[k-1] + 2] = Flip(data[k])
         /\ pos[k] = pos[k-1] + 2
    ELSE content[pos[k-1] + 1] = data[k] /\ pos[k] = pos[k-1] + 1

(* Where the characters of an X packet are that stand for each byte.       *)
LEMMA EscapedFound ==
    ASSUME WellFormed, NEW data \in Seq(Byte)
    PROVE  \E pos \in [0 .. Len(data) -> Nat] :
               pos[0] = 0 /\ \A k \in 1 .. Len(data) : Found(data, Escape(data), pos, k)
<1> DEFINE L == Len(data)
           S == Seq(Word)
           g == [k \in 1 .. L |-> [s \in S |-> s \o Escaped(data[k])]]
           b == CHOOSE sent : sent = [k \in 0 .. L |->
                    IF k = 0 THEN <<>> ELSE sent[k-1] \o Escaped(data[k])]
<1>0. L \in Nat /\ \A k \in 1 .. L : data[k] \in Byte
    OBVIOUS
<1>1. ASSUME NEW k \in 1 .. L
      PROVE  /\ Escaped(data[k]) \in S
             /\ data[k] \in EscapedBytes => /\ Len(Escaped(data[k])) = 2
                                            /\ Escaped(data[k])[1] = EscapeByte
                                            /\ Escaped(data[k])[2] = Flip(data[k])
             /\ data[k] \notin EscapedBytes => /\ Len(Escaped(data[k])) = 1
                                               /\ Escaped(data[k])[1] = data[k]
    <2>1. data[k] \in Word /\ Flip(data[k]) \in Word /\ EscapeByte \in Word
        BY <1>0, FlipTwice, Widening, SessionAssumption
    <2>. QED BY <2>1 DEF Escaped
<1>2. Escape(data) = b[L]
    BY DEF Escape
<1> HIDE DEF L
<1>3. PICK f \in [0 .. L -> S] : f[0] = <<>> /\ \A k \in 1 .. L : f[k] = g[k][f[k - 1]]
    <2>1. g \in [1 .. L -> [S -> S]]
        BY <1>1, ConcatProperties
    <2>2. <<>> \in S
        OBVIOUS
    <2> HIDE DEF g, S
    <2>3. Iterates(L, S, <<>>, g)
        BY <1>0, <2>1, <2>2, Recursion
    <2>. QED BY <2>3 DEF Iterates
<1>4. \A k \in 1 .. L : f[k] = f[k - 1] \o Escaped(data[k])
    <2> TAKE k \in 1 .. L
    <2>1. f[k - 1] \in S
        BY <1>0
    <2>2. g[k][f[k - 1]] = f[k - 1] \o Escaped(data[k])
        BY <2>1
    <2>. QED BY <1>3, <2>2
<1>5. f = [k \in 0 .. L |-> IF k = 0 THEN <<>> ELSE f[k-1] \o Escaped(data[k])]
    <2>1. \A k \in 0 .. L : f[k] = IF k = 0 THEN <<>> ELSE f[k-1] \o Escaped(data[k])
        <3> TAKE k \in 0 .. L
        <3>1. k = 0 \/ k \in 1 .. L
            BY <1>0
        <3>. QED BY <1>3, <1>4, <3>1
    <2>. QED BY <2>1
<1>6. b = [k \in 0 .. L |-> IF k = 0 THEN <<>> ELSE b[k-1] \o Escaped(data[k])]
    BY <1>5
<1> HIDE DEF b, g
<1> DEFINE pos == [k \in 0 .. L |-> Len(b[k])]
           T == {m \in 0 .. L : /\ b[m] \in S
                                /\ \A k \in 0 .. m : pos[k] \in Nat /\ pos[k] <= pos[m]
                                /\ \A k \in 1 .. m : Found(data, b[m], pos, k)}
<1>7. 0 .. L \subseteq T
    <2>1. 0 \in T
        <3>1. 0 \in 0 .. L /\ b[0] = <<>>
            BY <1>0, <1>6
        <3>2. b[0] \in S /\ pos[0] = 0
            BY <3>1
        <3> HIDE DEF pos, S
        <3>3. /\ \A k \in 0 .. 0 : pos[k] \in Nat /\ pos[k] <= pos[0]
              /\ \A k \in 1 .. 0 : Found(data, b[0], pos, k)
            BY <3>2
        <3>. QED BY <3>1, <3>2, <3>3
    <2>2. ASSUME NEW n \in 0 .. L - 1, n \in T PROVE n + 1 \in T
        <3>1. n + 1 \in 1 .. L /\ n + 1 \in 0 .. L /\ n + 1 # 0 /\ (n + 1) - 1 = n /\ n \in 0 .. L
            BY <1>0
        <3> DEFINE e == Escaped(data[n + 1])
        <3>2. b[n + 1] = b[n] \o e
            BY <1>6, <3>1
        <3>3. /\ b[n] \in S /\ e \in S
              /\ \A k \in 0 .. n : pos[k] \in Nat /\ pos[k] <= pos[n]
              /\ \A k \in 1 .. n : Found(data, b[n], pos, k)
            BY <1>1, <2>2, <3>1
        <3>4. pos[n] = Len(b[n]) /\ pos[n + 1] = Len(b[n + 1])
            BY <3>1
        <3>e. /\ data[n + 1] \in EscapedBytes => /\ Len(e) = 2 /\ e[1] = EscapeByte
                                                 /\ e[2] = Flip(data[n + 1])
              /\ data[n + 1] \notin EscapedBytes => Len(e) = 1 /\ e[1] = data[n + 1]
            BY <1>1, <3>1
        <3> HIDE DEF pos, e
        <3>5. /\ b[n + 1] \in S /\ Len(b[n + 1]) = Len(b[n]) + Len(e)
              /\ \A i \in 1 .. Len(b[n]) : b[n + 1][i] = b[n][i]
              /\ \A i \in 1 .. Len(e) : b[n + 1][Len(b[n]) + i] = e[i]
            <4>1. /\ \A i \in 1 .. Len(e) : Len(b[n]) + i \in 1 .. Len(b[n]) + Len(e)
                                            /\ Len(b[n]) + i > Len(b[n])
                                            /\ (Len(b[n]) + i) - Len(b[n]) = i
                BY <3>3
            <4>. QED BY <3>2, <3>3, <4>1, ConcatProperties
        <3>6. pos[n + 1] \in Nat /\ pos[n] \in Nat /\ pos[n] <= pos[n + 1]
            BY <3>3, <3>4, <3>5
        <3>7. \A k \in 0 .. n + 1 : pos[k] \in Nat /\ pos[k] <= pos[n + 1]
            <4> TAKE k \in 0 .. n + 1
            <4>1. k \in 0 .. n \/ k = n + 1
                OBVIOUS
            <4>. QED BY <3>3, <3>6, <4>1
        <3>8. ASSUME NEW k \in 1 .. n + 1 PROVE Found(data, b[n + 1], pos, k)
            <4>1. CASE k = n + 1
                <5>1. (n + 1) - 1 = n
                    OBVIOUS
                <5>2. CASE data[n + 1] \in EscapedBytes
                    <6>1. Len(e) = 2 /\ e[1] = EscapeByte /\ e[2] = Flip(data[n + 1])
                        BY <3>e, <5>2
                    <6>2. 1 \in 1 .. Len(e) /\ 2 \in 1 .. Len(e)
                        BY <6>1
                    <6>. QED BY <3>4, <3>5, <4>1, <5>1, <5>2, <6>1, <6>2 DEF Found
                <5>3. CASE data[n + 1] \notin EscapedBytes
                    <6>1. 1 \in 1 .. Len(e)
                        BY <3>e, <5>3
                    <6>. QED BY <3>4, <3>5, <3>e, <4>1, <5>1, <5>3, <6>1 DEF Found
                <5>. QED BY <5>2, <5>3
            <4>2. CASE k # n + 1
                <5>1. k \in 1 .. n /\ k - 1 \in 0 .. n /\ k \in 0 .. n
                    BY <4>2
                <5>2. Found(data, b[n], pos, k)
                    BY <3>3, <5>1
                <5>3. pos[k - 1] \in Nat /\ pos[k] <= Len(b[n]) /\ pos[k] \in Nat
                    BY <3>3, <3>4, <5>1
                <5>4. CASE data[k] \in EscapedBytes
                    <6>1. pos[k] = pos[k-1] + 2
                        BY <5>2, <5>4 DEF Found
                    <6>2. pos[k-1] + 1 \in 1 .. Len(b[n]) /\ pos[k-1] + 2 \in 1 .. Len(b[n])
                        BY <3>3, <5>3, <6>1
                    <6>. QED BY <3>5, <5>2, <5>4, <6>2 DEF Found
                <5>5. CASE data[k] \notin EscapedBytes
                    <6>1. pos[k] = pos[k-1] + 1
                        BY <5>2, <5>5 DEF Found
                    <6>2. pos[k-1] + 1 \in 1 .. Len(b[n])
                        BY <3>3, <5>3, <6>1
                    <6>. QED BY <3>5, <5>2, <5>5, <6>2 DEF Found
                <5>. QED BY <5>4, <5>5
            <4>. QED BY <4>1, <4>2
        <3>. QED BY <3>1, <3>5, <3>7, <3>8 DEF pos
    <2> HIDE DEF T
    <2>. QED BY <1>0, <2>1, <2>2, BoundedInduction
<1>8. L \in T /\ L \in 0 .. L /\ 0 \in 0 .. L
    <2>1. L \in 0 .. L /\ 0 \in 0 .. L
        BY <1>0
    <2> HIDE DEF T
    <2>. QED BY <1>7, <2>1
<1>9. pos \in [0 .. L -> Nat] /\ pos[0] = 0 /\ \A k \in 1 .. L : Found(data, b[L], pos, k)
    <2>1. \A k \in 0 .. L : pos[k] \in Nat
        BY <1>8
    <2>2. pos[0] = 0
        BY <1>6, <1>8
    <2>. QED BY <1>8, <2>1, <2>2
<1> HIDE DEF pos
<1>. QED BY <1>2, <1>9 DEF L

\* The memory m with the first i bytes of data from address a on, as far as they
\* fit, and the state of the loop of X after i turns.
Overlay(m, a, data, i) ==
    [j \in 0 .. Size - 1 |-> IF j \in a .. a + i - 1 THEN data[j - a + 1] ELSE m[j]]
After(m, a, data, pos, i) ==
    [mem |-> Overlay(m, a, data, i),
     at  |-> IF a >= Size THEN 1 ELSE 1 + pos[IF a + i <= Size THEN i ELSE Size - a + 1],
     ok  |-> a < Size /\ a + i <= Size]

(* One turn of the loop of X writes one byte of the data, or fails at the  *)
(* end of the memory.                                                      *)
LEMMA OneWritten ==
    ASSUME WellFormed, Size < Modulus, NEW m \in Contents, NEW a \in Word, NEW data \in Seq(Byte),
           NEW pos \in [0 .. Len(data) -> Nat], NEW content, NEW i \in 1 .. Len(data),
           Found(data, content, pos, i)
    PROVE  LET s == After(m, a, data, pos, i - 1)
           IN  After(m, a, data, pos, i)
                   = IF s.ok THEN WriteOne(s, Plus(a, i - 1), content) ELSE s
<1> DEFINE s == After(m, a, data, pos, i - 1)
           x == a + (i - 1)
           o == Overlay(m, a, data, i - 1)
           n == Overlay(m, a, data, i)
<1>1. a \in Nat /\ Size \in Nat /\ Modulus \in Nat /\ Size >= 4 /\ x \in Nat /\ Len(data) \in Nat
    BY Words, MemoryAssumption, Bases
<1>2. s.ok = (a < Size /\ x <= Size) /\ s.mem = o
      /\ s.at = IF a >= Size THEN 1 ELSE 1 + pos[IF x <= Size THEN i - 1 ELSE Size - a + 1]
    BY DEF After
<1>3. m \in [0 .. Size - 1 -> Byte] /\ data[i] \in Byte
    BY DEF Contents
<1>4. /\ o = [j \in 0 .. Size - 1 |-> o[j]] /\ n = [j \in 0 .. Size - 1 |-> n[j]]
      /\ \A j \in 0 .. Size - 1 :
            o[j] = IF j \in a .. a + (i - 1) - 1 THEN data[j - a + 1] ELSE m[j]
      /\ \A j \in 0 .. Size - 1 : n[j] = IF j \in a .. a + i - 1 THEN data[j - a + 1] ELSE m[j]
    BY DEF Overlay
<1> HIDE DEF o, n
<1>5. ASSUME x >= Size PROVE n = o
    <2>1. \A j \in 0 .. Size - 1 : n[j] = o[j]
        <3> TAKE j \in 0 .. Size - 1
        <3>1. j \in a .. a + i - 1 <=> j \in a .. a + (i - 1) - 1
            BY <1>1, <1>5
        <3>. QED BY <1>4, <3>1
    <2>. QED BY <1>4, <2>1
<1>6. CASE a < Size /\ x <= Size
    <2>1. Plus(a, i - 1) = x
        BY <1>1, <1>6 DEF Plus
    <2>2. s.at = 1 + pos[i - 1] /\ pos[i - 1] \in Nat /\ pos[i] \in Nat
        BY <1>1, <1>2, <1>6
    <2> DEFINE v == IF content[s.at] = EscapeByte THEN Flip(content[s.at + 1]) ELSE content[s.at]
               e == s.at + (IF content[s.at] = EscapeByte THEN 2 ELSE 1)
    <2> HIDE DEF s, x
    <2>3. v = data[i] /\ e = 1 + pos[i]
        <3>1. s.at = pos[i - 1] + 1 /\ s.at + 1 = pos[i - 1] + 2
            BY <2>2
        <3>2. CASE data[i] \in EscapedBytes
            BY <1>3, <2>2, <3>1, <3>2, FlipTwice DEF Found
        <3>3. CASE data[i] \notin EscapedBytes
            BY <2>2, <3>1, <3>3, SessionAssumption DEF Found
        <3>. QED BY <3>2, <3>3
    <2>4. WriteOne(s, x, content)
              = [mem |-> memory_write_byte(o, x, v), at |-> e, ok |-> Accessible(x, 1)]
        BY <1>2 DEF WriteOne
    <2> HIDE DEF v, e
    <2>5. Accessible(x, 1) <=> x < Size
        BY <1>1 DEF Accessible
    <2>6. memory_write_byte(o, x, data[i]) = n
        <3>1. CASE x < Size
            <4>1. x \in 0 .. Size - 1
                BY <1>1, <3>1
            <4>2. memory_write_byte(o, x, data[i]) = [o EXCEPT ![x] = data[i]]
                BY <2>5, <3>1 DEF memory_write_byte
            <4>3. \A j \in 0 .. Size - 1 : n[j] = IF j = x THEN data[i] ELSE o[j]
                <5> TAKE j \in 0 .. Size - 1
                <5>1. j = x => j \in a .. a + i - 1 /\ j - a + 1 = i
                    BY <1>1 DEF x
                <5>2. j # x => (j \in a .. a + i - 1 <=> j \in a .. a + (i - 1) - 1)
                    BY <1>1 DEF x
                <5>. QED BY <1>4, <5>1, <5>2
            <4>. QED BY <1>4, <4>1, <4>2, <4>3
        <3>2. CASE x >= Size
            BY <1>1, <1>5, <2>5, <3>2 DEF memory_write_byte
        <3>. QED BY <1>1, <3>1, <3>2
    <2>7. After(m, a, data, pos, i) = [mem |-> n, at |-> 1 + pos[i], ok |-> x < Size]
        <3>1. a + i = x + 1
            BY <1>1 DEF x
        <3>2. (IF a + i <= Size THEN i ELSE Size - a + 1) = i
            BY <1>1, <1>6, <3>1 DEF x
        <3>3. (a < Size /\ a + i <= Size) <=> x < Size
            BY <1>1, <1>6, <3>1
        <3>4. ~ (a >= Size)
            BY <1>1, <1>6
        <3>5. (a < Size /\ a + i <= Size) = (x < Size)
            BY <3>3
        <3>. QED BY <3>2, <3>4, <3>5, Zenon DEF After, n
    <2>8. Accessible(x, 1) = (x < Size)
        BY <2>5 DEF Accessible
    <2>9. s.ok
        BY <1>2, <1>6
    <2>. QED BY <2>1, <2>3, <2>4, <2>6, <2>7, <2>8, <2>9 DEF s
<1>7. CASE ~ (a < Size /\ x <= Size)
    <2>1. ~ s.ok /\ s.ok = FALSE /\ x >= Size
        BY <1>1, <1>2, <1>7
    <2>2. n = o
        BY <1>5, <2>1
    <2>3. /\ (a < Size /\ a + i <= Size) = FALSE
          /\ a < Size => ~ (a + i <= Size) /\ ~ (x <= Size)
        BY <1>1, <1>7
    <2>4. After(m, a, data, pos, i)
              = [mem |-> n, at |-> IF a >= Size THEN 1 ELSE 1 + pos[Size - a + 1], ok |-> FALSE]
        <3>1. CASE a >= Size
            BY <2>3, <3>1, Zenon DEF After, n
        <3>2. CASE ~ (a >= Size)
            <4>1. (IF a + i <= Size THEN i ELSE Size - a + 1) = Size - a + 1
                BY <1>1, <2>3, <3>2
            <4>. QED BY <2>3, <3>2, <4>1, Zenon DEF After, n
        <3>. QED BY <3>1, <3>2
    <2>5. s = [mem |-> o, at |-> IF a >= Size THEN 1 ELSE 1 + pos[Size - a + 1], ok |-> FALSE]
        <3>1. s.at = IF a >= Size THEN 1 ELSE 1 + pos[Size - a + 1]
            BY <1>1, <1>2, <2>3
        <3>2. s = [mem |-> s.mem, at |-> s.at, ok |-> s.ok]
            BY DEF After
        <3> HIDE DEF s
        <3>. QED BY <1>2, <2>1, <3>1, <3>2
    <2>. QED BY <2>1, <2>2, <2>4, <2>5
<1>. QED BY <1>6, <1>7

(* An X packet writes the bytes of its data that fit, and is answered OK   *)
(* exactly when all of them do.                                            *)
LEMMA DataWritten ==
    ASSUME WellFormed, Size < Modulus, NEW p \in Processors, NEW a \in Word,
           NEW data \in Seq(Byte),
           NEW h, h = write_memory_binary(p, a, Len(data), Escape(data))
    PROVE  /\ h.answer = (IF a < Size /\ a + Len(data) <= Size THEN "OK" ELSE "E02")
           /\ h.p.mem = Overlay(p.mem, a, data, Len(data))
           /\ h.p \in Processors /\ h.p.reg = p.reg /\ h.p.cycle_count = p.cycle_count
<1> DEFINE n == Len(data)
           content == Escape(data)
           m == p.mem
           turn(i, s) == IF s.ok THEN WriteOne(s, Plus(a, i - 1), content) ELSE s
           start == [mem |-> m, at |-> 1, ok |-> a < Size]
           b == CHOOSE t : t = [i \in 0 .. n |->
                    IF i = 0 THEN [mem |-> p.mem, at |-> 1, ok |-> a < Size]
                    ELSE IF t[i-1].ok THEN WriteOne(t[i-1], Plus(a, i - 1), content)
                    ELSE t[i-1]]
<1>1. n \in Nat /\ m \in Contents /\ a \in Nat /\ Size \in Nat /\ Size >= 4
    BY Words, MemoryAssumption DEF Processors
<1>2. PICK pos \in [0 .. n -> Nat] : pos[0] = 0 /\ \A k \in 1 .. n : Found(data, content, pos, k)
    BY EscapedFound
<1> DEFINE e(i) == After(m, a, data, pos, i)
<1>3. h = [p |-> [p EXCEPT !.mem = b[n].mem], answer |-> IF b[n].ok THEN "OK" ELSE "E02"]
    BY DEF write_memory_binary
<1>4. e(0) = start
    <2>1. Overlay(m, a, data, 0) = m
        <3>1. \A j \in 0 .. Size - 1 : ~ (j \in a .. a + 0 - 1)
            BY <1>1
        <3>2. m = [j \in 0 .. Size - 1 |-> m[j]]
            BY <1>1 DEF Contents
        <3>. QED BY <3>1, <3>2, Zenon DEF Overlay
    <2>2. (IF a >= Size THEN 1 ELSE 1 + pos[IF a + 0 <= Size THEN 0 ELSE Size - a + 1]) = 1
        BY <1>1, <1>2
    <2>3. (a < Size /\ a + 0 <= Size) = (a < Size)
        BY <1>1
    <2>. QED BY <2>1, <2>2, <2>3, Zenon DEF After
<1>5. \A i \in 1 .. n : e(i) = turn(i, e(i - 1))
    BY <1>1, <1>2, OneWritten
<1> HIDE DEF e
<1> DEFINE w == [i \in 0 .. n |-> e(i)]
<1>6. w = [i \in 0 .. n |-> IF i = 0 THEN start ELSE turn(i, w[i - 1])]
    <2>1. ASSUME NEW i \in 0 .. n PROVE e(i) = IF i = 0 THEN start ELSE turn(i, w[i - 1])
        <3>1. CASE i = 0
            BY <1>4, <3>1
        <3>2. CASE i # 0
            <4>1. i \in 1 .. n /\ i - 1 \in 0 .. n
                BY <1>1, <3>2
            <4>2. w[i - 1] = e(i - 1)
                BY <4>1
            <4> HIDE DEF turn
            <4>. QED BY <1>5, <3>2, <4>1, <4>2
        <3>. QED BY <3>1, <3>2
    <2>. QED BY <2>1
<1>7. b = [i \in 0 .. n |-> IF i = 0 THEN start ELSE turn(i, b[i - 1])]
    BY <1>6
<1> HIDE DEF b, w, turn, start
<1> DEFINE T == {i \in 0 .. n : b[i] = e(i)}
<1>8. 0 .. n \subseteq T
    <2>1. 0 \in T
        <3>1. 0 \in 0 .. n
            BY <1>1
        <3>. QED BY <1>4, <1>7, <3>1
    <2>2. ASSUME NEW i \in 0 .. n - 1, i \in T PROVE i + 1 \in T
        <3>1. i + 1 \in 1 .. n /\ i + 1 \in 0 .. n /\ i + 1 # 0 /\ (i + 1) - 1 = i
            BY <1>1
        <3>2. b[i + 1] = turn(i + 1, b[i])
            BY <1>7, <3>1
        <3>3. e(i + 1) = turn(i + 1, e(i))
            BY <1>5, <3>1
        <3>. QED BY <2>2, <3>1, <3>2, <3>3
    <2> HIDE DEF T, n
    <2>. QED BY <1>1, <2>1, <2>2, BoundedInduction
<1>9. b[n] = e(n)
    <2>1. n \in 0 .. n
        BY <1>1
    <2>. QED BY <1>8, <2>1
<1>10. /\ b[n].mem = Overlay(m, a, data, n)
       /\ b[n].ok = (a < Size /\ a + n <= Size)
    BY <1>9 DEF e, After
<1>11. Overlay(m, a, data, n) \in Contents
    <2>1. ASSUME NEW j \in 0 .. Size - 1
          PROVE  (IF j \in a .. a + n - 1 THEN data[j - a + 1] ELSE m[j]) \in Byte
        <3>1. CASE j \in a .. a + n - 1
            <4>1. j - a + 1 \in 1 .. n
                BY <1>1, <3>1
            <4>. QED BY <3>1, <4>1
        <3>2. CASE ~ (j \in a .. a + n - 1)
            BY <1>1, <3>2 DEF Contents
        <3>. QED BY <3>1, <3>2
    <2>. QED BY <2>1, Zenon DEF Overlay, Contents
<1> HIDE DEF n, m
<1>12. h.p = [p EXCEPT !.mem = b[n].mem] /\ h.answer = (IF b[n].ok THEN "OK" ELSE "E02")
    BY <1>3
<1>13. h.p \in Processors /\ h.p.mem = b[n].mem /\ h.p.reg = p.reg
       /\ h.p.cycle_count = p.cycle_count
    BY <1>10, <1>11, <1>12 DEF Processors
<1>. QED BY <1>10, <1>12, <1>13 DEF n, m

-----------------------------------------------------------------------------
\* The processor runs the program of a plan.
RunsInv == /\ plan \in Plans /\ arm \in Processors /\ arm.cycle_count \in 0 .. plan.cycles
           /\ result \in {-1, 0, EXIT, CRASH} \cup Exceptions
           /\ serving \in {"ready", "first", "more", "closed"}
           /\ irqs \in 0 .. MaxIrqs /\ writes \in 0 .. MaxWrites

\* What the debugger keeps; while cont runs it knows nothing, which is why a turn of
\* the loop cannot make its copies wrong.
DebuggerInv == /\ reason \in {"S04", "S05", "S10"}
               /\ inserted \subseteq plan.breaks
               /\ stale \in BOOLEAN /\ disturbed \in BOOLEAN
               /\ regs \in [Registers -> Word \cup {Unknown}]
               /\ bytes \in [0 .. Size - 1 -> Byte \cup {Unknown}]
               /\ InCont => regs = Nothing /\ bytes = NoBytes

\* The inductive invariant of a session.
SessionInv == RunsInv /\ DebuggerInv /\ RegistersKnown /\ MemoryKnown

(* A session begins with the program loaded and nothing known.             *)
LEMMA SessionInitial == Init => SessionInv
<1> SUFFICES ASSUME Init PROVE SessionInv
    OBVIOUS
<1>1. /\ plan \in Plans /\ arm = arm_create(plan.image) /\ result = 0 /\ serving = "ready"
      /\ regs = Nothing /\ bytes = NoBytes /\ reason = "S05" /\ inserted = {}
      /\ stale = FALSE /\ disturbed = FALSE /\ irqs = 0 /\ writes = 0
    BY DEF Init
<1>2. plan.image \in Contents /\ plan.cycles \in Word /\ WellFormed /\ ResetCpsr \in Word
      /\ MaxIrqs \in Nat /\ MaxWrites \in Nat
    BY <1>1, SessionAssumption DEF WellFormed
<1>3. arm \in Processors
    BY <1>1, <1>2, Created
<1>4. arm.cycle_count = 0
    <2> DEFINE q == [cycle_count |-> 0, reg |-> registers_create, mem |-> plan.image]
    <2>1. q.cycle_count = 0 /\ arm = arm_exception(q, RESET)
        BY <1>1 DEF arm_create
    <2>2. arm_exception(q, RESET).cycle_count = q.cycle_count
        BY DEF arm_exception, arm_write_usr_register, arm_write_cpsr
    <2>. QED BY <2>1, <2>2
<1>w. plan.cycles \in Nat
    BY <1>2, Words
<1>5. RunsInv
    BY <1>1, <1>2, <1>3, <1>4, <1>w DEF RunsInv
<1>6. DebuggerInv
    BY <1>1, <1>2 DEF DebuggerInv, Nothing, NoBytes, InCont
<1>7. RegistersKnown /\ MemoryKnown
    BY <1>1 DEF RegistersKnown, MemoryKnown, Nothing, NoBytes
<1>. QED BY <1>5, <1>6, <1>7 DEF SessionInv

(* What the register file tells of the pc and the cpsr.                    *)
LEMMA Told ==
    ASSUME NEW p \in Processors
    PROVE  /\ \A i \in Registers : Reg(p, i) \in Word
           /\ \A i \in 0 .. 14 : GdbRead(p, i) = Reg(p, i)
           /\ GdbRead(p, 15) = FetchAddress(p) /\ FetchAddress(p) \in Word
           /\ FetchAddress(p) = Minus(PcRead(Reg(p, 15)), 4)
           /\ arm_read_cpsr(p) = Reg(p, 16)
<1>1. \A i \in Registers : Reg(p, i) \in Word
    BY RegistersRead DEF Reg, Registers
<1>2. \A i \in 0 .. 14 : GdbRead(p, i) = Reg(p, i)
    BY DEF GdbRead, arm_read_register, Reg
<1>3. GdbRead(p, 15) = FetchAddress(p) /\ FetchAddress(p) = Minus(PcRead(Reg(p, 15)), 4)
    BY DEF GdbRead, FetchAddress, arm_read_register, Reg
<1>4. arm_read_cpsr(p) = Reg(p, 16)
    BY DEF arm_read_cpsr, read_cpsr, Reg, CPSR
<1>. QED BY <1>1, <1>2, <1>3, <1>4, Fetches

(* The debugger's registers stay right as long as the processor's do.      *)
LEMMA RegistersStay ==
    ASSUME RegistersKnown, regs' = regs, stale => stale', arm \in Processors, arm' \in Processors,
           \A i \in Registers : Reg(arm', i) = Reg(arm, i) \/ (stale' /\ i \in {15, 16})
    PROVE  RegistersKnown'
<1> SUFFICES ASSUME NEW i \in Registers, regs[i] # Unknown
             PROVE  \/ regs[i] = Reg(arm', i)
                    \/ i = 15 /\ regs[i] = FetchAddress(arm')
                    \/ stale' /\ i \in {15, 16}
    BY DEF RegistersKnown
<1>1. \/ regs[i] = Reg(arm, i)
      \/ i = 15 /\ regs[i] = FetchAddress(arm)
      \/ stale /\ i \in {15, 16}
    BY DEF RegistersKnown
<1>2. Reg(arm', 15) = Reg(arm, 15) => FetchAddress(arm') = FetchAddress(arm)
    BY Told
<1>. QED BY <1>1, <1>2

(* s and the turns of cont.                                                *)
LEMMA SessionRuns ==
    ASSUME SessionInv, arm.cycle_count < plan.cycles, plan' = plan,
           NEW s, s = arm_step(arm), arm' = s.p, result' = s.result
    PROVE  arm' \in Processors /\ arm'.cycle_count \in 0 .. plan.cycles
           /\ result' \in {-1, 0, EXIT, CRASH} \cup Exceptions
<1>1. /\ arm \in Processors /\ WellFormed /\ plan.cycles \in Word
      /\ arm.cycle_count \in 0 .. plan.cycles
    BY SessionAssumption DEF SessionInv, RunsInv
<1>2. Steps(arm, s)
    BY <1>1, StepKeeps
<1>3. /\ arm' \in Processors /\ s.result \in Outcomes \cup {-1}
      /\ arm'.cycle_count = Plus(arm.cycle_count, 1)
    BY <1>2 DEF Steps
<1>4. Plus(arm.cycle_count, 1) = arm.cycle_count + 1
    <2>1. plan.cycles \in Nat /\ plan.cycles < Modulus /\ Modulus \in Nat
        BY <1>1, Words, Bases
    <2>2. arm.cycle_count + 1 \in 0 .. Modulus - 1
        BY <1>1, <2>1
    <2>. QED BY <2>1, <2>2 DEF Plus
<1>5. Outcomes \subseteq {-1, 0, EXIT, CRASH} \cup Exceptions
    BY DEF Outcomes, Exceptions, RESET, UNDEFINED_INSTRUCTION, SOFTWARE_INTERRUPT, DATA_ABORT,
           FAST_INTERRUPT
<1>6. arm.cycle_count + 1 \in 0 .. plan.cycles
    <2>1. plan.cycles \in Nat
        BY <1>1, Words
    <2>. QED BY <1>1, <2>1
<1>. QED BY <1>3, <1>4, <1>5, <1>6

(* gdb_send_stop_reason answers one of three.                              *)
LEMMA ReasonType == \A e : gdb_send_stop_reason(e) \in {"S04", "S05", "S10"}
BY DEF gdb_send_stop_reason

(* g: the debugger decodes what the processor has.                         *)
LEMMA KeepsReadAll == ASSUME SessionInv, ReadGeneralRegisters PROVE SessionInv'
<1> DEFINE a == read_general_registers(arm)
           value(i) == TargetValue(a[IF i = 16 THEN CpsrWord ELSE i + 1])
<1>1. /\ arm \in Processors /\ RunsInv /\ DebuggerInv /\ RegistersKnown /\ MemoryKnown
    BY DEF SessionInv, RunsInv
<1>2. /\ regs' = [i \in Registers |-> value(i)] /\ stale' = FALSE
      /\ UNCHANGED <<plan, arm, result, serving, bytes, reason, inserted, disturbed, irqs, writes>>
      /\ serving = "ready"
    BY DEF ReadGeneralRegisters, Packet
<1>3. ASSUME NEW i \in Registers
      PROVE  /\ value(i) \in Word
             /\ value(i) = Reg(arm, i) \/ (i = 15 /\ value(i) = FetchAddress(arm))
    <2>1. CASE i = 16
        <3>1. a[CpsrWord] = write_uint32(arm_read_cpsr(arm))
            BY DEF read_general_registers, CpsrWord
        <3>2. arm_read_cpsr(arm) = Reg(arm, 16) /\ Reg(arm, 16) \in Word
            BY <1>1, <2>1, Told
        <3>. QED BY <2>1, <3>1, <3>2, ValuesTravel
    <2>2. CASE i # 16
        <3>1. i \in 0 .. 15 /\ i + 1 \in 1 .. CpsrWord /\ i + 1 <= 16 /\ (i + 1) - 1 = i
            BY <2>2 DEF Registers, CpsrWord
        <3>2. a[i + 1] = write_uint32(GdbRead(arm, i))
            BY <3>1 DEF read_general_registers, CpsrWord
        <3>3. i \in 0 .. 14 \/ i = 15
            BY <3>1
        <3>4. GdbRead(arm, i) \in Word /\ (i # 15 => GdbRead(arm, i) = Reg(arm, i))
              /\ (i = 15 => GdbRead(arm, i) = FetchAddress(arm))
            BY <1>1, <3>3, Told
        <3>. QED BY <2>2, <3>2, <3>4, ValuesTravel
    <2>. QED BY <2>1, <2>2
<1> HIDE DEF value
<1>4. RegistersKnown'
    BY <1>2, <1>3 DEF RegistersKnown
<1>5. DebuggerInv'
    BY <1>1, <1>2, <1>3 DEF DebuggerInv, InCont
<1>6. RunsInv' /\ MemoryKnown'
    BY <1>1, <1>2 DEF RunsInv, MemoryKnown
<1>. QED BY <1>4, <1>5, <1>6 DEF SessionInv

(* G: the processor has what the debugger sent.                            *)
LEMMA KeepsWriteAll ==
    ASSUME SessionInv, NEW f \in plan.G, WriteGeneralRegisters(f) PROVE SessionInv'
<1> DEFINE c == [k \in 1 .. CpsrWord |-> CASE k <= 16 -> TargetBytes(f[k-1])
                                           [] k = CpsrWord -> TargetBytes(f[16])
                                           [] k \in 17 .. CpsrWord - 1 -> TargetBytes(0)]
<1>1. /\ plan \in Plans /\ arm \in Processors /\ RunsInv /\ DebuggerInv /\ MemoryKnown
    BY DEF SessionInv, RunsInv
<1>2. f \in [Registers -> Word]
    BY <1>1, SessionAssumption
<1>3. /\ arm' = write_general_registers(arm, c) /\ regs' = f /\ stale' = FALSE
      /\ disturbed' = Interferes /\ writes < MaxWrites /\ writes' = writes + 1
      /\ UNCHANGED <<plan, result, serving, bytes, reason, inserted, irqs>> /\ serving = "ready"
    BY DEF WriteGeneralRegisters, Packet
<1>4. /\ \A k \in 1 .. 16 : c[k] = TargetBytes(f[k - 1])
      /\ c[CpsrWord] = TargetBytes(f[16])
    BY DEF CpsrWord
<1> HIDE DEF c
<1>5. /\ arm' \in Processors /\ arm'.cycle_count = arm.cycle_count /\ arm'.mem = arm.mem
      /\ \A i \in Registers : Reg(arm', i) = f[i]
    BY <1>1, <1>2, <1>3, <1>4, AllAssigned
<1>6. RegistersKnown'
    BY <1>3, <1>5 DEF RegistersKnown
<1>7. disturbed' \in BOOLEAN
    BY <1>1, <1>3 DEF Interferes, DebuggerInv
<1>8. DebuggerInv'
    BY <1>1, <1>2, <1>3, <1>7 DEF DebuggerInv, InCont
<1>9. RunsInv'
    BY <1>1, <1>3, <1>5, SessionAssumption DEF RunsInv
<1>10. MemoryKnown'
    BY <1>1, <1>3, <1>5 DEF MemoryKnown
<1>. QED BY <1>6, <1>8, <1>9, <1>10 DEF SessionInv

(* p: r0 to r9 are what they are.                                          *)
LEMMA KeepsRead ==
    ASSUME SessionInv, NEW n \in plan.p, ReadRegister(n) PROVE SessionInv'
<1> DEFINE v == TargetValue(write_uint32(GdbRead(arm, atoi(n))))
<1>1. /\ plan \in Plans /\ arm \in Processors /\ RunsInv /\ DebuggerInv /\ RegistersKnown
      /\ MemoryKnown
    BY DEF SessionInv, RunsInv
<1>2. n \in Nat
    <2>1. plan.p \subseteq Numbers
        BY <1>1, SessionAssumption
    <2>. QED BY <2>1 DEF Numbers
<1>3. /\ regs' = IF n < 10 THEN [regs EXCEPT ![n] = v] ELSE regs
      /\ UNCHANGED <<plan, arm, result, serving, bytes, reason, inserted, stale, disturbed, irqs,
                     writes>>
    BY DEF ReadRegister, Packet
<1>4. ASSUME n < 10 PROVE v \in Word /\ v = Reg(arm, n) /\ n \in Registers
    <2>1. atoi(n) = n /\ n \in 0 .. 14 /\ n \in Registers
        BY <1>2, <1>4 DEF atoi, Registers
    <2>2. GdbRead(arm, n) = Reg(arm, n) /\ Reg(arm, n) \in Word
        BY <1>1, <2>1, Told
    <2>. QED BY <2>1, <2>2, ValuesTravel
<1> HIDE DEF v
<1>5. regs \in [Registers -> Word \cup {Unknown}]
    BY <1>1 DEF DebuggerInv
<1>6. RegistersKnown'
    <2>1. CASE n < 10
        BY <1>1, <1>3, <1>4, <1>5, <2>1 DEF RegistersKnown
    <2>2. CASE ~ (n < 10)
        BY <1>1, <1>3, <2>2 DEF RegistersKnown
    <2>. QED BY <2>1, <2>2
<1>7. ~ InCont
    BY DEF ReadRegister, Packet, InCont
<1>8. DebuggerInv'
    <2>1. regs' \in [Registers -> Word \cup {Unknown}]
        BY <1>3, <1>4, <1>5
    <2>. QED BY <1>1, <1>3, <1>7, <2>1 DEF DebuggerInv, InCont
<1>9. RunsInv' /\ MemoryKnown'
    BY <1>1, <1>3 DEF RunsInv, MemoryKnown
<1>. QED BY <1>6, <1>8, <1>9 DEF SessionInv

(* P: one register of both is written.                                     *)
LEMMA KeepsWrite ==
    ASSUME SessionInv, NEW w \in plan.P, WriteRegister(w[1], w[2]) PROVE SessionInv'
<1> DEFINE n == w[1]
           v == w[2]
<1>1. /\ plan \in Plans /\ arm \in Processors /\ RunsInv /\ DebuggerInv /\ RegistersKnown
      /\ MemoryKnown
    BY DEF SessionInv, RunsInv
<1>2. n \in Nat /\ v \in Word
    BY <1>1, SessionAssumption DEF Numbers
<1>3. /\ arm' = arm_write_register(arm, n, read_uint32(TargetBytes(v)))
      /\ n < 16 /\ writes < MaxWrites /\ writes' = writes + 1
      /\ regs' = [regs EXCEPT ![n] = v] /\ disturbed' = Interferes
      /\ UNCHANGED <<plan, result, serving, bytes, reason, inserted, stale, irqs>>
      /\ serving = "ready"
    BY DEF WriteRegister, Packet
<1> HIDE DEF n, v
<1>4. n \in 0 .. 15 /\ n \in Registers
    BY <1>2, <1>3 DEF Registers
<1>5. Assigned(arm, arm', n, v)
    BY <1>1, <1>2, <1>3, <1>4, RegisterAssigned, ValuesTravel
<1>6. /\ arm' \in Processors /\ arm'.cycle_count = arm.cycle_count /\ arm'.mem = arm.mem
      /\ \A j \in Registers : Reg(arm', j) = IF j = n THEN v ELSE Reg(arm, j)
    BY <1>5 DEF Assigned, Registers
<1>7. regs \in [Registers -> Word \cup {Unknown}]
    BY <1>1 DEF DebuggerInv
<1>8. RegistersKnown'
    <2> SUFFICES ASSUME NEW i \in Registers, regs'[i] # Unknown
                 PROVE  \/ regs'[i] = Reg(arm', i)
                        \/ i = 15 /\ regs'[i] = FetchAddress(arm')
                        \/ stale /\ i \in {15, 16}
        BY <1>3 DEF RegistersKnown
    <2>1. CASE i = n
        BY <1>3, <1>6, <1>7, <2>1
    <2>2. CASE i # n
        <3>1. regs'[i] = regs[i] /\ Reg(arm', i) = Reg(arm, i)
            BY <1>3, <1>6, <1>7, <2>2
        <3>2. \/ regs[i] = Reg(arm, i)
              \/ i = 15 /\ regs[i] = FetchAddress(arm)
              \/ stale /\ i \in {15, 16}
            BY <1>1, <3>1 DEF RegistersKnown
        <3>3. i = 15 => FetchAddress(arm') = FetchAddress(arm)
            BY <1>1, <1>6, <3>1, Told
        <3>. QED BY <3>1, <3>2, <3>3
    <2>. QED BY <2>1, <2>2
<1>9. disturbed' \in BOOLEAN
    BY <1>1, <1>3 DEF Interferes, DebuggerInv
<1>10. DebuggerInv'
    <2>1. regs' \in [Registers -> Word \cup {Unknown}]
        BY <1>2, <1>3, <1>7
    <2>. QED BY <1>1, <1>3, <1>9, <2>1 DEF DebuggerInv, InCont
<1>11. RunsInv'
    BY <1>1, <1>3, <1>6, SessionAssumption DEF RunsInv
<1>12. MemoryKnown'
    BY <1>1, <1>3, <1>6 DEF MemoryKnown
<1>. QED BY <1>8, <1>10, <1>11, <1>12 DEF SessionInv

(* m: the bytes of the answer are those of the memory, as far as it goes.  *)
LEMMA KeepsReadMemory ==
    ASSUME SessionInv, NEW r \in plan.m, ReadMemory(r[1], r[2]) PROVE SessionInv'
<1> DEFINE a == r[1]
           n == r[2]
           d == read_memory(arm, a, n)
<1>1. /\ plan \in Plans /\ arm \in Processors /\ RunsInv /\ DebuggerInv /\ RegistersKnown
      /\ MemoryKnown
    BY DEF SessionInv, RunsInv
<1>2. a \in Word /\ n \in Nat /\ a \in Nat /\ Size \in Nat /\ Size < Modulus
    <2>1. plan.m \subseteq Word \X Word /\ Size < Modulus
        BY <1>1, SessionAssumption
    <2>. QED BY <2>1, Words, MemoryAssumption
<1>3. /\ bytes' = [i \in 0 .. Size - 1 |->
                      IF i \in a .. a + Len(d) - 1 THEN d[i - a + 1] ELSE bytes[i]]
      /\ UNCHANGED <<plan, arm, result, serving, regs, reason, inserted, stale, disturbed, irqs,
                     writes>>
      /\ serving = "ready"
    BY DEF ReadMemory, Packet
<1> DEFINE k == Within(a, n)
<1>4. d = [j \in 1 .. k |-> arm.mem[Plus(a, j - 1)]]
    BY DEF read_memory, memory_read_byte
<1>5. /\ k \in 0 .. n /\ (a >= Size => k = 0) /\ (a < Size => a + k <= Size)
      /\ \A j \in 0 .. k : a < Size => Plus(a, j) = a + j
    BY <1>2, Room
<1> HIDE DEF a, n, k, d
<1>6. Len(d) = k
    BY <1>2, <1>4, <1>5
<1>7. ASSUME NEW i \in 0 .. Size - 1, i \in a .. a + Len(d) - 1
      PROVE  d[i - a + 1] = arm.mem[i]
    <2>1. i - a + 1 \in 1 .. k /\ (i - a + 1) - 1 = i - a /\ i - a \in 0 .. k /\ a < Size
        BY <1>2, <1>5, <1>6, <1>7
    <2>2. Plus(a, i - a) = i
        BY <1>2, <1>5, <2>1
    <2>. QED BY <1>4, <2>1, <2>2
<1>8. bytes \in [0 .. Size - 1 -> Byte \cup {Unknown}] /\ arm.mem \in [0 .. Size - 1 -> Byte]
    BY <1>1 DEF DebuggerInv, Processors, Contents
<1>9. \A i \in 0 .. Size - 1 : bytes'[i] = arm.mem[i] \/ bytes'[i] = bytes[i]
    BY <1>3, <1>7
<1>10. MemoryKnown'
    BY <1>1, <1>3, <1>9 DEF MemoryKnown
<1>11. bytes' \in [0 .. Size - 1 -> Byte \cup {Unknown}]
    <2>1. \A i \in 0 .. Size - 1 : bytes'[i] \in Byte \cup {Unknown}
        BY <1>8, <1>9
    <2>2. bytes' = [i \in 0 .. Size - 1 |-> bytes'[i]]
        BY <1>3
    <2>. QED BY <2>1, <2>2
<1>12. DebuggerInv'
    BY <1>1, <1>3, <1>11 DEF DebuggerInv, InCont
<1>13. RunsInv' /\ RegistersKnown'
    BY <1>1, <1>3 DEF RunsInv, RegistersKnown
<1>. QED BY <1>10, <1>12, <1>13 DEF SessionInv

(* X: what was answered OK is in the memory, and of the rest the debugger  *)
(* knows nothing.                                                          *)
LEMMA KeepsData ==
    ASSUME SessionInv, NEW a \in Word, NEW data \in Seq(Byte), NEW at, at \subseteq plan.breaks,
           Write(a, data, at)
    PROVE  SessionInv'
<1> DEFINE n == Len(data)
           h == write_memory_binary(arm, a, n, Escape(data))
<1>1. /\ plan \in Plans /\ arm \in Processors /\ RunsInv /\ DebuggerInv /\ RegistersKnown
      /\ MemoryKnown
    BY DEF SessionInv, RunsInv
<1>2. a \in Nat /\ n \in Nat /\ Size \in Nat /\ Size < Modulus /\ WellFormed
    BY SessionAssumption, MemoryAssumption, Words
<1>3. /\ arm' = h.p /\ inserted' = at
      /\ bytes' = [i \in 0 .. Size - 1 |->
                      CASE i \notin a .. a + n - 1 -> bytes[i]
                        [] i \in a .. a + n - 1 ->
                             IF h.answer = "OK" THEN data[i - a + 1] ELSE Unknown]
      /\ UNCHANGED <<plan, result, serving, regs, reason, stale, disturbed, irqs, writes>>
      /\ serving = "ready"
    BY DEF Write, Packet
<1>4. /\ h.p.mem = Overlay(arm.mem, a, data, n)
      /\ h.p \in Processors /\ h.p.reg = arm.reg /\ h.p.cycle_count = arm.cycle_count
    BY <1>1, <1>2, DataWritten
<1> HIDE DEF h
<1>5. ASSUME NEW i \in 0 .. Size - 1
      PROVE  /\ i \in a .. a + n - 1 =>
                    /\ arm'.mem[i] = data[i - a + 1] /\ data[i - a + 1] \in Byte
                    /\ bytes'[i] \in {data[i - a + 1], Unknown}
             /\ i \notin a .. a + n - 1 => arm'.mem[i] = arm.mem[i] /\ bytes'[i] = bytes[i]
    <2>1. arm'.mem[i] = IF i \in a .. a + n - 1 THEN data[i - a + 1] ELSE arm.mem[i]
        BY <1>3, <1>4 DEF Overlay
    <2>2. i \in a .. a + n - 1 => i - a + 1 \in 1 .. n
        BY <1>2
    <2>. QED BY <1>3, <2>1, <2>2
<1>6. bytes \in [0 .. Size - 1 -> Byte \cup {Unknown}]
    BY <1>1 DEF DebuggerInv
<1>7. MemoryKnown'
    <2> SUFFICES ASSUME NEW i \in 0 .. Size - 1, bytes'[i] # Unknown
                 PROVE  bytes'[i] = arm'.mem[i]
        BY DEF MemoryKnown
    <2>1. CASE i \in a .. a + n - 1
        BY <1>5, <2>1
    <2>2. CASE i \notin a .. a + n - 1
        BY <1>1, <1>5, <2>2 DEF MemoryKnown
    <2>. QED BY <2>1, <2>2
<1>8. bytes' \in [0 .. Size - 1 -> Byte \cup {Unknown}]
    <2>1. \A i \in 0 .. Size - 1 : bytes'[i] \in Byte \cup {Unknown}
        <3> TAKE i \in 0 .. Size - 1
        <3>1. CASE i \in a .. a + n - 1
            BY <1>5, <3>1
        <3>2. CASE i \notin a .. a + n - 1
            BY <1>5, <1>6, <3>2
        <3>. QED BY <3>1, <3>2
    <2>2. bytes' = [i \in 0 .. Size - 1 |-> bytes'[i]]
        BY <1>3
    <2>. QED BY <2>1, <2>2
<1>9. DebuggerInv'
    BY <1>1, <1>3, <1>8 DEF DebuggerInv, InCont
<1>10. RunsInv'
    BY <1>1, <1>3, <1>4 DEF RunsInv
<1>11. RegistersKnown'
    <2>1. \A i \in Registers : Reg(arm', i) = Reg(arm, i)
        BY <1>3, <1>4 DEF Reg
    <2>. QED BY <1>1, <1>3, <1>4, <2>1, RegistersStay
<1>. QED BY <1>7, <1>9, <1>10, <1>11 DEF SessionInv

(* The data of X and of breakpoints are bytes.                             *)
LEMMA KeepsWriteMemory ==
    ASSUME SessionInv,
           \/ \E w \in plan.X : WriteMemory(w[1], w[2])
           \/ \E b \in plan.breaks : InsertBreakpoint(b) \/ RemoveBreakpoint(b)
    PROVE  SessionInv'
<1>1. plan \in Plans /\ inserted \subseteq plan.breaks
    BY DEF SessionInv, RunsInv, DebuggerInv
<1>2. /\ plan.X \subseteq Word \X Seq(Byte) /\ plan.breaks \subseteq 0 .. Size - 4
      /\ plan.image \in [0 .. Size - 1 -> Byte] /\ BreakWord \in Word
    BY <1>1, SessionAssumption DEF Contents
<1>3. ASSUME NEW w \in plan.X, WriteMemory(w[1], w[2]) PROVE SessionInv'
    <2>1. w[1] \in Word /\ w[2] \in Seq(Byte)
        BY <1>2
    <2>. QED BY <1>1, <1>3, <2>1, KeepsData DEF WriteMemory
<1>4. ASSUME NEW b \in plan.breaks PROVE b \in Word /\ b \in 0 .. Size - 4 /\ Size \in Nat
    <2>1. Size \in Nat /\ Size <= Modulus /\ Modulus \in Nat /\ b \in 0 .. Size - 4
        BY <1>2, MemoryAssumption, Bases
    <2>. QED BY <2>1 DEF Word
<1>5. ASSUME NEW b \in plan.breaks, InsertBreakpoint(b) PROVE SessionInv'
    <2>0. \A k \in 1 .. 4 : TargetBytes(BreakWord)[k] \in Byte
        BY <1>2, ValuesTravel
    <2>1. TargetBytes(BreakWord) \in Seq(Byte)
        BY <2>0 DEF TargetBytes
    <2>2. inserted \cup {b} \subseteq plan.breaks
        BY <1>1
    <2>. QED BY <1>4, <1>5, <2>1, <2>2, KeepsData DEF InsertBreakpoint
<1>6. ASSUME NEW b \in plan.breaks, RemoveBreakpoint(b) PROVE SessionInv'
    <2> DEFINE data == [k \in 1 .. 4 |-> plan.image[b + k - 1]]
    <2>1. \A k \in 1 .. 4 : plan.image[b + k - 1] \in Byte
        <3> TAKE k \in 1 .. 4
        <3>1. b + k - 1 \in 0 .. Size - 1
            BY <1>4
        <3>. QED BY <1>2, <3>1
    <2>2. data \in Seq(Byte)
        BY <2>1
    <2>3. inserted \ {b} \subseteq plan.breaks
        BY <1>1
    <2>4. Write(b, data, inserted \ {b})
        BY <1>6 DEF RemoveBreakpoint
    <2> HIDE DEF data
    <2>. QED BY <1>4, <2>2, <2>3, <2>4, KeepsData
<1>. QED BY <1>3, <1>5, <1>6

(* The irq thread: RESET makes the pc and the cpsr of the debugger wrong,  *)
(* and the debugger is not told.                                           *)
LEMMA KeepsException ==
    ASSUME SessionInv, NEW e \in IrqBytes, Exception(e) PROVE SessionInv'
<1>1. /\ arm \in Processors /\ RunsInv /\ DebuggerInv /\ RegistersKnown /\ MemoryKnown
      /\ ResetCpsr \in Word /\ MaxIrqs \in Nat
    BY SessionAssumption DEF SessionInv, RunsInv, WellFormed
<1>2. /\ arm' = arm_exception(arm, e) /\ irqs' = irqs + 1 /\ irqs < MaxIrqs
      /\ stale' = (stale \/ e = RESET)
      /\ UNCHANGED <<plan, result, serving, regs, bytes, reason, inserted, disturbed, writes>>
    BY DEF Exception
<1>3. /\ arm' \in Processors /\ arm'.cycle_count = arm.cycle_count
      /\ arm'.mem = arm.mem
      /\ \A i \in Registers : Reg(arm', i) = Reg(arm, i) \/ (e = RESET /\ i \in {15, 16})
    <2>1. CASE e = RESET
        <3> DEFINE q == arm_write_cpsr(arm, ResetCpsr)
        <3>1. Assigned(arm, q, 16, ResetCpsr)
            BY <1>1, RegisterAssigned
        <3>2. q \in Processors
            BY <3>1 DEF Assigned, Registers
        <3>3. arm' = arm_write_usr_register(q, 15, 0)
            BY <1>2, <2>1 DEF arm_exception
        <3> HIDE DEF q
        <3>4. Assigned(q, arm', 15, 0)
            BY <3>2, <3>3, RegisterAssigned, Words
        <3>. QED BY <2>1, <3>1, <3>4 DEF Assigned, Registers
    <2>2. CASE e # RESET
        BY <1>1, <1>2, <2>2 DEF arm_exception
    <2>. QED BY <2>1, <2>2
<1>4. RegistersKnown'
    BY <1>1, <1>2, <1>3, RegistersStay
<1>5. RunsInv'
    BY <1>1, <1>2, <1>3 DEF RunsInv
<1>6. DebuggerInv' /\ MemoryKnown'
    BY <1>1, <1>2, <1>3 DEF DebuggerInv, MemoryKnown, InCont
<1>. QED BY <1>4, <1>5, <1>6 DEF SessionInv

-----------------------------------------------------------------------------
(* s and c: the debugger forgets what it knew before the program runs, and *)
(* is told nothing until it stops.                                         *)
LEMMA KeepsRunning ==
    ASSUME SessionInv, Step \/ Continue \/ ContStep \/ ContStop PROVE SessionInv'
<1>1. RunsInv /\ DebuggerInv /\ RegistersKnown /\ MemoryKnown
    BY DEF SessionInv
<1>2. ASSUME regs' = Nothing, bytes' = NoBytes PROVE RegistersKnown' /\ MemoryKnown'
    BY <1>2 DEF RegistersKnown, MemoryKnown, Nothing, NoBytes
<1>3. /\ Nothing \in [Registers -> Word \cup {Unknown}]
      /\ NoBytes \in [0 .. Size - 1 -> Byte \cup {Unknown}]
    BY DEF Nothing, NoBytes
<1>4. CASE Step
    <2>1. /\ arm.cycle_count < plan.cycles /\ regs' = Nothing /\ bytes' = NoBytes
          /\ stale' = FALSE /\ disturbed' = (disturbed \/ FetchAddress(arm) \in inserted)
          /\ UNCHANGED <<inserted, plan, serving, irqs, writes>>
        BY <1>4 DEF Step, Forget
    <2>2. PICK s \in {arm_step(arm)} :
              /\ arm' = s.p /\ result' = s.result
              /\ reason' = IF s.result \in {EXIT, CRASH} THEN reason
                           ELSE gdb_send_stop_reason(s.result)
        BY <1>4 DEF Step
    <2>3. /\ arm' \in Processors /\ arm'.cycle_count \in 0 .. plan.cycles
          /\ result' \in {-1, 0, EXIT, CRASH} \cup Exceptions
        BY <2>1, <2>2, SessionRuns
    <2>4. reason' \in {"S04", "S05", "S10"}
        BY <1>1, <2>2, ReasonType DEF DebuggerInv
    <2>5. RunsInv'
        BY <1>1, <2>1, <2>3 DEF RunsInv
    <2>6. DebuggerInv'
        BY <1>1, <1>3, <2>1, <2>4 DEF DebuggerInv, InCont
    <2>. QED BY <1>2, <2>1, <2>5, <2>6 DEF SessionInv
<1>5. CASE Continue
    <2>1. /\ serving' = "first" /\ regs' = Nothing /\ bytes' = NoBytes /\ stale' = FALSE
          /\ UNCHANGED <<plan, arm, result, reason, inserted, disturbed, irqs, writes>>
        BY <1>5 DEF Continue, Packet, Forget
    <2>2. RunsInv'
        BY <1>1, <2>1 DEF RunsInv
    <2>3. DebuggerInv'
        BY <1>1, <1>3, <2>1 DEF DebuggerInv
    <2>. QED BY <1>2, <2>1, <2>2, <2>3 DEF SessionInv
<1>6. CASE ContStep
    <2>1. /\ InCont /\ arm.cycle_count < plan.cycles /\ serving' = "more"
          /\ UNCHANGED <<plan, regs, bytes, reason, inserted, stale, disturbed, irqs, writes>>
        BY <1>6 DEF ContStep, debugger
    <2>2. PICK s \in {arm_step(arm)} : arm' = s.p /\ result' = s.result
        BY <1>6 DEF ContStep
    <2>3. /\ arm' \in Processors /\ arm'.cycle_count \in 0 .. plan.cycles
          /\ result' \in {-1, 0, EXIT, CRASH} \cup Exceptions
        BY <2>1, <2>2, SessionRuns
    <2>4. RunsInv'
        BY <1>1, <2>1, <2>3 DEF RunsInv
    <2>5. regs' = Nothing /\ bytes' = NoBytes
        BY <1>1, <2>1 DEF DebuggerInv
    <2>6. DebuggerInv'
        BY <1>1, <1>3, <2>1, <2>5 DEF DebuggerInv
    <2>. QED BY <1>2, <2>4, <2>5, <2>6 DEF SessionInv
<1>7. CASE ContStop
    <2>1. /\ serving' = "ready" /\ reason' = gdb_send_stop_reason(result)
          /\ UNCHANGED <<plan, arm, result, regs, bytes, inserted, stale, disturbed, irqs, writes>>
        BY <1>7 DEF ContStop
    <2>2. RunsInv' /\ RegistersKnown' /\ MemoryKnown'
        BY <1>1, <2>1 DEF RunsInv, RegistersKnown, MemoryKnown
    <2>3. DebuggerInv'
        BY <1>1, <2>1, ReasonType DEF DebuggerInv, InCont
    <2>. QED BY <2>2, <2>3 DEF SessionInv
<1>. QED BY <1>4, <1>5, <1>6, <1>7

(* What a packet without effect leaves alone.                              *)
LEMMA KeepsQuiet ==
    ASSUME SessionInv, UNCHANGED <<plan, arm, debugger, irqs, writes>>,
           result' \in {result, CRASH}, serving' \in {serving, "closed"}
    PROVE  SessionInv'
<1>1. RunsInv /\ DebuggerInv /\ RegistersKnown /\ MemoryKnown
    BY DEF SessionInv
<1>2. UNCHANGED <<regs, bytes, reason, inserted, stale, disturbed>>
    BY DEF debugger
<1>3. RunsInv'
    BY <1>1 DEF RunsInv
<1>4. InCont' => InCont
    BY DEF InCont
<1>5. DebuggerInv'
    BY <1>1, <1>2, <1>4 DEF DebuggerInv
<1>6. RegistersKnown' /\ MemoryKnown'
    BY <1>1, <1>2 DEF RegistersKnown, MemoryKnown
<1>. QED BY <1>3, <1>5, <1>6 DEF SessionInv

(* Every packet, instruction and exception keeps the invariant.            *)
LEMMA SessionStep == SessionInv /\ [Next]_vars => SessionInv'
<1> SUFFICES ASSUME SessionInv, [Next]_vars PROVE SessionInv'
    OBVIOUS
<1>1. CASE ReadGeneralRegisters
    BY <1>1, KeepsReadAll
<1>2. ASSUME NEW f \in plan.G, WriteGeneralRegisters(f) PROVE SessionInv'
    BY <1>2, KeepsWriteAll
<1>3. ASSUME NEW n \in plan.p, ReadRegister(n) PROVE SessionInv'
    BY <1>3, KeepsRead
<1>4. ASSUME NEW w \in plan.P, WriteRegister(w[1], w[2]) PROVE SessionInv'
    BY <1>4, KeepsWrite
<1>5. ASSUME NEW n, NEW reg, AssertFails(n, reg) PROVE SessionInv'
    BY <1>5, KeepsQuiet DEF AssertFails, Packet
<1>6. ASSUME NEW r \in plan.m, ReadMemory(r[1], r[2]) PROVE SessionInv'
    BY <1>6, KeepsReadMemory
<1>7. ASSUME \/ \E w \in plan.X : WriteMemory(w[1], w[2])
             \/ \E b \in plan.breaks : InsertBreakpoint(b) \/ RemoveBreakpoint(b)
      PROVE  SessionInv'
    BY <1>7, KeepsWriteMemory
<1>8. CASE Ask \/ Kill
    BY <1>8, KeepsQuiet DEF Ask, Kill, Packet
<1>9. CASE Step \/ Continue \/ ContStep \/ ContStop
    BY <1>9, KeepsRunning
<1>10. ASSUME NEW e \in IrqBytes, Exception(e) PROVE SessionInv'
    BY <1>10, KeepsException
<1>11. CASE Ended \/ UNCHANGED vars
    BY <1>11, KeepsQuiet DEF Ended, vars, debugger
<1>. QED BY <1>1, <1>2, <1>3, <1>4, <1>5, <1>6, <1>7, <1>8, <1>9, <1>10, <1>11 DEF Next

(* What the invariant says of the types and of the next X packet.          *)
LEMMA SessionImplies == SessionInv => TypeOK /\ WriteEffect
<1> SUFFICES ASSUME SessionInv PROVE TypeOK /\ WriteEffect
    OBVIOUS
<1>1. RunsInv /\ DebuggerInv /\ plan \in Plans /\ arm \in Processors
    BY DEF SessionInv, RunsInv
<1>2. /\ arm.reg \in [mode : {SYS}, registers : Banks] /\ arm.mem \in Contents
      /\ Banks \subseteq [PhysicalRegs -> Word]
    BY <1>1 DEF Processors, Banks
<1>3. arm.reg \in [mode : Modes, registers : [PhysicalRegs -> Word]]
    BY <1>2 DEF Modes
<1>4. TypeOK
    BY <1>1, <1>2, <1>3 DEF TypeOK, RunsInv, DebuggerInv
<1>5. WriteEffect
    <2> SUFFICES ASSUME NEW w \in plan.X,
                        NEW h, h = write_memory_binary(arm, w[1], Len(w[2]), Escape(w[2])),
                        NEW last, last = w[1] + Len(w[2]) - 1
                 PROVE  /\ h.answer = "OK" <=> w[1] < Size /\ last < Size
                        /\ h.p.mem = [i \in 0 .. Size - 1 |->
                              IF i \in w[1] .. last THEN w[2][i - w[1] + 1] ELSE arm.mem[i]]
        BY DEF WriteEffect
    <2>1. plan.X \subseteq Word \X Seq(Byte)
        BY <1>1, SessionAssumption
    <2>2. /\ w[1] \in Word /\ w[2] \in Seq(Byte) /\ w[1] \in Nat /\ Len(w[2]) \in Nat
          /\ Size \in Nat /\ Size < Modulus /\ WellFormed
        <3>1. w[1] \in Word /\ w[2] \in Seq(Byte)
            BY <2>1
        <3>2. w[1] \in Nat
            BY <3>1, Words
        <3>3. Len(w[2]) \in Nat
            BY <3>1, LenProperties
        <3>. QED BY <3>1, <3>2, <3>3, MemoryAssumption, SessionAssumption
    <2>3. /\ h.answer = (IF w[1] < Size /\ w[1] + Len(w[2]) <= Size THEN "OK" ELSE "E02")
          /\ h.p.mem = Overlay(arm.mem, w[1], w[2], Len(w[2]))
        BY <1>1, <2>2, DataWritten
    <2>4. last < Size <=> w[1] + Len(w[2]) <= Size
        BY <2>2
    <2>. QED BY <2>3, <2>4 DEF Overlay
<1>. QED BY <1>4, <1>5

(* What the debugger holds agrees with the processor in every session, and *)
(* while cont runs the debugger holds nothing.                             *)
THEOREM SessionInvariant == Spec => []SessionInv
BY SessionInitial, SessionStep, PTL DEF Spec

(* The handlers of the packets, arm_step and arm_exception keep the types  *)
(* of the processor, of the answers and of the debugger's copies.          *)
THEOREM SessionTypeCorrect == Spec => []TypeOK
<1>1. SessionInv => TypeOK
    BY SessionImplies
<1>. QED BY <1>1, SessionInvariant, PTL

(* What g, G, p and P have told or set is what the program will find in    *)
(* the registers, but for the pc and the cpsr after a RESET.               *)
THEOREM RegistersAreKnown == Spec => []RegistersKnown
<1>1. SessionInv => RegistersKnown
    BY DEF SessionInv
<1>. QED BY <1>1, SessionInvariant, PTL

(* What m and X have told or set is in the memory, escaped characters and  *)
(* packets that reach past the end of the memory included.                 *)
THEOREM MemoryIsKnown == Spec => []MemoryKnown
<1>1. SessionInv => MemoryKnown
    BY DEF SessionInv
<1>. QED BY <1>1, SessionInvariant, PTL

(* write_memory_binary answers OK exactly when all bytes fit, writes those *)
(* that fit, and changes nothing else.                                     *)
THEOREM WritesHaveEffect == Spec => []WriteEffect
<1>1. SessionInv => WriteEffect
    BY SessionImplies
<1>. QED BY <1>1, SessionInvariant, PTL

-----------------------------------------------------------------------------
\* The exception that gdb_protocol.c keeps is that of the last instruction, also
\* between two turns of cont, when the debugger still has an older reason.
ReasonInv ==
    Running => /\ result = executed
               /\ ~ InCont => reason = gdb_send_stop_reason(result)

(* No exception has been kept and the debugger takes the program to be     *)
(* stopped by a trap.                                                      *)
LEMMA ReasonInitial == Init => ReasonInv
<1> SUFFICES ASSUME Init PROVE ReasonInv
    OBVIOUS
<1>1. result = 0 /\ executed = 0 /\ reason = "S05"
    BY DEF Init
<1>2. gdb_send_stop_reason(0) = "S05"
    BY DEF gdb_send_stop_reason, UNDEFINED_INSTRUCTION, PREFETCH_ABORT, DATA_ABORT
<1>. QED BY <1>1, <1>2 DEF ReasonInv

(* A packet that executes no instruction and an exception of the irq port  *)
(* leave the reason alone; what s and c execute is what they report.       *)
LEMMA ReasonStep == ReasonInv /\ [Next]_vars => ReasonInv'
<1> SUFFICES ASSUME ReasonInv, [Next]_vars PROVE ReasonInv'
    OBVIOUS
<1> DEFINE Same == UNCHANGED <<result, executed, reason>> /\ (InCont <=> InCont')
<1>1. ASSUME Same PROVE ReasonInv'
    BY <1>1 DEF ReasonInv, Running
<1>2. ASSUME ReadGeneralRegisters \/ Ask PROVE Same
    BY <1>2 DEF ReadGeneralRegisters, Ask, Packet, debugger, InCont
<1>3. ASSUME NEW f, WriteGeneralRegisters(f) PROVE Same
    BY <1>3 DEF WriteGeneralRegisters, Packet, InCont
<1>4. ASSUME NEW n, ReadRegister(n) PROVE Same
    BY <1>4 DEF ReadRegister, Packet, InCont
<1>5. ASSUME NEW n, NEW v, WriteRegister(n, v) PROVE Same
    BY <1>5 DEF WriteRegister, Packet, InCont
<1>6. ASSUME NEW n, NEW reg, AssertFails(n, reg) PROVE ReasonInv'
    BY <1>6 DEF AssertFails, ReasonInv, Running
<1>7. ASSUME NEW a, NEW n, ReadMemory(a, n) PROVE Same
    BY <1>7 DEF ReadMemory, Packet, InCont
<1>8. ASSUME NEW a, NEW data, NEW at, Write(a, data, at) PROVE Same
    BY <1>8 DEF Write, Packet, InCont
<1>9. ASSUME NEW a, NEW data, WriteMemory(a, data) PROVE Same
    BY <1>8, <1>9 DEF WriteMemory
<1>10. ASSUME NEW b, InsertBreakpoint(b) \/ RemoveBreakpoint(b) PROVE Same
    BY <1>8, <1>10 DEF InsertBreakpoint, RemoveBreakpoint
<1>11. CASE Kill
    <2>1. ~ InCont /\ ~ InCont' /\ UNCHANGED <<result, executed, reason>>
        BY <1>11 DEF Kill, Packet, debugger, InCont
    <2>. QED BY <2>1, <1>1
<1>12. CASE Step
    <2>1. PICK s \in {arm_step(arm)} :
              /\ result' = s.result /\ executed' = s.result
              /\ reason' = IF s.result \in {EXIT, CRASH} THEN reason
                           ELSE gdb_send_stop_reason(s.result)
        BY <1>12 DEF Step
    <2>. QED BY <2>1 DEF ReasonInv, Running, gdb_send_stop_reason
<1>13. CASE Continue
    BY <1>13 DEF Continue, Packet, ReasonInv, Running, InCont
<1>14. CASE ContStep
    <2>1. PICK s \in {arm_step(arm)} : result' = s.result /\ executed' = s.result
        BY <1>14 DEF ContStep
    <2>2. InCont'
        BY <1>14 DEF ContStep, InCont
    <2>. QED BY <2>1, <2>2 DEF ReasonInv
<1>15. CASE ContStop
    BY <1>15 DEF ContStop, ReasonInv, Running, gdb_send_stop_reason
<1>16. ASSUME NEW e, Exception(e) PROVE Same
    BY <1>16 DEF Exception, InCont
<1>17. ASSUME Ended \/ UNCHANGED vars PROVE Same
    BY <1>17 DEF Ended, vars, InCont
<1>. QED BY <1>1, <1>2, <1>3, <1>4, <1>5, <1>6, <1>7, <1>9, <1>10, <1>11, <1>12, <1>13,
            <1>14, <1>15, <1>16, <1>17 DEF Next

(* While the program is stopped, what the debugger was told and what ?     *)
(* would tell it are both about the last instruction executed.             *)
THEOREM ReasonIsKept == Spec => []ReasonKept
<1>1. ReasonInv => ReasonKept
    BY DEF ReasonInv, ReasonKept, InCont
<1>. QED BY <1>1, ReasonInitial, ReasonStep, PTL DEF Spec
=============================================================================
