--------------------------- MODULE StorageProofs ----------------------------
(***************************************************************************)
(* The two stores of the processor implement what their headers promise.   *)
(*                                                                         *)
(* Memory implements MemoryAbstract for every byte width, every size of at *)
(* least one word and every combination of host and target endianness.     *)
(* The argument: a word is the number whose base-Base digits are its bytes *)
(* (Digits4), so reverse_4 exchanges digit i and digit 3-i, and each of    *)
(* the four endianness combinations stores and loads the same digits.      *)
(*                                                                         *)
(* Registers implements BankedRegisters for every set of values.  The      *)
(* argument is one fact about the table of registers_create (Table): two   *)
(* entries point to the same physical register exactly when the two modes  *)
(* share the register, and only the spsr of USR and SYS is NULL.           *)
(***************************************************************************)
EXTENDS Memory, Registers, ArmStepProofs

(* MemoryAbstract takes its digits from its own copy of ArmWord.           *)
LEMMA SameDigits ==
    /\ Abstract!Word = Word /\ Abstract!Half = Half /\ Abstract!Byte = Byte
    /\ \A x, i : Abstract!Digit(x, i) = Digit(x, i)
  BY DEF Abstract!Word, Abstract!Half, Abstract!Byte, Abstract!Digit,
         Abstract!Modulus, Abstract!Base, Abstract!Exp2, Abstract!WordBits,
         Word, Half, Byte, Digit, Modulus, Base, Exp2, WordBits

(* A store through the host's pointer, byte-reversed when the endianness   *)
(* differs, puts the target's digits in place (memory_write functions).    *)
LEMMA StoreAgrees ==
    ASSUME NEW n \in {2, 4}, NEW v \in Nat, NEW a \in Nat
    PROVE  HostStore(memory, a, n, IF SameEndian THEN v
                                   ELSE IF n = 2 THEN reverse_2(v) ELSE reverse_4(v))
             = Abstract!Stored(a, n, v)
  <1> DEFINE w == IF SameEndian THEN v
                  ELSE IF n = 2 THEN reverse_2(v) ELSE reverse_4(v)
             k(i) == IF HostBigEndian THEN n - 1 - (i - a) ELSE i - a
  <1>1. \A j \in 0 .. n - 1 : ~ SameEndian => Digit(w, j) = Digit(v, n - 1 - j)
    <2>1. CASE n = 2
      BY <2>1, Reversed
    <2>2. CASE n = 4
      BY <2>2, Reversed
    <2> QED BY <2>1, <2>2
  <1>2. \A j : SameEndian => Digit(w, j) = Digit(v, j)
    OBVIOUS
  <1> HIDE DEF w
  <1>3. ASSUME NEW i \in a .. a + n - 1
        PROVE  Digit(w, k(i)) = Abstract!Digit(v, Abstract!Weight(n, i - a))
    <2>1. i - a \in 0 .. n - 1 /\ n - 1 - (i - a) \in 0 .. n - 1
          /\ n - 1 - (n - 1 - (i - a)) = i - a
      BY <1>3, SMT
    <2>2. CASE SameEndian
      BY <2>2, <1>2, SameDigits, MemoryAssumption DEF SameEndian, Abstract!Weight
    <2>3. CASE ~ SameEndian
      BY <2>1, <2>3, <1>1, SameDigits, MemoryAssumption DEF SameEndian, Abstract!Weight
    <2> QED BY <2>2, <2>3
  <1>4. HostStore(memory, a, n, w) = Abstract!Stored(a, n, v)
    BY <1>3, Zenon DEF HostStore, Abstract!Stored
  <1> QED BY <1>4 DEF w

(* A load through the host's pointer, byte-reversed when the endianness    *)
(* differs, gives the value whose digits are there (memory_read functions).*)
LEMMA LoadAgrees ==
    ASSUME MemoryTypeOK, NEW a \in Nat
    PROVE  /\ a + 2 <= Size => Abstract!Denotes(a, 2, memory_read_half(memory, a))
           /\ a + 4 <= Size => Abstract!Denotes(a, 4, memory_read_word(memory, a))
  <1>0. memory \in [0 .. Size - 1 -> Byte] /\ Size \in Nat
    BY MemoryAssumption DEF MemoryTypeOK, Contents
  <1>1. ASSUME a + 2 <= Size
        PROVE  Abstract!Denotes(a, 2, memory_read_half(memory, a))
    <2> DEFINE x == HostLoad2(memory, a)
               out == memory_read_half(memory, a)
    <2>1. memory[a] \in Byte /\ memory[a+1] \in Byte
      BY <1>0, <1>1
    <2>2. /\ x \in Half
          /\ Digit(x, 0) = IF HostBigEndian THEN memory[a+1] ELSE memory[a]
          /\ Digit(x, 1) = IF HostBigEndian THEN memory[a] ELSE memory[a+1]
      BY <2>1, Digits2 DEF HostLoad2
    <2>3. out = IF SameEndian THEN x ELSE reverse_2(x)
      BY DEF memory_read_half
    <2> HIDE DEF x, out
    <2>4. x \in Nat
      BY <2>2, Bases DEF Half
    <2>5. /\ out \in Half
          /\ Digit(out, 0) = IF TargetBigEndian THEN memory[a+1] ELSE memory[a]
          /\ Digit(out, 1) = IF TargetBigEndian THEN memory[a] ELSE memory[a+1]
      <3>1. CASE SameEndian
        BY <2>2, <2>3, <3>1, MemoryAssumption DEF SameEndian
      <3>2. CASE ~ SameEndian
        BY <2>2, <2>3, <2>4, <3>2, Reversed, MemoryAssumption DEF SameEndian
      <3> QED BY <3>1, <3>2
    <2>6. ASSUME NEW k \in 0 .. 1
          PROVE  memory[a + k] = Abstract!Digit(out, Abstract!Weight(2, k))
      <3>1. k = 0 \/ k = 1
        OBVIOUS
      <3> QED BY <3>1, <2>5, SameDigits, MemoryAssumption DEF Abstract!Weight
    <2> QED BY <2>5, <2>6, SameDigits DEF Abstract!Denotes, Abstract!Values, out
  <1>2. ASSUME a + 4 <= Size
        PROVE  Abstract!Denotes(a, 4, memory_read_word(memory, a))
    <2> DEFINE x == HostLoad4(memory, a)
               out == memory_read_word(memory, a)
    <2>1. /\ memory[a] \in Byte /\ memory[a+1] \in Byte
          /\ memory[a+2] \in Byte /\ memory[a+3] \in Byte
      BY <1>0, <1>2
    <2>2. /\ x \in Word
          /\ Digit(x, 0) = IF HostBigEndian THEN memory[a+3] ELSE memory[a]
          /\ Digit(x, 1) = IF HostBigEndian THEN memory[a+2] ELSE memory[a+1]
          /\ Digit(x, 2) = IF HostBigEndian THEN memory[a+1] ELSE memory[a+2]
          /\ Digit(x, 3) = IF HostBigEndian THEN memory[a] ELSE memory[a+3]
      BY <2>1, Digits4 DEF HostLoad4
    <2>3. out = IF SameEndian THEN x ELSE reverse_4(x)
      BY DEF memory_read_word
    <2> HIDE DEF x, out
    <2>4. x \in Nat
      BY <2>2, Bases DEF Word
    <2>5. /\ out \in Word
          /\ Digit(out, 0) = IF TargetBigEndian THEN memory[a+3] ELSE memory[a]
          /\ Digit(out, 1) = IF TargetBigEndian THEN memory[a+2] ELSE memory[a+1]
          /\ Digit(out, 2) = IF TargetBigEndian THEN memory[a+1] ELSE memory[a+2]
          /\ Digit(out, 3) = IF TargetBigEndian THEN memory[a] ELSE memory[a+3]
      <3>1. CASE SameEndian
        BY <2>2, <2>3, <3>1, MemoryAssumption DEF SameEndian
      <3>2. CASE ~ SameEndian
        BY <2>2, <2>3, <2>4, <3>2, Reversed, MemoryAssumption DEF SameEndian
      <3> QED BY <3>1, <3>2
    <2>6. ASSUME NEW k \in 0 .. 3
          PROVE  memory[a + k] = Abstract!Digit(out, Abstract!Weight(4, k))
      <3>1. k = 0 \/ k = 1 \/ k = 2 \/ k = 3
        OBVIOUS
      <3> QED BY <3>1, <2>5, SameDigits, MemoryAssumption DEF Abstract!Weight
    <2> QED BY <2>5, <2>6, SameDigits DEF Abstract!Denotes, Abstract!Values, out
  <1> QED BY <1>1, <1>2

(* The bound each function tests is that the last byte is inside.          *)
LEMMA Bounds ==
    ASSUME NEW a \in Word, NEW n \in {1, 2, 4}
    PROVE  /\ a \in Nat
           /\ Accessible(a, n) <=> Abstract!Fits(a, n)
           /\ Accessible(a, n) <=> a + n <= Size
  <1>1. a \in Nat
    BY Bases DEF Word, Modulus
  <1> QED BY <1>1, MemoryAssumption DEF Accessible, Abstract!Fits

(* What a byte, a half and a word are, in both modules.                    *)
LEMMA Ranges ==
    /\ Byte \subseteq Word /\ Half \subseteq Word /\ Word \subseteq Nat
    /\ Abstract!Values(1) = Byte /\ Abstract!Values(2) = Half
    /\ Abstract!Values(4) = Word
  <1>1. Base \in Nat \ {0, 1}
    BY Bases
  <1>2. Base <= Base * Base /\ Base * Base \in Nat /\ Base * Base >= 1
    BY <1>1, SMT
  <1>3. Base * Base <= (Base * Base) * (Base * Base)
    BY <1>1, <1>2, SMT
  <1>4. (Base * Base) * (Base * Base) = Modulus
    BY <1>1, SMT DEF Modulus
  <1>5. Modulus \in Nat /\ Base <= Modulus /\ Base * Base <= Modulus
    BY <1>1, <1>2, <1>3, <1>4, SMT
  <1>6. Byte \subseteq Word /\ Half \subseteq Word /\ Word \subseteq Nat
    BY <1>1, <1>2, <1>5 DEF Byte, Half, Word
  <1> QED BY <1>6, SameDigits DEF Abstract!Values

(* One call of memory.c keeps the types and is one step of MemoryAbstract. *)
LEMMA MemoryStep ==
    ASSUME MemoryTypeOK, MemoryNext
    PROVE  MemoryTypeOK' /\ Abstract!Next
  <1> PICK a \in Word : \/ \E v \in Byte : WriteByte(a, v)
                        \/ \E v \in Half : WriteHalf(a, v)
                        \/ \E v \in Word : WriteWord(a, v)
                        \/ ReadByte(a) \/ ReadHalf(a) \/ ReadWord(a)
    BY DEF MemoryNext
  <1>0. a \in Nat /\ a \in Abstract!Word
    BY Bounds, SameDigits
  <1>m. memory \in [0 .. Size - 1 -> Byte] /\ Size \in Nat
    BY MemoryAssumption DEF MemoryTypeOK, Contents
  <1>w. ASSUME NEW n \in {1, 2, 4}, NEW v \in Abstract!Values(n), Abstract!Write(a, n, v)
        PROVE  MemoryTypeOK' /\ Abstract!Next
    <2>1. v \in Nat
      BY Ranges
    <2>2. memory' \in Contents
      <3>1. ASSUME NEW i \in a .. a + n - 1
            PROVE  Abstract!Digit(v, Abstract!Weight(n, i - a)) \in Byte
        <4>1. Abstract!Weight(n, i - a) \in 0 .. 3
          BY <1>0, <3>1, MemoryAssumption DEF Abstract!Weight
        <4> QED BY <4>1, <2>1, DigitByte, SameDigits
      <3>2. Abstract!Stored(a, n, v) \in Contents
        BY <1>m, <3>1, Zenon DEF Abstract!Stored, Contents
      <3> QED BY <1>w, <3>2 DEF Abstract!Write, MemoryTypeOK
    <2>3. ret' \in {0, -1} /\ value' \in Word
      BY <1>w DEF Abstract!Write, MemoryTypeOK
    <2> QED BY <1>0, <1>w, <2>2, <2>3 DEF MemoryTypeOK, Abstract!Next
  <1>r. ASSUME NEW n \in {1, 2, 4}, Abstract!Read(a, n)
        PROVE  MemoryTypeOK' /\ Abstract!Next
    <2>1. value' \in Word
      <3>1. CASE Abstract!Fits(a, n)
        BY <1>r, <3>1, Ranges DEF Abstract!Read, Abstract!Denotes
      <3>2. CASE ~ Abstract!Fits(a, n)
        BY <1>r, <3>2 DEF Abstract!Read, MemoryTypeOK
      <3> QED BY <3>1, <3>2
    <2> QED BY <1>0, <1>r, <2>1 DEF MemoryTypeOK, Abstract!Read, Abstract!Next, Contents
  <1>1. ASSUME NEW v \in Byte, WriteByte(a, v)
        PROVE  Abstract!Write(a, 1, v)
    <2>1. ASSUME Accessible(a, 1)
          PROVE  [memory EXCEPT ![a] = v] = Abstract!Stored(a, 1, v)
      <3>1. v \in Nat /\ v % Base = v
        BY Bases DEF Byte
      <3>2. Abstract!Digit(v, 0) = v
        BY <3>1, SameDigits DEF Digit
      <3>3. Abstract!Weight(1, 0) = 0 /\ a - a = 0
        BY <1>0 DEF Abstract!Weight
      <3>4. a .. a + 1 - 1 = {a}
        BY <1>0
      <3> QED BY <1>m, <3>2, <3>3, <3>4, Zenon DEF Abstract!Stored
    <2> QED BY <1>1, <2>1, Bounds DEF WriteByte, Return, memory_write_byte, Abstract!Write
  <1>2. ASSUME NEW v \in Half, WriteHalf(a, v)
        PROVE  Abstract!Write(a, 2, v)
    <2>1. v \in Nat
      BY Ranges
    <2>2. HostStore(memory, a, 2, IF SameEndian THEN v ELSE reverse_2(v))
            = Abstract!Stored(a, 2, v)
      BY <1>0, <2>1, StoreAgrees
    <2> QED BY <1>2, <2>2, Bounds DEF WriteHalf, Return, memory_write_half, Abstract!Write
  <1>3. ASSUME NEW v \in Word, WriteWord(a, v)
        PROVE  Abstract!Write(a, 4, v)
    <2>1. v \in Nat
      BY Ranges
    <2>2. HostStore(memory, a, 4, IF SameEndian THEN v ELSE reverse_4(v))
            = Abstract!Stored(a, 4, v)
      BY <1>0, <2>1, StoreAgrees
    <2> QED BY <1>3, <2>2, Bounds DEF WriteWord, Return, memory_write_word, Abstract!Write
  <1>4. ASSUME ReadByte(a)
        PROVE  Abstract!Read(a, 1)
    <2>1. ASSUME Accessible(a, 1)
          PROVE  Abstract!Denotes(a, 1, memory[a])
      <3>1. memory[a] \in Byte
        BY <1>m, <1>0, <2>1, Bounds
      <3>2. memory[a] % Base = memory[a]
        BY <3>1, Bases DEF Byte
      <3>3. Abstract!Digit(memory[a], 0) = memory[a]
        BY <3>2, SameDigits DEF Digit
      <3>4. Abstract!Weight(1, 0) = 0 /\ a + 0 = a /\ 0 .. 1 - 1 = {0}
        BY <1>0 DEF Abstract!Weight
      <3> QED BY <3>1, <3>3, <3>4, Ranges, Zenon DEF Abstract!Denotes
    <2> QED BY <1>4, <2>1, Bounds DEF ReadByte, Return, memory_read_byte, Abstract!Read
  <1>5. ASSUME ReadHalf(a)
        PROVE  Abstract!Read(a, 2)
    BY <1>0, <1>5, Bounds, LoadAgrees DEF ReadHalf, Return, Abstract!Read
  <1>6. ASSUME ReadWord(a)
        PROVE  Abstract!Read(a, 4)
    BY <1>0, <1>6, Bounds, LoadAgrees DEF ReadWord, Return, Abstract!Read
  <1> QED BY <1>w, <1>r, <1>1, <1>2, <1>3, <1>4, <1>5, <1>6, Ranges

(* The memory keeps its type in every behaviour of memory.c.               *)
THEOREM MemoryTypeCorrect == MemorySpec => []MemoryTypeOK
  <1>1. memory_create => MemoryTypeOK
    BY Ranges, Bases DEF memory_create, MemoryTypeOK, Byte
  <1>2. MemoryTypeOK /\ [MemoryNext]_memoryVars => MemoryTypeOK'
    <2>1. MemoryTypeOK /\ MemoryNext => MemoryTypeOK'
      BY MemoryStep
    <2>2. MemoryTypeOK /\ UNCHANGED memoryVars => MemoryTypeOK'
      BY DEF MemoryTypeOK, memoryVars
    <2> QED BY <2>1, <2>2
  <1> QED BY <1>1, <1>2, PTL DEF MemorySpec

(* memory.c behaves as a memory of the endianness it was created with, on  *)
(* hosts of both endiannesses, for every byte width and size.              *)
THEOREM MemoryRefinement == MemorySpec => ImplementsAbstract
  <1>1. memory_create => Abstract!Init
    BY SameDigits DEF memory_create, Abstract!Init, Contents
  <1>2. MemoryTypeOK /\ [MemoryNext]_memoryVars => [Abstract!Next]_(Abstract!vars)
    BY MemoryStep DEF memoryVars, Abstract!vars
  <1> QED BY <1>1, <1>2, MemoryTypeCorrect, PTL
          DEF MemorySpec, ImplementsAbstract, Abstract!Spec

-----------------------------------------------------------------------------
(* get_mode_num numbers the seven modes.                                   *)
LEMMA ModeNum ==
    ASSUME NEW m \in Modes
    PROVE  /\ get_mode_num(m) \in 0 .. 6
           /\ m = USR => get_mode_num(m) = 0
           /\ m = FIQ => get_mode_num(m) = 1
           /\ m = IRQ => get_mode_num(m) = 2
           /\ m = SVC => get_mode_num(m) = 3
           /\ m = ABT => get_mode_num(m) = 4
           /\ m = UND => get_mode_num(m) = 5
           /\ m = SYS => get_mode_num(m) = 6
  BY DEF get_mode_num, Modes, USR, FIQ, IRQ, SVC, ABT, UND, SYS

(* One entry of the table, as arithmetic.                                  *)
LEMMA Entry ==
    ASSUME NEW m \in 0 .. 6, NEW i \in VirtualRegs
    PROVE  /\ i <= 7 => virtual_regs[m][i] = i
           /\ i \in 8 .. 12 => virtual_regs[m][i] = IF m = 1 THEN i + 5 ELSE i
           /\ i \in 13 .. 14 => virtual_regs[m][i] = IF m = 6 THEN i + 5 ELSE i + 5 + 2 * m
           /\ i = 15 => virtual_regs[m][i] = 30
           /\ i = 16 => virtual_regs[m][i] = 31
           /\ i = 17 => virtual_regs[m][i] = IF m = 0 \/ m = 6 THEN -1 ELSE 31 + m
  BY DEF virtual_regs, VirtualRegs, CPSR, SPSR, NULL

(* Only the spsr of USR and SYS is missing.                                *)
LEMMA Present ==
    ASSUME NEW m \in Modes, NEW i \in VirtualRegs
    PROVE  /\ Points(get_mode_num(m), i) <=> Banked!Has(m, i)
           /\ Points(get_mode_num(m), i) => virtual_regs[get_mode_num(m)][i] \in PhysicalRegs
           /\ Points(0, i) <=> Banked!Has(Banked!User, i)
  <1>1. i \in 0 .. 17
    BY DEF VirtualRegs
  <1>2. m \in {16, 17, 18, 19, 23, 27, 31}
    BY DEF Modes, USR, FIQ, IRQ, SVC, ABT, UND, SYS
  <1>3. Banked!Has(m, i) <=> (i = 17 => m # 16 /\ m # 31)
    BY <1>1, <1>2 DEF Banked!Has, Banked!HasSpsr, Banked!Private, Banked!User, Banked!Fast, Banked!System
  <1>4. Banked!Has(Banked!User, i) <=> i # 17
    BY <1>1 DEF Banked!Has, Banked!HasSpsr, Banked!Private, Banked!User, Banked!Fast, Banked!System
  <1>5. \A n \in 0 .. 6 : /\ Points(n, i) <=> (i = 17 => n # 0 /\ n # 6)
                          /\ Points(n, i) => virtual_regs[n][i] \in PhysicalRegs
    <2> TAKE n \in 0 .. 6
    <2>1. CASE i <= 7
      BY <1>1, <2>1, Entry DEF Points, NULL, PhysicalRegs
    <2>2. CASE i \in 8 .. 12
      BY <1>1, <2>2, Entry DEF Points, NULL, PhysicalRegs
    <2>3. CASE i \in 13 .. 14
      BY <1>1, <2>3, Entry DEF Points, NULL, PhysicalRegs
    <2>4. CASE i \in 15 .. 17
      BY <1>1, <2>4, Entry DEF Points, NULL, PhysicalRegs
    <2> QED BY <1>1, <2>1, <2>2, <2>3, <2>4
  <1>6. /\ get_mode_num(m) \in 0 .. 6
        /\ (get_mode_num(m) = 0 <=> m = 16) /\ (get_mode_num(m) = 6 <=> m = 31)
    BY ModeNum, <1>2 DEF USR, FIQ, IRQ, SVC, ABT, UND, SYS
  <1> QED BY <1>3, <1>4, <1>5, <1>6

(* Two entries point to one physical register when the modes share it.     *)
LEMMA Table ==
    ASSUME NEW m \in Modes, NEW n \in Modes, NEW i \in VirtualRegs, NEW j \in VirtualRegs,
           Points(get_mode_num(m), i), Points(get_mode_num(n), j)
    PROVE  virtual_regs[get_mode_num(m)][i] = virtual_regs[get_mode_num(n)][j]
             <=> Banked!Same(m, i, n, j)
  <1> DEFINE a == get_mode_num(m)
             b == get_mode_num(n)
  <1>1. i \in 0 .. 17 /\ j \in 0 .. 17
    BY DEF VirtualRegs
  <1>2. m \in {16, 17, 18, 19, 23, 27, 31} /\ n \in {16, 17, 18, 19, 23, 27, 31}
    BY DEF Modes, USR, FIQ, IRQ, SVC, ABT, UND, SYS
  <1>3. /\ a \in 0 .. 6 /\ b \in 0 .. 6
        /\ m = 16 => a = 0
        /\ m = 17 => a = 1
        /\ m = 18 => a = 2
        /\ m = 19 => a = 3
        /\ m = 23 => a = 4
        /\ m = 27 => a = 5
        /\ m = 31 => a = 6
        /\ n = 16 => b = 0
        /\ n = 17 => b = 1
        /\ n = 18 => b = 2
        /\ n = 19 => b = 3
        /\ n = 23 => b = 4
        /\ n = 27 => b = 5
        /\ n = 31 => b = 6
    BY ModeNum DEF USR, FIQ, IRQ, SVC, ABT, UND, SYS
  <1>4. virtual_regs[a][i] # -1 /\ virtual_regs[b][j] # -1
    BY DEF Points, NULL
  <1> HIDE DEF a, b
  <1>5. Banked!Same(m, i, n, j) <=>
            i = j /\ \/ m = n
                     \/ /\ ~(i \in 13 .. 14 \/ i = 17) \/ (m \in {16, 31} /\ n \in {16, 31})
                        /\ ~(i \in 8 .. 12) \/ (m # 17 /\ n # 17)
    BY <1>1, <1>2 DEF Banked!Same, Banked!Private, Banked!User, Banked!Fast, Banked!System
  <1>6. virtual_regs[a][i] = virtual_regs[b][j] => i = j
    <2> DEFINE x == virtual_regs[a][i]
               y == virtual_regs[b][j]
               In(k, v, c) == /\ k <= 7 => v = k
                              /\ k \in 8 .. 12 => v = k \/ (c = 1 /\ v = k + 5)
                              /\ k = 13 => v \in {18, 20, 22, 24, 26, 28}
                              /\ k = 14 => v \in {19, 21, 23, 25, 27, 29}
                              /\ k = 15 => v = 30
                              /\ k = 16 => v = 31
                              /\ k = 17 /\ v # -1 => v \in 32 .. 36
    <2>1. ASSUME NEW c \in 0 .. 6, NEW k \in 0 .. 17
          PROVE  In(k, virtual_regs[c][k], c)
      <3>1. k \in VirtualRegs
        BY DEF VirtualRegs
      <3>2. CASE k <= 12
        BY <3>1, <3>2, Entry
      <3>3. CASE k \in 13 .. 14
        BY <3>1, <3>3, Entry
      <3>4. CASE k \in 15 .. 17
        BY <3>1, <3>4, Entry
      <3> QED BY <3>2, <3>3, <3>4
    <2> HIDE DEF In
    <2>2. In(i, x, a) /\ In(j, y, b) /\ x # -1 /\ y # -1
      BY <1>1, <1>3, <1>4, <2>1
    <2> HIDE DEF x, y
    <2>3. x = y => i = j
      BY <1>1, <2>2 DEF In
    <2> QED BY <2>3 DEF x, y
  <1>7. ASSUME i = j
        PROVE  virtual_regs[a][i] = virtual_regs[b][i] <=> Banked!Same(m, i, n, i)
    <2>1. CASE i <= 7 \/ i = 15 \/ i = 16
      BY <1>1, <1>3, <1>5, <1>7, <2>1, Entry
    <2>2. CASE i \in 8 .. 12
      BY <1>1, <1>2, <1>3, <1>5, <1>7, <2>2, Entry
    <2>3. CASE i \in 13 .. 14
      BY <1>1, <1>2, <1>3, <1>5, <1>7, <2>3, Entry
    <2>4. CASE i = 17
      BY <1>1, <1>2, <1>3, <1>4, <1>5, <1>7, <2>4, Entry
    <2> QED BY <1>1, <2>1, <2>2, <2>3, <2>4
  <1>8. Banked!Same(m, i, n, j) => i = j
    BY <1>5
  <1> QED BY <1>6, <1>7, <1>8 DEF a, b

(* A write through row m of the table is the write BankedRegisters allows. *)
LEMMA StoreStep ==
    ASSUME FileTypeOK, NEW m \in Modes, NEW i \in VirtualRegs, NEW v \in Value,
           Points(get_mode_num(m), i),
           r' = [r EXCEPT !.registers[virtual_regs[get_mode_num(m)][i]] = v],
           UNCHANGED <<got, crashed>>
    PROVE  FileTypeOK' /\ Banked!Write(m, i, v)
  <1> DEFINE k == virtual_regs[get_mode_num(m)][i]
  <1>1. k \in PhysicalRegs
    BY Present
  <1> HIDE DEF k
  <1>2. r' = [r EXCEPT !.registers[k] = v]
    BY DEF k
  <1>3. /\ r.registers \in [PhysicalRegs -> Value]
        /\ r'.mode = r.mode /\ r' \in [mode : Modes, registers : [PhysicalRegs -> Value]]
        /\ \A q \in PhysicalRegs : r'.registers[q] = IF q = k THEN v ELSE r.registers[q]
    BY <1>1, <1>2 DEF FileTypeOK
  <1>4. FileTypeOK'
    BY <1>3 DEF FileTypeOK
  <1>5. ASSUME NEW n \in Modes, NEW j \in VirtualRegs, Points(get_mode_num(n), j)
        PROVE  r'.registers[virtual_regs[get_mode_num(n)][j]]
                 = IF Banked!Same(m, i, n, j) THEN v
                   ELSE r.registers[virtual_regs[get_mode_num(n)][j]]
    <2>1. virtual_regs[get_mode_num(n)][j] \in PhysicalRegs
      BY <1>5, Present
    <2>2. virtual_regs[get_mode_num(n)][j] = k <=> Banked!Same(m, i, n, j)
      BY <1>5, Table DEF k
    <2> QED BY <1>3, <2>1, <2>2
  <1>6. Banked!Mode = Modes
    BY DEF Modes, USR, FIQ, IRQ, SVC, ABT, UND, SYS,
           Banked!Mode, Banked!User, Banked!Fast, Banked!System
  <1>7. \A n \in Modes : Banked!Visible(n) = {j \in VirtualRegs : Points(get_mode_num(n), j)}
    BY Present DEF Banked!Visible, VirtualRegs
  <1>8. View' = [n \in Banked!Mode |-> [j \in Banked!Visible(n) |->
                    IF Banked!Same(m, i, n, j) THEN v ELSE View[n][j]]]
    <2>1. View' = [n \in Modes |-> [j \in {j \in VirtualRegs : Points(get_mode_num(n), j)} |->
                      r'.registers[virtual_regs[get_mode_num(n)][j]]]]
      BY DEF View
    <2>2. ASSUME NEW n \in Modes, NEW j \in VirtualRegs, Points(get_mode_num(n), j)
          PROVE  View[n][j] = r.registers[virtual_regs[get_mode_num(n)][j]]
      BY <2>2 DEF View
    <2>3. ASSUME NEW n \in Modes
          PROVE  [j \in {j \in VirtualRegs : Points(get_mode_num(n), j)} |->
                      r'.registers[virtual_regs[get_mode_num(n)][j]]]
                   = [j \in Banked!Visible(n) |->
                         IF Banked!Same(m, i, n, j) THEN v ELSE View[n][j]]
      <3>1. Banked!Visible(n) = {j \in VirtualRegs : Points(get_mode_num(n), j)}
        BY <1>7
      <3>2. ASSUME NEW j \in {j \in VirtualRegs : Points(get_mode_num(n), j)}
            PROVE  r'.registers[virtual_regs[get_mode_num(n)][j]]
                     = IF Banked!Same(m, i, n, j) THEN v ELSE View[n][j]
        BY <1>5, <2>2
      <3> QED BY <3>1, <3>2, Zenon
    <2> QED BY <1>6, <2>1, <2>3, Zenon
  <1>9. Banked!Has(m, i)
    BY Present
  <1> QED BY <1>3, <1>4, <1>8, <1>9 DEF Banked!Write

(* A call of registers.h keeps the types and is a step of BankedRegisters. *)
LEMMA RegistersStep ==
    ASSUME FileTypeOK, FileNext
    PROVE  FileTypeOK' /\ Banked!Next
  <1>m. r.mode \in Modes /\ USR \in Modes /\ get_mode_num(USR) = 0
    BY ModeNum DEF FileTypeOK, Modes
  <1>u. Banked!User = USR /\ Banked!Mode = Modes /\ VirtualRegs = 0 .. 17
        /\ CPSR \in VirtualRegs /\ SPSR \in VirtualRegs /\ SPSR = 17
    BY DEF Modes, USR, FIQ, IRQ, SVC, ABT, UND, SYS, VirtualRegs, CPSR, SPSR,
           Banked!Mode, Banked!User, Banked!Fast, Banked!System
  <1>c. ~ crashed
    BY DEF FileNext
  <1>a. ASSUME NEW m \in {r.mode, USR}, NEW i \in VirtualRegs, Banked!Access(m, i)
        PROVE  Banked!Next
    BY <1>a, <1>c, <1>u DEF Banked!Next
  <1>l. ASSUME NEW m \in {r.mode, USR}, NEW i \in VirtualRegs,
               ReadThrough(m, i, r.registers[virtual_regs[get_mode_num(m)][i]])
        PROVE  FileTypeOK' /\ Banked!Next
    <2>1. m \in Modes /\ asked' = <<"read", m, i>>
      BY <1>l, <1>m DEF ReadThrough
    <2>2. CASE Points(get_mode_num(m), i)
      <3>1. got' = r.registers[virtual_regs[get_mode_num(m)][i]]
            /\ UNCHANGED <<r, crashed>>
        BY <1>l, <2>2 DEF ReadThrough
      <3>2. virtual_regs[get_mode_num(m)][i] \in PhysicalRegs
        BY <2>1, <2>2, Present
      <3>3. FileTypeOK'
        BY <3>1, <3>2 DEF FileTypeOK
      <3>4. View[m][i] = r.registers[virtual_regs[get_mode_num(m)][i]]
        BY <2>1, <2>2, Zenon DEF View
      <3>5. Banked!Read(m, i)
        BY <2>1, <2>2, <3>1, <3>4, Present DEF Banked!Read, View
      <3> QED BY <1>a, <2>1, <3>3, <3>5 DEF Banked!Access
    <2>3. CASE ~ Points(get_mode_num(m), i)
      <3>1. crashed' = TRUE /\ UNCHANGED <<r, got>>
        BY <1>l, <2>3 DEF ReadThrough
      <3>2. FileTypeOK'
        BY <3>1 DEF FileTypeOK
      <3>3. Banked!Missing(m, i)
        BY <2>1, <2>3, <3>1, Present DEF Banked!Missing, View
      <3> QED BY <1>a, <2>1, <3>2, <3>3 DEF Banked!Access
    <2> QED BY <2>2, <2>3
  <1>s. ASSUME NEW m \in {r.mode, USR}, NEW i \in VirtualRegs, NEW v \in Value,
               WriteThrough(m, i, v, [r EXCEPT !.registers[virtual_regs[get_mode_num(m)][i]] = v])
        PROVE  FileTypeOK' /\ Banked!Next
    <2>1. m \in Modes /\ asked' = <<"write", m, i, v>>
      BY <1>s, <1>m DEF WriteThrough
    <2>2. CASE Points(get_mode_num(m), i)
      <3>1. r' = [r EXCEPT !.registers[virtual_regs[get_mode_num(m)][i]] = v]
            /\ UNCHANGED <<got, crashed>>
        BY <1>s, <2>2 DEF WriteThrough
      <3>2. FileTypeOK' /\ Banked!Write(m, i, v)
        BY <2>1, <2>2, <3>1, StoreStep
      <3> QED BY <1>a, <2>1, <3>2 DEF Banked!Access
    <2>3. CASE ~ Points(get_mode_num(m), i)
      <3>1. crashed' = TRUE /\ UNCHANGED <<r, got>>
        BY <1>s, <2>3 DEF WriteThrough
      <3>2. FileTypeOK'
        BY <3>1 DEF FileTypeOK
      <3>3. Banked!Missing(m, i)
        BY <2>1, <2>3, <3>1, Present DEF Banked!Missing, View
      <3> QED BY <1>a, <2>1, <3>2, <3>3 DEF Banked!Access
    <2> QED BY <2>2, <2>3
  <1>1. ASSUME NEW m \in Modes, SetMode(m)
        PROVE  FileTypeOK' /\ Banked!Next
    <2>1. /\ asked' = <<"mode", m>>
          /\ r' = [r EXCEPT !.mode = m] /\ UNCHANGED <<got, crashed>>
      BY <1>1 DEF SetMode
    <2>2. FileTypeOK' /\ r'.mode = m /\ r'.registers = r.registers
      BY <2>1 DEF FileTypeOK
    <2>3. Banked!SetMode(m)
      BY <2>1, <2>2 DEF Banked!SetMode, View
    <2> QED BY <1>c, <1>u, <2>2, <2>3 DEF Banked!Next
  <1>2. ASSUME NEW i \in VirtualRegs, ReadRegister(i) \/ ReadUsrRegister(i)
        PROVE  FileTypeOK' /\ Banked!Next
    BY <1>2, <1>l, <1>m DEF ReadRegister, ReadUsrRegister, read_register, read_usr_register
  <1>3. ASSUME NEW i \in VirtualRegs, NEW v \in Value,
               WriteRegister(i, v) \/ WriteUsrRegister(i, v)
        PROVE  FileTypeOK' /\ Banked!Next
    BY <1>3, <1>s, <1>m
       DEF WriteRegister, WriteUsrRegister, write_register, write_usr_register
  <1>4. ASSUME ReadCpsr \/ ReadSpsr
        PROVE  FileTypeOK' /\ Banked!Next
    BY <1>4, <1>l, <1>u DEF ReadCpsr, ReadSpsr, read_cpsr, read_spsr, read_register
  <1>5. ASSUME NEW v \in Value, WriteCpsr(v) \/ WriteSpsr(v)
        PROVE  FileTypeOK' /\ Banked!Next
    BY <1>5, <1>s, <1>u DEF WriteCpsr, WriteSpsr, write_cpsr, write_spsr, write_register
  <1>6. ASSUME Answer("has_spsr", current_mode_has_spsr(r))
               \/ Answer("privileged", in_a_privileged_mode(r))
        PROVE  FileTypeOK' /\ Banked!Next
    <2>1. UNCHANGED <<r, crashed>> /\ got' \in {0, 1}
      BY <1>6 DEF Answer
    <2>2. FileTypeOK'
      BY <2>1, ValueAssumption DEF FileTypeOK
    <2>3. current_mode_has_spsr(r) <=> Banked!HasSpsr(r.mode)
      BY <1>m, <1>u, Present DEF current_mode_has_spsr, Banked!Has
    <2>4. in_a_privileged_mode(r) <=> r.mode # Banked!User
      BY <1>m, <1>u, ModeNum
         DEF in_a_privileged_mode, Modes, USR, FIQ, IRQ, SVC, ABT, UND, SYS
    <2>5. \/ Banked!Ask("has_spsr", Banked!HasSpsr(r.mode))
          \/ Banked!Ask("privileged", r.mode # Banked!User)
      BY <1>6, <2>1, <2>3, <2>4 DEF Answer, Banked!Ask, View
    <2> QED BY <1>c, <2>2, <2>5 DEF Banked!Next
  <1> QED BY <1>1, <1>2, <1>3, <1>4, <1>5, <1>6 DEF FileNext

(* The register file keeps its type in every behaviour of its clients.     *)
THEOREM RegistersTypeCorrect == FileSpec => []FileTypeOK
  <1>1. FileInit => FileTypeOK
    <2>1. SYS \in Modes /\ 0 \in Value
      BY ValueAssumption DEF Modes
    <2>2. registers_create \in [mode : Modes, registers : [PhysicalRegs -> Value]]
      BY <2>1 DEF registers_create
    <2> QED BY <2>1, <2>2, Zenon DEF FileInit, FileTypeOK
  <1>2. FileTypeOK /\ [FileNext]_fileVars => FileTypeOK'
    <2>1. FileTypeOK /\ UNCHANGED fileVars => FileTypeOK'
      BY DEF FileTypeOK, fileVars
    <2> QED BY <2>1, RegistersStep
  <1> QED BY <1>1, <1>2, PTL DEF FileSpec

(* registers.c behaves as a banked register file, whatever the values and  *)
(* the order of the calls.                                                 *)
THEOREM RegistersRefinement == FileSpec => ImplementsBanked
  <1>1. FileInit => Banked!Init
    <2> SUFFICES ASSUME FileInit PROVE Banked!Init
      OBVIOUS
    <2>1. Banked!Mode = Modes /\ r.mode = Banked!System
      BY DEF Modes, USR, FIQ, IRQ, SVC, ABT, UND, SYS, FileInit, registers_create,
             Banked!Mode, Banked!User, Banked!Fast, Banked!System
    <2>2. \A n \in Modes : Banked!Visible(n) = {j \in VirtualRegs : Points(get_mode_num(n), j)}
      BY Present DEF Banked!Visible, VirtualRegs
    <2>3. \A n \in Modes : \A j \in VirtualRegs : Points(get_mode_num(n), j) =>
              r.registers[virtual_regs[get_mode_num(n)][j]] = 0
      BY Present DEF FileInit, registers_create
    <2>4. View = [n \in Banked!Mode |-> [j \in Banked!Visible(n) |-> 0]]
      BY <2>1, <2>2, <2>3, Zenon DEF View
    <2> QED BY <2>1, <2>4 DEF FileInit, Banked!Init
  <1>2. FileTypeOK /\ [FileNext]_fileVars => [Banked!Next]_(Banked!vars)
    BY RegistersStep DEF fileVars, Banked!vars, View
  <1> QED BY <1>1, <1>2, RegistersTypeCorrect, PTL
          DEF FileSpec, ImplementsBanked, Banked!Spec
=============================================================================
