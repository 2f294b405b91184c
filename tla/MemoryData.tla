----------------------------- MODULE MemoryData -------------------------------
(***************************************************************************)
(* memory.c: the simulated memory.  Halfs and words are moved through a    *)
(* pointer of the host's own type and byte-reversed when the endianness of *)
(* the host differs from the one the memory was created with.              *)
(*                                                                         *)
(* The operators take the memory contents as an argument: Memory drives    *)
(* them alone, ArmCore on the memory of the simulated processor.           *)
(***************************************************************************)
EXTENDS ArmWord

CONSTANTS Size,             \* memory_create's size, 0x20000 in main
          TargetBigEndian,  \* memory_create's is_big_endian
          HostBigEndian     \* is_big_endian() of the machine running the code

\* size - 3 is a size_t and would wrap below 3: every caller creates at least
\* one word (arm_simulator.c 0x20000, memory_test.c 4).
ASSUME MemoryAssumption ==
    /\ Size \in Nat /\ Size >= 4 /\ Size <= Modulus
    /\ TargetBigEndian \in BOOLEAN /\ HostBigEndian \in BOOLEAN

Contents == [0 .. Size - 1 -> Byte]

SameEndian == HostBigEndian <=> TargetBigEndian

\* The uint16_t or uint32_t at &m[a], as the host reads it.
HostLoad2(m, a) == IF HostBigEndian THEN m[a] * Base + m[a+1]
                                    ELSE m[a+1] * Base + m[a]
HostLoad4(m, a) ==
    IF HostBigEndian
    THEN ((m[a] * Base + m[a+1]) * Base + m[a+2]) * Base + m[a+3]
    ELSE ((m[a+3] * Base + m[a+2]) * Base + m[a+1]) * Base + m[a]

\* Variant: the value is not cut into bytes.
HostStoreWhole(m, a, n, v) ==
    [i \in 0 .. Size - 1 |-> IF i \in a .. a + n - 1 THEN v ELSE m[i]]

\* The assignment through the same pointers: byte k takes the host's digit.
HostStore(m, a, n, v) ==
    [i \in 0 .. Size - 1 |->
        IF i \in a .. a + n - 1
        THEN Digit(v, IF HostBigEndian THEN n - 1 - (i - a) ELSE i - a)
        ELSE m[i]]

\* Variant: the last position is lost.
AccessibleButLast(a, n) == ~(a >= Size - n)

\* if (address >= mem->size - (n-1)) return -1;
Accessible(a, n) == ~(a >= Size - (n - 1))

memory_read_byte(m, a) == m[a]
memory_read_half(m, a) == IF SameEndian THEN HostLoad2(m, a)
                                        ELSE reverse_2(HostLoad2(m, a))
memory_read_word(m, a) == IF SameEndian THEN HostLoad4(m, a)
                                        ELSE reverse_4(HostLoad4(m, a))

memory_write_byte(m, a, v) ==
    IF Accessible(a, 1) THEN [m EXCEPT ![a] = v] ELSE m
memory_write_half(m, a, v) ==
    IF Accessible(a, 2)
    THEN HostStore(m, a, 2, IF SameEndian THEN v ELSE reverse_2(v)) ELSE m
memory_write_word(m, a, v) ==
    IF Accessible(a, 4)
    THEN HostStore(m, a, 4, IF SameEndian THEN v ELSE reverse_4(v)) ELSE m
=============================================================================
