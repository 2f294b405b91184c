--------------------------- MODULE MemoryAbstract ---------------------------
(***************************************************************************)
(* What memory.h promises: an array of bytes in which a half or a word at  *)
(* address a occupies the 2 or 4 bytes from a on, most significant byte    *)
(* first in a big endian memory and last in a little endian one, whatever  *)
(* the endianness of the host, and in which an access that does not fit    *)
(* fails and has no effect.                                                *)
(***************************************************************************)
EXTENDS ArmWord

CONSTANTS Size, TargetBigEndian

VARIABLES memory, call, ret, value
vars == <<memory, call, ret, value>>

Values(n) == CASE n = 1 -> Byte [] n = 2 -> Half [] n = 4 -> Word

\* The weight, as a digit number, of the k-th byte of an n-byte datum.
Weight(n, k) == IF TargetBigEndian THEN n - 1 - k ELSE k

Fits(a, n) == a + n <= Size

Stored(a, n, v) ==
    [i \in 0 .. Size - 1 |-> IF i \in a .. a + n - 1
                             THEN Digit(v, Weight(n, i - a)) ELSE memory[i]]

\* v is the datum whose bytes are the n bytes at a.
Denotes(a, n, v) ==
    /\ v \in Values(n)
    /\ \A k \in 0 .. n - 1 : memory[a + k] = Digit(v, Weight(n, k))

Init == memory \in [0 .. Size - 1 -> Byte] /\ call = <<>> /\ ret = 0 /\ value = 0

Write(a, n, v) ==
    /\ call' = <<"write", a, n, v>>
    /\ ret' = IF Fits(a, n) THEN 0 ELSE -1
    /\ memory' = IF Fits(a, n) THEN Stored(a, n, v) ELSE memory
    /\ UNCHANGED value

Read(a, n) ==
    /\ call' = <<"read", a, n>>
    /\ ret' = IF Fits(a, n) THEN 0 ELSE -1
    /\ IF Fits(a, n) THEN Denotes(a, n, value') ELSE UNCHANGED value
    /\ UNCHANGED memory

Next == \E a \in Word, n \in {1, 2, 4} :
            \/ \E v \in Values(n) : Write(a, n, v)
            \/ Read(a, n)

Spec == Init /\ [][Next]_vars
=============================================================================
