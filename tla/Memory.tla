------------------------------- MODULE Memory -------------------------------
(***************************************************************************)
(* The calls of memory.h as a state machine: a client creates a memory and *)
(* reads and writes it, as memory_test.c and gdb_protocol.c do.            *)
(***************************************************************************)
EXTENDS MemoryData

VARIABLES memory,
          call,        \* the last call: what the client asked for
          ret, value   \* what it got: the return code and the out parameter
memoryVars == <<memory, call, ret, value>>

\* malloc leaves the bytes undefined: any contents.
memory_create == memory \in Contents /\ call = <<>> /\ ret = 0 /\ value = 0

Return(a, n) == ret' = IF Accessible(a, n) THEN 0 ELSE -1

WriteByte(a, v) == /\ call' = <<"write", a, 1, v>>
                   /\ Return(a, 1)
                   /\ memory' = memory_write_byte(memory, a, v)
                   /\ UNCHANGED value
WriteHalf(a, v) == /\ call' = <<"write", a, 2, v>>
                   /\ Return(a, 2)
                   /\ memory' = memory_write_half(memory, a, v)
                   /\ UNCHANGED value
WriteWord(a, v) == /\ call' = <<"write", a, 4, v>>
                   /\ Return(a, 4)
                   /\ memory' = memory_write_word(memory, a, v)
                   /\ UNCHANGED value

\* The out parameter is left alone when the access fails.
ReadByte(a) == /\ call' = <<"read", a, 1>>
               /\ Return(a, 1)
               /\ value' = IF Accessible(a, 1) THEN memory_read_byte(memory, a) ELSE value
               /\ UNCHANGED memory
ReadHalf(a) == /\ call' = <<"read", a, 2>>
               /\ Return(a, 2)
               /\ value' = IF Accessible(a, 2) THEN memory_read_half(memory, a) ELSE value
               /\ UNCHANGED memory
ReadWord(a) == /\ call' = <<"read", a, 4>>
               /\ Return(a, 4)
               /\ value' = IF Accessible(a, 4) THEN memory_read_word(memory, a) ELSE value
               /\ UNCHANGED memory

MemoryNext == \E a \in Word :
            \/ \E v \in Byte : WriteByte(a, v)
            \/ \E v \in Half : WriteHalf(a, v)
            \/ \E v \in Word : WriteWord(a, v)
            \/ ReadByte(a) \/ ReadHalf(a) \/ ReadWord(a)

MemorySpec == memory_create /\ [][MemoryNext]_memoryVars

-----------------------------------------------------------------------------
(* The contents stay bytes of the created size, the return code is 0 or -1 *)
(* and the value read is a word.                                           *)
MemoryTypeOK == memory \in Contents /\ ret \in {0, -1} /\ value \in Word

(* memory.h: every access behaves as the endianness given at creation says,*)
(* for both endiannesses of the host, and fails exactly when one of its    *)
(* bytes would be outside (the memory_read and memory_write functions).    *)
Abstract == INSTANCE MemoryAbstract
ImplementsAbstract == Abstract!Spec
=============================================================================
