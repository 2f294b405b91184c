----------------------------- MODULE GdbSession -----------------------------
(***************************************************************************)
(* gdb_protocol.c: the handlers of the debugger's packets, on the real     *)
(* processor and its memory, with the exceptions of the irq port between   *)
(* them.  A handler is atomic, since it holds the lock, except cont, whose *)
(* loop takes a step for each instruction and lets no one else in.  How    *)
(* packets travel is GdbLink's subject: here a packet and its answer       *)
(* arrive.                                                                 *)
(*                                                                         *)
(* The debugger is a client that keeps what it was told: the registers and *)
(* the bytes it has read or written since the program last ran.            *)
(***************************************************************************)
EXTENDS ArmStep, Sequences, SequencesExt

CONSTANTS
    Plans,       \* what the debugger may do in a session, see below
    BreakWord,   \* the memory word that encodes a breakpoint
    EscapeByte,  \* 0x7d: the next character of an X packet has bit 5 flipped
    EscapedBytes,\* what the debugger escapes: 0x7d, '#' and '$'
    IrqBytes,    \* the exceptions that the irq port receives
    MaxIrqs,     \* bound: how many of them
    MaxWrites    \* bound: G and P packets

\* A plan has a name, the program loaded, a bound on its instructions (cycles),
\* the contents of G packets (r0-r15 and the cpsr), the numbers and values of P,
\* the numbers of p, the addresses and sizes of m, the addresses and bytes of X,
\* the words replaced by breakpoints, and whether the debugger asks anything.
Registers == 0 .. 16
Numbers   == 0 .. 25     \* gdb's: r0-r15, f0-f7, fps, cpsr

\* case 0xE7F000F0 of instruction & 0xFFF000F0.
IsBreakpoint(ins) ==
    /\ ins.cond = 14 /\ ins.op = 3 /\ ins.p = 1
    /\ ins.u = 1 /\ ins.b = 1 /\ ins.w = 1 /\ ins.l = 1
    /\ ins.b7 = 1 /\ ins.sh = 3 /\ ins.b4 = 1

ASSUME SessionAssumption ==
    /\ WellFormed /\ Size < Modulus
    /\ \A p \in Plans :
             /\ p.image \in Contents
             /\ p.G \subseteq [Registers -> Word]
             /\ p.P \subseteq Numbers \X Word /\ p.p \subseteq Numbers
             /\ p.m \subseteq Word \X Word /\ p.X \subseteq Word \X Seq(Byte)
             /\ p.breaks \subseteq 0 .. Size - 4 /\ p.cycles \in Word
             /\ p.asks \in BOOLEAN
    /\ BreakWord \in Word /\ IsBreakpoint(Decode(BreakWord))
    /\ EscapedBytes \subseteq Byte /\ EscapeByte \in EscapedBytes
    /\ IrqBytes \subseteq Exceptions
    /\ MaxIrqs \in Nat /\ MaxWrites \in Nat

VARIABLES
    plan,       \* what the debugger may do in this session
    arm,        \* the processor
    result,     \* gdb->target_exception: what the last arm_step returned
    serving,    \* "ready" for a packet, in the "first" or a later turn of cont ("more"),
                \* or "closed"
    regs, bytes,\* the debugger: the registers and the memory it knows
    reason,     \* the debugger: the last stop it was told
    inserted,   \* the debugger: where it has put breakpoints
    executed,   \* history: what the last instruction executed returned
    stale,      \* history: a RESET since the debugger last had all the registers
    disturbed,  \* history: the debugger changed what the program does
    irqs, writes
vars == <<plan, arm, result, serving, regs, bytes, reason, inserted, executed, stale, disturbed,
          irqs, writes>>
debugger == <<regs, bytes, reason, inserted, stale, disturbed>>

-----------------------------------------------------------------------------
(* Conversions.  A value travels as four bytes in hexadecimal, in the      *)
(* order of the target; a union on the host takes them apart.              *)
Unknown == -1
HostByte(v, i) == Digit(v, IF HostBigEndian THEN 3 - i ELSE i)

\* Variant: the bytes are never turned round.
write_uint32_host(v) == [k \in 1 .. 4 |-> HostByte(v, k - 1)]

write_uint32(v) == [k \in 1 .. 4 |-> HostByte(v, IF SameEndian THEN k - 1 ELSE 4 - k)]
read_uint32(d)  == HostLoad4([i \in 0 .. 3 |-> d[IF SameEndian THEN i + 1 ELSE 4 - i]], 0)

\* The debugger knows the target's order.
TargetBytes(v) == [k \in 1 .. 4 |-> Digit(v, IF TargetBigEndian THEN 4 - k ELSE k - 1)]
TargetValue(d) == IF TargetBigEndian
                  THEN ((d[1] * Base + d[2]) * Base + d[3]) * Base + d[4]
                  ELSE ((d[4] * Base + d[3]) * Base + d[2]) * Base + d[1]

\* The debugger writes a register number in hexadecimal, and atoi reads its
\* decimal digits up to the first letter.
atoi(n) == CASE n < 10 -> n
             [] n \in 10 .. 15 -> 0
             [] n >= 16 /\ n % 16 < 10 -> 10 * (n \div 16) + (n % 16)
             [] n >= 16 /\ n % 16 >= 10 -> n \div 16

\* *content ^ 0x20
Flip(c) == IF get_bit(c, ByteBits - 3) = 1 THEN clr_bit(c, ByteBits - 3)
                                           ELSE set_bit(c, ByteBits - 3)

\* The characters that the debugger sends for the bytes of an X packet.
Escaped(c) == IF c \in EscapedBytes THEN <<EscapeByte, Flip(c)>> ELSE <<c>>
Escape(data) ==
    LET sent[k \in 0 .. Len(data)] == IF k = 0 THEN <<>> ELSE sent[k-1] \o Escaped(data[k])
    IN  sent[Len(data)]

-----------------------------------------------------------------------------
(* The handlers.                                                           *)
gdb_send_stop_reason(exception) ==
    CASE exception = UNDEFINED_INSTRUCTION -> "S04"
      [] exception \in {PREFETCH_ABORT, DATA_ABORT} -> "S10"
      [] exception \notin {UNDEFINED_INSTRUCTION, PREFETCH_ABORT, DATA_ABORT} -> "S05"

\* The pc is read before the fetch, one instruction in advance.
GdbRead(p, i) == IF i = 15 THEN Minus(arm_read_register(p, i), 4) ELSE arm_read_register(p, i)

\* Sixteen registers, f0-f7 of three words and fps, which are all "xxxxxxxx",
\* and the cpsr.
CpsrWord == 16 + 8 * 3 + 1 + 1
read_general_registers(p) ==
    [k \in 1 .. CpsrWord |-> CASE k <= 16 -> write_uint32(GdbRead(p, k - 1))
                               [] k \in 17 .. CpsrWord - 1 -> Unknown
                               [] k = CpsrWord -> write_uint32(arm_read_cpsr(p))]
write_general_registers(p, content) ==
    LET written[k \in 0 .. 16] ==
            IF k = 0 THEN p
            ELSE arm_write_register(written[k-1], k - 1, read_uint32(content[k]))
    IN  arm_write_cpsr(written[16], read_uint32(content[CpsrWord]))

\* The turns of a loop over n addresses from a, that ends where one is outside.
Within(a, n) == CHOOSE k \in 0 .. n : /\ \A j \in 0 .. k - 1 : Accessible(Plus(a, j), 1)
                                      /\ k = n \/ ~ Accessible(Plus(a, k), 1)

\* Variant: the address does not advance, every byte read is the first one.
read_memory_short(p, a, n) == [k \in 1 .. Within(a, n) |-> memory_read_byte(p.mem, a)]

read_memory(p, a, n) == [k \in 1 .. Within(a, n) |-> memory_read_byte(p.mem, Plus(a, k - 1))]

\* Variant: an escaped character is taken as it is.
WriteOneRaw(s, a, content) ==
    LET at == IF content[s.at] = EscapeByte THEN s.at + 1 ELSE s.at
    IN  [mem |-> memory_write_byte(s.mem, a, content[at]), at |-> at + 1,
         ok |-> Accessible(a, 1)]

\* A turn of the loop of X: the character at s.at, or the one that it escapes, is
\* the byte for address a.
WriteOne(s, a, content) ==
    LET escapes == content[s.at] = EscapeByte
        value   == IF escapes THEN Flip(content[s.at + 1]) ELSE content[s.at]
    IN  [mem |-> memory_write_byte(s.mem, a, value),
         at  |-> s.at + (IF escapes THEN 2 ELSE 1),
         ok  |-> Accessible(a, 1)]

\* The loop ends at a byte that does not fit; those before it are written.
write_memory_binary(p, a, n, content) ==
    LET turn[i \in 0 .. n] ==
            IF i = 0 THEN [mem |-> p.mem, at |-> 1, ok |-> a < Size]
            ELSE IF turn[i-1].ok THEN WriteOne(turn[i-1], Plus(a, i - 1), content)
            ELSE turn[i-1]
    IN  [p      |-> [p EXCEPT !.mem = turn[n].mem],
         answer |-> IF turn[n].ok THEN "OK" ELSE "E02"]

-----------------------------------------------------------------------------
Nothing == [i \in Registers |-> Unknown]
NoBytes == [a \in 0 .. Size - 1 |-> Unknown]

Init == /\ plan \in Plans
        /\ arm = arm_create(plan.image)
        /\ result = 0 /\ serving = "ready"
        /\ regs = Nothing /\ bytes = NoBytes /\ reason = "S05" /\ inserted = {}
        /\ executed = 0 /\ stale = FALSE /\ disturbed = FALSE
        /\ irqs = 0 /\ writes = 0

InCont  == serving \in {"first", "more"}
Running == result \notin {EXIT, CRASH}

\* gdb_packet_analysis calls a handler; the debugger gets its answer.
Packet == Running /\ serving = "ready" /\ UNCHANGED <<plan, irqs, executed>>

\* g
ReadGeneralRegisters ==
    /\ Packet
    /\ \E a \in {read_general_registers(arm)} :
           regs' = [i \in Registers |-> TargetValue(a[IF i = 16 THEN CpsrWord ELSE i + 1])]
    /\ stale' = FALSE
    /\ UNCHANGED <<arm, result, serving, bytes, reason, inserted, disturbed, writes>>

\* A program that has begun does not expect its registers to change.
Interferes == disturbed \/ arm.cycle_count > 0

\* G
WriteGeneralRegisters(f) ==
    /\ Packet /\ writes < MaxWrites
    /\ arm' = write_general_registers(arm,
                  [k \in 1 .. CpsrWord |-> CASE k <= 16 -> TargetBytes(f[k-1])
                                             [] k = CpsrWord -> TargetBytes(f[16])
                                             [] k \in 17 .. CpsrWord - 1 -> TargetBytes(0)])
    /\ writes' = writes + 1
    /\ regs' = f /\ stale' = FALSE /\ disturbed' = Interferes
    /\ UNCHANGED <<result, serving, bytes, reason, inserted>>

\* p: what comes back is the register that atoi finds, the one asked for when its
\* number is the same in both bases; the debugger keeps only that.
ReadRegister(n) ==
    /\ Packet /\ atoi(n) < 16
    /\ regs' = IF n < 10
               THEN [regs EXCEPT ![n] = TargetValue(write_uint32(GdbRead(arm, atoi(n))))]
               ELSE regs
    /\ UNCHANGED <<arm, result, serving, bytes, reason, inserted, stale, disturbed, writes>>

\* P
WriteRegister(n, v) ==
    /\ Packet /\ writes < MaxWrites /\ n < 16
    /\ arm' = arm_write_register(arm, n, read_uint32(TargetBytes(v)))
    /\ writes' = writes + 1
    /\ regs' = [regs EXCEPT ![n] = v] /\ disturbed' = Interferes
    /\ UNCHANGED <<result, serving, bytes, reason, inserted, stale>>

\* assert(reg < 16) in both: the process aborts.
AssertFails(n, reg) == /\ Packet /\ reg >= 16
                       /\ result' = CRASH
                       /\ UNCHANGED <<arm, serving, debugger, writes>>

\* m: the answer may be shorter than what was asked.
ReadMemory(a, n) ==
    /\ Packet
    /\ \E d \in {read_memory(arm, a, n)} :
           bytes' = [i \in 0 .. Size - 1 |->
                        IF i \in a .. a + Len(d) - 1 THEN d[i - a + 1] ELSE bytes[i]]
    /\ UNCHANGED <<arm, result, serving, regs, reason, inserted, stale, disturbed, writes>>

\* X: after E02 the debugger does not know what was written.
Write(a, data, at) ==
    \E h \in {write_memory_binary(arm, a, Len(data), Escape(data))} :
        /\ Packet
        /\ arm' = h.p
        /\ bytes' = [i \in 0 .. Size - 1 |->
                        CASE i \notin a .. a + Len(data) - 1 -> bytes[i]
                          [] i \in a .. a + Len(data) - 1 ->
                               IF h.answer = "OK" THEN data[i - a + 1] ELSE Unknown]
        /\ inserted' = at
        /\ UNCHANGED <<result, serving, regs, reason, stale, disturbed, writes>>
WriteMemory(a, data) == Write(a, data, inserted)

\* The debugger puts a breakpoint in the program, or the instruction back.
InsertBreakpoint(b) == b \notin inserted /\ Write(b, TargetBytes(BreakWord), inserted \cup {b})
RemoveBreakpoint(b) == b \in inserted
             /\ Write(b, [k \in 1 .. 4 |-> plan.image[b + k - 1]], inserted \ {b})

\* q, H, ? and a letter that has no handler: an answer, and nothing else.  What ?
\* answers is gdb_send_stop_reason(result).
Ask == Packet /\ UNCHANGED <<arm, result, serving, debugger, writes>>

\* k: SHUT_WR, and no answer.
Kill == /\ Packet
        /\ serving' = "closed"
        /\ UNCHANGED <<arm, result, debugger, writes>>

-----------------------------------------------------------------------------
\* What the debugger knew does not hold any more once the program has run.
Forget == /\ regs' = Nothing /\ bytes' = NoBytes /\ stale' = FALSE
          /\ UNCHANGED inserted

\* s; a breakpoint is executed like any other instruction.
Step ==
    /\ Running /\ serving = "ready" /\ arm.cycle_count < plan.cycles
    /\ \E s \in {arm_step(arm)} :
           /\ arm' = s.p /\ result' = s.result /\ executed' = s.result
           /\ reason' = IF s.result \in {EXIT, CRASH} THEN reason
                        ELSE gdb_send_stop_reason(s.result)
    /\ disturbed' = (disturbed \/ FetchAddress(arm) \in inserted)
    /\ Forget
    /\ UNCHANGED <<plan, serving, irqs, writes>>

\* c
Continue == /\ Packet
            /\ serving' = "first" /\ Forget
            /\ UNCHANGED <<arm, result, reason, disturbed, writes>>

\* Variant: the instruction after the next one is looked at.
BreakpointsLate ==
    LET a == arm_read_register(arm, 15)
    IN  IF Accessible(a, 4) THEN {IsBreakpoint(Decode(arm_read(arm, a, 4)))} ELSE {FALSE}

\* Whether the instruction read in anticipation is a breakpoint.  Outside the
\* memory nothing is read: the variable was never written, or still has the
\* instruction executed before, which was none.
Breakpoints ==
    LET a == Minus(arm_read_register(arm, 15), 4)
    IN  IF Accessible(a, 4) THEN {IsBreakpoint(Decode(arm_read(arm, a, 4)))}
        ELSE IF serving = "first" THEN BOOLEAN ELSE {FALSE}

\* Variant: cont keeps the exception to itself.
ContStepForgets ==
    /\ Running /\ InCont /\ arm.cycle_count < plan.cycles
    /\ FALSE \in Breakpoints
    /\ \E s \in {arm_step(arm)} :
           /\ arm' = s.p /\ executed' = s.result
           /\ result' = IF s.result \in {EXIT, CRASH} THEN s.result ELSE result
    /\ serving' = "more"
    /\ UNCHANGED <<plan, debugger, irqs, writes>>

ContStep ==
    /\ Running /\ InCont /\ arm.cycle_count < plan.cycles
    /\ FALSE \in Breakpoints
    /\ \E s \in {arm_step(arm)} : arm' = s.p /\ result' = s.result /\ executed' = s.result
    /\ serving' = "more"
    /\ UNCHANGED <<plan, debugger, irqs, writes>>

\* The answer is about the last instruction executed, whichever packet that was.
ContStop ==
    /\ Running /\ InCont
    /\ TRUE \in Breakpoints
    /\ serving' = "ready"
    /\ reason' = gdb_send_stop_reason(result)
    /\ UNCHANGED <<plan, arm, result, regs, bytes, inserted, executed, stale, disturbed,
                   irqs, writes>>

\* The irq thread, when it gets the lock; the debugger is not told.
Exception(e) ==
    /\ Running /\ serving \in {"ready", "closed"} /\ irqs < MaxIrqs
    /\ arm' = arm_exception(arm, e)
    /\ irqs' = irqs + 1
    /\ stale' = (stale \/ e = RESET)
    /\ UNCHANGED <<plan, result, serving, regs, bytes, reason, inserted, executed, disturbed,
                   writes>>

\* The process has ended, the debugger has left, or the bound is reached.
Ended == /\ ~ Running \/ serving = "closed" \/ arm.cycle_count = plan.cycles
         /\ UNCHANGED vars

Next == \/ plan.asks /\ ReadGeneralRegisters
        \/ \E f \in plan.G : WriteGeneralRegisters(f)
        \/ \E n \in plan.p : ReadRegister(n) \/ AssertFails(n, atoi(n))
        \/ \E w \in plan.P : WriteRegister(w[1], w[2]) \/ AssertFails(w[1], w[1])
        \/ \E r \in plan.m : ReadMemory(r[1], r[2])
        \/ \E w \in plan.X : WriteMemory(w[1], w[2])
        \/ \E b \in plan.breaks : InsertBreakpoint(b) \/ RemoveBreakpoint(b)
        \/ plan.asks /\ (Ask \/ Kill)
        \/ Step \/ Continue \/ ContStep \/ ContStop
        \/ \E e \in IrqBytes : Exception(e)
        \/ Ended

Spec == Init /\ [][Next]_vars

-----------------------------------------------------------------------------
(* The processor, the debugger's copies and the answers keep their types.  *)
TypeOK == /\ arm.cycle_count \in 0 .. plan.cycles
          /\ arm.reg \in [mode : Modes, registers : [PhysicalRegs -> Word]]
          /\ arm.mem \in Contents
          /\ result \in {-1, 0, EXIT, CRASH} \cup Exceptions
          /\ serving \in {"ready", "first", "more", "closed"}
          /\ reason \in {"S04", "S05", "S10"}
          /\ regs \in [Registers -> Word \cup {Unknown}]
          /\ bytes \in [0 .. Size - 1 -> Byte \cup {Unknown}]
          /\ inserted \subseteq plan.breaks
          /\ stale \in BOOLEAN /\ disturbed \in BOOLEAN
          /\ irqs \in 0 .. MaxIrqs /\ writes \in 0 .. MaxWrites

(* What the debugger holds in its copy of the registers is what the        *)
(* program will find there, whichever of g, G, p and P it comes from and   *)
(* in whichever order they were sent: byte order, the pc that is read in   *)
(* advance and the place of the cpsr after the floating point registers    *)
(* agree both ways.  A RESET from the irq port, of which the debugger is   *)
(* not told, can only make its pc and cpsr wrong.  Of a pc that is not     *)
(* aligned g tells the address that the next fetch reads.  What p answers  *)
(* for r10 to r15 is left out: it is r0, since atoi does not read          *)
(* hexadecimal.                                                            *)
RegistersKnown ==
    \A i \in Registers :
        regs[i] # Unknown => \/ regs[i] = Reg(arm, i)
                             \/ i = 15 /\ regs[i] = FetchAddress(arm)
                             \/ stale /\ i \in {15, 16}

(* What the debugger holds in its copy of the memory is in the memory:     *)
(* escaped characters, reads cut at the end of the memory and writes that  *)
(* fail half-way included.                                                 *)
MemoryKnown == \A a \in 0 .. Size - 1 : bytes[a] # Unknown => bytes[a] = arm.mem[a]

(* An X packet is answered OK exactly when all of its bytes fit; what fits *)
(* is written all the same, and nothing else is changed.                   *)
WriteEffect ==
    \A w \in plan.X :
        LET h    == write_memory_binary(arm, w[1], Len(w[2]), Escape(w[2]))
            last == w[1] + Len(w[2]) - 1
        IN  /\ h.answer = "OK" <=> w[1] < Size /\ last < Size
            /\ h.p.mem = [i \in 0 .. Size - 1 |->
                              IF i \in w[1] .. last THEN w[2][i - w[1] + 1] ELSE arm.mem[i]]

(* While the program is stopped, what the debugger was told and what ?     *)
(* would tell it are both about the last instruction executed, whether s   *)
(* or c executed it and whatever packets and exceptions have come since.   *)
ReasonKept ==
    Running /\ serving \in {"ready", "closed"} =>
        gdb_send_stop_reason(executed) = reason /\ gdb_send_stop_reason(result) = reason

(* cont comes back only where the debugger has put a breakpoint, before    *)
(* the instruction it replaces, or from outside the memory, where it       *)
(* decides on an instruction that was never read.                          *)
StopsAtBreakpoint ==
    [][InCont /\ ~ disturbed /\ serving' = "ready" =>
          FetchAddress(arm) \in inserted \/ ~ Accessible(FetchAddress(arm), 4)]_vars
=============================================================================
