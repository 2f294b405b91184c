----------------------------- MODULE Simulator -----------------------------
(***************************************************************************)
(* arm_simulator.c: the main thread, the gdb thread and the irq thread,    *)
(* which share the processor, one mutex and the globals of trace.c.  An    *)
(* access to the processor is a step of its own, so that the threads can   *)
(* interleave between any two of them.                                     *)
(*                                                                         *)
(* The processor is cut down to the two registers that arm_exception and   *)
(* the handlers of gdb_protocol.c access one after the other, the pc and   *)
(* the cpsr; every value in 1 .. MaxValue stands for something a program   *)
(* or the debugger wrote, 0 for the value RESET gives.  The packets of a   *)
(* session are chosen from Commands in any order; how they travel is       *)
(* GdbLink's subject.                                                      *)
(***************************************************************************)
EXTENDS Integers

CONSTANTS
    Commands,     \* the packets with a handler that the debugger sends
    MaxPackets,   \* bound: packets in a session
    MaxIrqs,      \* bound: bytes sent to the irq port
    MaxFiles,     \* the connections the irq thread can accept before accept fails
    MaxValue,     \* bound: values of a register
    LoopsForever  \* the program may never reach a breakpoint

\* g, G: all registers; p, P: one of them, here the pc; c, s: run; k: kill; other: the
\* handlers that access no register (m, X, q, H, ?).
AllCommands == {"g", "G", "p", "P", "c", "s", "k", "other"}

ASSUME SimulatorAssumption ==
    /\ Commands \subseteq AllCommands
    /\ MaxPackets \in Nat /\ MaxIrqs \in Nat /\ MaxFiles \in Nat /\ MaxValue \in Nat
    /\ LoopsForever \in BOOLEAN

VARIABLES
    main, gdb, irq,   \* where each thread is
    lock,             \* the thread that owns shared.lock, or "free"
    arm,              \* the processor: its pc and its cpsr
    alive,            \* arm_destroy has not run
    running,          \* the process exists
    enabled, depth,   \* trace.c: enabled and location_stack_top + 1
    command,          \* the packet in gdb_packet_analysis
    content,          \* the registers that a G or P packet carries
    local,            \* the registers g has read so far
    sent,             \* the last answer to g
    byte,             \* the irq thread's irq
    packets, irqs, files,
    stable            \* history: the processor when the lock was last released
vars == <<main, gdb, irq, lock, arm, alive, running, enabled, depth, command, content,
          local, sent, byte, packets, irqs, files, stable>>

Values == 0 .. MaxValue
Processors == [pc : Values, cpsr : Values]
Zero == [pc |-> 0, cpsr |-> 0]

shared == <<lock, arm, alive, running, enabled, depth, stable>>
gdbData == <<command, content, local, sent, packets>>
irqData == <<byte, irqs, files>>

\* main creates memory and processor before it starts the threads.
Init == /\ main = "join" /\ gdb = "accept" /\ irq = "accept"
        /\ lock = "free" /\ arm = Zero /\ stable = Zero
        /\ alive = TRUE /\ running = TRUE
        /\ enabled = 1 /\ depth = 0
        /\ command = "other" /\ content = Zero /\ local = Zero /\ sent = Zero /\ byte = "ignored"
        /\ packets = 0 /\ irqs = 0 /\ files = 0

-----------------------------------------------------------------------------
(* trace.c, and the macros of trace_location.h around every access.        *)
\* Variants: tracing is not enabled again, a location is not popped.
trace_enable_forgotten == UNCHANGED enabled
trace_end_location_forgotten == UNCHANGED depth

trace_disable == enabled' = 0
trace_enable  == enabled' = 1
trace_start_location == depth' = IF enabled = 1 THEN depth + 1 ELSE depth
trace_end_location   == depth' = IF enabled = 1 THEN depth - 1 ELSE depth

-----------------------------------------------------------------------------
(* The gdb thread.                                                         *)
GdbStep(from, to) == running /\ gdb = from /\ gdb' = to /\ UNCHANGED <<main, irq, irqData>>

GdbAccept == /\ GdbStep("accept", "scan")
             /\ UNCHANGED <<shared, gdbData>>

\* A packet whose letter has a handler.
ReceivePacket(c, r) == /\ GdbStep("scan", "lock") /\ packets < MaxPackets
                       /\ packets' = packets + 1
                       /\ command' = c
                       /\ content' = IF c \in {"G", "P"} THEN r ELSE content
                       /\ UNCHANGED <<shared, local, sent>>

\* The debugger leaves: the scanner returns.
GdbEof == GdbStep("scan", "closed") /\ UNCHANGED <<shared, gdbData>>

FirstLabel(c) == CASE c \in {"g", "G", "p", "P", "c"} -> "disable"
                   [] c = "s" -> "fetch"
                   [] c \in {"k", "other"} -> "answer"

GdbLock == /\ GdbStep("lock", FirstLabel(command)) /\ lock = "free"
           /\ lock' = "gdb"
           /\ UNCHANGED <<arm, alive, running, enabled, depth, stable, gdbData>>

GdbDisable == /\ GdbStep("disable", "first")
              /\ trace_disable
              /\ UNCHANGED <<lock, arm, alive, running, depth, stable, gdbData>>

\* The pc comes before the cpsr in a packet; c reads the next instruction.
GdbReadPc == /\ command \in {"g", "p", "c"}
             /\ GdbStep("first", IF command = "g" THEN "second" ELSE "enable")
             /\ local' = [local EXCEPT !.pc = arm.pc]
             /\ UNCHANGED <<shared, command, content, sent, packets>>
GdbWritePc == /\ command \in {"G", "P"}
              /\ GdbStep("first", IF command = "G" THEN "second" ELSE "enable")
              /\ arm' = [arm EXCEPT !.pc = content.pc]
              /\ UNCHANGED <<lock, alive, running, enabled, depth, stable, gdbData>>
\* Variant: g takes the cpsr before it has the lock, with the packet.
GdbReadCpsrEarly == /\ command = "g" /\ GdbStep("second", "enable")
                    /\ UNCHANGED <<shared, gdbData>>
GdbReadCpsr == /\ command = "g" /\ GdbStep("second", "enable")
               /\ local' = [local EXCEPT !.cpsr = arm.cpsr]
               /\ UNCHANGED <<shared, command, content, sent, packets>>
GdbWriteCpsr == /\ command = "G" /\ GdbStep("second", "enable")
                /\ arm' = [arm EXCEPT !.cpsr = content.cpsr]
                /\ UNCHANGED <<lock, alive, running, enabled, depth, stable, gdbData>>

\* Variant: cont reads the instruction again and again.
GdbEnableAgain == /\ GdbStep("enable", IF command = "c" THEN "disable" ELSE "answer")
                  /\ trace_enable
                  /\ UNCHANGED <<lock, arm, alive, running, depth, stable, gdbData>>
GdbEnable == /\ GdbStep("enable", IF command = "c" THEN "switch" ELSE "answer")
             /\ trace_enable
             /\ UNCHANGED <<lock, arm, alive, running, depth, stable, gdbData>>

\* Variant: the breakpoint is executed like any other instruction.
BreakpointMissed == GdbStep("switch", "fetch") /\ UNCHANGED <<shared, gdbData>>

\* cont: the instruction read is the breakpoint, or it is executed.
Breakpoint   == GdbStep("switch", "answer") /\ UNCHANGED <<shared, gdbData>>
NoBreakpoint == GdbStep("switch", "fetch") /\ UNCHANGED <<shared, gdbData>>

\* arm_step: its first access writes the pc, a later one may write the cpsr.
StepFetch == /\ GdbStep("fetch", "fetched")
             /\ trace_start_location
             /\ UNCHANGED <<lock, arm, alive, running, enabled, stable, gdbData>>
StepFetched(v) == /\ GdbStep("fetched", "execute")
                  /\ arm' = [arm EXCEPT !.pc = v] /\ trace_end_location
                  /\ UNCHANGED <<lock, alive, running, enabled, stable, gdbData>>
StepExecute == /\ GdbStep("execute", "executed")
               /\ trace_start_location
               /\ UNCHANGED <<lock, arm, alive, running, enabled, stable, gdbData>>
StepExecuted(v) == /\ GdbStep("executed", IF command = "c" THEN "disable" ELSE "answer")
                   /\ arm' = [arm EXCEPT !.cpsr = v] /\ trace_end_location
                   /\ UNCHANGED <<lock, alive, running, enabled, stable, gdbData>>
\* swi 0x123456 calls exit.
StepExit == /\ GdbStep("execute", "execute")
            /\ running' = FALSE
            /\ UNCHANGED <<lock, arm, alive, enabled, depth, stable, gdbData>>

GdbAnswer == /\ GdbStep("answer", "unlock")
             /\ sent' = IF command = "g" THEN local ELSE sent
             /\ UNCHANGED <<shared, command, content, local, packets>>
GdbUnlock == /\ GdbStep("unlock", "scan")
             /\ lock' = "free" /\ stable' = arm
             /\ UNCHANGED <<arm, alive, running, enabled, depth, gdbData>>
\* The connection breaks: Rio_writen fails, for the acknowledgement or for the
\* answer, and its wrapper exits, or SIGPIPE ends the process.
GdbWriteFails == /\ gdb \in {"scan", "answer"} /\ GdbStep(gdb, gdb)
                 /\ running' = FALSE
                 /\ UNCHANGED <<lock, arm, alive, enabled, depth, stable, gdbData>>
GdbExit == GdbStep("closed", "done") /\ UNCHANGED <<shared, gdbData>>

-----------------------------------------------------------------------------
(* The irq thread.                                                         *)
IrqStep(from, to) == running /\ irq = from /\ irq' = to /\ UNCHANGED <<main, gdb, gdbData>>

\* The connections are shut down but never closed: in the end accept fails and
\* its wrapper exits.
IrqAccept == /\ IrqStep("accept", "read")
             /\ files < MaxFiles /\ files' = files + 1
             /\ UNCHANGED <<shared, byte, irqs>>
IrqAcceptFails == /\ IrqStep("accept", "accept") /\ files = MaxFiles
                  /\ running' = FALSE
                  /\ UNCHANGED <<lock, arm, alive, enabled, depth, stable, irqData>>
\* The byte is RESET, or an exception that arm_exception ignores.
Bytes == {"reset", "ignored"}
IrqRead(b) == /\ IrqStep("read", "lock") /\ irqs < MaxIrqs
              /\ byte' = b /\ irqs' = irqs + 1
              /\ UNCHANGED <<shared, files>>
IrqEof == IrqStep("read", "accept") /\ UNCHANGED <<shared, irqData>>
\* The connection breaks: the wrapper of read exits.
IrqReadFails == /\ IrqStep("read", "read")
                /\ running' = FALSE
                /\ UNCHANGED <<lock, arm, alive, enabled, depth, stable, irqData>>
IrqLock == /\ IrqStep("lock", IF byte = "reset" THEN "cpsr" ELSE "unlock") /\ lock = "free"
           /\ lock' = "irq"
           /\ UNCHANGED <<arm, alive, running, enabled, depth, stable, irqData>>

\* arm_exception(RESET)
IrqCpsr == /\ IrqStep("cpsr", "wcpsr")
           /\ trace_start_location
           /\ UNCHANGED <<lock, arm, alive, running, enabled, stable, irqData>>
IrqWriteCpsr == /\ IrqStep("wcpsr", "pc")
                /\ arm' = [arm EXCEPT !.cpsr = 0] /\ trace_end_location
                /\ UNCHANGED <<lock, alive, running, enabled, stable, irqData>>
IrqPc == /\ IrqStep("pc", "wpc")
         /\ trace_start_location
         /\ UNCHANGED <<lock, arm, alive, running, enabled, stable, irqData>>
IrqWritePc == /\ IrqStep("wpc", "unlock")
              /\ arm' = [arm EXCEPT !.pc = 0] /\ trace_end_location
              /\ UNCHANGED <<lock, alive, running, enabled, stable, irqData>>
IrqUnlock == /\ IrqStep("unlock", "read")
             /\ lock' = "free" /\ stable' = arm
             /\ UNCHANGED <<arm, alive, running, enabled, depth, irqData>>
\* The processor was freed: the access may as well crash.
IrqCrash == /\ irq \in {"wcpsr", "wpc"} /\ ~ alive
            /\ IrqStep(irq, irq)
            /\ running' = FALSE
            /\ UNCHANGED <<lock, arm, alive, enabled, depth, stable, irqData>>

-----------------------------------------------------------------------------
(* The main thread: it does not take the lock.                             *)
MainStep(from, to) ==
    running /\ main = from /\ main' = to /\ UNCHANGED <<gdb, irq, gdbData, irqData>>

\* Variant: main waits for both threads.
JoinBoth == /\ MainStep("join", "destroy") /\ gdb = "done" /\ irq = "done"
            /\ UNCHANGED shared
Join == /\ MainStep("join", "destroy") /\ gdb = "done"
        /\ UNCHANGED shared
Destroy == /\ MainStep("destroy", "return")
           /\ alive' = FALSE
           /\ UNCHANGED <<lock, arm, running, enabled, depth, stable>>
ReturnFromMain == /\ MainStep("return", "return")
                  /\ running' = FALSE
                  /\ UNCHANGED <<lock, arm, alive, enabled, depth, stable>>

Ended == ~ running /\ UNCHANGED vars

-----------------------------------------------------------------------------
\* What the debugger, send_irq and their connections decide.
Environment == \/ GdbAccept \/ GdbEof \/ \E c \in Commands, r \in Processors : ReceivePacket(c, r)
               \/ GdbWriteFails \/ IrqAccept \/ IrqAcceptFails \/ IrqEof \/ IrqReadFails
               \/ \E b \in Bytes : IrqRead(b)

\* What the gdb thread does on its own; whether a breakpoint is there is the
\* program's choice.
GdbThread == \/ GdbLock \/ GdbDisable \/ GdbEnable
             \/ GdbReadPc \/ GdbReadCpsr \/ GdbWritePc \/ GdbWriteCpsr
             \/ StepFetch \/ StepExecute \/ StepExit
             \/ \E v \in Values : StepFetched(v) \/ StepExecuted(v)
             \/ Breakpoint \/ NoBreakpoint
             \/ GdbAnswer \/ GdbUnlock \/ GdbExit

IrqThread == \/ IrqLock \/ IrqCpsr \/ IrqWriteCpsr \/ IrqPc \/ IrqWritePc
             \/ IrqUnlock \/ IrqCrash

MainThread == Join \/ Destroy \/ ReturnFromMain

Next == Environment \/ GdbThread \/ IrqThread \/ MainThread \/ Ended

\* Every thread is scheduled again and again.  A program that reaches its
\* breakpoints takes Breakpoint when it is offered for ever.
Fairness == /\ WF_vars(GdbThread) /\ WF_vars(IrqThread) /\ WF_vars(MainThread)
            /\ ~ LoopsForever => SF_vars(Breakpoint)

Spec == Init /\ [][Next]_vars /\ Fairness

-----------------------------------------------------------------------------
GdbHolds == {"disable", "first", "second", "enable", "switch", "fetch", "fetched",
             "execute", "executed", "answer", "unlock"}
IrqHolds == {"cpsr", "wcpsr", "pc", "wpc", "unlock"}

(* The threads are at one of their labels and the data have their types.   *)
TypeOK == /\ main \in {"join", "destroy", "return"}
          /\ gdb \in {"accept", "scan", "lock", "closed", "done"} \cup GdbHolds
          /\ irq \in {"accept", "read", "lock"} \cup IrqHolds
          /\ lock \in {"free", "gdb", "irq"}
          /\ arm \in Processors /\ stable \in Processors
          /\ content \in Processors /\ local \in Processors /\ sent \in Processors
          /\ alive \in BOOLEAN /\ running \in BOOLEAN
          /\ enabled \in {0, 1} /\ depth \in {0, 1}
          /\ command \in AllCommands /\ byte \in Bytes
          /\ packets \in 0 .. MaxPackets /\ irqs \in 0 .. MaxIrqs /\ files \in 0 .. MaxFiles

(* Whenever no thread holds the lock, tracing is enabled and the location  *)
(* stack is empty: no path through a handler of gdb_protocol.c leaves them *)
(* otherwise, and no exception arrives between a trace_disable and its     *)
(* trace_enable, which would go untraced or push without popping.          *)
TraceRestored == lock = "free" => enabled = 1 /\ depth = 0

-----------------------------------------------------------------------------
(* The inductive invariant.                                                *)

\* Each thread holds the lock exactly where its code says.
LockInv == /\ lock = "gdb" <=> gdb \in GdbHolds
           /\ lock = "irq" <=> irq \in IrqHolds

\* The handler and the packet belong together.
HandlerInv ==
    /\ gdb \in {"disable", "first", "enable"} => command \in {"g", "G", "p", "P", "c"}
    /\ gdb = "second" => command \in {"g", "G"}
    /\ gdb = "switch" => command = "c"
    /\ gdb \in {"fetch", "fetched", "execute", "executed"} => command \in {"s", "c"}
    /\ irq \in IrqHolds \ {"unlock"} => byte = "reset"

TraceInv ==
    /\ enabled = IF gdb \in {"first", "second", "enable"} THEN 0 ELSE 1
    /\ depth = IF gdb \in {"fetched", "executed"} \/ irq \in {"wcpsr", "wpc"}
               THEN 1 ELSE 0

\* What the owner of the lock has done so far to the processor it found.
Written(r) == [r EXCEPT !.pc = content.pc]
ProcessorInv ==
    /\ lock = "free" => arm = stable
    /\ lock = "gdb" =>
         CASE command = "G" ->
                /\ gdb \in {"disable", "first"} => arm = stable
                /\ gdb = "second" => arm = Written(stable)
                /\ gdb \in {"enable", "answer", "unlock"} => arm = content
           [] command = "P" ->
                /\ gdb \in {"disable", "first"} => arm = stable
                /\ gdb \in {"enable", "answer", "unlock"} => arm = Written(stable)
           [] command \in {"s", "c"} -> TRUE
           [] command \in {"g", "p", "k", "other"} -> arm = stable
    /\ lock = "gdb" /\ command = "g" =>
         /\ gdb = "second" => local.pc = stable.pc
         /\ gdb \in {"enable", "answer"} => local = stable
    /\ lock = "irq" =>
         /\ irq \in {"cpsr", "wcpsr"} => arm = stable
         /\ irq \in {"pc", "wpc"} => arm = [stable EXCEPT !.cpsr = 0]
         /\ irq = "unlock" => arm = IF byte = "reset" THEN Zero ELSE stable

IInv == TypeOK /\ LockInv /\ HandlerInv /\ TraceInv /\ ProcessorInv

-----------------------------------------------------------------------------
\* A packet has been received and its handler has not returned.
Pending == gdb \in {"lock"} \cup GdbHolds

\* gdb and send_irq see a processor whose operations are atomic.
Atomic == INSTANCE AtomicProcessor WITH Registers <- Processors, registers <- stable,
                                        answer <- sent, pending <- Pending

(* Every packet and every exception is atomic for the others: what g       *)
(* answers is what all the registers were at one moment, a G packet and a  *)
(* RESET are seen entirely or not at all, although each of them takes      *)
(* several accesses (read_general_registers, write_general_registers,      *)
(* arm_exception under shared.lock).                                       *)
ImplementsAtomic == Atomic!Spec

(* An exception that the irq thread has read is raised, or the process     *)
(* ends first: the irq thread gets the lock in the end.                    *)
IrqDelivered == irq = "lock" ~> irq = "unlock" \/ ~ running

(* A packet is answered, or the process ends first.                        *)
PacketAnswered == gdb = "lock" ~> gdb = "unlock" \/ ~ running

(* When the debugger has left, the process ends, even if the irq thread    *)
(* holds the lock or waits for a connection.                               *)
EndsWithDebugger == gdb = "closed" ~> ~ running
=============================================================================
