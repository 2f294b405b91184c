-------------------------- MODULE SimulatorProofs --------------------------
(***************************************************************************)
(* The threads of the simulator, for every bound and every set of packets: *)
(* tracing is restored whenever the lock is free, and packets and          *)
(* exceptions are atomic.                                                  *)
(***************************************************************************)
EXTENDS Simulator, TLAPS

\* Mutual exclusion, and what the owner of the lock knows of the trace.
LEMMA Exclusion == IInv => ~ (gdb \in GdbHolds /\ irq \in IrqHolds)
  BY DEF IInv, LockInv

LEMMA GdbTrace ==
    IInv /\ gdb \in GdbHolds =>
        /\ gdb \notin {"first", "second", "enable"} => enabled = 1
        /\ depth = IF gdb \in {"fetched", "executed"} THEN 1 ELSE 0
<1> SUFFICES ASSUME IInv, gdb \in GdbHolds
             PROVE /\ gdb \notin {"first", "second", "enable"} => enabled = 1
                   /\ depth = IF gdb \in {"fetched", "executed"} THEN 1 ELSE 0
    OBVIOUS
<1>1. irq \notin {"wcpsr", "wpc"}
    BY Exclusion DEF IrqHolds
<1> QED BY <1>1 DEF IInv, TraceInv

LEMMA IrqTrace ==
    IInv /\ irq \in IrqHolds =>
        enabled = 1 /\ depth = IF irq \in {"wcpsr", "wpc"} THEN 1 ELSE 0
<1> SUFFICES ASSUME IInv, irq \in IrqHolds
             PROVE enabled = 1 /\ depth = IF irq \in {"wcpsr", "wpc"} THEN 1 ELSE 0
    OBVIOUS
<1>1. gdb \notin {"first", "second", "enable", "fetched", "executed"}
    BY Exclusion DEF GdbHolds
<1> QED BY <1>1 DEF IInv, TraceInv

\* A step of the gdb thread preserves the invariant.
LEMMA GdbKeeps == IInv /\ GdbThread => IInv'
<1> SUFFICES ASSUME IInv, GdbThread PROVE IInv'
    OBVIOUS
<1> USE SimulatorAssumption DEF shared, gdbData, irqData
<1>1. ASSUME GdbLock PROVE IInv'
  <2> USE <1>1 DEF GdbLock, GdbStep, FirstLabel
  <2>1. TypeOK' BY DEF IInv, TypeOK, HandlerInv, GdbHolds, IrqHolds, AllCommands
  <2>2. LockInv' BY DEF IInv, TypeOK, LockInv, GdbHolds, IrqHolds, AllCommands
  <2>3. HandlerInv' BY DEF IInv, TypeOK, HandlerInv, GdbHolds, IrqHolds, AllCommands
  <2>4. TraceInv' BY Exclusion DEF IInv, TypeOK, TraceInv, LockInv, GdbHolds, IrqHolds, AllCommands
  <2>5. ProcessorInv'
    BY Exclusion DEF IInv, TypeOK, LockInv, HandlerInv, ProcessorInv, Written, GdbHolds, IrqHolds,
                     Processors, Zero, AllCommands
  <2> QED BY <2>1, <2>2, <2>3, <2>4, <2>5 DEF IInv
<1>2. ASSUME GdbDisable PROVE IInv'
  <2> USE <1>2 DEF GdbDisable, GdbStep, trace_disable
  <2>1. TypeOK' BY DEF IInv, TypeOK, GdbHolds, IrqHolds
  <2>2. LockInv' BY DEF IInv, TypeOK, LockInv, GdbHolds, IrqHolds
  <2>3. HandlerInv' BY DEF IInv, TypeOK, HandlerInv, GdbHolds, IrqHolds
  <2>4. TraceInv' BY Exclusion DEF IInv, TypeOK, TraceInv, LockInv, GdbHolds, IrqHolds
  <2>5. ProcessorInv'
    BY Exclusion DEF IInv, TypeOK, LockInv, HandlerInv, ProcessorInv, Written, GdbHolds, IrqHolds,
                     Processors, Zero
  <2> QED BY <2>1, <2>2, <2>3, <2>4, <2>5 DEF IInv
<1>3. ASSUME GdbEnable PROVE IInv'
  <2> USE <1>3 DEF GdbEnable, GdbStep, trace_enable
  <2>1. TypeOK' BY DEF IInv, TypeOK, GdbHolds, IrqHolds
  <2>2. LockInv' BY DEF IInv, TypeOK, LockInv, GdbHolds, IrqHolds
  <2>3. HandlerInv' BY DEF IInv, TypeOK, HandlerInv, GdbHolds, IrqHolds
  <2>4. TraceInv' BY Exclusion DEF IInv, TypeOK, TraceInv, LockInv, GdbHolds, IrqHolds
  <2>5. ProcessorInv'
    BY Exclusion DEF IInv, TypeOK, LockInv, HandlerInv, ProcessorInv, Written, GdbHolds, IrqHolds,
                     Processors, Zero
  <2> QED BY <2>1, <2>2, <2>3, <2>4, <2>5 DEF IInv
<1>4. ASSUME GdbReadPc PROVE IInv'
  <2> USE <1>4 DEF GdbReadPc, GdbStep
  <2>1. TypeOK' BY DEF IInv, TypeOK, HandlerInv, GdbHolds, IrqHolds, Processors, Values
  <2>2. LockInv' BY DEF IInv, TypeOK, LockInv, GdbHolds, IrqHolds
  <2>3. HandlerInv' BY DEF IInv, TypeOK, HandlerInv, GdbHolds, IrqHolds
  <2>4. TraceInv' BY Exclusion DEF IInv, TypeOK, TraceInv, LockInv, GdbHolds, IrqHolds
  <2>5. ProcessorInv'
    BY Exclusion DEF IInv, TypeOK, LockInv, HandlerInv, ProcessorInv, Written, GdbHolds, IrqHolds,
                     Processors, Zero
  <2> QED BY <2>1, <2>2, <2>3, <2>4, <2>5 DEF IInv
<1>5. ASSUME GdbReadCpsr PROVE IInv'
  <2> USE <1>5 DEF GdbReadCpsr, GdbStep
  <2>1. TypeOK' BY DEF IInv, TypeOK, HandlerInv, GdbHolds, IrqHolds, Processors, Values
  <2>2. LockInv' BY DEF IInv, TypeOK, LockInv, GdbHolds, IrqHolds
  <2>3. HandlerInv' BY DEF IInv, TypeOK, HandlerInv, GdbHolds, IrqHolds
  <2>4. TraceInv' BY Exclusion DEF IInv, TypeOK, TraceInv, LockInv, GdbHolds, IrqHolds
  <2>5. ProcessorInv'
    BY Exclusion DEF IInv, TypeOK, LockInv, HandlerInv, ProcessorInv, Written, GdbHolds, IrqHolds,
                     Processors, Zero
  <2> QED BY <2>1, <2>2, <2>3, <2>4, <2>5 DEF IInv
<1>6. ASSUME GdbWritePc PROVE IInv'
  <2> USE <1>6 DEF GdbWritePc, GdbStep
  <2>1. TypeOK' BY DEF IInv, TypeOK, HandlerInv, GdbHolds, IrqHolds, Processors, Values
  <2>2. LockInv' BY DEF IInv, TypeOK, LockInv, GdbHolds, IrqHolds
  <2>3. HandlerInv' BY DEF IInv, TypeOK, HandlerInv, GdbHolds, IrqHolds
  <2>4. TraceInv' BY Exclusion DEF IInv, TypeOK, TraceInv, LockInv, GdbHolds, IrqHolds
  <2>5. ProcessorInv'
    BY Exclusion DEF IInv, TypeOK, LockInv, HandlerInv, ProcessorInv, Written, GdbHolds, IrqHolds,
                     Processors, Zero
  <2> QED BY <2>1, <2>2, <2>3, <2>4, <2>5 DEF IInv
<1>7. ASSUME GdbWriteCpsr PROVE IInv'
  <2> USE <1>7 DEF GdbWriteCpsr, GdbStep
  <2>1. TypeOK' BY DEF IInv, TypeOK, HandlerInv, GdbHolds, IrqHolds, Processors, Values
  <2>2. LockInv' BY DEF IInv, TypeOK, LockInv, GdbHolds, IrqHolds
  <2>3. HandlerInv' BY DEF IInv, TypeOK, HandlerInv, GdbHolds, IrqHolds
  <2>4. TraceInv' BY Exclusion DEF IInv, TypeOK, TraceInv, LockInv, GdbHolds, IrqHolds
  <2>6. arm' = content
    BY DEF IInv, TypeOK, LockInv, HandlerInv, ProcessorInv, Written, GdbHolds, Processors, Zero
  <2>5. ProcessorInv'
    BY <2>6, Exclusion DEF IInv, TypeOK, LockInv, HandlerInv, ProcessorInv, Written, GdbHolds, IrqHolds,
                     Processors, Zero
  <2> QED BY <2>1, <2>2, <2>3, <2>4, <2>5 DEF IInv
<1>8. ASSUME StepFetch PROVE IInv'
  <2> USE <1>8 DEF StepFetch, GdbStep, trace_start_location
  <2>0. enabled = 1 /\ depth = 0 /\ depth' = 1
    BY GdbTrace DEF GdbHolds
  <2>1. TypeOK' BY <2>0 DEF IInv, TypeOK, GdbHolds, IrqHolds
  <2>2. LockInv' BY DEF IInv, TypeOK, LockInv, GdbHolds, IrqHolds
  <2>3. HandlerInv' BY DEF IInv, TypeOK, HandlerInv, GdbHolds, IrqHolds
  <2>4. TraceInv' BY <2>0, Exclusion DEF IInv, TypeOK, TraceInv, LockInv, GdbHolds, IrqHolds
  <2>5. ProcessorInv'
    BY Exclusion DEF IInv, TypeOK, LockInv, HandlerInv, ProcessorInv, Written, GdbHolds, IrqHolds,
                     Processors, Zero
  <2> QED BY <2>1, <2>2, <2>3, <2>4, <2>5 DEF IInv
<1>9. ASSUME StepExecute PROVE IInv'
  <2> USE <1>9 DEF StepExecute, GdbStep, trace_start_location
  <2>0. enabled = 1 /\ depth = 0 /\ depth' = 1
    BY GdbTrace DEF GdbHolds
  <2>1. TypeOK' BY <2>0 DEF IInv, TypeOK, GdbHolds, IrqHolds
  <2>2. LockInv' BY DEF IInv, TypeOK, LockInv, GdbHolds, IrqHolds
  <2>3. HandlerInv' BY DEF IInv, TypeOK, HandlerInv, GdbHolds, IrqHolds
  <2>4. TraceInv' BY <2>0, Exclusion DEF IInv, TypeOK, TraceInv, LockInv, GdbHolds, IrqHolds
  <2>5. ProcessorInv'
    BY Exclusion DEF IInv, TypeOK, LockInv, HandlerInv, ProcessorInv, Written, GdbHolds, IrqHolds,
                     Processors, Zero
  <2> QED BY <2>1, <2>2, <2>3, <2>4, <2>5 DEF IInv
<1>10. ASSUME StepExit PROVE IInv'
  <2> USE <1>10 DEF StepExit, GdbStep
  <2>0. alive' \in BOOLEAN /\ running' \in BOOLEAN BY DEF IInv, TypeOK
  <2>1. TypeOK' BY <2>0 DEF IInv, TypeOK
  <2>2. LockInv' BY DEF IInv, TypeOK, LockInv, GdbHolds, IrqHolds
  <2>3. HandlerInv' BY DEF IInv, TypeOK, HandlerInv, GdbHolds, IrqHolds
  <2>4. TraceInv' BY Exclusion DEF IInv, TypeOK, TraceInv, LockInv, GdbHolds, IrqHolds
  <2>5. ProcessorInv'
    BY Exclusion DEF IInv, TypeOK, LockInv, HandlerInv, ProcessorInv, Written, GdbHolds, IrqHolds,
                     Processors, Zero
  <2> QED BY <2>1, <2>2, <2>3, <2>4, <2>5 DEF IInv
<1>11. ASSUME NEW v \in Values, StepFetched(v) PROVE IInv'
  <2> USE <1>11 DEF StepFetched, GdbStep, trace_end_location
  <2>0. enabled = 1 /\ depth = 1 /\ depth' = 0
    BY GdbTrace DEF GdbHolds
  <2>1. TypeOK' BY <2>0 DEF IInv, TypeOK, HandlerInv, GdbHolds, IrqHolds, Processors, Values
  <2>2. LockInv' BY DEF IInv, TypeOK, LockInv, GdbHolds, IrqHolds
  <2>3. HandlerInv' BY DEF IInv, TypeOK, HandlerInv, GdbHolds, IrqHolds
  <2>4. TraceInv' BY <2>0, Exclusion DEF IInv, TypeOK, TraceInv, LockInv, GdbHolds, IrqHolds
  <2>5. ProcessorInv'
    BY Exclusion DEF IInv, TypeOK, LockInv, HandlerInv, ProcessorInv, Written, GdbHolds, IrqHolds,
                     Processors, Zero
  <2> QED BY <2>1, <2>2, <2>3, <2>4, <2>5 DEF IInv
<1>12. ASSUME NEW v \in Values, StepExecuted(v) PROVE IInv'
  <2> USE <1>12 DEF StepExecuted, GdbStep, trace_end_location
  <2>0. enabled = 1 /\ depth = 1 /\ depth' = 0
    BY GdbTrace DEF GdbHolds
  <2>1. TypeOK' BY <2>0 DEF IInv, TypeOK, HandlerInv, GdbHolds, IrqHolds, Processors, Values
  <2>2. LockInv' BY DEF IInv, TypeOK, LockInv, GdbHolds, IrqHolds
  <2>3. HandlerInv' BY DEF IInv, TypeOK, HandlerInv, GdbHolds, IrqHolds
  <2>4. TraceInv' BY <2>0, Exclusion DEF IInv, TypeOK, TraceInv, LockInv, GdbHolds, IrqHolds
  <2>5. ProcessorInv'
    BY Exclusion DEF IInv, TypeOK, LockInv, HandlerInv, ProcessorInv, Written, GdbHolds, IrqHolds,
                     Processors, Zero
  <2> QED BY <2>1, <2>2, <2>3, <2>4, <2>5 DEF IInv
<1>13. ASSUME Breakpoint PROVE IInv'
  <2> USE <1>13 DEF Breakpoint, GdbStep
  <2>1. TypeOK' BY DEF IInv, TypeOK, GdbHolds, IrqHolds
  <2>2. LockInv' BY DEF IInv, TypeOK, LockInv, GdbHolds, IrqHolds
  <2>3. HandlerInv' BY DEF IInv, TypeOK, HandlerInv, GdbHolds, IrqHolds
  <2>4. TraceInv' BY Exclusion DEF IInv, TypeOK, TraceInv, LockInv, GdbHolds, IrqHolds
  <2>5. ProcessorInv'
    BY Exclusion DEF IInv, TypeOK, LockInv, HandlerInv, ProcessorInv, Written, GdbHolds, IrqHolds,
                     Processors, Zero
  <2> QED BY <2>1, <2>2, <2>3, <2>4, <2>5 DEF IInv
<1>14. ASSUME NoBreakpoint PROVE IInv'
  <2> USE <1>14 DEF NoBreakpoint, GdbStep
  <2>1. TypeOK' BY DEF IInv, TypeOK, GdbHolds, IrqHolds
  <2>2. LockInv' BY DEF IInv, TypeOK, LockInv, GdbHolds, IrqHolds
  <2>3. HandlerInv' BY DEF IInv, TypeOK, HandlerInv, GdbHolds, IrqHolds
  <2>4. TraceInv' BY Exclusion DEF IInv, TypeOK, TraceInv, LockInv, GdbHolds, IrqHolds
  <2>5. ProcessorInv'
    BY Exclusion DEF IInv, TypeOK, LockInv, HandlerInv, ProcessorInv, Written, GdbHolds, IrqHolds,
                     Processors, Zero
  <2> QED BY <2>1, <2>2, <2>3, <2>4, <2>5 DEF IInv
<1>15. ASSUME GdbAnswer PROVE IInv'
  <2> USE <1>15 DEF GdbAnswer, GdbStep
  <2>1. TypeOK' BY DEF IInv, TypeOK, GdbHolds, IrqHolds
  <2>2. LockInv' BY DEF IInv, TypeOK, LockInv, GdbHolds, IrqHolds
  <2>3. HandlerInv' BY DEF IInv, TypeOK, HandlerInv, GdbHolds, IrqHolds
  <2>4. TraceInv' BY Exclusion DEF IInv, TypeOK, TraceInv, LockInv, GdbHolds, IrqHolds
  <2>5. ProcessorInv'
    BY Exclusion DEF IInv, TypeOK, LockInv, HandlerInv, ProcessorInv, Written, GdbHolds, IrqHolds,
                     Processors, Zero
  <2> QED BY <2>1, <2>2, <2>3, <2>4, <2>5 DEF IInv
<1>16. ASSUME GdbUnlock PROVE IInv'
  <2> USE <1>16 DEF GdbUnlock, GdbStep
  <2>1. TypeOK' BY DEF IInv, TypeOK, GdbHolds, IrqHolds
  <2>2. LockInv' BY DEF IInv, TypeOK, LockInv, GdbHolds, IrqHolds
  <2>3. HandlerInv' BY DEF IInv, TypeOK, HandlerInv, GdbHolds, IrqHolds
  <2>4. TraceInv' BY Exclusion DEF IInv, TypeOK, TraceInv, LockInv, GdbHolds, IrqHolds
  <2>5. ProcessorInv'
    BY Exclusion DEF IInv, TypeOK, LockInv, HandlerInv, ProcessorInv, Written, GdbHolds, IrqHolds,
                     Processors, Zero
  <2> QED BY <2>1, <2>2, <2>3, <2>4, <2>5 DEF IInv
<1>17. ASSUME GdbExit PROVE IInv'
  <2> USE <1>17 DEF GdbExit, GdbStep
  <2>1. TypeOK' BY DEF IInv, TypeOK, GdbHolds, IrqHolds
  <2>2. LockInv' BY DEF IInv, TypeOK, LockInv, GdbHolds, IrqHolds
  <2>3. HandlerInv' BY DEF IInv, TypeOK, HandlerInv, GdbHolds, IrqHolds
  <2>4. TraceInv' BY Exclusion DEF IInv, TypeOK, TraceInv, LockInv, GdbHolds, IrqHolds
  <2>5. ProcessorInv'
    BY Exclusion DEF IInv, TypeOK, LockInv, HandlerInv, ProcessorInv, Written, GdbHolds, IrqHolds,
                     Processors, Zero
  <2> QED BY <2>1, <2>2, <2>3, <2>4, <2>5 DEF IInv
<1> QED BY <1>1, <1>2, <1>3, <1>4, <1>5, <1>6, <1>7, <1>8, <1>9, <1>10, <1>11, <1>12, <1>13, <1>14, <1>15, <1>16, <1>17 DEF GdbThread

\* So does what the debugger and send_irq do.
LEMMA EnvironmentKeeps == IInv /\ Environment => IInv'
<1> SUFFICES ASSUME IInv, Environment PROVE IInv'
    OBVIOUS
<1> USE SimulatorAssumption DEF shared, gdbData, irqData
<1>1. ASSUME GdbAccept PROVE IInv'
  <2> USE <1>1 DEF GdbAccept, GdbStep
  <2>1. TypeOK' BY DEF IInv, TypeOK, GdbHolds, IrqHolds
  <2>2. LockInv' BY DEF IInv, TypeOK, LockInv, GdbHolds, IrqHolds
  <2>3. HandlerInv' BY DEF IInv, TypeOK, HandlerInv, GdbHolds, IrqHolds
  <2>4. TraceInv' BY Exclusion DEF IInv, TypeOK, TraceInv, LockInv, GdbHolds, IrqHolds
  <2>5. ProcessorInv'
    BY Exclusion DEF IInv, TypeOK, LockInv, HandlerInv, ProcessorInv, Written, GdbHolds, IrqHolds,
                     Processors, Zero
  <2> QED BY <2>1, <2>2, <2>3, <2>4, <2>5 DEF IInv
<1>2. ASSUME GdbEof PROVE IInv'
  <2> USE <1>2 DEF GdbEof, GdbStep
  <2>1. TypeOK' BY DEF IInv, TypeOK, GdbHolds, IrqHolds
  <2>2. LockInv' BY DEF IInv, TypeOK, LockInv, GdbHolds, IrqHolds
  <2>3. HandlerInv' BY DEF IInv, TypeOK, HandlerInv, GdbHolds, IrqHolds
  <2>4. TraceInv' BY Exclusion DEF IInv, TypeOK, TraceInv, LockInv, GdbHolds, IrqHolds
  <2>5. ProcessorInv'
    BY Exclusion DEF IInv, TypeOK, LockInv, HandlerInv, ProcessorInv, Written, GdbHolds, IrqHolds,
                     Processors, Zero
  <2> QED BY <2>1, <2>2, <2>3, <2>4, <2>5 DEF IInv
<1>3. ASSUME NEW c \in Commands, NEW r \in Processors, ReceivePacket(c, r) PROVE IInv'
  <2> USE <1>3 DEF ReceivePacket, GdbStep
  <2>1. TypeOK' BY DEF IInv, TypeOK, HandlerInv, GdbHolds, IrqHolds, AllCommands
  <2>2. LockInv' BY DEF IInv, TypeOK, LockInv, GdbHolds, IrqHolds, AllCommands
  <2>3. HandlerInv' BY DEF IInv, TypeOK, HandlerInv, GdbHolds, IrqHolds, AllCommands
  <2>4. TraceInv' BY Exclusion DEF IInv, TypeOK, TraceInv, LockInv, GdbHolds, IrqHolds, AllCommands
  <2>5. ProcessorInv'
    BY Exclusion DEF IInv, TypeOK, LockInv, HandlerInv, ProcessorInv, Written, GdbHolds, IrqHolds,
                     Processors, Zero, AllCommands
  <2> QED BY <2>1, <2>2, <2>3, <2>4, <2>5 DEF IInv
<1>4. ASSUME IrqAccept PROVE IInv'
  <2> USE <1>4 DEF IrqAccept, IrqStep
  <2>1. TypeOK' BY DEF IInv, TypeOK, GdbHolds, IrqHolds
  <2>2. LockInv' BY DEF IInv, TypeOK, LockInv, GdbHolds, IrqHolds
  <2>3. HandlerInv' BY DEF IInv, TypeOK, HandlerInv, GdbHolds, IrqHolds
  <2>4. TraceInv' BY Exclusion DEF IInv, TypeOK, TraceInv, LockInv, GdbHolds, IrqHolds
  <2>5. ProcessorInv'
    BY Exclusion DEF IInv, TypeOK, LockInv, HandlerInv, ProcessorInv, Written, GdbHolds, IrqHolds,
                     Processors, Zero
  <2> QED BY <2>1, <2>2, <2>3, <2>4, <2>5 DEF IInv
<1>5. ASSUME IrqAcceptFails PROVE IInv'
  <2> USE <1>5 DEF IrqAcceptFails, IrqStep
  <2>0. alive' \in BOOLEAN /\ running' \in BOOLEAN BY DEF IInv, TypeOK
  <2>1. TypeOK' BY <2>0 DEF IInv, TypeOK
  <2>2. LockInv' BY DEF IInv, TypeOK, LockInv, GdbHolds, IrqHolds
  <2>3. HandlerInv' BY DEF IInv, TypeOK, HandlerInv, GdbHolds, IrqHolds
  <2>4. TraceInv' BY Exclusion DEF IInv, TypeOK, TraceInv, LockInv, GdbHolds, IrqHolds
  <2>5. ProcessorInv'
    BY Exclusion DEF IInv, TypeOK, LockInv, HandlerInv, ProcessorInv, Written, GdbHolds, IrqHolds,
                     Processors, Zero
  <2> QED BY <2>1, <2>2, <2>3, <2>4, <2>5 DEF IInv
<1>6. ASSUME IrqEof PROVE IInv'
  <2> USE <1>6 DEF IrqEof, IrqStep
  <2>1. TypeOK' BY DEF IInv, TypeOK, GdbHolds, IrqHolds
  <2>2. LockInv' BY DEF IInv, TypeOK, LockInv, GdbHolds, IrqHolds
  <2>3. HandlerInv' BY DEF IInv, TypeOK, HandlerInv, GdbHolds, IrqHolds
  <2>4. TraceInv' BY Exclusion DEF IInv, TypeOK, TraceInv, LockInv, GdbHolds, IrqHolds
  <2>5. ProcessorInv'
    BY Exclusion DEF IInv, TypeOK, LockInv, HandlerInv, ProcessorInv, Written, GdbHolds, IrqHolds,
                     Processors, Zero
  <2> QED BY <2>1, <2>2, <2>3, <2>4, <2>5 DEF IInv
<1>7. ASSUME NEW b \in Bytes, IrqRead(b) PROVE IInv'
  <2> USE <1>7 DEF IrqRead, IrqStep
  <2>1. TypeOK' BY DEF IInv, TypeOK, GdbHolds, IrqHolds
  <2>2. LockInv' BY DEF IInv, TypeOK, LockInv, GdbHolds, IrqHolds
  <2>3. HandlerInv' BY DEF IInv, TypeOK, HandlerInv, GdbHolds, IrqHolds
  <2>4. TraceInv' BY Exclusion DEF IInv, TypeOK, TraceInv, LockInv, GdbHolds, IrqHolds
  <2>5. ProcessorInv'
    BY Exclusion DEF IInv, TypeOK, LockInv, HandlerInv, ProcessorInv, Written, GdbHolds, IrqHolds,
                     Processors, Zero
  <2> QED BY <2>1, <2>2, <2>3, <2>4, <2>5 DEF IInv
<1>8. ASSUME GdbWriteFails PROVE IInv'
  <2> USE <1>8 DEF GdbWriteFails, GdbStep
  <2>0. alive' \in BOOLEAN /\ running' \in BOOLEAN BY DEF IInv, TypeOK
  <2>1. TypeOK' BY <2>0 DEF IInv, TypeOK
  <2>2. LockInv' BY DEF IInv, TypeOK, LockInv, GdbHolds, IrqHolds
  <2>3. HandlerInv' BY DEF IInv, TypeOK, HandlerInv, GdbHolds, IrqHolds
  <2>4. TraceInv' BY Exclusion DEF IInv, TypeOK, TraceInv, LockInv, GdbHolds, IrqHolds
  <2>5. ProcessorInv'
    BY Exclusion DEF IInv, TypeOK, LockInv, HandlerInv, ProcessorInv, Written, GdbHolds, IrqHolds,
                     Processors, Zero
  <2> QED BY <2>1, <2>2, <2>3, <2>4, <2>5 DEF IInv
<1>9. ASSUME IrqReadFails PROVE IInv'
  <2> USE <1>9 DEF IrqReadFails, IrqStep
  <2>0. alive' \in BOOLEAN /\ running' \in BOOLEAN BY DEF IInv, TypeOK
  <2>1. TypeOK' BY <2>0 DEF IInv, TypeOK
  <2>2. LockInv' BY DEF IInv, TypeOK, LockInv, GdbHolds, IrqHolds
  <2>3. HandlerInv' BY DEF IInv, TypeOK, HandlerInv, GdbHolds, IrqHolds
  <2>4. TraceInv' BY Exclusion DEF IInv, TypeOK, TraceInv, LockInv, GdbHolds, IrqHolds
  <2>5. ProcessorInv'
    BY Exclusion DEF IInv, TypeOK, LockInv, HandlerInv, ProcessorInv, Written, GdbHolds, IrqHolds,
                     Processors, Zero
  <2> QED BY <2>1, <2>2, <2>3, <2>4, <2>5 DEF IInv
<1> QED BY <1>1, <1>2, <1>3, <1>4, <1>5, <1>6, <1>7, <1>8, <1>9 DEF Environment

\* So does a step of the irq thread.
LEMMA IrqKeeps == IInv /\ IrqThread => IInv'
<1> SUFFICES ASSUME IInv, IrqThread PROVE IInv'
    OBVIOUS
<1> USE SimulatorAssumption DEF shared, gdbData, irqData
<1>1. ASSUME IrqLock PROVE IInv'
  <2> USE <1>1 DEF IrqLock, IrqStep
  <2>1. TypeOK' BY DEF IInv, TypeOK, GdbHolds, IrqHolds
  <2>2. LockInv' BY DEF IInv, TypeOK, LockInv, GdbHolds, IrqHolds
  <2>3. HandlerInv' BY DEF IInv, TypeOK, HandlerInv, GdbHolds, IrqHolds
  <2>4. TraceInv' BY Exclusion DEF IInv, TypeOK, TraceInv, LockInv, GdbHolds, IrqHolds
  <2>5. ProcessorInv'
    BY Exclusion DEF IInv, TypeOK, LockInv, HandlerInv, ProcessorInv, Written, GdbHolds, IrqHolds,
                     Processors, Zero
  <2> QED BY <2>1, <2>2, <2>3, <2>4, <2>5 DEF IInv
<1>2. ASSUME IrqCpsr PROVE IInv'
  <2> USE <1>2 DEF IrqCpsr, IrqStep, trace_start_location
  <2>0. enabled = 1 /\ depth = 0 /\ depth' = 1
    BY IrqTrace DEF IrqHolds
  <2>1. TypeOK' BY <2>0 DEF IInv, TypeOK, GdbHolds, IrqHolds
  <2>2. LockInv' BY DEF IInv, TypeOK, LockInv, GdbHolds, IrqHolds
  <2>3. HandlerInv' BY DEF IInv, TypeOK, HandlerInv, GdbHolds, IrqHolds
  <2>4. TraceInv' BY <2>0, Exclusion DEF IInv, TypeOK, TraceInv, LockInv, GdbHolds, IrqHolds
  <2>5. ProcessorInv'
    BY Exclusion DEF IInv, TypeOK, LockInv, HandlerInv, ProcessorInv, Written, GdbHolds, IrqHolds,
                     Processors, Zero
  <2> QED BY <2>1, <2>2, <2>3, <2>4, <2>5 DEF IInv
<1>3. ASSUME IrqWriteCpsr PROVE IInv'
  <2> USE <1>3 DEF IrqWriteCpsr, IrqStep, trace_end_location
  <2>0. enabled = 1 /\ depth = 1 /\ depth' = 0
    BY IrqTrace DEF IrqHolds
  <2>1. TypeOK' BY <2>0 DEF IInv, TypeOK, HandlerInv, GdbHolds, IrqHolds, Processors, Values
  <2>2. LockInv' BY DEF IInv, TypeOK, LockInv, GdbHolds, IrqHolds
  <2>3. HandlerInv' BY DEF IInv, TypeOK, HandlerInv, GdbHolds, IrqHolds
  <2>4. TraceInv' BY <2>0, Exclusion DEF IInv, TypeOK, TraceInv, LockInv, GdbHolds, IrqHolds
  <2>5. ProcessorInv'
    BY Exclusion DEF IInv, TypeOK, LockInv, HandlerInv, ProcessorInv, Written, GdbHolds, IrqHolds,
                     Processors, Zero
  <2> QED BY <2>1, <2>2, <2>3, <2>4, <2>5 DEF IInv
<1>4. ASSUME IrqPc PROVE IInv'
  <2> USE <1>4 DEF IrqPc, IrqStep, trace_start_location
  <2>0. enabled = 1 /\ depth = 0 /\ depth' = 1
    BY IrqTrace DEF IrqHolds
  <2>1. TypeOK' BY <2>0 DEF IInv, TypeOK, GdbHolds, IrqHolds
  <2>2. LockInv' BY DEF IInv, TypeOK, LockInv, GdbHolds, IrqHolds
  <2>3. HandlerInv' BY DEF IInv, TypeOK, HandlerInv, GdbHolds, IrqHolds
  <2>4. TraceInv' BY <2>0, Exclusion DEF IInv, TypeOK, TraceInv, LockInv, GdbHolds, IrqHolds
  <2>5. ProcessorInv'
    BY Exclusion DEF IInv, TypeOK, LockInv, HandlerInv, ProcessorInv, Written, GdbHolds, IrqHolds,
                     Processors, Zero
  <2> QED BY <2>1, <2>2, <2>3, <2>4, <2>5 DEF IInv
<1>5. ASSUME IrqWritePc PROVE IInv'
  <2> USE <1>5 DEF IrqWritePc, IrqStep, trace_end_location
  <2>0. enabled = 1 /\ depth = 1 /\ depth' = 0
    BY IrqTrace DEF IrqHolds
  <2>1. TypeOK' BY <2>0 DEF IInv, TypeOK, HandlerInv, GdbHolds, IrqHolds, Processors, Values
  <2>2. LockInv' BY DEF IInv, TypeOK, LockInv, GdbHolds, IrqHolds
  <2>3. HandlerInv' BY DEF IInv, TypeOK, HandlerInv, GdbHolds, IrqHolds
  <2>4. TraceInv' BY <2>0, Exclusion DEF IInv, TypeOK, TraceInv, LockInv, GdbHolds, IrqHolds
  <2>6. arm' = Zero
    BY DEF IInv, TypeOK, LockInv, HandlerInv, ProcessorInv, Written, IrqHolds, Processors, Zero
  <2>5. ProcessorInv'
    BY <2>6, Exclusion DEF IInv, TypeOK, LockInv, HandlerInv, ProcessorInv, Written, GdbHolds, IrqHolds,
                     Processors, Zero
  <2> QED BY <2>1, <2>2, <2>3, <2>4, <2>5 DEF IInv
<1>6. ASSUME IrqUnlock PROVE IInv'
  <2> USE <1>6 DEF IrqUnlock, IrqStep
  <2>1. TypeOK' BY DEF IInv, TypeOK, GdbHolds, IrqHolds
  <2>2. LockInv' BY DEF IInv, TypeOK, LockInv, GdbHolds, IrqHolds
  <2>3. HandlerInv' BY DEF IInv, TypeOK, HandlerInv, GdbHolds, IrqHolds
  <2>4. TraceInv' BY Exclusion DEF IInv, TypeOK, TraceInv, LockInv, GdbHolds, IrqHolds
  <2>5. ProcessorInv'
    BY Exclusion DEF IInv, TypeOK, LockInv, HandlerInv, ProcessorInv, Written, GdbHolds, IrqHolds,
                     Processors, Zero
  <2> QED BY <2>1, <2>2, <2>3, <2>4, <2>5 DEF IInv
<1>7. ASSUME IrqCrash PROVE IInv'
  <2> USE <1>7 DEF IrqCrash, IrqStep
  <2>0. alive' \in BOOLEAN /\ running' \in BOOLEAN BY DEF IInv, TypeOK
  <2>1. TypeOK' BY <2>0 DEF IInv, TypeOK
  <2>2. LockInv' BY DEF IInv, TypeOK, LockInv, GdbHolds, IrqHolds
  <2>3. HandlerInv' BY DEF IInv, TypeOK, HandlerInv, GdbHolds, IrqHolds
  <2>4. TraceInv' BY Exclusion DEF IInv, TypeOK, TraceInv, LockInv, GdbHolds, IrqHolds
  <2>5. ProcessorInv'
    BY Exclusion DEF IInv, TypeOK, LockInv, HandlerInv, ProcessorInv, Written, GdbHolds, IrqHolds,
                     Processors, Zero
  <2> QED BY <2>1, <2>2, <2>3, <2>4, <2>5 DEF IInv
<1> QED BY <1>1, <1>2, <1>3, <1>4, <1>5, <1>6, <1>7 DEF IrqThread

\* So does a step of the main thread.
LEMMA MainKeeps == IInv /\ MainThread => IInv'
<1> SUFFICES ASSUME IInv, MainThread PROVE IInv'
    OBVIOUS
<1> USE SimulatorAssumption DEF shared, gdbData, irqData
<1>1. ASSUME Join PROVE IInv'
  <2> USE <1>1 DEF Join, MainStep
  <2>1. TypeOK' BY DEF IInv, TypeOK, GdbHolds, IrqHolds
  <2>2. LockInv' BY DEF IInv, TypeOK, LockInv, GdbHolds, IrqHolds
  <2>3. HandlerInv' BY DEF IInv, TypeOK, HandlerInv, GdbHolds, IrqHolds
  <2>4. TraceInv' BY Exclusion DEF IInv, TypeOK, TraceInv, LockInv, GdbHolds, IrqHolds
  <2>5. ProcessorInv'
    BY Exclusion DEF IInv, TypeOK, LockInv, HandlerInv, ProcessorInv, Written, GdbHolds, IrqHolds,
                     Processors, Zero
  <2> QED BY <2>1, <2>2, <2>3, <2>4, <2>5 DEF IInv
<1>2. ASSUME Destroy PROVE IInv'
  <2> USE <1>2 DEF Destroy, MainStep
  <2>0. alive' \in BOOLEAN /\ running' \in BOOLEAN BY DEF IInv, TypeOK
  <2>1. TypeOK' BY <2>0 DEF IInv, TypeOK
  <2>2. LockInv' BY DEF IInv, TypeOK, LockInv, GdbHolds, IrqHolds
  <2>3. HandlerInv' BY DEF IInv, TypeOK, HandlerInv, GdbHolds, IrqHolds
  <2>4. TraceInv' BY Exclusion DEF IInv, TypeOK, TraceInv, LockInv, GdbHolds, IrqHolds
  <2>5. ProcessorInv'
    BY Exclusion DEF IInv, TypeOK, LockInv, HandlerInv, ProcessorInv, Written, GdbHolds, IrqHolds,
                     Processors, Zero
  <2> QED BY <2>1, <2>2, <2>3, <2>4, <2>5 DEF IInv
<1>3. ASSUME ReturnFromMain PROVE IInv'
  <2> USE <1>3 DEF ReturnFromMain, MainStep
  <2>0. alive' \in BOOLEAN /\ running' \in BOOLEAN BY DEF IInv, TypeOK
  <2>1. TypeOK' BY <2>0 DEF IInv, TypeOK
  <2>2. LockInv' BY DEF IInv, TypeOK, LockInv, GdbHolds, IrqHolds
  <2>3. HandlerInv' BY DEF IInv, TypeOK, HandlerInv, GdbHolds, IrqHolds
  <2>4. TraceInv' BY Exclusion DEF IInv, TypeOK, TraceInv, LockInv, GdbHolds, IrqHolds
  <2>5. ProcessorInv'
    BY Exclusion DEF IInv, TypeOK, LockInv, HandlerInv, ProcessorInv, Written, GdbHolds, IrqHolds,
                     Processors, Zero
  <2> QED BY <2>1, <2>2, <2>3, <2>4, <2>5 DEF IInv
<1> QED BY <1>1, <1>2, <1>3 DEF MainThread

-----------------------------------------------------------------------------
LEMMA InitInv == Init => IInv
  BY SimulatorAssumption
     DEF Init, IInv, TypeOK, LockInv, HandlerInv, TraceInv, ProcessorInv, GdbHolds, IrqHolds,
         Processors, Values, Zero, Bytes, AllCommands

LEMMA NextInv == IInv /\ [Next]_vars => IInv'
<1> SUFFICES ASSUME IInv, [Next]_vars PROVE IInv'
    OBVIOUS
<1>1. CASE UNCHANGED vars
  <2> USE <1>1 DEF vars, IInv
  <2>1. TypeOK' BY DEF TypeOK
  <2>2. LockInv' BY DEF LockInv
  <2>3. HandlerInv' BY DEF HandlerInv
  <2>4. TraceInv' BY DEF TraceInv
  <2>5. ProcessorInv' BY DEF ProcessorInv, Written
  <2> QED BY <2>1, <2>2, <2>3, <2>4, <2>5
<1>2. CASE Ended
    BY <1>1, <1>2 DEF Ended
<1> QED BY <1>1, <1>2, GdbKeeps, EnvironmentKeeps, IrqKeeps, MainKeeps DEF Next

(* The inductive invariant holds: each thread holds the lock where its     *)
(* code says, and the processor under the lock is what the owner has made  *)
(* of the one it found (arm_simulator.c, gdb_protocol.c, trace.c).         *)
THEOREM SimulatorInvariant == Spec => []IInv
  BY InitInv, NextInv, PTL DEF Spec

(* Threads, lock and data keep their types; in particular at most one      *)
(* location is ever on the stack of 128 of trace.c.                        *)
THEOREM SimulatorTypeCorrect == Spec => []TypeOK
<1>1. IInv => TypeOK
    BY DEF IInv
<1> QED BY <1>1, SimulatorInvariant, PTL

(* Tracing is enabled and the location stack empty whenever shared.lock is *)
(* free, for every sequence of packets and exceptions.                     *)
THEOREM TraceIsRestored == Spec => []TraceRestored
<1>1. IInv => TraceRestored
  <2> SUFFICES ASSUME IInv, lock = "free" PROVE enabled = 1 /\ depth = 0
      BY DEF TraceRestored
  <2>1. gdb \notin {"first", "second", "enable", "fetched", "executed"}
      BY DEF IInv, LockInv, GdbHolds
  <2>2. irq \notin {"wcpsr", "wpc"}
      BY DEF IInv, LockInv, IrqHolds
  <2> QED BY <2>1, <2>2 DEF IInv, TraceInv
<1> QED BY <1>1, SimulatorInvariant, PTL

-----------------------------------------------------------------------------
\* Steps in which the clients see nothing happen.
Invisible == UNCHANGED <<stable, command, content, sent>> /\ (Pending' <=> Pending)

LEMMA Stutter == Invisible => UNCHANGED Atomic!vars
  BY DEF Invisible, Pending, Atomic!vars

LEMMA GdbRefines == IInv /\ GdbThread => [Atomic!Next]_(Atomic!vars)
<1> SUFFICES ASSUME IInv, GdbThread PROVE Atomic!Next \/ UNCHANGED Atomic!vars
    OBVIOUS
<1> USE DEF shared, gdbData
<1>1. ASSUME GdbLock \/ GdbDisable \/ GdbEnable \/ GdbReadPc \/ GdbReadCpsr
      PROVE Invisible
    BY <1>1 DEF GdbLock, FirstLabel, GdbDisable, GdbEnable, GdbReadPc, GdbReadCpsr, GdbStep,
                Invisible, Pending, GdbHolds, IInv, TypeOK, AllCommands
<1>2. ASSUME GdbWritePc \/ GdbWriteCpsr \/ StepFetch \/ StepExecute \/ StepExit
      PROVE Invisible
    BY <1>2 DEF GdbWritePc, GdbWriteCpsr, StepFetch, StepExecute, StepExit, GdbStep,
                Invisible, Pending, GdbHolds
<1>3. ASSUME NEW v \in Values, StepFetched(v) \/ StepExecuted(v) PROVE Invisible
    BY <1>3 DEF StepFetched, StepExecuted, GdbStep, Invisible, Pending, GdbHolds
<1>4. ASSUME Breakpoint \/ NoBreakpoint \/ GdbExit PROVE Invisible
    BY <1>4 DEF Breakpoint, NoBreakpoint, GdbExit, GdbStep, Invisible, Pending, GdbHolds
<1>5. ASSUME GdbAnswer, command # "g" PROVE Invisible
    BY <1>5 DEF GdbAnswer, GdbStep, Invisible, Pending, GdbHolds
<1>6. ASSUME GdbAnswer, command = "g" PROVE Atomic!Answer
  <2>1. local = stable
      BY <1>6 DEF GdbAnswer, GdbStep, IInv, LockInv, ProcessorInv, GdbHolds
  <2>2. Pending /\ (Pending' <=> Pending)
      BY <1>6 DEF GdbAnswer, GdbStep, Pending, GdbHolds
  <2> QED BY <1>6, <2>1, <2>2 DEF GdbAnswer, Atomic!Answer
<1>7. ASSUME GdbUnlock PROVE Atomic!Execute
  <2>1. Pending /\ ~ Pending'
      BY <1>7 DEF GdbUnlock, GdbStep, Pending, GdbHolds
  <2>2. lock = "gdb" /\ gdb = "unlock" /\ command \in AllCommands
      BY <1>7 DEF GdbUnlock, GdbStep, IInv, TypeOK, LockInv, GdbHolds
  <2>3. Atomic!Effect
      BY <1>7, <2>2 DEF GdbUnlock, IInv, TypeOK, ProcessorInv, Written, AllCommands,
                        Atomic!Effect
  <2> QED BY <1>7, <2>1, <2>3 DEF GdbUnlock, Atomic!Execute
<1> QED BY <1>1, <1>2, <1>3, <1>4, <1>5, <1>6, <1>7, Stutter DEF GdbThread, Atomic!Next

LEMMA EnvironmentRefines == IInv /\ Environment => [Atomic!Next]_(Atomic!vars)
<1> SUFFICES ASSUME IInv, Environment PROVE Atomic!Next \/ UNCHANGED Atomic!vars
    OBVIOUS
<1> USE DEF shared, gdbData
<1>1. ASSUME GdbAccept \/ GdbEof \/ GdbWriteFails PROVE Invisible
    BY <1>1 DEF GdbAccept, GdbEof, GdbWriteFails, GdbStep, Invisible, Pending, GdbHolds
<1>2. ASSUME NEW c \in Commands, NEW r \in Processors, ReceivePacket(c, r)
      PROVE Atomic!Receive
    BY <1>2 DEF ReceivePacket, GdbStep, Pending, GdbHolds, Atomic!Receive
<1>3. ASSUME IrqAccept \/ IrqAcceptFails \/ IrqEof \/ IrqReadFails PROVE Invisible
    BY <1>3 DEF IrqAccept, IrqAcceptFails, IrqEof, IrqReadFails, IrqStep, Invisible, Pending
<1>4. ASSUME NEW b \in Bytes, IrqRead(b) PROVE Invisible
    BY <1>4 DEF IrqRead, IrqStep, Invisible, Pending
<1> QED BY <1>1, <1>2, <1>3, <1>4, Stutter DEF Environment, Atomic!Next

LEMMA IrqRefines == IInv /\ IrqThread => [Atomic!Next]_(Atomic!vars)
<1> SUFFICES ASSUME IInv, IrqThread PROVE Atomic!Next \/ UNCHANGED Atomic!vars
    OBVIOUS
<1> USE DEF shared, gdbData, IrqStep, Pending
<1>1. ASSUME IrqLock \/ IrqCpsr \/ IrqWriteCpsr \/ IrqPc \/ IrqWritePc \/ IrqCrash
      PROVE Invisible
    BY <1>1 DEF IrqLock, IrqCpsr, IrqWriteCpsr, IrqPc, IrqWritePc, IrqCrash, Invisible
<1>2. ASSUME IrqUnlock PROVE Invisible \/ Atomic!Reset
  <2>1. stable' = IF byte = "reset" THEN Zero ELSE stable
      BY <1>2 DEF IrqUnlock, IInv, LockInv, ProcessorInv, IrqHolds
  <2>2. UNCHANGED <<command, content, sent>> /\ (Pending' <=> Pending)
      BY <1>2 DEF IrqUnlock
  <2> QED BY <2>1, <2>2 DEF Invisible, Atomic!Reset
<1> QED BY <1>1, <1>2, Stutter DEF IrqThread, Atomic!Next

LEMMA MainRefines == IInv /\ MainThread => [Atomic!Next]_(Atomic!vars)
<1>1. MainThread => Invisible
    BY DEF MainThread, Join, Destroy, ReturnFromMain, MainStep, shared, gdbData, Invisible,
           Pending
<1> QED BY <1>1, Stutter

(* Every packet and every exception is atomic: the threads implement a     *)
(* processor on which g, G, P, s, c and RESET are single steps.            *)
THEOREM SimulatorAtomicity == Spec => ImplementsAtomic
<1>1. Init => Atomic!Init
    BY DEF Init, Pending, GdbHolds, Atomic!Init
<1>2. ASSUME IInv, [Next]_vars PROVE [Atomic!Next]_(Atomic!vars)
  <2>1. CASE UNCHANGED vars \/ Ended
    <3>1. Invisible
        BY <2>1 DEF Ended, vars, Invisible, Pending
    <3> QED BY <3>1, Stutter
  <2> QED BY <1>2, <2>1, GdbRefines, EnvironmentRefines, IrqRefines, MainRefines DEF Next
<1> QED BY <1>1, <1>2, SimulatorInvariant, PTL DEF Spec, ImplementsAtomic, Atomic!Spec
=============================================================================
