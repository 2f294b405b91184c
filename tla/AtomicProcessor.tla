-------------------------- MODULE AtomicProcessor --------------------------
(***************************************************************************)
(* What the threads of the simulator promise their clients: each packet    *)
(* and each RESET acts on all the registers it concerns in a single step.  *)
(***************************************************************************)
CONSTANTS Registers,   \* the states of the processor, with the fields pc and cpsr
          Zero         \* the one RESET gives

VARIABLES registers,
          command, content,   \* the packet received last and the registers it carries
          pending,            \* it has not been executed yet
          answer              \* the registers last answered to a g packet
vars == <<registers, command, content, pending, answer>>

Init == registers = Zero /\ answer = Zero /\ pending = FALSE

Receive == /\ ~ pending /\ pending' = TRUE
           /\ UNCHANGED <<registers, answer>>

Answer == /\ pending /\ command = "g"
          /\ answer' = registers
          /\ UNCHANGED <<registers, command, content, pending>>

\* The effect of a packet: only G, P and the two that run the program have one.
Effect == CASE command = "G" -> registers' = content
            [] command = "P" -> registers' = [registers EXCEPT !.pc = content.pc]
            [] command \in {"s", "c"} -> registers' \in Registers
            [] command \notin {"G", "P", "s", "c"} -> registers' = registers

Execute == /\ pending /\ pending' = FALSE
           /\ Effect
           /\ UNCHANGED <<command, content, answer>>

Reset == registers' = Zero /\ UNCHANGED <<command, content, pending, answer>>

Next == Receive \/ Answer \/ Execute \/ Reset

Spec == Init /\ [][Next]_vars
=============================================================================
