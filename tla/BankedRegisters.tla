-------------------------- MODULE BankedRegisters --------------------------
(***************************************************************************)
(* What a register file with banked registers promises, as the programs    *)
(* running in each mode see it: a write from one mode shows in exactly the *)
(* modes that share the register, and in no other register of any mode.    *)
(* Only User and System have no saved status register.                     *)
(***************************************************************************)
EXTENDS Integers

CONSTANT Word

VARIABLES mode,   \* the current mode, by its number in the status register
          view,   \* what each mode reads in each of its registers
          call,   \* the last call, with the mode whose register it names
          value, fault
vars == <<mode, view, call, value, fault>>

User == 16
Fast == 17
System == 31
Mode == {User, Fast, 18, 19, 23, 27, System}

\* User and System share everything; every other mode has a private stack
\* pointer, link register and saved status, and Fast Interrupt also r8-r12.
Private(m) == IF m \in {User, System} THEN {}
              ELSE {13, 14, 17} \cup (IF m = Fast THEN 8 .. 12 ELSE {})

HasSpsr(m) == 17 \in Private(m)
Has(m, i)  == i = 17 => HasSpsr(m)

\* Register i of mode m and register j of mode n are the same one.
Same(m, i, n, j) == i = j /\ (m = n \/ i \notin Private(m) \cup Private(n))

Visible(m) == {i \in 0 .. 17 : Has(m, i)}

Init == /\ mode = System
        /\ view = [m \in Mode |-> [i \in Visible(m) |-> 0]]
        /\ call = <<>>
        /\ value = 0
        /\ fault = FALSE

SetMode(m) == call' = <<"mode", m>> /\ mode' = m /\ UNCHANGED <<view, value, fault>>

\* Using a register that mode m does not have is an error.
Missing(m, i) == ~ Has(m, i) /\ fault' = TRUE /\ UNCHANGED <<mode, view, value>>

Read(m, i) == /\ Has(m, i)
              /\ UNCHANGED <<mode, fault>>
              /\ value' = view[m][i]
              /\ UNCHANGED view

Write(m, i, v) ==
    /\ Has(m, i)
    /\ UNCHANGED <<mode, value, fault>>
    /\ view' = [n \in Mode |-> [j \in Visible(n) |->
                    IF Same(m, i, n, j) THEN v ELSE view[n][j]]]

Ask(question, answer) ==
    /\ call' = <<question>>
    /\ value' = IF answer THEN 1 ELSE 0
    /\ UNCHANGED <<mode, view, fault>>

Access(m, i) ==
    \/ /\ call' = <<"read", m, i>>
       /\ Missing(m, i) \/ Read(m, i)
    \/ \E v \in Word : /\ call' = <<"write", m, i, v>>
                       /\ Missing(m, i) \/ Write(m, i, v)

Next == /\ ~fault
        /\ \/ \E m \in Mode : SetMode(m)
           \/ \E i \in 0 .. 17 : Access(mode, i) \/ Access(User, i)
           \/ Ask("has_spsr", HasSpsr(mode)) \/ Ask("privileged", mode # User)

Spec == Init /\ [][Next]_vars
=============================================================================
