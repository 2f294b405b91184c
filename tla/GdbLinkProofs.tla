--------------------------- MODULE GdbLinkProofs ---------------------------
(***************************************************************************)
(* The packet layer, for every buffer size from 2 on, every number of      *)
(* requests and every number of faults: the error buffer of scanner.l, the *)
(* types, and what the exchange promises as long as only checksums are     *)
(* damaged and the debugger is only impatient for answers.                 *)
(***************************************************************************)
EXTENDS GdbLink, SequenceTheorems, TLAPS

Bounded == len \in 0 .. MAX_ERROR_SIZE - 1

\* The scanner keeps the length inside the buffer: it is emptied by every token
\* but other characters, and by those before it would be full.
LEMMA ScanKeeps == Bounded /\ Scan => Bounded'
<1> SUFFICES ASSUME Bounded, Scan PROVE Bounded'
    OBVIOUS
<1> USE LinkAssumption DEF Bounded
<1>1. CASE ScanOther
  <2>1. CASE len > MAX_ERROR_SIZE - 2
      BY <1>1, <2>1 DEF ScanOther
  <2>2. CASE ~ (len > MAX_ERROR_SIZE - 2)
      BY <1>1, <2>2 DEF ScanOther
  <2> QED BY <2>1, <2>2
<1>2. ASSUME ScanPlus \/ ScanMinus \/ ScanWrongPacket \/ ScanPacket \/ ScanKill \/ ScanEof
      PROVE len' = 0
    BY <1>2 DEF ScanPlus, ScanMinus, ScanWrongPacket, ScanPacket, ScanKill, ScanEof
<1>3. CASE ScanNewline
    BY <1>3 DEF ScanNewline, simulatorVars
<1> QED BY <1>1, <1>2, <1>3 DEF Scan

\* Nobody else touches the buffer.
LEMMA OthersKeep == Debugger \/ Fault \/ Over => UNCHANGED len
<1>1. Debugger => UNCHANGED len
    BY DEF Debugger, SendRequest, Close, GetAck, GetRefusal, GetOldAnswer, GetAnswer,
           GetWrongAnswer, SkipAck, simulatorVars
<1>2. Fault => UNCHANGED len
    BY DEF Fault, Nudge, Retry, DamagePacket, DamageAnswer, MakeNoise, simulatorVars
<1>3. Over => UNCHANGED len
    BY DEF Over, vars, simulatorVars
<1> QED BY <1>1, <1>2, <1>3

(* add_character_to_error and handle_error never write outside the buffer, *)
(* whatever arrives and however long.                                      *)
THEOREM ErrorBufferSafe == Spec => []ErrorBufferBound
<1>1. Init => Bounded
    BY LinkAssumption DEF Init, Bounded
<1>2. Bounded /\ [Next]_vars => Bounded'
  <2> SUFFICES ASSUME Bounded, [Next]_vars PROVE Bounded'
      OBVIOUS
  <2>1. CASE UNCHANGED vars
      BY <2>1 DEF vars, simulatorVars, Bounded
  <2>2. CASE Next
      BY <2>2, ScanKeeps, OthersKeep DEF Next, Bounded
  <2> QED BY <2>1, <2>2
<1>3. Bounded => ErrorBufferBound
    BY LinkAssumption DEF Bounded, ErrorBufferBound
<1> QED BY <1>1, <1>2, <1>3, PTL DEF Spec

-----------------------------------------------------------------------------
(* Types.                                                                  *)

\* A packet carries a request or the kill, an answer a request.
InMessages  == {m \in Messages : m.type = "packet" => m.n \in 1 .. Kill}
OutMessages == {m \in Messages : m.type = "answer" => m.n \in 1 .. Requests}

\* TypeOK with these, and with a request wherever one is awaited.
TypeInv ==
    /\ input \in Seq(InMessages) /\ output \in Seq(OutMessages)
    /\ len \in Nat /\ stored \in 0 .. Requests
    /\ executed \in Seq(1 .. Requests) /\ answers \in Seq(1 .. Requests)
    /\ writable \in BOOLEAN /\ scanner \in {"scanning", "returned", "killed"}
    /\ phase \in {"idle", "ack", "answer", "closed"} /\ request \in 0 .. Kill
    /\ phase \in {"ack", "answer"} => request >= 1
    /\ faults \in [damages : Nat, noises : Nat, nudges : Nat, retries : Nat]

(* The messages of either end have their types.                            *)
LEMMA MessageTypes ==
    /\ Plus \in InMessages /\ Minus \in InMessages /\ Eof \in InMessages
    /\ Noise \in InMessages /\ Newline \in InMessages
    /\ Plus \in OutMessages /\ Minus \in OutMessages
    /\ \A n \in 1 .. Kill : Packet(n) \in InMessages
    /\ \A n \in 1 .. Requests : Answer(n) \in OutMessages
BY LinkAssumption DEF InMessages, OutMessages, Messages, Plus, Minus, Noise, Newline, Eof, Packet,
                      Answer, Message, Kill

(* What the scanner writes keeps the type of the output.                   *)
LEMMA WriteTypes ==
    ASSUME TypeInv, NEW m \in Seq(OutMessages), NEW then \in {"scanning", "returned"},
           Write(m, then)
    PROVE  output' \in Seq(OutMessages) /\ scanner' \in {"scanning", "returned", "killed"}
<1>1. output \o m \in Seq(OutMessages)
    BY ConcatProperties DEF TypeInv
<1>. QED BY <1>1 DEF Write, TypeInv

(* handle_error and gdb_transmit_packet write messages of the output.      *)
LEMMA ErrorTypes ==
    ASSUME TypeInv
    PROVE  /\ handle_error \in Seq(OutMessages) /\ gdb_transmit_packet \in Seq(OutMessages)
           /\ \A m \in Seq(OutMessages) : handle_error \o m \in Seq(OutMessages)
<1>1. <<>> \in Seq(OutMessages) /\ <<Minus>> \in Seq(OutMessages)
    BY MessageTypes
<1>2. handle_error \in Seq(OutMessages)
    BY <1>1 DEF handle_error
<1>3. gdb_transmit_packet \in Seq(OutMessages)
  <2>1. stored > 0 => <<Answer(stored)>> \in Seq(OutMessages)
      BY MessageTypes, LinkAssumption DEF TypeInv
  <2>. QED BY <1>1, <2>1 DEF gdb_transmit_packet
<1>4. \A m \in Seq(OutMessages) : handle_error \o m \in Seq(OutMessages)
    BY <1>2, ConcatProperties
<1>. QED BY <1>2, <1>3, <1>4

(* What the scanner reads, and what is left, has its type.                 *)
LEMMA ReadTypes ==
    ASSUME TypeInv, NEW t, Read(t)
    PROVE  input' \in Seq(InMessages) /\ Head(input) \in InMessages /\ Head(input).type = t
           /\ scanner = "scanning"
BY HeadTailProperties DEF Read, TypeInv

(* The scanner keeps the types: one step per token.                        *)
LEMMA ScanTypes == ASSUME TypeInv, Scan PROVE TypeInv'
<1> USE DEF debuggerVars
<1>1. CASE ScanPlus
    <2>1. output' \in Seq(OutMessages) /\ scanner' \in {"scanning", "returned", "killed"}
        BY <1>1, ErrorTypes, WriteTypes DEF ScanPlus
    <2>. QED BY <1>1, <2>1, ReadTypes DEF ScanPlus, TypeInv
<1>2. CASE ScanMinus
    <2>1. output' \in Seq(OutMessages) /\ scanner' \in {"scanning", "returned", "killed"}
        BY <1>2, ErrorTypes, WriteTypes DEF ScanMinus
    <2>. QED BY <1>2, <2>1, ReadTypes DEF ScanMinus, TypeInv
<1>3. CASE ScanWrongPacket
    <2>1. <<Minus>> \in Seq(OutMessages)
        BY MessageTypes
    <2>2. output' \in Seq(OutMessages) /\ scanner' \in {"scanning", "returned", "killed"}
        BY <1>3, <2>1, ErrorTypes, WriteTypes DEF ScanWrongPacket
    <2>. QED BY <1>3, <2>2, ReadTypes DEF ScanWrongPacket, TypeInv
<1>4. CASE ScanPacket
    <2>0. Head(input) \in InMessages /\ Head(input).type = "packet" /\ Head(input).n # Kill
        BY <1>4, ReadTypes DEF ScanPacket
    <2>1. Head(input).n \in 1 .. Requests
        BY <2>0, LinkAssumption DEF InMessages, Kill
    <2>2. <<Plus, Answer(Head(input).n)>> \in Seq(OutMessages)
        BY <2>1, MessageTypes
    <2>3. output' \in Seq(OutMessages) /\ scanner' \in {"scanning", "returned", "killed"}
        BY <1>4, <2>2, ErrorTypes, WriteTypes DEF ScanPacket
    <2>4. executed' \in Seq(1 .. Requests)
        BY <1>4, <2>1, AppendProperties DEF ScanPacket, TypeInv
    <2>5. stored' \in 0 .. Requests
        BY <1>4, <2>1, LinkAssumption DEF ScanPacket
    <2>6. input' \in Seq(InMessages)
        BY <1>4, ReadTypes DEF ScanPacket
    <2>. QED BY <1>4, <2>3, <2>4, <2>5, <2>6 DEF ScanPacket, TypeInv
<1>5. CASE ScanKill
    <2>1. <<Plus>> \in Seq(OutMessages)
        BY MessageTypes
    <2>2. output' \in Seq(OutMessages) /\ scanner' \in {"scanning", "returned", "killed"}
        BY <1>5, <2>1, ErrorTypes, WriteTypes DEF ScanKill
    <2>. QED BY <1>5, <2>2, ReadTypes DEF ScanKill, TypeInv
<1>6. CASE ScanOther
    <2>1. output' \in Seq(OutMessages) /\ scanner' \in {"scanning", "returned", "killed"}
        BY <1>6, ErrorTypes, WriteTypes DEF ScanOther, TypeInv
    <2>2. len' \in Nat
        BY <1>6 DEF ScanOther, TypeInv
    <2>. QED BY <1>6, <2>1, <2>2, ReadTypes DEF ScanOther, TypeInv
<1>7. CASE ScanEof
    <2>1. output' \in Seq(OutMessages) /\ scanner' \in {"scanning", "returned", "killed"}
        BY <1>7, ErrorTypes, WriteTypes DEF ScanEof
    <2>. QED BY <1>7, <2>1, ReadTypes DEF ScanEof, TypeInv
<1>8. CASE ScanNewline
    BY <1>8, ReadTypes DEF ScanNewline, simulatorVars, TypeInv
<1>. QED BY <1>1, <1>2, <1>3, <1>4, <1>5, <1>6, <1>7, <1>8 DEF Scan

(* What the debugger gets, and what is left, has its type.                 *)
LEMMA GetTypes ==
    ASSUME TypeInv, NEW p, NEW t, Gets(p, t)
    PROVE  /\ output' \in Seq(OutMessages) /\ Head(output) \in OutMessages
           /\ Head(output).type = t /\ phase = p
BY HeadTailProperties DEF Gets, TypeInv

(* What the debugger sends keeps the type of the input.                    *)
LEMMA SendTypes ==
    ASSUME TypeInv, NEW m \in InMessages, Sends(m)
    PROVE  input' \in Seq(InMessages)
BY AppendProperties DEF Sends, TypeInv

(* The debugger keeps the types.                                           *)
LEMMA DebuggerTypes == ASSUME TypeInv, Debugger PROVE TypeInv'
<1> USE DEF simulatorVars, debuggerVars
<1>0. phase = "ack" => request \in 1 .. Kill
    BY LinkAssumption DEF TypeInv, Kill
<1>1. CASE SendRequest
    <2>1. request + 1 \in 1 .. Kill
        BY <1>1, LinkAssumption DEF SendRequest, TypeInv, Kill
    <2>2. input' \in Seq(InMessages)
        BY <1>1, <2>1, MessageTypes, SendTypes DEF SendRequest
    <2>3. request' \in 0 .. Kill /\ request' >= 1
        BY <1>1, <2>1, LinkAssumption DEF SendRequest, Kill
    <2>. QED BY <1>1, <2>2, <2>3 DEF SendRequest, TypeInv
<1>2. CASE Close
    <2>1. input' \in Seq(InMessages)
        BY <1>2, MessageTypes, SendTypes DEF Close
    <2>. QED BY <1>2, <2>1 DEF Close, TypeInv
<1>3. CASE GetAck
    BY <1>3, GetTypes DEF GetAck, TypeInv
<1>4. CASE GetRefusal
    <2>1. output' \in Seq(OutMessages) /\ phase = "ack"
        BY <1>4, GetTypes DEF GetRefusal
    <2>2. input' \in Seq(InMessages)
        BY <1>0, <1>4, <2>1, MessageTypes, SendTypes DEF GetRefusal
    <2>. QED BY <1>4, <2>1, <2>2 DEF GetRefusal, TypeInv
<1>5. CASE GetOldAnswer
    <2>1. output' \in Seq(OutMessages)
        BY <1>5, GetTypes DEF GetOldAnswer
    <2>2. input' \in Seq(InMessages)
        BY <1>5, MessageTypes, SendTypes DEF GetOldAnswer
    <2>. QED BY <1>5, <2>1, <2>2 DEF GetOldAnswer, TypeInv
<1>6. CASE GetAnswer
    <2>1. output' \in Seq(OutMessages) /\ Head(output) \in OutMessages
          /\ Head(output).type = "answer"
        BY <1>6, GetTypes DEF GetAnswer
    <2>2. Head(output).n \in 1 .. Requests
        BY <2>1 DEF OutMessages
    <2>3. answers' \in Seq(1 .. Requests)
        BY <1>6, <2>2, AppendProperties DEF GetAnswer, TypeInv
    <2>4. input' \in Seq(InMessages)
        BY <1>6, MessageTypes, SendTypes DEF GetAnswer
    <2>. QED BY <1>6, <2>1, <2>3, <2>4 DEF GetAnswer, TypeInv
<1>7. CASE GetWrongAnswer
    <2>1. output' \in Seq(OutMessages)
        BY <1>7, GetTypes DEF GetWrongAnswer
    <2>2. input' \in Seq(InMessages)
        BY <1>7, MessageTypes, SendTypes DEF GetWrongAnswer
    <2>. QED BY <1>7, <2>1, <2>2 DEF GetWrongAnswer, TypeInv
<1>8. CASE SkipAck
    BY <1>8, GetTypes DEF SkipAck, TypeInv
<1>. QED BY <1>1, <1>2, <1>3, <1>4, <1>5, <1>6, <1>7, <1>8 DEF Debugger

(* A fault changes a message into another message of its direction.        *)
LEMMA FaultTypes == ASSUME TypeInv, Fault PROVE TypeInv'
<1> USE DEF simulatorVars, debuggerVars
<1>0. faults \in [damages : Nat, noises : Nat, nudges : Nat, retries : Nat]
    BY DEF TypeInv
<1>1. CASE Nudge
    <2>1. input' \in Seq(InMessages)
        BY <1>1, MessageTypes, SendTypes DEF Nudge
    <2>2. faults' \in [damages : Nat, noises : Nat, nudges : Nat, retries : Nat]
        BY <1>0, <1>1 DEF Nudge
    <2>. QED BY <1>1, <2>1, <2>2 DEF Nudge, TypeInv
<1>2. CASE Retry
    <2>1. request \in 1 .. Kill
        BY <1>2, LinkAssumption DEF Retry, TypeInv, Kill
    <2>2. input' \in Seq(InMessages)
        BY <1>2, <2>1, MessageTypes, SendTypes DEF Retry
    <2>3. faults' \in [damages : Nat, noises : Nat, nudges : Nat, retries : Nat]
        BY <1>0, <1>2 DEF Retry
    <2>. QED BY <1>2, <2>2, <2>3 DEF Retry, TypeInv
<1>3. ASSUME NEW i \in DOMAIN input, DamagePacket(i) PROVE TypeInv'
    <2>1. i \in 1 .. Len(input) /\ input[i] \in InMessages
        BY LenProperties, ElementOfSeq DEF TypeInv
    <2>2. [input[i] EXCEPT !.ok = FALSE] \in InMessages
        BY <2>1 DEF InMessages, Messages
    <2>3. input' \in Seq(InMessages)
        BY <1>3, <2>1, <2>2, ExceptSeq DEF DamagePacket, TypeInv
    <2>4. faults' \in [damages : Nat, noises : Nat, nudges : Nat, retries : Nat]
        BY <1>0, <1>3 DEF DamagePacket
    <2>. QED BY <1>3, <2>3, <2>4 DEF DamagePacket, TypeInv
<1>4. ASSUME NEW i \in DOMAIN input, MakeNoise(i) PROVE TypeInv'
    <2>1. i \in 1 .. Len(input)
        BY LenProperties DEF TypeInv
    <2>3. input' \in Seq(InMessages)
        BY <1>4, <2>1, MessageTypes, ExceptSeq DEF MakeNoise, TypeInv
    <2>4. faults' \in [damages : Nat, noises : Nat, nudges : Nat, retries : Nat]
        BY <1>0, <1>4 DEF MakeNoise
    <2>. QED BY <1>4, <2>3, <2>4 DEF MakeNoise, TypeInv
<1>5. ASSUME NEW i \in DOMAIN output, DamageAnswer(i) PROVE TypeInv'
    <2>1. i \in 1 .. Len(output) /\ output[i] \in OutMessages
        BY LenProperties, ElementOfSeq DEF TypeInv
    <2>2. [output[i] EXCEPT !.ok = FALSE] \in OutMessages
        BY <2>1 DEF OutMessages, Messages
    <2>3. output' \in Seq(OutMessages)
        BY <1>5, <2>1, <2>2, ExceptSeq DEF DamageAnswer, TypeInv
    <2>4. faults' \in [damages : Nat, noises : Nat, nudges : Nat, retries : Nat]
        BY <1>0, <1>5 DEF DamageAnswer
    <2>. QED BY <1>5, <2>3, <2>4 DEF DamageAnswer, TypeInv
<1>. QED BY <1>1, <1>2, <1>3, <1>4, <1>5 DEF Fault

(* Every step keeps the types.                                             *)
LEMMA TypeStep == TypeInv /\ [Next]_vars => TypeInv'
<1>1. ASSUME TypeInv, UNCHANGED vars PROVE TypeInv'
    BY <1>1 DEF vars, simulatorVars, debuggerVars, TypeInv
<1>. QED BY <1>1, ScanTypes, DebuggerTypes, FaultTypes DEF Next, Over

(* They hold before the first message.                                     *)
LEMMA TypeInitial == Init => TypeInv
BY LinkAssumption, EmptySeq DEF Init, TypeInv, Kill

(* The messages on the way and the state of scanner.l and of the debugger  *)
(* keep their types, in a session of any length with any number of faults. *)
THEOREM LinkTypeCorrect == Spec => []TypeOK
<1>1. TypeInv => TypeOK
    <2> SUFFICES ASSUME TypeInv PROVE TypeOK
        OBVIOUS
    <2>1. InMessages \subseteq Messages /\ OutMessages \subseteq Messages
        BY DEF InMessages, OutMessages
    <2>2. input \in Seq(Messages) /\ output \in Seq(Messages)
        BY <2>1, SeqMonotonic DEF TypeInv
    <2>. QED BY <2>2 DEF TypeInv, TypeOK
<1>. QED BY <1>1, TypeInitial, TypeStep, PTL DEF Spec

-----------------------------------------------------------------------------
(* The exchange.                                                           *)

\* The last request that has an answer.
Answerable == IF request = Kill THEN Requests ELSE request
\* Nothing but acknowledgements is on the way to the simulator.
OnlyAcks == \A i \in 1 .. Len(input) : input[i].type = "+"
\* The first k messages to the debugger are answers.
AnswersUpTo(k) == \A i \in 1 .. k : output[i].type = "answer"

\* The packet n is the k-th message of s, and the only one that matters.
Carries(s, n, k) ==
    /\ s[k].type = "packet" /\ s[k].n = n
    /\ \A i \in 1 .. k - 1 : s[i].type \in {"+", "-"}
    /\ \A i \in k + 1 .. Len(s) : s[i].type = "+"

\* The debugger waits for an acknowledgement.  The packet is on the way,
InFlight ==
    /\ stored = request - 1 /\ writable
    /\ AnswersUpTo(Len(output))
    /\ \E k \in 1 .. Len(input) : Carries(input, request, k)
\* or it was refused and the "-" is on the way,
Refused ==
    /\ stored = request - 1 /\ writable /\ OnlyAcks
    /\ Len(output) >= 1 /\ output[Len(output)].type = "-" /\ AnswersUpTo(Len(output) - 1)
\* or it was executed and "+" and the answer are on the way,
Acked ==
    /\ stored = request /\ writable /\ OnlyAcks
    /\ Len(output) >= 2 /\ output[Len(output) - 1].type = "+" /\ AnswersUpTo(Len(output) - 2)
    /\ output[Len(output)].type = "answer" /\ output[Len(output)].n = request
\* or it was the kill, whose "+" is the last thing ever written.
AckedKill ==
    /\ request = Kill /\ stored = request - 1 /\ ~ writable /\ OnlyAcks
    /\ Len(output) >= 1 /\ output[Len(output)].type = "+" /\ AnswersUpTo(Len(output) - 1)
\* It does not: whatever is on the way to it is the stored answer.
Settled ==
    /\ stored = Answerable /\ (writable <=> request # Kill)
    /\ phase = "answer" => request # Kill
    /\ \A i \in 1 .. Len(input) :
           /\ input[i].type \in {"+", "-", "eof"}
           /\ input[i].type = "-" => writable
           /\ input[i].type = "eof" => phase = "closed"
    /\ \A i \in 1 .. Len(output) : output[i].type = "answer" /\ output[i].n = stored

Waiting == phase = "ack" => InFlight \/ Refused \/ Acked \/ AckedKill
Resting == phase # "ack" => Settled

\* What the two ends have done fits what is on the way between them.
Exchange ==
    /\ len = 0 /\ scanner # "killed"
    /\ executed = UpTo(stored)
    /\ answers = UpTo(IF phase \in {"ack", "answer"} THEN request - 1 ELSE Answerable)
    /\ Waiting /\ Resting
LinkInv == TypeInv /\ (Clean => Exchange)

(* The rest of a sequence after its first element is read.                 *)
LEMMA Tails ==
    ASSUME NEW S, NEW s \in Seq(S), s # <<>>
    PROVE  /\ Len(s) \in Nat /\ Len(s) >= 1 /\ Head(s) = s[1]
           /\ Len(Tail(s)) = Len(s) - 1
           /\ \A i \in 1 .. Len(s) - 1 : Tail(s)[i] = s[i + 1]
BY HeadTailProperties

(* A sequence after something is added at its end.                         *)
LEMMA Appends ==
    ASSUME NEW S, NEW s \in Seq(S), NEW m \in S
    PROVE  /\ Len(s) \in Nat /\ Len(Append(s, m)) = Len(s) + 1
           /\ \A i \in 1 .. Len(s) : Append(s, m)[i] = s[i]
           /\ Append(s, m)[Len(s) + 1] = m
BY AppendProperties

(* The same for the two messages an executed packet writes.                *)
LEMMA Pairs ==
    ASSUME NEW S, NEW s \in Seq(S), NEW a \in S, NEW b \in S
    PROVE  /\ Len(s) \in Nat /\ Len(s \o <<a, b>>) = Len(s) + 2
           /\ \A i \in 1 .. Len(s) : (s \o <<a, b>>)[i] = s[i]
           /\ (s \o <<a, b>>)[Len(s) + 1] = a /\ (s \o <<a, b>>)[Len(s) + 2] = b
OBVIOUS

(* The same for the one message a refused packet writes.                   *)
LEMMA Singles ==
    ASSUME NEW S, NEW s \in Seq(S), NEW a \in S
    PROVE  /\ Len(s) \in Nat /\ Len(s \o <<a>>) = Len(s) + 1
           /\ \A i \in 1 .. Len(s) : (s \o <<a>>)[i] = s[i]
           /\ (s \o <<a>>)[Len(s) + 1] = a
OBVIOUS

(* UpTo(n) is a sequence of length n, and the next number prolongs it.     *)
LEMMA Counting ==
    ASSUME NEW n \in Nat
    PROVE  /\ UpTo(n) \in Seq(Nat) /\ Len(UpTo(n)) = n
           /\ Append(UpTo(n), n + 1) = UpTo(n + 1)
<1>1. UpTo(n) \in Seq(Nat) /\ Len(UpTo(n)) = n
    BY DEF UpTo
<1>2. UpTo(n + 1) \in Seq(Nat) /\ Len(UpTo(n + 1)) = n + 1
    BY DEF UpTo
<1>3. Append(UpTo(n), n + 1) \in Seq(Nat) /\ Len(Append(UpTo(n), n + 1)) = n + 1
    BY <1>1, AppendProperties
<1>4. \A i \in 1 .. n + 1 : Append(UpTo(n), n + 1)[i] = UpTo(n + 1)[i]
    BY <1>1, AppendProperties DEF UpTo
<1>5. Append(UpTo(n), n + 1) = UpTo(n + 1)
    BY <1>2, <1>3, <1>4, SeqEqual
<1>. QED BY <1>1, <1>5

(* The numbers in the state are natural numbers within their bounds.       *)
LEMMA Numbers == TypeInv => /\ Requests \in Nat /\ Kill = Requests + 1
                            /\ request \in Nat /\ request <= Kill
                            /\ stored \in Nat /\ stored <= Requests
                            /\ Len(input) \in Nat /\ Len(output) \in Nat
BY LinkAssumption, LenProperties DEF TypeInv, Kill

(* Without noise there is no error, so that a token writes what its own    *)
(* rule writes.                                                            *)
LEMMA NoError ==
    ASSUME LinkInv, Clean
    PROVE  /\ handle_error = <<>>
           /\ \A m \in Seq(OutMessages) : handle_error \o m = m
BY ConcatEmptySeq DEF LinkInv, Exchange, handle_error

(* A token that writes nothing cannot raise SIGPIPE.                       *)
LEMMA WriteNothing ==
    ASSUME TypeInv, NEW then, Write(<<>>, then)
    PROVE  output' = output /\ scanner' = then
BY ConcatEmptySeq DEF Write, TypeInv

(* Before the shutdown everything written is on the way.                   *)
LEMMA WriteSomething ==
    ASSUME TypeInv, writable, NEW m, NEW then, Write(m, then)
    PROVE  output' = output \o m /\ scanner' = then
BY DEF Write

(* A token takes the first message of the input.                           *)
LEMMA ReadFirst ==
    ASSUME TypeInv, NEW t, Read(t)
    PROVE  /\ Len(input) >= 1 /\ Head(input) = input[1] /\ input[1].type = t
           /\ Len(input') = Len(input) - 1
           /\ \A i \in 1 .. Len(input) - 1 : input'[i] = input[i + 1]
BY Tails DEF Read, TypeInv

(* The debugger takes the first message of the output.                     *)
LEMMA GetFirst ==
    ASSUME TypeInv, NEW p, NEW t, Gets(p, t)
    PROVE  /\ Len(output) >= 1 /\ Head(output) = output[1] /\ output[1].type = t /\ phase = p
           /\ Len(output') = Len(output) - 1
           /\ \A i \in 1 .. Len(output) - 1 : output'[i] = output[i + 1]
BY Tails DEF Gets, TypeInv

(* What the debugger sends goes to the end of the input.                   *)
LEMMA SendLast ==
    ASSUME TypeInv, NEW m \in InMessages, Sends(m)
    PROVE  /\ Len(input') = Len(input) + 1
           /\ \A i \in 1 .. Len(input) : input'[i] = input[i]
           /\ input'[Len(input) + 1] = m
BY Appends DEF Sends, TypeInv

(* A packet in flight comes one place nearer when the message before it is *)
(* read.                                                                   *)
LEMMA FlightMoves ==
    ASSUME NEW s, NEW t, NEW n, Len(s) \in Nat, Len(t) = Len(s) - 1,
           \A i \in 1 .. Len(s) - 1 : t[i] = s[i + 1],
           s[1].type # "packet",
           NEW k \in 1 .. Len(s), Carries(s, n, k)
    PROVE  k - 1 \in 1 .. Len(t) /\ Carries(t, n, k - 1)
<1>1. k - 1 \in 1 .. Len(t) /\ t[k - 1] = s[k]
    BY DEF Carries
<1>2. ASSUME NEW i \in 1 .. (k - 1) - 1 PROVE t[i].type \in {"+", "-"}
    <2>1. t[i] = s[i + 1] /\ i + 1 \in 1 .. k - 1
        BY <1>2
    <2>. QED BY <2>1 DEF Carries
<1>3. ASSUME NEW i \in (k - 1) + 1 .. Len(t) PROVE t[i].type = "+"
    <2>1. t[i] = s[i + 1] /\ i + 1 \in k + 1 .. Len(s)
        BY <1>3
    <2>. QED BY <2>1 DEF Carries
<1>. QED BY <1>1, <1>2, <1>3 DEF Carries

(* What is settled stays so when a message is read and nothing, or the     *)
(* stored answer, is written.                                              *)
LEMMA SettledMoves ==
    ASSUME TypeInv, Settled, UNCHANGED <<stored, writable, request, phase>>,
           Len(input') = Len(input) - 1, \A i \in 1 .. Len(input) - 1 : input'[i] = input[i + 1],
           Len(output') \in Nat,
           \A i \in 1 .. Len(output) : output'[i] = output[i],
           \A i \in Len(output) + 1 .. Len(output') :
               output'[i].type = "answer" /\ output'[i].n = stored
    PROVE  Settled'
<1> USE Numbers
<1>1. ASSUME NEW i \in 1 .. Len(input')
      PROVE  /\ input'[i].type \in {"+", "-", "eof"}
             /\ input'[i].type = "-" => writable
             /\ input'[i].type = "eof" => phase = "closed"
    <2>1. input'[i] = input[i + 1] /\ i + 1 \in 1 .. Len(input)
        BY <1>1
    <2>. QED BY <2>1 DEF Settled
<1>2. ASSUME NEW i \in 1 .. Len(output')
      PROVE  output'[i].type = "answer" /\ output'[i].n = stored
    <2>1. i \in 1 .. Len(output) \/ i \in Len(output) + 1 .. Len(output')
        BY <1>2
    <2>. QED BY <2>1 DEF Settled
<1>3. stored' = Answerable'
    BY DEF Settled, Answerable
<1>. QED BY <1>1, <1>2, <1>3 DEF Settled

(* "+" writes nothing: whatever was on the way comes nearer.               *)
LEMMA PlusKeeps == ASSUME LinkInv, Clean, ScanPlus PROVE Exchange'
<1> USE Numbers
<1>0. TypeInv /\ Exchange
    BY DEF LinkInv
<1>1. output' = output /\ scanner' = "scanning"
    BY <1>0, NoError, WriteNothing DEF ScanPlus
<1>2. /\ len' = 0
      /\ UNCHANGED <<stored, executed, writable, phase, request, answers>>
    BY DEF ScanPlus, debuggerVars
<1>3. /\ Len(input) >= 1 /\ input[1].type = "+" /\ Len(input') = Len(input) - 1
      /\ \A i \in 1 .. Len(input) - 1 : input'[i] = input[i + 1]
    BY <1>0, ReadFirst DEF ScanPlus
<1>4. InFlight => InFlight'
    <2> SUFFICES ASSUME InFlight PROVE InFlight'
        OBVIOUS
    <2>1. PICK k \in 1 .. Len(input) : Carries(input, request, k)
        BY DEF InFlight
    <2>2. k - 1 \in 1 .. Len(input') /\ Carries(input', request, k - 1)
        BY <1>0, <1>3, <2>1, FlightMoves
    <2>. QED BY <1>1, <1>2, <2>2 DEF InFlight, AnswersUpTo
<1>5. OnlyAcks => OnlyAcks'
    BY <1>0, <1>3 DEF OnlyAcks
<1>6. Settled => Settled'
    BY <1>0, <1>1, <1>2, <1>3, SettledMoves
<1>7. Waiting' /\ Resting'
    BY <1>0, <1>1, <1>2, <1>4, <1>5, <1>6
       DEF Exchange, Waiting, Resting, Refused, Acked, AckedKill, AnswersUpTo
<1>. QED BY <1>0, <1>1, <1>2, <1>7 DEF Exchange, Answerable

(* "-" has the stored answer written: before the packet it is an old       *)
(* answer, after the acknowledgement the one awaited.                      *)
LEMMA MinusKeeps == ASSUME LinkInv, Clean, ScanMinus PROVE Exchange'
<1> USE Numbers
<1>0. TypeInv /\ Exchange
    BY DEF LinkInv
<1>2. /\ len' = 0
      /\ UNCHANGED <<stored, executed, writable, phase, request, answers>>
    BY DEF ScanMinus, debuggerVars
<1>3. /\ Len(input) >= 1 /\ input[1].type = "-" /\ Len(input') = Len(input) - 1
      /\ \A i \in 1 .. Len(input) - 1 : input'[i] = input[i + 1]
    BY <1>0, ReadFirst DEF ScanMinus
<1>4. ~ OnlyAcks
    BY <1>0, <1>3 DEF OnlyAcks
<1>5. writable
    BY <1>0, <1>3, <1>4
       DEF Exchange, Waiting, Resting, InFlight, Refused, Acked, AckedKill, Settled
<1>6. output' = output \o gdb_transmit_packet /\ scanner' = "scanning"
    BY <1>0, <1>5, NoError, ErrorTypes, WriteSomething DEF ScanMinus
<1>7. /\ Len(output') >= Len(output) /\ Len(output') \in Nat
      /\ \A i \in 1 .. Len(output) : output'[i] = output[i]
      /\ \A i \in Len(output) + 1 .. Len(output') :
             output'[i].type = "answer" /\ output'[i].n = stored
    <2>1. CASE stored = 0
        BY <1>0, <1>6, <2>1, ConcatEmptySeq DEF gdb_transmit_packet, TypeInv
    <2>2. CASE stored > 0
        <3>1. output' = output \o <<Answer(stored)>> /\ Answer(stored) \in OutMessages
            BY <1>0, <1>6, <2>2, MessageTypes DEF gdb_transmit_packet, TypeInv
        <3>2. Answer(stored).type = "answer" /\ Answer(stored).n = stored
            BY DEF Answer, Message
        <3>3. /\ Len(output') = Len(output) + 1
              /\ \A i \in 1 .. Len(output) : output'[i] = output[i]
              /\ output'[Len(output) + 1] = Answer(stored)
            BY <1>0, <3>1, Singles DEF TypeInv
        <3>. QED BY <1>0, <3>2, <3>3
    <2>. QED BY <1>0, <2>1, <2>2
<1>8. InFlight => InFlight'
    <2> SUFFICES ASSUME InFlight PROVE InFlight'
        OBVIOUS
    <2>1. PICK k \in 1 .. Len(input) : Carries(input, request, k)
        BY DEF InFlight
    <2>2. k - 1 \in 1 .. Len(input') /\ Carries(input', request, k - 1)
        BY <1>0, <1>3, <2>1, FlightMoves
    <2>4. AnswersUpTo(Len(output))'
        <3> SUFFICES ASSUME NEW i \in 1 .. Len(output') PROVE output'[i].type = "answer"
            BY DEF AnswersUpTo
        <3>1. i \in 1 .. Len(output) \/ i \in Len(output) + 1 .. Len(output')
            BY <1>0, <1>7
        <3>. QED BY <1>7, <3>1 DEF InFlight, AnswersUpTo
    <2>. QED BY <1>2, <2>2, <2>4 DEF InFlight
<1>9. Settled => Settled'
    BY <1>0, <1>2, <1>3, <1>7, SettledMoves
<1>10. Waiting' /\ Resting'
    BY <1>0, <1>2, <1>4, <1>8, <1>9 DEF Exchange, Waiting, Resting, Refused, Acked, AckedKill
<1>. QED BY <1>0, <1>2, <1>6, <1>10 DEF Exchange, Answerable

(* A packet that is read is the one in flight, and nothing but             *)
(* acknowledgements comes after it.                                        *)
LEMMA PacketRead ==
    ASSUME LinkInv, Clean, Read("packet")
    PROVE  /\ phase = "ack" /\ stored = request - 1 /\ writable /\ AnswersUpTo(Len(output))
           /\ Head(input).n = request /\ OnlyAcks'
<1> USE Numbers
<1>0. TypeInv /\ Exchange
    BY DEF LinkInv
<1>1. /\ Len(input) >= 1 /\ Head(input) = input[1] /\ input[1].type = "packet"
      /\ Len(input') = Len(input) - 1
      /\ \A i \in 1 .. Len(input) - 1 : input'[i] = input[i + 1]
    BY <1>0, ReadFirst
<1>2. ~ OnlyAcks /\ ~ Settled
    BY <1>0, <1>1 DEF OnlyAcks, Settled
<1>3. phase = "ack" /\ InFlight
    BY <1>0, <1>2 DEF Exchange, Waiting, Resting, Refused, Acked, AckedKill
<1>4. PICK k \in 1 .. Len(input) : Carries(input, request, k)
    BY <1>3 DEF InFlight
<1>5. k = 1
    BY <1>0, <1>1, <1>4 DEF Carries
<1>6. OnlyAcks'
    BY <1>0, <1>1, <1>4, <1>5 DEF OnlyAcks, Carries
<1>. QED BY <1>1, <1>3, <1>4, <1>5, <1>6 DEF InFlight, Carries

(* A damaged packet is refused and not executed.                           *)
LEMMA WrongPacketKeeps == ASSUME LinkInv, Clean, ScanWrongPacket PROVE Exchange'
<1> USE Numbers
<1>0. TypeInv /\ Exchange
    BY DEF LinkInv
<1>1. /\ phase = "ack" /\ stored = request - 1 /\ writable /\ AnswersUpTo(Len(output))
      /\ OnlyAcks'
    BY PacketRead DEF ScanWrongPacket
<1>2. <<Minus>> \in Seq(OutMessages) /\ Minus \in OutMessages
    BY MessageTypes
<1>3. output' = output \o <<Minus>> /\ scanner' = "scanning"
    BY <1>0, <1>1, <1>2, NoError, WriteSomething DEF ScanWrongPacket
<1>4. /\ Len(output') = Len(output) + 1
      /\ \A i \in 1 .. Len(output) : output'[i] = output[i]
      /\ output'[Len(output) + 1] = Minus
    BY <1>0, <1>2, <1>3, Singles DEF TypeInv
<1>5. /\ len' = 0
      /\ UNCHANGED <<stored, executed, writable, phase, request, answers>>
    BY DEF ScanWrongPacket, debuggerVars
<1>6. Refused'
    BY <1>0, <1>1, <1>4, <1>5 DEF Refused, AnswersUpTo, Minus, Message
<1>. QED BY <1>0, <1>1, <1>3, <1>5, <1>6 DEF Exchange, Waiting, Resting, Answerable

(* A whole packet is executed, acknowledged and answered.                  *)
LEMMA PacketKeeps == ASSUME LinkInv, Clean, ScanPacket PROVE Exchange'
<1> USE Numbers
<1>0. TypeInv /\ Exchange
    BY DEF LinkInv
<1>1. /\ phase = "ack" /\ stored = request - 1 /\ writable /\ AnswersUpTo(Len(output))
      /\ Head(input).n = request /\ OnlyAcks'
    BY PacketRead DEF ScanPacket
<1>2. request \in 1 .. Requests
    BY <1>0, <1>1 DEF ScanPacket
<1>3. /\ Plus \in OutMessages /\ Answer(request) \in OutMessages
      /\ <<Plus, Answer(request)>> \in Seq(OutMessages)
    BY <1>2, MessageTypes
<1>4. output' = output \o <<Plus, Answer(request)>> /\ scanner' = "scanning"
    BY <1>0, <1>1, <1>3, NoError, WriteSomething DEF ScanPacket
<1>5. /\ Len(output') = Len(output) + 2
      /\ \A i \in 1 .. Len(output) : output'[i] = output[i]
      /\ output'[Len(output) + 1] = Plus /\ output'[Len(output) + 2] = Answer(request)
    BY <1>0, <1>3, <1>4, Pairs DEF TypeInv
<1>6. /\ len' = 0 /\ stored' = request /\ executed' = Append(executed, request)
      /\ UNCHANGED <<writable, phase, request, answers>>
    BY <1>1 DEF ScanPacket, debuggerVars
<1>7. Acked'
    <2>1. Len(output') >= 2 /\ Len(output') - 2 = Len(output)
        BY <1>0, <1>5
    <2>2. output'[Len(output') - 1].type = "+"
        BY <1>0, <1>5 DEF Plus, Message
    <2>3. output'[Len(output')].type = "answer" /\ output'[Len(output')].n = request
        BY <1>0, <1>5 DEF Answer, Message
    <2>4. AnswersUpTo(Len(output) - 2)'
        BY <1>0, <1>1, <1>5, <2>1 DEF AnswersUpTo
    <2>. QED BY <1>1, <1>6, <2>1, <2>2, <2>3, <2>4 DEF Acked
<1>8. executed' = UpTo(stored')
    <2>1. executed = UpTo(request - 1) /\ request - 1 \in Nat
        BY <1>0, <1>1, <1>2 DEF Exchange
    <2>2. Append(UpTo(request - 1), (request - 1) + 1) = UpTo((request - 1) + 1)
        BY <2>1, Counting
    <2>3. (request - 1) + 1 = request
        BY <1>0
    <2>. QED BY <1>6, <2>1, <2>2, <2>3
<1>. QED BY <1>0, <1>1, <1>4, <1>6, <1>7, <1>8 DEF Exchange, Waiting, Resting, Answerable

(* A kill is acknowledged before the output is shut down.                  *)
LEMMA KillKeeps == ASSUME LinkInv, Clean, ScanKill PROVE Exchange'
<1> USE Numbers
<1>0. TypeInv /\ Exchange
    BY DEF LinkInv
<1>1. /\ phase = "ack" /\ stored = request - 1 /\ writable /\ AnswersUpTo(Len(output))
      /\ request = Kill /\ OnlyAcks'
    BY PacketRead DEF ScanKill
<1>2. <<Plus>> \in Seq(OutMessages) /\ Plus \in OutMessages
    BY MessageTypes
<1>3. output' = output \o <<Plus>> /\ scanner' = "scanning"
    BY <1>0, <1>1, <1>2, NoError, WriteSomething DEF ScanKill
<1>4. /\ Len(output') = Len(output) + 1
      /\ \A i \in 1 .. Len(output) : output'[i] = output[i]
      /\ output'[Len(output) + 1] = Plus
    BY <1>0, <1>2, <1>3, Singles DEF TypeInv
<1>5. /\ len' = 0 /\ writable' = FALSE
      /\ UNCHANGED <<stored, executed, phase, request, answers>>
    BY DEF ScanKill, debuggerVars
<1>6. AckedKill'
    BY <1>0, <1>1, <1>4, <1>5 DEF AckedKill, AnswersUpTo, Plus, Message
<1>. QED BY <1>0, <1>1, <1>3, <1>5, <1>6 DEF Exchange, Waiting, Resting, Answerable

(* The end of the input ends the scanner with nothing to write.            *)
LEMMA EofKeeps == ASSUME LinkInv, Clean, ScanEof PROVE Exchange'
<1> USE Numbers
<1>0. TypeInv /\ Exchange
    BY DEF LinkInv
<1>1. output' = output /\ scanner' = "returned"
    BY <1>0, NoError, WriteNothing DEF ScanEof
<1>2. /\ len' = 0
      /\ UNCHANGED <<stored, executed, writable, phase, request, answers>>
    BY DEF ScanEof, debuggerVars
<1>3. /\ Len(input) >= 1 /\ input[1].type = "eof" /\ Len(input') = Len(input) - 1
      /\ \A i \in 1 .. Len(input) - 1 : input'[i] = input[i + 1]
    BY <1>0, ReadFirst DEF ScanEof
<1>4. ~ OnlyAcks /\ ~ InFlight
    BY <1>0, <1>3 DEF OnlyAcks, InFlight, Carries
<1>5. phase # "ack" /\ Settled
    BY <1>0, <1>4 DEF Exchange, Waiting, Resting, Refused, Acked, AckedKill
<1>6. Settled'
    BY <1>0, <1>1, <1>2, <1>3, <1>5, SettledMoves
<1>. QED BY <1>0, <1>1, <1>2, <1>5, <1>6 DEF Exchange, Waiting, Resting, Answerable

(* Without noise no other character and no newline arrives.                *)
LEMMA NoOther == ASSUME LinkInv, Clean PROVE ~ ScanOther /\ ~ ScanNewline
<1> USE Numbers
<1> SUFFICES ASSUME ScanOther \/ ScanNewline PROVE FALSE
    OBVIOUS
<1>0. TypeInv /\ Exchange
    BY DEF LinkInv
<1>1. Len(input) >= 1 /\ input[1].type \in {"noise", "newline"}
    BY <1>0, ReadFirst DEF ScanOther, ScanNewline
<1>2. ~ (input[1].type \in {"+", "-", "packet", "eof"}) /\ 1 \in 1 .. Len(input)
    BY <1>0, <1>1
<1>3. ~ OnlyAcks /\ ~ Settled
    BY <1>2 DEF OnlyAcks, Settled
<1>4. ~ InFlight
    BY <1>0, <1>1, <1>2 DEF InFlight, Carries
<1>. QED BY <1>0, <1>3, <1>4 DEF Exchange, Waiting, Resting, Refused, Acked, AckedKill

(* The debugger sends the next packet when everything is settled.          *)
LEMMA RequestKeeps == ASSUME LinkInv, Clean, SendRequest PROVE Exchange'
<1> USE Numbers
<1>0. TypeInv /\ Exchange /\ Settled
    BY DEF LinkInv, Exchange, Resting, SendRequest
<1>1. /\ phase = "idle" /\ request <= Requests /\ request' = request + 1 /\ phase' = "ack"
      /\ UNCHANGED <<output, len, stored, executed, writable, scanner, answers>>
    BY DEF SendRequest, simulatorVars
<1>2. request + 1 \in 1 .. Kill /\ request # Kill /\ Answerable = request
    BY <1>0, <1>1 DEF Answerable
<1>3. /\ Len(input') = Len(input) + 1
      /\ \A i \in 1 .. Len(input) : input'[i] = input[i]
      /\ input'[Len(input) + 1] = Packet(request + 1)
    BY <1>0, <1>2, MessageTypes, SendLast DEF SendRequest
<1>4. Carries(input', request', Len(input'))
    <2>1. \A i \in 1 .. Len(input') - 1 : input'[i].type \in {"+", "-"}
        BY <1>0, <1>1, <1>3 DEF Settled
    <2>2. input'[Len(input')].type = "packet" /\ input'[Len(input')].n = request'
        BY <1>0, <1>1, <1>3 DEF Packet, Message
    <2>3. \A i \in Len(input') + 1 .. Len(input') : input'[i].type = "+"
        BY <1>0, <1>3
    <2>. QED BY <2>1, <2>2, <2>3 DEF Carries
<1>5. InFlight'
    <2>1. stored' = request' - 1 /\ writable'
        BY <1>0, <1>1, <1>2 DEF Settled
    <2>2. AnswersUpTo(Len(output))'
        BY <1>0, <1>1 DEF Settled, AnswersUpTo
    <2>3. Len(input') \in 1 .. Len(input')
        BY <1>0, <1>3
    <2>. QED BY <1>4, <2>1, <2>2, <2>3 DEF InFlight
<1>6. answers' = UpTo(request' - 1)
    <2>1. request' - 1 = request
        BY <1>0, <1>1
    <2>. QED BY <1>0, <1>1, <1>2, <2>1 DEF Exchange
<1>. QED BY <1>0, <1>1, <1>5, <1>6 DEF Exchange, Waiting, Resting

(* It closes when everything is settled.                                   *)
LEMMA CloseKeeps == ASSUME LinkInv, Clean, Close PROVE Exchange'
<1> USE Numbers
<1>0. TypeInv /\ Exchange /\ Settled
    BY DEF LinkInv, Exchange, Resting, Close
<1>1. /\ phase = "idle" /\ phase' = "closed"
      /\ UNCHANGED <<output, len, stored, executed, writable, scanner, request, answers>>
    BY DEF Close, simulatorVars
<1>2. /\ Len(input') = Len(input) + 1
      /\ \A i \in 1 .. Len(input) : input'[i] = input[i]
      /\ input'[Len(input) + 1] = Eof
    BY <1>0, MessageTypes, SendLast DEF Close
<1>3. \A i \in 1 .. Len(input') : /\ input'[i].type \in {"+", "-", "eof"}
                                  /\ input'[i].type = "-" => writable
    BY <1>0, <1>2 DEF Settled, Eof, Message
<1>4. Settled'
    BY <1>0, <1>1, <1>3 DEF Settled, Answerable
<1>. QED BY <1>0, <1>1, <1>4 DEF Exchange, Waiting, Resting, Answerable

(* "+" is for the packet it sent: the answer follows, or after a kill      *)
(* nothing.                                                                *)
LEMMA AckKeeps == ASSUME LinkInv, Clean, GetAck PROVE Exchange'
<1> USE Numbers
<1>0. TypeInv /\ Exchange
    BY DEF LinkInv
<1>1. /\ phase' = IF request = Kill THEN "idle" ELSE "answer"
      /\ UNCHANGED <<input, len, stored, executed, writable, scanner, request, answers>>
    BY DEF GetAck, simulatorVars
<1>2. /\ Len(output) >= 1 /\ output[1].type = "+" /\ phase = "ack"
      /\ Len(output') = Len(output) - 1
      /\ \A i \in 1 .. Len(output) - 1 : output'[i] = output[i + 1]
    BY <1>0, GetFirst DEF GetAck
<1>3. (Acked /\ Len(output) = 2) \/ (AckedKill /\ Len(output) = 1)
    <2>1. ~ InFlight
        BY <1>0, <1>2 DEF InFlight, AnswersUpTo
    <2>2. ~ Refused
        BY <1>0, <1>2 DEF Refused, AnswersUpTo
    <2>3. Acked => Len(output) = 2
        BY <1>0, <1>2 DEF Acked, AnswersUpTo
    <2>4. AckedKill => Len(output) = 1
        BY <1>0, <1>2 DEF AckedKill, AnswersUpTo
    <2>. QED BY <1>0, <1>2, <2>1, <2>2, <2>3, <2>4 DEF Exchange, Waiting
<1>4. \A i \in 1 .. Len(input') : input'[i].type = "+"
    BY <1>1, <1>3 DEF Acked, AckedKill, OnlyAcks
<1>5. CASE Acked /\ Len(output) = 2
    <2>1. request # Kill /\ phase' = "answer"
        BY <1>0, <1>1, <1>5 DEF Acked
    <2>2. \A i \in 1 .. Len(output') : output'[i].type = "answer" /\ output'[i].n = stored'
        BY <1>0, <1>1, <1>2, <1>5 DEF Acked
    <2>3. Settled'
        BY <1>1, <1>4, <1>5, <2>1, <2>2 DEF Settled, Answerable, Acked
    <2>. QED BY <1>0, <1>1, <1>2, <2>1, <2>3 DEF Exchange, Waiting, Resting
<1>6. CASE AckedKill /\ Len(output) = 1
    <2>1. request = Kill /\ phase' = "idle" /\ stored = Requests
        BY <1>0, <1>1, <1>6 DEF AckedKill
    <2>2. \A i \in 1 .. Len(output') : output'[i].type = "answer" /\ output'[i].n = stored'
        BY <1>0, <1>2, <1>6
    <2>3. Settled'
        BY <1>1, <1>4, <1>6, <2>1, <2>2 DEF Settled, Answerable, AckedKill
    <2>4. answers' = UpTo(Requests) /\ Answerable' = Requests
        <3>1. request - 1 = Requests
            BY <1>0, <2>1
        <3>. QED BY <1>0, <1>1, <1>2, <2>1, <3>1 DEF Exchange, Answerable, Kill
    <2>. QED BY <1>0, <1>1, <2>1, <2>3, <2>4 DEF Exchange, Waiting, Resting
<1>. QED BY <1>3, <1>5, <1>6

(* "-" is for the packet it sent, which is sent again and was not          *)
(* executed.                                                               *)
LEMMA RefusalKeeps == ASSUME LinkInv, Clean, GetRefusal PROVE Exchange'
<1> USE Numbers
<1>0. TypeInv /\ Exchange
    BY DEF LinkInv
<1>1. UNCHANGED <<len, stored, executed, writable, scanner, phase, request, answers>>
    BY DEF GetRefusal, simulatorVars, debuggerVars
<1>2. /\ Len(output) >= 1 /\ output[1].type = "-" /\ phase = "ack"
      /\ Len(output') = Len(output) - 1
    BY <1>0, GetFirst DEF GetRefusal
<1>3. Refused /\ Len(output) = 1
    <2>1. ~ InFlight
        BY <1>0, <1>2 DEF InFlight, AnswersUpTo
    <2>2. Refused => Len(output) = 1
        BY <1>0, <1>2 DEF Refused, AnswersUpTo
    <2>3. ~ Acked
        BY <1>0, <1>2 DEF Acked, AnswersUpTo
    <2>4. ~ AckedKill
        BY <1>0, <1>2 DEF AckedKill, AnswersUpTo
    <2>. QED BY <1>0, <1>2, <2>1, <2>2, <2>3, <2>4 DEF Exchange, Waiting
<1>4. request \in 1 .. Kill
    BY <1>0, <1>2 DEF TypeInv
<1>5. /\ Len(input') = Len(input) + 1
      /\ \A i \in 1 .. Len(input) : input'[i] = input[i]
      /\ input'[Len(input) + 1] = Packet(request)
    BY <1>0, <1>4, MessageTypes, SendLast DEF GetRefusal
<1>6. Carries(input', request, Len(input'))
    <2>1. \A i \in 1 .. Len(input') - 1 : input'[i].type \in {"+", "-"}
        BY <1>0, <1>3, <1>5 DEF Refused, OnlyAcks
    <2>2. input'[Len(input')].type = "packet" /\ input'[Len(input')].n = request
        BY <1>0, <1>5 DEF Packet, Message
    <2>3. \A i \in Len(input') + 1 .. Len(input') : input'[i].type = "+"
        BY <1>0, <1>5
    <2>. QED BY <2>1, <2>2, <2>3 DEF Carries
<1>7. InFlight'
    <2>1. stored' = request' - 1 /\ writable'
        BY <1>1, <1>3 DEF Refused
    <2>2. AnswersUpTo(Len(output))'
        BY <1>0, <1>2, <1>3 DEF AnswersUpTo
    <2>3. Len(input') \in 1 .. Len(input')
        BY <1>0, <1>5
    <2>. QED BY <1>1, <1>6, <2>1, <2>2, <2>3 DEF InFlight
<1>. QED BY <1>0, <1>1, <1>2, <1>7 DEF Exchange, Waiting, Resting, Answerable

(* An answer before the acknowledgement is dropped and acknowledged.       *)
LEMMA OldAnswerKeeps == ASSUME LinkInv, Clean, GetOldAnswer PROVE Exchange'
<1> USE Numbers
<1>0. TypeInv /\ Exchange
    BY DEF LinkInv
<1>1. UNCHANGED <<len, stored, executed, writable, scanner, phase, request, answers>>
    BY DEF GetOldAnswer, simulatorVars, debuggerVars
<1>2. /\ Len(output) >= 1 /\ output[1].type = "answer" /\ phase = "ack"
      /\ Len(output') = Len(output) - 1
      /\ \A i \in 1 .. Len(output) - 1 : output'[i] = output[i + 1]
    BY <1>0, GetFirst DEF GetOldAnswer
<1>3. /\ Len(input') = Len(input) + 1
      /\ \A i \in 1 .. Len(input) : input'[i] = input[i]
      /\ input'[Len(input) + 1] = Plus
    BY <1>0, MessageTypes, SendLast DEF GetOldAnswer
<1>4. ASSUME NEW k \in 0 .. Len(output), AnswersUpTo(k)
      PROVE  \A i \in 1 .. k - 1 : output'[i].type = "answer"
    <2> SUFFICES ASSUME NEW i \in 1 .. k - 1 PROVE output'[i].type = "answer"
        OBVIOUS
    <2>1. i \in 1 .. Len(output) - 1 /\ i + 1 \in 1 .. k
        BY <1>0
    <2>2. output'[i] = output[i + 1]
        BY <1>2, <2>1
    <2>. QED BY <1>4, <2>1, <2>2 DEF AnswersUpTo
<1>5. OnlyAcks => OnlyAcks'
    BY <1>0, <1>3 DEF OnlyAcks, Plus, Message
<1>6. InFlight => InFlight'
    <2> SUFFICES ASSUME InFlight PROVE InFlight'
        OBVIOUS
    <2>1. PICK k \in 1 .. Len(input) : Carries(input, request, k)
        BY DEF InFlight
    <2>2. k \in 1 .. Len(input') /\ input'[k] = input[k]
        BY <1>0, <1>3
    <2>3. ASSUME NEW i \in 1 .. k - 1 PROVE input'[i].type \in {"+", "-"}
        BY <1>0, <1>3, <2>1 DEF Carries
    <2>4. ASSUME NEW i \in k + 1 .. Len(input') PROVE input'[i].type = "+"
        <3>1. CASE i = Len(input) + 1
            BY <1>3, <3>1 DEF Plus, Message
        <3>2. CASE i # Len(input) + 1
            <4>1. i \in k + 1 .. Len(input) /\ input'[i] = input[i]
                BY <1>0, <1>3, <3>2
            <4>. QED BY <2>1, <4>1 DEF Carries
        <3>. QED BY <3>1, <3>2
    <2>5. Carries(input', request, k)
        BY <2>1, <2>2, <2>3, <2>4 DEF Carries
    <2>6. AnswersUpTo(Len(output))'
        <3>1. AnswersUpTo(Len(output)) /\ Len(output) \in 0 .. Len(output)
            BY <1>0 DEF InFlight
        <3>2. \A i \in 1 .. Len(output) - 1 : output'[i].type = "answer"
            BY <1>4, <3>1
        <3>. QED BY <1>2, <3>2 DEF AnswersUpTo
    <2>. QED BY <1>1, <2>2, <2>5, <2>6 DEF InFlight
<1>7. Refused => Refused'
    <2> SUFFICES ASSUME Refused PROVE Refused'
        OBVIOUS
    <2>1. Len(output) >= 2
        BY <1>0, <1>2 DEF Refused
    <2>2. output'[Len(output')] = output[Len(output)]
        BY <1>0, <1>2, <2>1
    <2>3. AnswersUpTo(Len(output) - 1)'
        <3>1. AnswersUpTo(Len(output) - 1) /\ Len(output) - 1 \in 0 .. Len(output)
            BY <1>0, <2>1 DEF Refused
        <3>2. \A i \in 1 .. (Len(output) - 1) - 1 : output'[i].type = "answer"
            BY <1>4, <3>1
        <3>3. Len(output') - 1 = (Len(output) - 1) - 1
            BY <1>0, <1>2
        <3>. QED BY <3>2, <3>3 DEF AnswersUpTo
    <2>. QED BY <1>0, <1>1, <1>2, <1>5, <2>1, <2>2, <2>3 DEF Refused
<1>8. Acked => Acked'
    <2> SUFFICES ASSUME Acked PROVE Acked'
        OBVIOUS
    <2>1. Len(output) >= 3
        BY <1>0, <1>2 DEF Acked
    <2>2. /\ output'[Len(output')] = output[Len(output)]
          /\ output'[Len(output') - 1] = output[Len(output) - 1]
        BY <1>0, <1>2, <2>1
    <2>3. AnswersUpTo(Len(output) - 2)'
        <3>1. AnswersUpTo(Len(output) - 2) /\ Len(output) - 2 \in 0 .. Len(output)
            BY <1>0, <2>1 DEF Acked
        <3>2. \A i \in 1 .. (Len(output) - 2) - 1 : output'[i].type = "answer"
            BY <1>4, <3>1
        <3>3. Len(output') - 2 = (Len(output) - 2) - 1
            BY <1>0, <1>2
        <3>. QED BY <3>2, <3>3 DEF AnswersUpTo
    <2>. QED BY <1>0, <1>1, <1>2, <1>5, <2>1, <2>2, <2>3 DEF Acked
<1>9. AckedKill => AckedKill'
    <2> SUFFICES ASSUME AckedKill PROVE AckedKill'
        OBVIOUS
    <2>1. Len(output) >= 2
        BY <1>0, <1>2 DEF AckedKill
    <2>2. output'[Len(output')] = output[Len(output)]
        BY <1>0, <1>2, <2>1
    <2>3. AnswersUpTo(Len(output) - 1)'
        <3>1. AnswersUpTo(Len(output) - 1) /\ Len(output) - 1 \in 0 .. Len(output)
            BY <1>0, <2>1 DEF AckedKill
        <3>2. \A i \in 1 .. (Len(output) - 1) - 1 : output'[i].type = "answer"
            BY <1>4, <3>1
        <3>3. Len(output') - 1 = (Len(output) - 1) - 1
            BY <1>0, <1>2
        <3>. QED BY <3>2, <3>3 DEF AnswersUpTo
    <2>. QED BY <1>0, <1>1, <1>2, <1>5, <2>1, <2>2, <2>3 DEF AckedKill
<1>. QED BY <1>0, <1>1, <1>2, <1>6, <1>7, <1>8, <1>9 DEF Exchange, Waiting, Resting, Answerable

(* In the phase "answer" a "-" goes to the simulator and the rest stays.   *)
LEMMA AskAgain ==
    ASSUME TypeInv, Settled, phase = "answer", Sends(Minus),
           UNCHANGED <<stored, writable, request, phase>>,
           \A i \in 1 .. Len(output') : output'[i].type = "answer" /\ output'[i].n = stored
    PROVE  Settled'
<1> USE Numbers
<1>1. /\ Len(input') = Len(input) + 1
      /\ \A i \in 1 .. Len(input) : input'[i] = input[i]
      /\ input'[Len(input) + 1] = Minus
    BY MessageTypes, SendLast
<1>2. writable
    BY DEF Settled
<1>3. ASSUME NEW i \in 1 .. Len(input')
      PROVE  /\ input'[i].type \in {"+", "-", "eof"}
             /\ input'[i].type = "eof" => phase = "closed"
    BY <1>1 DEF Settled, Minus, Message
<1>. QED BY <1>2, <1>3 DEF Settled, Answerable

(* The answer it takes is the one to its request.                          *)
LEMMA AnswerKeeps == ASSUME LinkInv, Clean, GetAnswer PROVE Exchange'
<1> USE Numbers
<1>0. TypeInv /\ Exchange /\ Settled
    BY DEF LinkInv, Exchange, Resting, GetAnswer, Gets
<1>1. /\ phase' = "idle" /\ answers' = Append(answers, Head(output).n)
      /\ UNCHANGED <<len, stored, executed, writable, scanner, request>>
    BY DEF GetAnswer, simulatorVars
<1>2. /\ Len(output) >= 1 /\ Head(output) = output[1] /\ phase = "answer"
      /\ Len(output') = Len(output) - 1
      /\ \A i \in 1 .. Len(output) - 1 : output'[i] = output[i + 1]
    BY <1>0, GetFirst DEF GetAnswer
<1>3. /\ Len(input') = Len(input) + 1
      /\ \A i \in 1 .. Len(input) : input'[i] = input[i]
      /\ input'[Len(input) + 1] = Plus
    BY <1>0, MessageTypes, SendLast DEF GetAnswer
<1>4. request # Kill /\ stored = request /\ Head(output).n = request
    BY <1>0, <1>2 DEF Settled, Answerable
<1>5. \A i \in 1 .. Len(output') : output'[i].type = "answer" /\ output'[i].n = stored
    <2> SUFFICES ASSUME NEW i \in 1 .. Len(output')
                 PROVE  output'[i].type = "answer" /\ output'[i].n = stored
        OBVIOUS
    <2>1. output'[i] = output[i + 1] /\ i + 1 \in 1 .. Len(output)
        BY <1>0, <1>2
    <2>. QED BY <1>0, <2>1 DEF Settled
<1>6. ASSUME NEW i \in 1 .. Len(input')
      PROVE  /\ input'[i].type \in {"+", "-", "eof"}
             /\ input'[i].type = "-" => writable
             /\ input'[i].type # "eof"
    BY <1>0, <1>2, <1>3 DEF Settled, Plus, Message
<1>7. Settled'
    BY <1>0, <1>1, <1>4, <1>5, <1>6 DEF Settled, Answerable
<1>8. answers' = UpTo(request)
    <2>1. request - 1 \in Nat
        <3>1. Head(output) \in OutMessages /\ Head(output).type = "answer"
            BY <1>0, GetTypes DEF GetAnswer
        <3>. QED BY <1>0, <1>4, <3>1 DEF OutMessages
    <2>2. answers = UpTo(request - 1)
        BY <1>0, <1>2 DEF Exchange
    <2>3. Append(UpTo(request - 1), (request - 1) + 1) = UpTo((request - 1) + 1)
        BY <2>1, Counting
    <2>4. (request - 1) + 1 = request
        BY <1>0
    <2>. QED BY <1>1, <1>4, <2>2, <2>3, <2>4
<1>. QED BY <1>0, <1>1, <1>4, <1>7, <1>8 DEF Exchange, Waiting, Resting, Answerable

(* A damaged answer is asked for again.                                    *)
LEMMA WrongAnswerKeeps == ASSUME LinkInv, Clean, GetWrongAnswer PROVE Exchange'
<1> USE Numbers
<1>0. TypeInv /\ Exchange /\ Settled
    BY DEF LinkInv, Exchange, Resting, GetWrongAnswer, Gets
<1>1. UNCHANGED <<len, stored, executed, writable, scanner, phase, request, answers>>
    BY DEF GetWrongAnswer, simulatorVars, debuggerVars
<1>2. /\ Len(output) >= 1 /\ phase = "answer"
      /\ Len(output') = Len(output) - 1
      /\ \A i \in 1 .. Len(output) - 1 : output'[i] = output[i + 1]
    BY <1>0, GetFirst DEF GetWrongAnswer
<1>3. \A i \in 1 .. Len(output') : output'[i].type = "answer" /\ output'[i].n = stored
    BY <1>0, <1>2 DEF Settled
<1>4. Settled'
    BY <1>0, <1>1, <1>2, <1>3, AskAgain DEF GetWrongAnswer
<1>. QED BY <1>0, <1>1, <1>2, <1>4 DEF Exchange, Waiting, Resting, Answerable

(* Waiting for an answer, the debugger never meets an acknowledgement.     *)
LEMMA NoSkip == ASSUME LinkInv, Clean PROVE ~ SkipAck
<1> SUFFICES ASSUME NEW t \in {"+", "-"}, Gets("answer", t) PROVE FALSE
    BY DEF SkipAck
<1>0. TypeInv /\ Settled
    BY DEF LinkInv, Exchange, Resting, Gets
<1>1. Len(output) \in Nat /\ Len(output) >= 1 /\ output[1].type = t
    BY <1>0, GetFirst, Numbers
<1>. QED BY <1>0, <1>1 DEF Settled

(* The impatient debugger asks for the stored answer again.                *)
LEMMA NudgeKeeps == ASSUME LinkInv, Clean, Nudge PROVE Exchange'
<1>0. TypeInv /\ Exchange /\ Settled /\ phase = "answer"
    BY DEF LinkInv, Exchange, Resting, Nudge
<1>1. UNCHANGED <<output, len, stored, executed, writable, scanner, phase, request, answers>>
    BY DEF Nudge, simulatorVars, debuggerVars
<1>2. Settled'
    <2>1. \A i \in 1 .. Len(output') : output'[i].type = "answer" /\ output'[i].n = stored
        BY <1>0, <1>1 DEF Settled
    <2>. QED BY <1>0, <1>1, <2>1, AskAgain DEF Nudge
<1>. QED BY <1>0, <1>1, <1>2 DEF Exchange, Waiting, Resting, Answerable

(* A damaged checksum changes neither what a message is nor which request  *)
(* it is about, and the exchange depends on nothing else.                  *)
LEMMA SameMessages ==
    ASSUME TypeInv, Exchange,
           UNCHANGED <<len, stored, executed, writable, scanner, phase, request, answers>>,
           Len(input') = Len(input), Len(output') = Len(output),
           \A i \in 1 .. Len(input) : input'[i].type = input[i].type /\ input'[i].n = input[i].n,
           \A i \in 1 .. Len(output) : output'[i].type = output[i].type /\ output'[i].n = output[i].n
    PROVE  Exchange'
<1> USE Numbers
<1>1. OnlyAcks => OnlyAcks'
    BY DEF OnlyAcks
<1>2. ASSUME NEW k \in 0 .. Len(output), AnswersUpTo(k)
      PROVE  \A i \in 1 .. k : output'[i].type = "answer"
    BY <1>2 DEF AnswersUpTo
<1>3. InFlight => InFlight'
    <2> SUFFICES ASSUME InFlight PROVE InFlight'
        OBVIOUS
    <2>1. PICK k \in 1 .. Len(input) : Carries(input, request, k)
        BY DEF InFlight
    <2>2. Carries(input', request, k)
        BY <2>1 DEF Carries
    <2>3. AnswersUpTo(Len(output))'
        BY <1>2 DEF InFlight, AnswersUpTo
    <2>. QED BY <2>2, <2>3 DEF InFlight
<1>4. Refused => Refused'
    <2> SUFFICES ASSUME Refused PROVE Refused'
        OBVIOUS
    <2>1. Len(output) - 1 \in 0 .. Len(output) /\ AnswersUpTo(Len(output) - 1)
        BY DEF Refused
    <2>2. AnswersUpTo(Len(output) - 1)'
        BY <1>2, <2>1 DEF AnswersUpTo
    <2>. QED BY <1>1, <2>2 DEF Refused
<1>5. Acked => Acked'
    <2> SUFFICES ASSUME Acked PROVE Acked'
        OBVIOUS
    <2>1. Len(output) - 2 \in 0 .. Len(output) /\ AnswersUpTo(Len(output) - 2)
        BY DEF Acked
    <2>2. AnswersUpTo(Len(output) - 2)'
        BY <1>2, <2>1 DEF AnswersUpTo
    <2>3. Len(output) - 1 \in 1 .. Len(output) /\ Len(output) \in 1 .. Len(output)
        BY DEF Acked
    <2>4. /\ output'[Len(output) - 1].type = "+"
          /\ output'[Len(output)].type = "answer" /\ output'[Len(output)].n = request
        BY <2>3 DEF Acked
    <2>. QED BY <1>1, <2>2, <2>4 DEF Acked
<1>6. AckedKill => AckedKill'
    BY <1>1, <1>2 DEF AckedKill, AnswersUpTo
<1>7. Settled => Settled'
    BY DEF Settled, Answerable
<1>. QED BY <1>3, <1>4, <1>5, <1>6, <1>7 DEF Exchange, Waiting, Resting, Answerable

(* Damaging a checksum keeps the kind and the number of every message.     *)
LEMMA Damaged ==
    ASSUME NEW s \in Seq(Messages), NEW i \in DOMAIN s, NEW t, t = [s EXCEPT ![i].ok = FALSE]
    PROVE  /\ Len(t) = Len(s)
           /\ \A j \in 1 .. Len(s) : t[j].type = s[j].type /\ t[j].n = s[j].n
BY DEF Messages

(* A packet damaged on the way is still the packet in flight.              *)
LEMMA DamagePacketKeeps ==
    ASSUME LinkInv, Clean, NEW i \in DOMAIN input, DamagePacket(i) PROVE Exchange'
<1>0. TypeInv /\ Exchange /\ input \in Seq(Messages)
    BY SeqMonotonic DEF LinkInv, TypeInv, InMessages
<1>1. UNCHANGED <<output, len, stored, executed, writable, scanner, phase, request, answers>>
    BY DEF DamagePacket, simulatorVars, debuggerVars
<1>2. /\ Len(input') = Len(input)
      /\ \A j \in 1 .. Len(input) : input'[j].type = input[j].type /\ input'[j].n = input[j].n
    BY <1>0, Damaged DEF DamagePacket
<1>. QED BY <1>0, <1>1, <1>2, SameMessages

(* An answer damaged on the way is still that answer.                      *)
LEMMA DamageAnswerKeeps ==
    ASSUME LinkInv, Clean, NEW i \in DOMAIN output, DamageAnswer(i) PROVE Exchange'
<1>0. TypeInv /\ Exchange /\ output \in Seq(Messages)
    BY SeqMonotonic DEF LinkInv, TypeInv, OutMessages
<1>1. UNCHANGED <<input, len, stored, executed, writable, scanner, phase, request, answers>>
    BY DEF DamageAnswer, simulatorVars, debuggerVars
<1>2. /\ Len(output') = Len(output)
      /\ \A j \in 1 .. Len(output) : output'[j].type = output[j].type /\ output'[j].n = output[j].n
    BY <1>0, Damaged DEF DamageAnswer
<1>. QED BY <1>0, <1>1, <1>2, SameMessages

(* A retry or noise once is never undone.                                  *)
LEMMA CleanBefore == ASSUME TypeInv, [Next]_vars, Clean' PROVE Clean /\ ~ Retry /\ \A i : ~ MakeNoise(i)
<1>1. faults.noises \in Nat /\ faults.retries \in Nat
    BY DEF TypeInv
<1>2. ~ Retry
    BY <1>1 DEF Retry, Clean, TypeInv
<1>3. ASSUME NEW i PROVE ~ MakeNoise(i)
    BY <1>1 DEF MakeNoise, Clean, TypeInv
<1>4. Clean
    <2>1. CASE Scan
        BY <2>1 DEF Scan, ScanPlus, ScanMinus, ScanWrongPacket, ScanPacket, ScanKill, ScanOther,
                    ScanNewline, ScanEof, Clean
    <2>2. CASE Debugger
        BY <2>2 DEF Debugger, SendRequest, Close, GetAck, GetRefusal, GetOldAnswer, GetAnswer,
                    GetWrongAnswer, SkipAck, Clean
    <2>3. CASE Fault
        <3>1. CASE Nudge
            BY <3>1 DEF Nudge, Clean, TypeInv
        <3>2. CASE \E i \in DOMAIN input : DamagePacket(i)
            BY <3>2 DEF DamagePacket, Clean, TypeInv
        <3>3. CASE \E i \in DOMAIN output : DamageAnswer(i)
            BY <3>3 DEF DamageAnswer, Clean, TypeInv
        <3>. QED BY <1>2, <1>3, <2>3, <3>1, <3>2, <3>3 DEF Fault
    <2>4. CASE UNCHANGED vars
        BY <2>4 DEF vars, Clean
    <2>. QED BY <2>1, <2>2, <2>3, <2>4 DEF Next, Over
<1>. QED BY <1>2, <1>3, <1>4

(* Every step keeps the invariant: one lemma per action.                   *)
LEMMA LinkStep == LinkInv /\ [Next]_vars => LinkInv'
<1> SUFFICES ASSUME LinkInv, [Next]_vars, Clean' PROVE Exchange'
    BY TypeStep DEF LinkInv
<1>1. Clean /\ ~ Retry /\ \A i : ~ MakeNoise(i)
    BY CleanBefore DEF LinkInv
<1>2. CASE Scan
    BY <1>1, <1>2, PlusKeeps, MinusKeeps, WrongPacketKeeps, PacketKeeps, KillKeeps, NoOther, EofKeeps
       DEF Scan
<1>3. CASE Debugger
    BY <1>1, <1>3, RequestKeeps, CloseKeeps, AckKeeps, RefusalKeeps, OldAnswerKeeps, AnswerKeeps,
       WrongAnswerKeeps, NoSkip DEF Debugger
<1>4. CASE Fault
    BY <1>1, <1>4, NudgeKeeps, DamagePacketKeeps, DamageAnswerKeeps DEF Fault
<1>5. CASE UNCHANGED vars
    <2>1. TypeInv /\ Exchange
        BY <1>1 DEF LinkInv
    <2>. QED BY <1>5, <2>1, SameMessages DEF vars, simulatorVars, debuggerVars
<1>. QED BY <1>2, <1>3, <1>4, <1>5 DEF Next, Over

(* It holds before the first message.                                      *)
LEMMA LinkInitial == Init => LinkInv
<1> SUFFICES ASSUME Init PROVE Exchange
    BY TypeInitial DEF LinkInv
<1>1. UpTo(0) = <<>>
    BY Counting, EmptySeq
<1>2. Requests \in Nat /\ Kill = Requests + 1 /\ Kill # 0
    BY LinkAssumption DEF Kill
<1>3. Len(input) = 0 /\ Len(output) = 0
    BY DEF Init
<1>4. Settled
    BY <1>2, <1>3 DEF Init, Settled, Answerable
<1>. QED BY <1>1, <1>2, <1>4 DEF Init, Exchange, Waiting, Resting, Answerable

(* What is on the way in either direction fits what the two ends have done *)
(* as long as the faults are damaged checksums and impatience.             *)
THEOREM LinkInvariant == Spec => []LinkInv
BY LinkInitial, LinkStep, PTL DEF Spec

(* No request is lost or executed twice by gdb_packet_analysis although    *)
(* packets and answers are damaged and asked for again, in a session of    *)
(* any length.                                                             *)
THEOREM RequestsExactlyOnce == Spec => []ExactlyOnce
<1>1. LinkInv => ExactlyOnce
    <2> SUFFICES ASSUME LinkInv, Clean
                 PROVE  executed = UpTo(Len(executed)) /\ Len(executed) \in {request - 1, request}
        BY DEF ExactlyOnce
    <2>0. TypeInv /\ Exchange
        BY DEF LinkInv
    <2>1. executed = UpTo(stored) /\ Len(executed) = stored
        BY <2>0, Counting, Numbers DEF Exchange
    <2>2. stored \in {request - 1, request}
        BY <2>0, Numbers DEF Exchange, Waiting, Resting, InFlight, Refused, Acked, AckedKill,
                             Settled, Answerable
    <2>. QED BY <2>1, <2>2
<1>. QED BY <1>1, LinkInvariant, PTL

(* The answer the debugger takes is the one to its request: what           *)
(* gdb_transmit_packet repeats is never taken for the next one.            *)
THEOREM AnswersAreOwn == Spec => []OwnAnswers
<1>1. LinkInv => OwnAnswers
    <2> SUFFICES ASSUME LinkInv, Clean PROVE answers = UpTo(Len(answers))
        BY DEF OwnAnswers, AnswersMatch
    <2>0. TypeInv /\ Exchange
        BY DEF LinkInv
    <2>1. PICK n \in Nat : answers = UpTo(n)
        <3>1. phase \in {"ack", "answer"} => request >= 1
            BY <2>0, Numbers DEF TypeInv
        <3>. QED BY <2>0, <3>1, Numbers DEF Exchange, Answerable
    <2>. QED BY <2>1, Counting
<1>. QED BY <1>1, LinkInvariant, PTL

(* The simulator never writes to the socket that kill_request shut down.   *)
THEOREM NoWriteAfterKill == Spec => []NeverKilled
<1>1. LinkInv => NeverKilled
    BY DEF LinkInv, Exchange, NeverKilled
<1>. QED BY <1>1, LinkInvariant, PTL
=============================================================================
