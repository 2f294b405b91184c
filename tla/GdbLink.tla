------------------------------ MODULE GdbLink ------------------------------
(***************************************************************************)
(* scanner.l and the packet layer of gdb_protocol.c at one end of the      *)
(* connection, a debugger at the other.  A packet is acknowledged with "+" *)
(* when its checksum is right and refused with "-" otherwise; "-" from the *)
(* debugger has the stored answer sent again; every other character but a  *)
(* newline is collected in the scanner's error buffer.                     *)
(*                                                                         *)
(* Requests are numbered, and a handler is cut down to the request it      *)
(* executes; the answer to request n carries n.  What a handler does is    *)
(* the subject of Arm and of Simulator.                                    *)
(***************************************************************************)
EXTENDS Integers, Sequences

CONSTANTS
    MAX_ERROR_SIZE,   \* of scanner.l, 1024
    Requests,         \* bound: the requests of a session
    MaxDamages,       \* bound: checksums damaged on the way, in either direction
    MaxNoises,        \* bound: acknowledgements and packets turned into other characters
    MaxNudges,        \* bound: times the debugger loses patience waiting for an answer
    MaxRetries        \* bound: times it does so waiting for an acknowledgement

ASSUME LinkAssumption ==
    /\ MAX_ERROR_SIZE \in Nat /\ MAX_ERROR_SIZE >= 2
    /\ Requests \in Nat /\ MaxDamages \in Nat /\ MaxNoises \in Nat
    /\ MaxNudges \in Nat /\ MaxRetries \in Nat

VARIABLES
    input, output,      \* what is on the way to and from the simulator
    len,                \* parser_data.len: characters in the error buffer
    stored,             \* the request whose answer is in gdb->packet; 0: gdb->len = 0
    executed,           \* the requests handled so far, in order
    writable,           \* kill_request has not shut the output down
    scanner,            \* "scanning", "returned", or "killed" by SIGPIPE
    phase, request,     \* the debugger: what it waits for and its last request
    answers,            \* the answers it took
    faults              \* how often each fault happened
simulatorVars == <<len, stored, executed, writable, scanner>>
debuggerVars  == <<phase, request, answers>>
vars == <<input, output, simulatorVars, debuggerVars, faults>>

Message(t, n, ok) == [type |-> t, n |-> n, ok |-> ok]
Plus   == Message("+", 0, TRUE)
Minus  == Message("-", 0, TRUE)
Noise  == Message("noise", 0, TRUE)
Newline == Message("newline", 0, TRUE)
Eof    == Message("eof", 0, TRUE)
Packet(n) == Message("packet", n, TRUE)
Answer(n) == Message("answer", n, TRUE)

\* The request that is a kill packet.
Kill == Requests + 1

Init == /\ input = <<>> /\ output = <<>>
        /\ len = 0 /\ stored = 0 /\ executed = <<>> /\ writable = TRUE
        /\ scanner = "scanning"
        /\ phase = "idle" /\ request = 0 /\ answers = <<>>
        /\ faults = [damages |-> 0, noises |-> 0, nudges |-> 0, retries |-> 0]

-----------------------------------------------------------------------------
(* The simulator.                                                          *)

\* What handle_error sends before it empties the buffer.
handle_error == IF len > 0 THEN <<Minus>> ELSE <<>>

\* Variant: the answer before the last one is sent again.
gdb_transmit_packet_old == IF stored > 1 THEN <<Answer(stored - 1)>> ELSE <<Answer(1)>>

gdb_transmit_packet == IF stored > 0 THEN <<Answer(stored)>> ELSE <<>>

\* Writing to a socket that is shut down raises SIGPIPE.
Write(m, then) ==
    /\ output' = IF writable THEN output \o m ELSE output
    /\ scanner' = IF ~ writable /\ m # <<>> THEN "killed" ELSE then

Read(t) == scanner = "scanning" /\ input # <<>> /\ Head(input).type = t /\ input' = Tail(input)

ScanPlus == /\ Read("+")
            /\ Write(handle_error, "scanning") /\ len' = 0
            /\ UNCHANGED <<stored, executed, writable, debuggerVars, faults>>

ScanMinus == /\ Read("-")
             /\ Write(handle_error \o gdb_transmit_packet, "scanning") /\ len' = 0
             /\ UNCHANGED <<stored, executed, writable, debuggerVars, faults>>

\* Variant: gdb_packet_analysis goes on after a wrong checksum.
ScanWrongPacketRuns ==
    /\ Read("packet") /\ ~ Head(input).ok /\ Head(input).n # Kill
    /\ Write(handle_error \o <<Minus, Answer(Head(input).n)>>, "scanning") /\ len' = 0
    /\ stored' = Head(input).n /\ executed' = Append(executed, Head(input).n)
    /\ UNCHANGED <<writable, debuggerVars, faults>>
\* gdb_packet_analysis: a wrong checksum ends it, otherwise the handler runs.
ScanWrongPacket ==
    /\ Read("packet") /\ ~ Head(input).ok
    /\ Write(handle_error \o <<Minus>>, "scanning") /\ len' = 0
    /\ UNCHANGED <<stored, executed, writable, debuggerVars, faults>>
ScanPacket ==
    /\ Read("packet") /\ Head(input).ok /\ Head(input).n # Kill
    /\ Write(handle_error \o <<Plus, Answer(Head(input).n)>>, "scanning") /\ len' = 0
    /\ stored' = Head(input).n /\ executed' = Append(executed, Head(input).n)
    /\ UNCHANGED <<writable, debuggerVars, faults>>
\* Variants: a kill is handled like the others, or acknowledged too late.
ScanKillRuns ==
    /\ Read("packet") /\ Head(input).ok /\ Head(input).n = Kill
    /\ Write(handle_error \o <<Plus>>, "scanning") /\ len' = 0
    /\ writable' = FALSE /\ executed' = Append(executed, Kill)
    /\ UNCHANGED <<stored, debuggerVars, faults>>
ScanKillFirst ==
    /\ Read("packet") /\ Head(input).ok /\ Head(input).n = Kill
    /\ len' = 0 /\ writable' = FALSE /\ scanner' = "killed"
    /\ UNCHANGED <<output, stored, executed, debuggerVars, faults>>
\* kill_request answers nothing and shuts the output down.
ScanKill ==
    /\ Read("packet") /\ Head(input).ok /\ Head(input).n = Kill
    /\ Write(handle_error \o <<Plus>>, "scanning") /\ len' = 0
    /\ writable' = FALSE
    /\ UNCHANGED <<stored, executed, debuggerVars, faults>>

\* Variant: the buffer is emptied one character later.
ScanOtherLate ==
    /\ Read("noise")
    /\ IF len > MAX_ERROR_SIZE - 1
       THEN Write(handle_error, "scanning") /\ len' = 1
       ELSE len' = len + 1 /\ UNCHANGED <<output, scanner>>
    /\ UNCHANGED <<stored, executed, writable, debuggerVars, faults>>
\* add_character_to_error
ScanOther ==
    /\ Read("noise")
    /\ IF len > MAX_ERROR_SIZE - 2
       THEN Write(handle_error, "scanning") /\ len' = 1
       ELSE len' = len + 1 /\ UNCHANGED <<output, scanner>>
    /\ UNCHANGED <<stored, executed, writable, debuggerVars, faults>>

\* The pattern of the other characters leaves a newline out: flex's default rule
\* echoes it on the standard output.
ScanNewline == Read("newline") /\ UNCHANGED <<output, simulatorVars, debuggerVars, faults>>

\* Variant: the end of the input does not end the scanner.
ScanEofAgain == /\ scanner = "scanning" /\ input # <<>> /\ Head(input).type = "eof"
                /\ UNCHANGED vars
ScanEof == /\ Read("eof")
           /\ Write(handle_error, "returned") /\ len' = 0
           /\ UNCHANGED <<stored, executed, writable, debuggerVars, faults>>

Scan == \/ ScanPlus \/ ScanMinus \/ ScanWrongPacket \/ ScanPacket \/ ScanKill
        \/ ScanOther \/ ScanNewline \/ ScanEof

-----------------------------------------------------------------------------
(* The debugger, as the packet layer expects it to behave.                 *)
Sends(m) == input' = Append(input, m)

\* The requests, then possibly a kill.
SendRequest == /\ phase = "idle" /\ request <= Requests
               /\ request' = request + 1 /\ phase' = "ack"
               /\ Sends(Packet(request + 1))
               /\ UNCHANGED <<output, simulatorVars, answers, faults>>
Close == /\ phase = "idle" /\ request \in {Requests, Kill}
         /\ phase' = "closed"
         /\ Sends(Eof)
         /\ UNCHANGED <<output, simulatorVars, request, answers, faults>>

Gets(p, t) == /\ phase = p /\ output # <<>> /\ Head(output).type = t
              /\ output' = Tail(output)

\* It waits for "+", sends the packet again on "-", and takes an answer that
\* comes first for an old one.  A kill packet has no answer.
GetAck == /\ Gets("ack", "+")
          /\ phase' = IF request = Kill THEN "idle" ELSE "answer"
          /\ UNCHANGED <<input, simulatorVars, request, answers, faults>>
GetRefusal == /\ Gets("ack", "-")
              /\ Sends(Packet(request))
              /\ UNCHANGED <<simulatorVars, debuggerVars, faults>>
GetOldAnswer == /\ Gets("ack", "answer")
                /\ Sends(Plus)
                /\ UNCHANGED <<simulatorVars, debuggerVars, faults>>

\* It waits for an answer whose checksum is right.
GetAnswer == /\ Gets("answer", "answer") /\ Head(output).ok
             /\ phase' = "idle" /\ answers' = Append(answers, Head(output).n)
             /\ Sends(Plus)
             /\ UNCHANGED <<simulatorVars, request, faults>>
GetWrongAnswer == /\ Gets("answer", "answer") /\ ~ Head(output).ok
                  /\ Sends(Minus)
                  /\ UNCHANGED <<simulatorVars, debuggerVars, faults>>
SkipAck == /\ Gets("answer", "+") \/ Gets("answer", "-")
           /\ UNCHANGED <<input, simulatorVars, debuggerVars, faults>>

Debugger == \/ SendRequest \/ Close \/ GetAck \/ GetRefusal \/ GetOldAnswer
            \/ GetAnswer \/ GetWrongAnswer \/ SkipAck

-----------------------------------------------------------------------------
(* What goes wrong on the way, and the debugger's impatience.              *)
Nudge == /\ phase = "answer" /\ faults.nudges < MaxNudges
         /\ Sends(Minus) /\ faults' = [faults EXCEPT !.nudges = @ + 1]
         /\ UNCHANGED <<output, simulatorVars, debuggerVars>>
Retry == /\ phase = "ack" /\ faults.retries < MaxRetries
         /\ Sends(Packet(request)) /\ faults' = [faults EXCEPT !.retries = @ + 1]
         /\ UNCHANGED <<output, simulatorVars, debuggerVars>>
DamagePacket(i) == /\ faults.damages < MaxDamages /\ input[i].type = "packet"
                   /\ input' = [input EXCEPT ![i].ok = FALSE]
                   /\ faults' = [faults EXCEPT !.damages = @ + 1]
                   /\ UNCHANGED <<output, simulatorVars, debuggerVars>>
DamageAnswer(i) == /\ faults.damages < MaxDamages /\ output[i].type = "answer"
                   /\ output' = [output EXCEPT ![i].ok = FALSE]
                   /\ faults' = [faults EXCEPT !.damages = @ + 1]
                   /\ UNCHANGED <<input, simulatorVars, debuggerVars>>
\* A "+" becomes another character, maybe a newline; a packet loses its shape.
MakeNoise(i) == /\ faults.noises < MaxNoises
                /\ \E m \in {Noise, Newline} :
                     /\ input[i].type \in (IF m = Noise THEN {"+", "packet"} ELSE {"+"})
                     /\ input' = [input EXCEPT ![i] = m]
                /\ faults' = [faults EXCEPT !.noises = @ + 1]
                /\ UNCHANGED <<output, simulatorVars, debuggerVars>>

Fault == \/ Nudge \/ Retry
         \/ \E i \in DOMAIN input : DamagePacket(i) \/ MakeNoise(i)
         \/ \E i \in DOMAIN output : DamageAnswer(i)

Over == phase = "closed" /\ scanner # "scanning" /\ UNCHANGED vars

Next == Scan \/ Debugger \/ Fault \/ Over

\* The scanner reads what has arrived; the debugger goes on with its session.
Spec == Init /\ [][Next]_vars /\ WF_vars(Scan) /\ WF_vars(Debugger)

-----------------------------------------------------------------------------
Messages == [type : {"+", "-", "noise", "newline", "eof", "packet", "answer"},
             n : 0 .. Kill, ok : BOOLEAN]

(* The messages on the way and the state of both ends have their types.    *)
TypeOK == /\ input \in Seq(Messages) /\ output \in Seq(Messages)
          /\ len \in Nat /\ stored \in 0 .. Requests
          /\ executed \in Seq(1 .. Requests) /\ answers \in Seq(1 .. Requests)
          /\ writable \in BOOLEAN /\ scanner \in {"scanning", "returned", "killed"}
          /\ phase \in {"idle", "ack", "answer", "closed"} /\ request \in 0 .. Kill

(* add_character_to_error and handle_error store a character at index len  *)
(* of a buffer of MAX_ERROR_SIZE: it is always inside.                     *)
ErrorBufferBound == len < MAX_ERROR_SIZE

UpTo(n) == [i \in 1 .. n |-> i]

\* Nothing but checksums has been damaged, and no packet was sent without need.
Clean == faults.noises = 0 /\ faults.retries = 0

(* Checksums damaged in either direction and an impatient debugger neither *)
(* lose a request nor have one executed twice: handled are exactly the     *)
(* requests sent so far, in order, up to the one on the way.               *)
ExactlyOnce == Clean => /\ executed = UpTo(Len(executed))
                        /\ Len(executed) \in {request - 1, request}

(* The gdb remote protocol that README says is implemented: the answer the *)
(* debugger takes is the one to its request.                               *)
AnswersMatch == answers = UpTo(Len(answers))

(* With damaged checksums and an impatient debugger only, it is so: an     *)
(* answer that gdb_transmit_packet repeats is never taken for the next.    *)
OwnAnswers == Clean => AnswersMatch

(* After a kill the simulator writes nothing more, so that SIGPIPE does    *)
(* not end it before main has freed the processor, as long as the kill     *)
(* packet arrives whole and once.                                          *)
NeverKilled == Clean => scanner # "killed"

(* The session comes to its end: every request is answered although        *)
(* packets and answers may have to be repeated, and the scanner returns.   *)
SessionCompletes == []Clean => <>(scanner = "returned" /\ Len(answers) = Requests)
=============================================================================
