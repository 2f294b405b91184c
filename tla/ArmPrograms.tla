---------------------------- MODULE ArmPrograms ----------------------------
(***************************************************************************)
(* Programs for the runs: instructions put together from their fields, and *)
(* memories whose words a table decodes.                                   *)
(***************************************************************************)
EXTENDS ArmStep, Sequences, FiniteSetsExt

Blank == [cond |-> 14, op |-> 0, p |-> 0, u |-> 0, b |-> 0, w |-> 0, l |-> 0, rn |-> 0,
          rd |-> 0, rs |-> 0, b7 |-> 0, sh |-> 0, b4 |-> 0, rm |-> 0]

\* Fields 11-0 and 15-0 from a number, 23-0 from a number or its complement.
Low12(i, k) == [i EXCEPT !.rs = k \div 256, !.b7 = (k \div 128) % 2, !.sh = (k \div 32) % 4,
                         !.b4 = (k \div 16) % 2, !.rm = k % 16]
Low16(i, k) == Low12([i EXCEPT !.rd = k \div 4096], k % 4096)
Low24(i, k) == Low16([i EXCEPT !.u = k \div 2^23, !.b = (k \div 2^22) % 2,
                               !.w = (k \div 2^21) % 2, !.l = (k \div 2^20) % 2,
                               !.rn = (k \div 2^16) % 16], k % 2^16)
List(i, S) == Low16(i, SumSet({2^k : k \in S}))

Imm(op, s, rd, rn, k) ==
    Low12([Blank EXCEPT !.op = 1, !.p = op \div 8, !.u = (op \div 4) % 2,
                        !.b = (op \div 2) % 2, !.w = op % 2, !.l = s, !.rd = rd, !.rn = rn], k)
Mov(rd, rm) == [Blank EXCEPT !.p = 1, !.u = 1, !.w = 1, !.rd = rd, !.rm = rm]
Branch(cond, link, k) == Low24([Blank EXCEPT !.op = 5, !.cond = cond, !.p = link], k % 2^24)
Swi(k) == Low24([Blank EXCEPT !.op = 7, !.p = 1], k)
Multiple(load, before, up, back, base, S) ==
    List([Blank EXCEPT !.op = 4, !.l = load, !.p = before, !.u = up, !.w = back,
                       !.rn = base], S)

\* The memory that holds the words of a sequence.
Image(words) ==
    [a \in 0 .. Size - 1 |->
        IF a \div 4 < Len(words)
        THEN Digit(words[a \div 4 + 1], IF TargetBigEndian THEN 3 - (a % 4) ELSE a % 4)
        ELSE 0]

\* Examples/example1.s, with main at address 0, where RESET starts.
Example1 == <<Imm(13, 0, 0, 0, 5),     \*  0 main: mov  r0, #5
              Branch(14, 1, 1),        \*  4 loop: bl   decr
              Branch(1, 0, -3),        \*  8       bne  loop
              Swi(ExitNumber),         \* 12       swi  0x123456
              Imm(2, 1, 0, 0, 1),      \* 16 decr: subs r0, r0, #1
              Mov(15, 14)>>            \* 20       mov  pc, lr

ImageExample1 == Image(<<133, 134, 135, 136, 137, 138>>)

\* The base in r1 is at, around and beyond both ends of the memory.
WithBase(base) == [i \in 0 .. 16 |-> CASE i = 1 -> base
                                       [] i = 2 -> 48879
                                       [] i = 14 -> 12
                                       [] i \in {3, 4} -> i
                                       [] i = 16 -> 8192 + 19
                                       [] i \notin {1, 2, 3, 4, 14, 16} -> 0]

-----------------------------------------------------------------------------
\* stm, two instructions that overwrite what was saved, ldm, swi.
\* Word 1 + k with k < 64 stores and 65 + k loads: mode, write-back and list.
SaveLists == <<{2}, {2, 3}, {2, 14}, {2, 3, 14}>>
SaveOf(load, k) == Multiple(load, k % 2, (k \div 2) % 2, (k \div 4) % 2, 1,
                            SaveLists[((k \div 8) % 4) + 1])
DecodeProgram(w) == CASE w \in 1 .. 64 -> SaveOf(0, w - 1)
                      [] w \in 65 .. 128 -> SaveOf(1, w - 65)
                      [] w = 129 -> Imm(13, 0, 2, 0, 0)
                      [] w = 130 -> Imm(13, 0, 3, 0, 0)
                      [] w = 131 -> Branch(14, 1, -1)      \* bl to the next one
                      [] w = 132 -> Swi(ExitNumber)
                      [] w \in 133 .. 138 -> Example1[w - 132]
                      [] w \notin 1 .. 138 -> [Blank EXCEPT !.op = 6]
=============================================================================
