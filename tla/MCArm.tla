------------------------------- MODULE MCArm -------------------------------
(***************************************************************************)
(* Arm for TLC: sixteen-bit words (the reset value of the cpsr and the     *)
(* flags do not overlap) and one instruction, or a push and a pop.         *)
(***************************************************************************)
EXTENDS Arm, ArmPrograms

\* One instruction at address 0, run from several bases.  The low nine bits
\* of the word give a single transfer; from 512 on, a table gives the others.
Single(w) ==
    Low12([Blank EXCEPT !.op = 2, !.l = w % 2, !.p = (w \div 2) % 2, !.u = (w \div 4) % 2,
                        !.w = (w \div 8) % 2, !.b = (w \div 16) % 2, !.rn = 1,
                        !.rd = <<1, 2, 14, 15>>[((w \div 32) % 4) + 1]],
          <<0, 1, 4, 6>>[((w \div 128) % 4) + 1])

Others ==
    <<[Imm(13, 1, 15, 0, 1) EXCEPT !.rs = 4],       \* movs pc, #1, 8
      Imm(5, 1, 2, 1, 3), Imm(10, 1, 0, 2, 255),    \* adcs, cmp
      Imm(2, 1, 15, 14, 4),                         \* subs pc, lr, #4
      Imm(15, 1, 3, 0, 7), Imm(13, 1, 3, 0, 0),     \* mvns, movs
      [Blank EXCEPT !.p = 1, !.rd = 2],             \* mrs r2, cpsr
      [Blank EXCEPT !.p = 1, !.b = 1, !.rd = 2],    \* mrs r2, spsr
      [Blank EXCEPT !.cond = 15], [Blank EXCEPT !.op = 6], [Blank EXCEPT !.op = 7],
      Swi(1), Swi(ExitNumber), Branch(14, 1, -2), Branch(11, 0, 5),
      [Blank EXCEPT !.op = 3, !.p = 1, !.l = 1, !.rn = 1, !.rd = 2, !.rm = 4, !.rs = 1, !.sh = 2]>>

\* ldm and stm in every mode, with one to three registers, the pc among them.
Lists == <<{2}, {2, 3}, {0, 2, 15}, {3, 14}>>
ManyOf(k) ==
    [Multiple(k % 2, (k \div 2) % 2, (k \div 4) % 2, (k \div 8) % 2, 1,
              Lists[((k \div 32) % 4) + 1]) EXCEPT !.b = (k \div 16) % 2]

\* ldrh and strh, with the offset in the instruction or in a register.
HalfOf(w) == [Blank EXCEPT !.l = w % 2, !.p = (w \div 2) % 2, !.u = (w \div 4) % 2,
                         !.w = (w \div 8) % 2, !.b = (w \div 16) % 2, !.rn = 1,
                         !.rd = 2 - ((w \div 32) % 2), !.rm = 3 + ((w \div 32) % 2),
                         !.b7 = 1, !.sh = 1, !.b4 = 1]

DecodeLow(w) == CASE w < 512 -> Single(w)
                  [] w \in 512 .. 639 -> ManyOf(w - 512)
                  [] w \in 640 .. 640 + Len(Others) - 1 -> Others[w - 639]
                  [] w \in 700 .. 763 -> HalfOf(w - 700)
                  [] w \in 640 + Len(Others) .. 699 \/ w > 763 -> [Blank EXCEPT !.op = 6]

\* From 1024 on, the transfers of before with the pc as base and offset, from
\* 2048 on the multiple ones with the base in the list.
DecodeTransfer(w) == CASE w < 1024 -> DecodeLow(w)
                       [] w \in 1024 .. 2047 -> [DecodeLow(w - 1024) EXCEPT
                            !.rn = 15, !.rm = IF w >= 1024 + 700 THEN 15 ELSE @]
                       [] w >= 2048 -> [DecodeLow(w - 2048) EXCEPT !.rn = 14]
ImagesTransfer ==
    {Image(<<w, 4660, 22136, 43981>>) :
        w \in (0 .. 640 + Len(Others) - 1) \cup (700 .. 763) \cup (1024 .. 1024 + 639)
              \cup (1024 + 700 .. 1024 + 763) \cup (2048 + 512 .. 2048 + 639)}

TransferBases == {WithBase(base) : base \in {0, 4, 9, 12, 13, 16, 20, 65532}}

-----------------------------------------------------------------------------
\* A push, stmdb r1!, two registers overwritten, a pop, ldmia r1!, swi.
ImagesPush == {Image(<<1 + 5 + 8 * j, 129, 130, 131, 65 + 6 + 8 * j, 132>>) : j \in 0 .. 3}
PushBases == {WithBase(44)}

(* The ARMv5 instruction set that README says is emulated: a push (stmdb)  *)
(* is undone by a pop (ldmia), the base register included.                 *)
PushPop ==
    writes = 1 /\ result = EXIT =>
        \A i \in {1} \cup RegisterList(DecodeProgram(arm_read(arm, 0, 4))) :
            Reg(arm, i) = WithBase(44)[i]
=============================================================================
