------------------------- MODULE ArmInstructionSet -------------------------
(***************************************************************************)
(* An instruction word cut into the fields the handlers look at.  bit 4 is *)
(* b4, bits 6-5 sh, bit 7 b7; rm, rs, rd, rn are the four-bit fields; l,   *)
(* w, b, u, p are bits 20 to 24 and op is bits 27-25.  Immediates and the  *)
(* register list overlap these fields and are put together from them.      *)
(***************************************************************************)
EXTENDS Integers

Bit == {0, 1}
Instructions ==
    [cond : 0 .. 15, op : 0 .. 7, p : Bit, u : Bit, b : Bit, w : Bit, l : Bit,
     rn : 0 .. 15, rd : 0 .. 15, rs : 0 .. 15, b7 : Bit, sh : 0 .. 3, b4 : Bit,
     rm : 0 .. 15]

imm8(ins)  == ins.b7 * 128 + ins.sh * 32 + ins.b4 * 16 + ins.rm
imm12(ins) == ins.rs * 256 + imm8(ins)
imm24(ins) == ins.u * 2^23 + ins.b * 2^22 + ins.w * 2^21 + ins.l * 2^20
                + ins.rn * 2^16 + ins.rd * 2^12 + imm12(ins)
opcode(ins) == ins.p * 8 + ins.u * 4 + ins.b * 2 + ins.w

\* The registers named by bits 15-0 of a multiple transfer.
RegisterList(ins) ==
    {i \in 0 .. 15 : ((ins.rd * 2^12 + imm12(ins)) \div 2^i) % 2 = 1}
=============================================================================
