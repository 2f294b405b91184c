---------------------------- MODULE ArmLoadStore ----------------------------
(***************************************************************************)
(* arm_load_store.c: single transfers of a word, a half or a byte, and     *)
(* multiple transfers.  The base register is updated even when the access  *)
(* fails (the "base updated abort model" of the source).                   *)
(***************************************************************************)
EXTENDS ArmDataProcessing

decode_off(p, ins) ==
    LET rm == arm_read_register(p, ins.rm)
    IN  CASE ins.op % 2 = 0 -> imm12(ins)
          [] ins.op % 2 = 1 /\ ins.rs * 16 + ins.b7 * 8 + ins.sh * 2 + ins.b4 = 0 -> rm
          [] ins.op % 2 = 1 /\ ins.rs * 16 + ins.b7 * 8 + ins.sh * 2 + ins.b4 # 0 ->
               ShiftByImmediate(rm, ins.sh, shift_imm(ins),
                                get_bit(arm_read_cpsr(p), C)).so

decode_off_h(p, ins) == IF ins.b = 0 THEN ins.rs * 16 + ins.rm
                                     ELSE arm_read_register(p, ins.rm)

\* The updated base, and the address accessed: p = 0 is post-indexed.
Indexed(base, off, ins) == IF ins.u = 1 THEN Plus(base, off) ELSE Minus(base, off)
Accessed(base, off, ins) == IF ins.p = 1 THEN Indexed(base, off, ins) ELSE base

\* Variant: post-indexing does not update the base.
WriteBaseAsked(p, base, off, ins) ==
    IF ins.w = 1 THEN arm_write_register(p, ins.rn, Indexed(base, off, ins)) ELSE p

WriteBase(p, base, off, ins) ==
    IF ins.p = 0 \/ ins.w = 1
    THEN arm_write_register(p, ins.rn, Indexed(base, off, ins)) ELSE p

Truncate(v, n) == CASE n = 1 -> v % Base [] n = 2 -> v % (Base * Base) [] n = 4 -> v

\* str, strh and strb: n is the number of bytes.
Store(p, ins, off, n) ==
    LET base == arm_read_register(p, ins.rn)
        a    == Accessed(base, off, ins)
        q    == arm_write(p, a, n, Truncate(arm_read_register(p, ins.rd), n))
    IN  Ends(WriteBase(q, base, off, ins),
             IF Accessible(a, n) THEN 0 ELSE DATA_ABORT)

\* ldr, ldrh and ldrb: a failed access leaves the destination alone.  Only ldr
\* clears the low bits of a new pc.
Load(p, ins, off, n) ==
    LET base == arm_read_register(p, ins.rn)
        a    == Accessed(base, off, ins)
        q    == WriteBase(p, base, off, ins)
        v    == arm_read(p, a, n)
    IN  IF Accessible(a, n)
        THEN Ends(arm_write_register(q, ins.rd,
                      IF n = 4 /\ ins.rd = 15 THEN v - (v % 4) ELSE v), 0)
        ELSE Ends(q, DATA_ABORT)

str(p, ins, off)  == Store(p, ins, off, 4)
strh(p, ins, off) == Store(p, ins, off, 2)
strb(p, ins, off) == Store(p, ins, off, 1)
ldr(p, ins, off)  == Load(p, ins, off, 4)
ldrh(p, ins, off) == Load(p, ins, off, 2)
ldrb(p, ins, off) == Load(p, ins, off, 1)

\* Bit 26 tells words and bytes from halfs.
Transfer(p, ins, off) ==
    CASE ins.op \in {2, 3} /\ ins.b = 0 /\ ins.l = 0 -> str(p, ins, off)
      [] ins.op \in {2, 3} /\ ins.b = 0 /\ ins.l = 1 -> ldr(p, ins, off)
      [] ins.op \in {2, 3} /\ ins.b = 1 /\ ins.l = 0 -> strb(p, ins, off)
      [] ins.op \in {2, 3} /\ ins.b = 1 /\ ins.l = 1 -> ldrb(p, ins, off)
      [] ins.op \notin {2, 3} /\ ins.l = 1 -> ldrh(p, ins, off)
      [] ins.op \notin {2, 3} /\ ins.l = 0 -> strh(p, ins, off)
arm_load_store(p, ins) ==
    Transfer(p, ins, IF ins.op \in {2, 3} THEN decode_off(p, ins) ELSE decode_off_h(p, ins))

-----------------------------------------------------------------------------
\* The loops over the bits of the register list, register 0 first.
Ascending(visit(_, _), start, list) ==
    LET after[i \in 0 .. 16] ==
            IF i = 0 THEN start
            ELSE IF i - 1 \in list THEN visit(i - 1, after[i-1]) ELSE after[i-1]
    IN  after[16]

Move(a, k, ins) == IF ins.u = 1 THEN Plus(a, k) ELSE Minus(a, k)

Begin(p, ins) ==
    LET base == arm_read_register(p, ins.rn)
    IN  [p |-> p, address |-> IF ins.p = 1 THEN Move(base, 4, ins) ELSE base,
         value |-> 0, failed |-> FALSE]

\* The loop body of ldm: when the read fails, value is still that of the
\* previous register (0 at first) and is written all the same.
LoadOne(i, s, ins) ==
    LET ok == Accessible(s.address, 4)
        v  == IF ok THEN arm_read(s.p, s.address, 4) ELSE s.value
        w  == IF i = 15 THEN v - (v % 4) ELSE v
    IN  [p |-> IF ins.b = 1 THEN arm_write_usr_register(s.p, i, w)
                            ELSE arm_write_register(s.p, i, w),
         address |-> Move(s.address, 4, ins),
         value   |-> v,
         failed  |-> s.failed \/ ~ ok]

\* Variant: the address does not advance.
StoreOneStays(i, s, ins) ==
    [s EXCEPT !.p = arm_write(s.p, s.address, 4, arm_read_register(s.p, i))]

StoreOne(i, s, ins) ==
    LET v == IF ins.b = 1 THEN arm_read_usr_register(s.p, i) ELSE arm_read_register(s.p, i)
    IN  [s EXCEPT !.p = arm_write(s.p, s.address, 4, v),
                  !.address = Move(s.address, 4, ins),
                  !.failed = s.failed \/ ~ Accessible(s.address, 4)]

\* Variant: the address is written back as it is.
FinishThere(s, ins) ==
    Ends(IF ins.w = 1 THEN arm_write_register(s.p, ins.rn, s.address) ELSE s.p,
         IF s.failed THEN DATA_ABORT ELSE 0)

\* Undoes the first increment of the "before" modes.
Finish(s, ins) ==
    Ends(IF ins.w = 1
         THEN arm_write_register(s.p, ins.rn,
                  IF ins.p = 0 THEN s.address
                  ELSE IF ins.u = 1 THEN Minus(s.address, 4) ELSE Plus(s.address, 4))
         ELSE s.p,
         IF s.failed THEN DATA_ABORT ELSE 0)

\* With the S bit and the pc in the list, only the cpsr is loaded.
ldm(p, ins) ==
    LET list == RegisterList(ins)
    IN  CASE ins.b = 1 /\ 15 \in list /\ ~ arm_current_mode_has_spsr(p) -> Ends(p, CRASH)
          [] ins.b = 1 /\ 15 \in list /\ arm_current_mode_has_spsr(p) ->
               Finish(Begin(arm_write_cpsr(p, arm_read_spsr(p)), ins), ins)
          [] ins.b = 0 \/ 15 \notin list ->
               Finish(Ascending(LAMBDA i, s : LoadOne(i, s, ins), Begin(p, ins), list), ins)

stm(p, ins) ==
    Finish(Ascending(LAMBDA i, s : StoreOne(i, s, ins), Begin(p, ins), RegisterList(ins)), ins)

arm_load_store_multiple(p, ins) == IF ins.l = 1 THEN ldm(p, ins) ELSE stm(p, ins)
=============================================================================
