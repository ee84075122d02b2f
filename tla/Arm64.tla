--------------------------------- MODULE Arm64 ---------------------------------
(***************************************************************************)
(* The part of the ARM64 instruction set the assembler aims at: which      *)
(* instruction a word is, and what the wide moves do to a register.  Words *)
(* are sets of bit numbers; an instruction is a name, the width it works   *)
(* at and its operands in the order of the assembly language.  This is the *)
(* architecture's side of the comparison and shares nothing with the       *)
(* encoders: a field is read where the manual has it, signed where it is   *)
(* signed there.                                                           *)
(***************************************************************************)
EXTENDS Integers, Sequences

\* Register 31 is the stack pointer in some operands and zero in the others.
SP == 31
ZR == 32

Ins(name, width, args) == [name |-> name, width |-> width, args |-> args]

\* The n bits from lo up, as a number without and with a sign.
RECURSIVE Field(_, _, _)
Field(w, lo, n) ==
    IF n = 0 THEN 0
    ELSE (IF lo \in w THEN 1 ELSE 0) + 2 * Field(w, lo + 1, n - 1)
Signed(w, lo, n) == Field(w, lo, n) - (IF (lo + n - 1) \in w THEN 2^n ELSE 0)

Decode(w) ==
    LET F(lo, n)  == Field(w, lo, n)
        Is(lo, n, v) == F(lo, n) = v
        Reg(lo)   == IF Is(lo, 5, 31) THEN ZR ELSE F(lo, 5)
        RegSP(lo) == F(lo, 5)
        width     == IF 31 \in w THEN 64 ELSE 32
        \* A load or store of one register, by the size in the top two bits.
        access    == 2^F(30, 2)
        load      == IF 22 \in w THEN "ldr" ELSE "str"
        addSub    == IF 30 \in w THEN "sub" ELSE "add"
    IN
    CASE Is(23, 6, 34) /\ Is(29, 1, 0) /\ Is(22, 1, 0) ->
             Ins(addSub \o "_imm", width, <<RegSP(0), RegSP(5), F(10, 12)>>)
      [] Is(24, 5, 11) /\ Is(29, 1, 0) /\ Is(21, 3, 0) /\ Is(10, 6, 0) ->
             Ins(addSub, width, <<Reg(0), Reg(5), Reg(16)>>)
      [] Is(24, 7, 42) /\ Is(21, 3, 0) /\ Is(10, 6, 0) ->
             Ins("orr", width, <<Reg(0), Reg(5), Reg(16)>>)
      [] Is(21, 10, 216) /\ Is(10, 6, 31) ->
             Ins("mul", width, <<Reg(0), Reg(5), Reg(16)>>)
      [] Is(21, 10, 214) /\ Is(10, 6, 3) ->
             Ins("sdiv", width, <<Reg(0), Reg(5), Reg(16)>>)
      [] Is(23, 6, 37) /\ F(29, 2) \in {2, 3} /\ (width = 32 => Is(22, 1, 0)) ->
             Ins(IF Is(29, 2, 2) THEN "movz" ELSE "movk", width,
                 <<Reg(0), F(21, 2), F(5, 16)>>)
      [] Is(26, 6, 37) -> Ins("bl", 64, <<4 * Signed(w, 0, 26)>>)
      [] Is(25, 7, 107) /\ F(21, 4) \in 0 .. 2 /\ Is(10, 11, 1984) /\ Is(0, 5, 0) ->
             Ins(<<"br", "blr", "ret">>[F(21, 4) + 1], 64, <<Reg(5)>>)
      [] Is(24, 6, 57) /\ F(22, 2) \in {0, 1} ->
             Ins(load, 8 * access, <<Reg(0), RegSP(5), access * F(10, 12)>>)
      [] Is(24, 6, 56) /\ F(22, 2) \in {0, 1} /\ Is(21, 1, 0) /\ Is(10, 2, 3) ->
             Ins(load \o "_pre", 8 * access, <<Reg(0), RegSP(5), Signed(w, 12, 9)>>)
      [] Is(26, 4, 10) /\ Is(30, 1, 0) /\ F(23, 3) \in {1, 3} ->
             Ins((IF 22 \in w THEN "ldp" ELSE "stp")
                     \o (IF Is(23, 3, 1) THEN "_post" ELSE "_pre"),
                 width,
                 <<Reg(0), Reg(10), RegSP(5), (width \div 8) * Signed(w, 15, 7)>>)
      [] OTHER -> Ins("other", width, <<>>)

(***************************************************************************)
(* What a movz or a movk leaves in its register, as four halfwords.  An    *)
(* instruction of 32 bits clears the upper half.                           *)
(***************************************************************************)
Moved(ins, old) ==
    [k \in 1 .. 4 |->
        IF k = ins.args[2] + 1 THEN ins.args[3]
        ELSE IF ins.name = "movz" \/ (ins.width = 32 /\ k > 2) THEN 0
        ELSE old[k]]

RECURSIVE MovedBy(_, _)
MovedBy(code, old) ==
    IF code = <<>> THEN old ELSE MovedBy(Tail(code), Moved(Head(code), old))
===============================================================================
