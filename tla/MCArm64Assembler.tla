---------------------------- MODULE MCArm64Assembler ----------------------------
(***************************************************************************)
(* Arm64Assembler against the instruction set: every encoder, with each    *)
(* operand at the limits of its field, just inside and just outside them,  *)
(* and with the stack pointer in every place of a register.                *)
(***************************************************************************)
EXTENDS Arm64Assembler, Arm64

Call(op, args) == [op |-> op, args |-> args]
CallsOf(ops, argss) == {Call(op, args) : op \in ops, args \in argss}

\* Two or three registers, and the stack pointer once in each place.
Triples == {<<1, 2, 30>>, <<0, 0, 0>>, <<31, 1, 2>>, <<1, 31, 2>>, <<1, 2, 31>>}
Doubles == {<<1, 30>>, <<31, 1>>, <<1, 31>>}
With(regs, values) == {r \o <<v>> : r \in regs, v \in values}
\* A wide move's operand: a register and halfwords.
Parts == {0, 1, \hffff}
Ones == <<\hffff, \hffff, \hffff, \hffff>>

\* Labels whose distance an int cannot hold, or just can: cut off it is 0,
\* small, of the other sign, the least int, or next to it.
Far == UNION {{n - 2^29, n + 2^29, n - 2^30, n + 2^30} : n \in {-64, 0, 4}}

Singles ==
    CallsOf(DOMAIN ArithmeticOp, Triples)
    \cup CallsOf(DOMAIN MoveOp, Doubles)
    \cup CallsOf(DOMAIN ImmediateOp, With(Doubles, {-1, 0, 1, 4095, 4096}))
    \cup CallsOf({"str32", "ldr32"}, With(Doubles, {-4, 0, 2, 4, 16380, 16384}))
    \cup CallsOf({"str64", "ldr64"}, With(Doubles, {-8, 0, 4, 8, 32760, 32768}))
    \cup CallsOf(Halves, With(Doubles, {-2, 0, 1, 2, 8190, 8191, 8192, 8193, 8194}))
    \cup CallsOf(DOMAIN PreIndexOp, With(Doubles, {-257, -256, -255, -8, -1, 0, 8, 255, 256}))
    \cup CallsOf({op \in DOMAIN PairOp : Bytes(op) = 8},
                 With(Triples, {-520, -512, -8, -4, 0, 8, 504, 512}))
    \cup CallsOf({op \in DOMAIN PairOp : Bytes(op) = 4},
                 With(Triples, {-260, -256, -4, -2, 0, 4, 252, 256}))
    \cup CallsOf(DOMAIN BranchOp, {<<0>>, <<30>>, <<31>>})
    \cup CallsOf({"bl"}, {<<a>> : a \in {-2^27, -2^26, 4 - 2^26, 0, 4, 6, 64,
                                         2^26 - 4, 2^26, 2^27 - 4, 2^27}
                                        \cup Far})
    \cup CallsOf({"mov_imm32"}, {<<r, l, h>> : r \in {0, 31}, l, h \in Parts})
    \cup CallsOf({"mov_imm64"}, {<<1, a, b, c, d>> : a, b, c, d \in Parts})

Snippet == Call("NewCodeSnippet", <<>>)
Others ==
    {Snippet, Call("mov_imm64", <<1>> \o Ones), Call("bl", <<0>>),
     Call("stp_pre_index64", <<29, 30, 31, -32>>)}

MCPrograms ==
    {<<c>> : c \in Singles} \cup {<<c, d>> : c \in Others, d \in Singles}
    \cup {<<c, Snippet, d>> : c, d \in Others}
MCSizes == {-3, 8, 13}

-------------------------------------------------------------------------------
(* What a call asks for. *)

ArmName ==
    [add32 |-> <<"add", 32>>, add64 |-> <<"add", 64>>, sub32 |-> <<"sub", 32>>,
     sub64 |-> <<"sub", 64>>, mul32 |-> <<"mul", 32>>, mul64 |-> <<"mul", 64>>,
     div32 |-> <<"sdiv", 32>>, div64 |-> <<"sdiv", 64>>,
     mov32 |-> <<"orr", 32>>, mov64 |-> <<"orr", 64>>,
     add32_imm |-> <<"add_imm", 32>>, add64_imm |-> <<"add_imm", 64>>,
     sub32_imm |-> <<"sub_imm", 32>>, sub64_imm |-> <<"sub_imm", 64>>,
     str32 |-> <<"str", 32>>, str64 |-> <<"str", 64>>, strh |-> <<"str", 16>>,
     ldr32 |-> <<"ldr", 32>>, ldr64 |-> <<"ldr", 64>>, ldrh |-> <<"ldr", 16>>,
     str32_pre_index |-> <<"str_pre", 32>>, str64_pre_index |-> <<"str_pre", 64>>,
     ldp_pre_index32 |-> <<"ldp_pre", 32>>, ldp_pre_index64 |-> <<"ldp_pre", 64>>,
     ldp_post_index32 |-> <<"ldp_post", 32>>, ldp_post_index64 |-> <<"ldp_post", 64>>,
     stp_pre_index32 |-> <<"stp_pre", 32>>, stp_pre_index64 |-> <<"stp_pre", 64>>,
     stp_post_index32 |-> <<"stp_post", 32>>, stp_post_index64 |-> <<"stp_post", 64>>,
     br |-> <<"br", 64>>, blr |-> <<"blr", 64>>, ret |-> <<"ret", 64>>,
     bl |-> <<"bl", 64>>]

Meaning(c, here) ==
    LET a == c.args
    IN  Ins(ArmName[c.op][1], ArmName[c.op][2],
            CASE c.op = "bl" -> <<a[1] - here>>
              [] c.op \in DOMAIN MoveOp -> <<a[1], ZR, a[2]>>
              [] c.op \in BaseFirst -> <<a[2], a[1], a[3]>>
              [] OTHER -> a)

\* The operands of a call that the instruction reads as zero for register 31.
ZeroOperands(c) ==
    CASE c.op \in DOMAIN ImmediateOp \cup {"bl"} -> {}
      [] c.op \in BaseFirst -> {2}
      [] c.op \in DOMAIN ArithmeticOp -> {1, 2, 3}
      [] c.op \in DOMAIN MoveOp \cup DOMAIN PairOp -> {1, 2}
      [] OTHER -> {1}

\* The immediate of a call fits the field its instruction has for it.
Representable(c, here) ==
    LET a == c.args
        Scaled(v, n) == v % n = 0 /\ v \div n \in 0 .. 4095
    IN  CASE c.op \in DOMAIN ImmediateOp -> a[3] \in 0 .. 4095
          [] c.op \in DOMAIN TransferOp -> Scaled(a[3], Bytes(c.op))
          [] c.op \in DOMAIN PreIndexOp -> a[3] \in -256 .. 255
          [] c.op \in DOMAIN PairOp ->
                 a[4] % Bytes(c.op) = 0 /\ a[4] \div Bytes(c.op) \in -64 .. 63
          [] c.op = "bl" -> (a[1] - here) % 4 = 0 /\ a[1] - here \in -2^27 .. (2^27 - 1)
          [] OTHER -> TRUE

\* The calls whose word is not the one they ask for although there is one: a
\* branch that does not go forward, a store that moves its base down, and the
\* 32-bit load pair that should write its base back afterwards.
Misencoded(c, here) ==
    \/ c.op = "bl" /\ c.args[1] <= here
    \/ c.op \in DOMAIN PreIndexOp /\ c.args[3] < 0
    \/ c.op = "ldp_post_index32"

Faithful(c, here) ==
    /\ \A k \in ZeroOperands(c) : c.args[k] # SP
    /\ Representable(c, here)
    /\ ~Misencoded(c, here)

MoveOps == {"mov_imm32", "mov_imm64"}
Grew(ops) == pos' > pos /\ calls[next].op \in ops
Instructions == [k \in DOMAIN Added |-> Decode(Added[k])]

\* The hand-made split of an instruction into fields: the word an encoder
\* emits decodes to the instruction and operands it was called with, exactly
\* for the calls that Faithful describes.  No other operand limit, sign or
\* register is encoded wrongly, and none of the ones it names is right: a bl
\* whose distance only looks small once it is cut off to an int is not.
EncodesCall ==
    [][Grew(Encoders \ MoveOps) =>
          (Instructions = <<Meaning(calls[next], pos)>>) <=> Faithful(calls[next], pos)]_vars

\* The assertions refuse nothing that the instruction could express, but for
\* bl: it reaches 64 MB where the instruction reaches the 128 MB of the
\* comment above (templategenerator.cpp:15).  A label that is too far even for
\* an int may pass them; EncodesCall says what becomes of it.
RefusesUnrepresentable ==
    [][(status' = "aborted" /\ calls[next].op \in Encoders) =>
          \/ ~Representable(calls[next], pos)
          \/ /\ calls[next].op = "bl"
             /\ calls[next].args[1] - pos \notin (4 - 2^26) .. (2^26 - 4)]_vars

\* Executing the moves that mov_imm32 and mov_imm64 emit, on a register with
\* any old value, leaves the immediate there, although parts that are zero are
\* left out; except that mov_imm32 of a multiple of 65536 keeps the old low
\* half, for want of a movz.
LoadsImmediate ==
    [][Grew(MoveOps) =>
          LET c == calls[next]
              imm == [k \in 1 .. 4 |-> IF k < Len(c.args) THEN c.args[k + 1] ELSE 0]
              kept == c.op = "mov_imm32" /\ c.args[2] = 0 /\ c.args[3] # 0
          IN  (/\ \A k \in DOMAIN Instructions :
                      /\ Instructions[k].name \in {"movz", "movk"}
                      /\ Instructions[k].args[1] = c.args[1]
               /\ \A old \in {Ones, <<1, 2, 3, 4>>} : MovedBy(Instructions, old) = imm)
              <=> (~kept /\ c.args[1] # SP)]_vars
===============================================================================
