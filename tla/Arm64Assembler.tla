----------------------------- MODULE Arm64Assembler -----------------------------
(***************************************************************************)
(* Arm64Assembler: one encoder per ARM64 instruction, over CodeBuffer, an  *)
(* executable mapping that is filled from its start.  An encoder asserts   *)
(* what it can encode, ors the fields of a word together and emits it; it  *)
(* never looks at the end of the mapping.                                  *)
(*                                                                         *)
(* A word is the set of its bits that are one, so | is \cup.  Addresses    *)
(* are bytes from the start of the mapping.  A register is its number; an  *)
(* immediate wider than 16 bits is given by its halfwords, lowest first.   *)
(***************************************************************************)
EXTENDS Integers, Sequences

CONSTANTS
    Programs,     \* what clients do: sequences of calls [op, args]
    Sizes,        \* sizes in bytes the constructor is asked for
    Page,         \* what mmap rounds a length up to
    MaxInt        \* INT_MAX

\* A call of a member function.
Invocation == [op : STRING, args : Seq(Int)]

ASSUME ProgramsAssumption == Programs \subseteq Seq(Invocation)
ASSUME PageAssumption == Page \in Nat \ {0} /\ Page % 4 = 0
ASSUME SizesAssumption == Sizes \subseteq Int
ASSUME MaxIntAssumption == MaxInt \in Nat

VARIABLES
    calls,        \* the client's calls, and the number of the next one
    next,
    memory,       \* address of a word -> the word
    pos,          \* _pos
    snippet,      \* _code: where the current snippet starts
    capacity,     \* _capacity
    status

vars == <<calls, next, memory, pos, snippet, capacity, status>>

\* "unmapped": mmap has failed, and rounding MAP_FAILED up to a multiple of 4
\* has made a null pointer of it.  "wild": a word was written outside the
\* mapping.
Status == {"open", "unmapped", "aborted", "wild"}

\* ALIGN.
Align(x, n) == ((x + n - 1) \div n) * n
Mapped == Align(capacity, Page)

-------------------------------------------------------------------------------
(* Words. *)

Bits(v) == {k \in 0 .. 30 : (v \div 2^k) % 2 = 1}

\* v << at, in 32 bits.
Put(v, at) == {k + at : k \in Bits(v)} \cap (0 .. 31)

\* The low n bits of an int, as & with a mask of ones has them.
Low(v, n) == v % 2^n

\* An opcode, given by its upper halfword.
Opcode(h) == Put(h, 16)

-------------------------------------------------------------------------------
(* The encoders, a group for each way of laying out the operands.          *)
(* Arguments are in the order of the C++ parameters.                       *)

\* Opcodes of op dst, src1, src2.
ArithmeticOp ==
    [add32 |-> \h0b00, add64 |-> \h8b00, sub32 |-> \h4b00, sub64 |-> \hcb00,
     mul32 |-> \h1b00, mul64 |-> \h9b00, div32 |-> \h1ac0, div64 |-> \h9ac0]

\* Bits 10 to 14 of the products and quotients.
Operation(op) ==
    IF op \in {"mul32", "mul64"} THEN Put(31, 10)
    ELSE IF op \in {"div32", "div64"} THEN Put(3, 10)
    ELSE {}

\* Mutant: the two sources change places.
Arithmetic_Swapped(op, a) ==
    Opcode(ArithmeticOp[op]) \cup Operation(op)
        \cup Put(a[1], 0) \cup Put(a[3], 5) \cup Put(a[2], 16)

Arithmetic(op, a) ==
    Opcode(ArithmeticOp[op]) \cup Operation(op)
        \cup Put(a[1], 0) \cup Put(a[2], 5) \cup Put(a[3], 16)

\* op dst, src: an or with the zero register.
MoveOp == [mov32 |-> \h2a00, mov64 |-> \haa00]
Move(op, a) == Opcode(MoveOp[op]) \cup Put(31, 5) \cup Put(a[1], 0) \cup Put(a[2], 16)

\* op dst, src1, imm.
ImmediateOp ==
    [add32_imm |-> \h1100, add64_imm |-> \h9100, sub32_imm |-> \h5100, sub64_imm |-> \hd100]
Immediate(op, a) ==
    Opcode(ImmediateOp[op]) \cup Put(a[1], 0) \cup Put(a[2], 5) \cup Put(a[3], 10)

\* Loads and stores; the stores of 4 and 8 bytes take the base first.
TransferOp ==
    [str32 |-> \hb900, str64 |-> \hf900, ldr32 |-> \hb940, ldr64 |-> \hf940,
     strh |-> \h7900, ldrh |-> \h7940]
BaseFirst == {"str32", "str64", "str32_pre_index", "str64_pre_index"}
Halves == {"strh", "ldrh"}

Wide ==
    {"str64", "ldr64", "ldp_pre_index64", "ldp_post_index64", "stp_pre_index64",
     "stp_post_index64"}
Bytes(op) == IF op \in Wide THEN 8 ELSE IF op \in Halves THEN 2 ELSE 4

\* The transferred register and the base.
Data(op, a) == IF op \in BaseFirst THEN Put(a[2], 0) ELSE Put(a[1], 0)
BaseReg(op, a) == IF op \in BaseFirst THEN Put(a[1], 5) ELSE Put(a[2], 5)

Transfer(op, a) ==
    Opcode(TransferOp[op]) \cup Data(op, a) \cup BaseReg(op, a)
        \cup Put(a[3] \div Bytes(op), 10)

\* Stores that write the base back: nine bits of offset, the sign apart.
PreIndexOp == [str32_pre_index |-> \hb800, str64_pre_index |-> \hf800]
PreIndex(op, a) ==
    Opcode(PreIndexOp[op]) \cup Put(3, 10) \cup Data(op, a) \cup BaseReg(op, a)
        \cup (IF a[3] >= 0 THEN Put(a[3], 12)
              ELSE IF a[3] = -256 THEN Put(\h1ff, 12)
              ELSE Put(Low(a[3], 8), 12) \cup {21})

\* op reg1, reg2, base, offset: seven bits of offset, the sign apart.
PairOp ==
    [ldp_pre_index64 |-> \ha9c0, ldp_pre_index32 |-> \h29c0,
     ldp_post_index64 |-> \ha8c0, ldp_post_index32 |-> \h29c0,
     stp_pre_index64 |-> \ha980, stp_pre_index32 |-> \h2980,
     stp_post_index64 |-> \ha880, stp_post_index32 |-> \h2880]
Pair(op, a) ==
    Opcode(PairOp[op]) \cup Put(a[1], 0) \cup Put(a[3], 5) \cup Put(a[2], 10)
        \cup Put(Low(a[4] \div Bytes(op), 6), 15)
        \cup (IF a[4] < 0 THEN {21} ELSE {})

BranchOp == [br |-> \hd61f, blr |-> \hd63f, ret |-> \hd65f]
Branch(op, a) == Opcode(BranchOp[op]) \cup Put(a[1], 5)

\* How far the label of a bl is from here, as the cast to an int leaves it.
Distance(a, here) == ((a[1] - here + MaxInt + 1) % (2 * (MaxInt + 1))) - (MaxInt + 1)

\* bl label, from here: the sign of the distance chooses between two opcodes.
Link(a, here) ==
    LET offset == Distance(a, here)
        val    == offset \div 4
    IN  IF offset > 0 THEN Opcode(\h9400) \cup Put(val, 0)
        ELSE Opcode(\h9600) \cup Put(-val, 0)

\* A move of sixteen bits; movk of none is left out.
MoveWide(h, dst, part) == Opcode(h) \cup Put(dst, 0) \cup Put(part, 5)
Keep(h, dst, part) == IF part = 0 THEN <<>> ELSE <<MoveWide(h, dst, part)>>

\* Mutant: the halfwords in the middle are skipped together.
MovImm64_Skips(a) ==
    <<MoveWide(\hd280, a[1], a[2])>>
        \o (IF a[3] = 0 THEN <<>>
            ELSE Keep(\hf2a0, a[1], a[3]) \o Keep(\hf2c0, a[1], a[4]))
        \o Keep(\hf2e0, a[1], a[5])

MovImm64(a) ==
    <<MoveWide(\hd280, a[1], a[2])>>
        \o Keep(\hf2a0, a[1], a[3]) \o Keep(\hf2c0, a[1], a[4])
        \o Keep(\hf2e0, a[1], a[5])

MovImm32(a) ==
    IF a[2] = 0 /\ a[3] = 0 THEN <<MoveWide(\h5280, a[1], 0)>>
    ELSE Keep(\h5280, a[1], a[2]) \o Keep(\h72a0, a[1], a[3])

Encoders ==
    DOMAIN ArithmeticOp \cup DOMAIN MoveOp \cup DOMAIN ImmediateOp
        \cup DOMAIN TransferOp \cup DOMAIN PreIndexOp \cup DOMAIN PairOp
        \cup DOMAIN BranchOp \cup {"bl", "mov_imm32", "mov_imm64"}

\* The least int has no negation: what bl asserts of it is undefined.
Unnegatable(op, a, here) == op = "bl" /\ Distance(a, here) = -(MaxInt + 1)

\* Mutant: the largest offset of a pair is refused.
Accepts_Strict(op, a, here) ==
    /\ op \in DOMAIN ImmediateOp => a[3] \in 0 .. 4095
    /\ op \in DOMAIN TransferOp \ Halves =>
           a[3] % Bytes(op) = 0 /\ a[3] \div Bytes(op) \in 0 .. 4095
    /\ op \in Halves => a[3] \div 2 \in 0 .. 4096
    /\ op \in DOMAIN PreIndexOp => a[3] \in -256 .. 255
    /\ op \in DOMAIN PairOp =>
           a[4] % Bytes(op) = 0 /\ a[4] \in (-64 * Bytes(op)) .. (63 * Bytes(op) - 1)
    /\ op = "bl" => \/ Unnegatable(op, a, here)
                    \/ Distance(a, here) \in (1 - \h3ffffff) .. (\h3ffffff - 1)

\* The assertions of an encoder; where one is undefined it may pass.
Accepts(op, a, here) ==
    /\ op \in DOMAIN ImmediateOp => a[3] \in 0 .. 4095
    /\ op \in DOMAIN TransferOp \ Halves =>
           a[3] % Bytes(op) = 0 /\ a[3] \div Bytes(op) \in 0 .. 4095
    /\ op \in Halves => a[3] \div 2 \in 0 .. 4096
    /\ op \in DOMAIN PreIndexOp => a[3] \in -256 .. 255
    /\ op \in DOMAIN PairOp =>
           a[4] % Bytes(op) = 0 /\ a[4] \in (-64 * Bytes(op)) .. (63 * Bytes(op))
    /\ op = "bl" => \/ Unnegatable(op, a, here)
                    \/ Distance(a, here) \in (1 - \h3ffffff) .. (\h3ffffff - 1)

-------------------------------------------------------------------------------
(* The constructor: mmap returns whole pages of zeros, or fails. *)
Init ==
    /\ calls \in Programs
    /\ next = 1
    /\ capacity \in {Align(size, 4) : size \in Sizes}
    /\ memory = [a \in {b \in 0 .. (Mapped - 1) : b % 4 = 0} |-> {}]
    /\ pos = 0
    /\ snippet = 0
    /\ status \in IF capacity > 0 THEN {"open", "unmapped"} ELSE {"aborted"}

Calls(ops) ==
    status \in {"open", "unmapped"} /\ next <= Len(calls) /\ calls[next].op \in ops
Op == calls[next].op
Args == calls[next].args
Passes(ops) == Calls(ops) /\ Accepts(Op, Args, pos)

\* The memory with words at the position.
Stored(words) ==
    [a \in DOMAIN memory |->
        IF a \in pos .. (pos + 4 * Len(words) - 1) THEN words[(a - pos) \div 4 + 1]
        ELSE memory[a]]

\* Mutant: the position counts words.
Emit_Unscaled(words) ==
    LET end == pos + 4 * Len(words)
    IN  /\ next' = next + 1
        /\ IF status = "open" /\ end <= Mapped
           THEN /\ memory' = Stored(words)
                /\ pos' = pos + Len(words)
                /\ UNCHANGED status
           ELSE status' = "wild" /\ UNCHANGED <<memory, pos>>
        /\ UNCHANGED <<calls, snippet, capacity>>

\* Mutant: the position moves on by one word, however many were emitted.
Emit_OneWord(words) ==
    LET end == pos + 4 * Len(words)
    IN  /\ next' = next + 1
        /\ IF status = "open" /\ end <= Mapped
           THEN /\ memory' = Stored(words)
                /\ pos' = pos + 4
                /\ UNCHANGED status
           ELSE status' = "wild" /\ UNCHANGED <<memory, pos>>
        /\ UNCHANGED <<calls, snippet, capacity>>

\* Emit, once for each word: nothing is checked.
Emit(words) ==
    LET end == pos + 4 * Len(words)
    IN  /\ next' = next + 1
        /\ IF status = "open" /\ end <= Mapped
           THEN /\ memory' = Stored(words)
                /\ pos' = end
                /\ UNCHANGED status
           ELSE status' = "wild" /\ UNCHANGED <<memory, pos>>
        /\ UNCHANGED <<calls, snippet, capacity>>

EmitArithmetic == Passes(DOMAIN ArithmeticOp) /\ Emit(<<Arithmetic(Op, Args)>>)
EmitMove       == Passes(DOMAIN MoveOp) /\ Emit(<<Move(Op, Args)>>)
EmitImmediate  == Passes(DOMAIN ImmediateOp) /\ Emit(<<Immediate(Op, Args)>>)
EmitTransfer   == Passes(DOMAIN TransferOp) /\ Emit(<<Transfer(Op, Args)>>)
EmitPreIndex   == Passes(DOMAIN PreIndexOp) /\ Emit(<<PreIndex(Op, Args)>>)
EmitPair       == Passes(DOMAIN PairOp) /\ Emit(<<Pair(Op, Args)>>)
EmitBranch     == Passes(DOMAIN BranchOp) /\ Emit(<<Branch(Op, Args)>>)
EmitLink       == Passes({"bl"}) /\ Emit(<<Link(Args, pos)>>)
EmitMovImm32   == Passes({"mov_imm32"}) /\ Emit(MovImm32(Args))
EmitMovImm64   == Passes({"mov_imm64"}) /\ Emit(MovImm64(Args))

\* An assertion of an encoder, before it emits anything.
Refuse ==
    /\ Calls(Encoders)
    /\ ~Accepts(Op, Args, pos) \/ Unnegatable(Op, Args, pos)
    /\ status' = "aborted"
    /\ UNCHANGED <<calls, next, memory, pos, snippet, capacity>>

\* The sum of MAP_FAILED and the capacity wraps around to a small address
\* above 0: without a mapping, the assertion does not fail.
HasRoom == status = "unmapped" \/ Align(pos, 4) < capacity

NewCodeSnippet ==
    /\ Calls({"NewCodeSnippet"})
    /\ HasRoom
    /\ pos' = Align(pos, 4)
    /\ snippet' = pos'
    /\ next' = next + 1
    /\ UNCHANGED <<calls, memory, capacity, status>>

NoRoom ==
    /\ Calls({"NewCodeSnippet"})
    /\ ~HasRoom
    /\ status' = "aborted"
    /\ UNCHANGED <<calls, next, memory, pos, snippet, capacity>>

Next ==
    \/ EmitArithmetic \/ EmitMove \/ EmitImmediate \/ EmitTransfer \/ EmitPreIndex
    \/ EmitPair \/ EmitBranch \/ EmitLink \/ EmitMovImm32 \/ EmitMovImm64
    \/ Refuse \/ NewCodeSnippet \/ NoRoom

Spec == Init /\ [][Next]_vars

-------------------------------------------------------------------------------
TypeOK ==
    /\ calls \in Seq(Invocation)
    /\ next \in 1 .. (Len(calls) + 1)
    /\ capacity \in Int /\ capacity % 4 = 0
    /\ DOMAIN memory = {b \in 0 .. (Mapped - 1) : b % 4 = 0}
    /\ \A a \in DOMAIN memory : memory[a] \subseteq 0 .. 31
    /\ pos \in Nat /\ pos % 4 = 0
    /\ snippet \in 0 .. pos /\ snippet % 4 = 0
    /\ status \in Status

\* The words that a step adds.
Added == [k \in 1 .. ((pos' - pos) \div 4) |-> memory'[pos + 4 * (k - 1)]]

\* A call writes only between the old position and the new one, whatever
\* snippets are begun in between: the code of one call follows that of the
\* calls before it, leaves it alone, and claims all that it wrote, so that what
\* a caller was handed by NewCodeSnippet stays what was emitted there.
AppendsOnly ==
    [][/\ pos <= pos'
       /\ \A a \in DOMAIN memory : a \in pos .. (pos' - 1) \/ memory'[a] = memory[a]]_vars
===============================================================================
