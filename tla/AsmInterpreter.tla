----------------------------- MODULE AsmInterpreter -----------------------------
(***************************************************************************)
(* AsmInterpreter: the ARM64 template interpreter.  The constructor fills  *)
(* nine entries of a table of 256 handler addresses and leaves the others  *)
(* as they are; Run enters trampoline, and from there every handler ends   *)
(* by fetching the halfword at x0 and branching through the table.         *)
(*                                                                         *)
(* The stack is kept one value behind: w7 caches the topmost operand and   *)
(* x3 points past those below it, so the first push of a program writes    *)
(* whatever w7 held before it.  One step of the model is one handler,      *)
(* dispatch included; x0 counts halfwords from the start of the code and   *)
(* x3 counts 8-byte slots from the start of the stack.                     *)
(***************************************************************************)
EXTENDS Bytecode, FiniteSets

CONSTANTS
    Images,       \* code images, see ImageShape
    StackSlots,   \* slots in the stack
    LocalSlots    \* slots in the table of local variables

(***************************************************************************)
(* The certificate of an image: height[p] is the value of x3 whenever      *)
(* x0 = p is the start of an instruction.  Placed says when it is right.   *)
(***************************************************************************)
ImageShape(i) ==
    /\ i.code \in Seq(Halfword)
    /\ DOMAIN i.height \subseteq Nat
    /\ \A p \in DOMAIN i.height : i.height[p] \in Int

ASSUME ImagesAssumption == \A i \in Images : ImageShape(i)
ASSUME SlotsAssumption == StackSlots \in Nat \ {0} /\ LocalSlots \in Nat \ {0}

VARIABLES
    img,      \* the code
    x0,       \* pc
    x3,       \* stack pointer
    w7,       \* top of the stack
    stack,    \* memory below x3, and above it what was left there
    locals,   \* x2: the table of local variables
    out,      \* what printf wrote
    status

vars == <<img, x0, x3, w7, stack, locals, out, status>>

\* "wild": a branch through an entry never filled, or an access outside the
\* stack, the locals or the code.  Nothing is said of what follows.
Status == {"running", "done", "wild"}

ArithOps == {"IAdd", "ISub", "IMul", "IDiv"}
PushOps  == {"IConst", "LoadI"}

\* The entries of _bc_entry the constructor fills.
Filled == ArithOps \cup PushOps \cup {"StoreI", "PrintI", "Done"}

\* The halfword at x0 + k, and the handler the table has for the one at x0.
\* ldrsh sign-extends it; no opcode the emitter writes has its top bit set.
Half(k) == img.code[x0 + k + 1]
InCode(k) == x0 + k < Len(img.code)
Fetched == Decode(Half(0))

\* Slots below and above x3 that the handler of op touches, the halfwords it
\* reads before its dispatch, and the local it names.
InBounds(op) ==
    /\ op \in ArithOps \cup {"StoreI", "PrintI"} => x3 \in 1 .. StackSlots
    /\ op \in PushOps => x3 \in 0 .. (StackSlots - 1)
    /\ op \in {"LoadI", "StoreI"} => InCode(1) /\ Half(1) < LocalSlots
    /\ op = "IConst" => InCode(2)

Enters(op) ==
    status = "running" /\ InCode(0) /\ Fetched = op /\ op \in Filled /\ InBounds(op)

-------------------------------------------------------------------------------
Init ==
    /\ img \in Images
    /\ x0 = 0
    /\ x3 = 0
    /\ w7 = Garbage
    /\ stack = [s \in 0 .. (StackSlots - 1) |-> Garbage]
    /\ locals = [x \in 0 .. (LocalSlots - 1) |-> Junk(x)]
    /\ out = <<>>
    /\ status = "running"

\* Mutant: the operands of isub and idiv are the other way round.
Arith_Swapped ==
    \E op \in ArithOps :
        /\ Enters(op)
        /\ x3' = x3 - 1
        /\ w7' = App(op, <<stack[x3 - 1], w7>>)
        /\ x0' = x0 + 1
        /\ UNCHANGED <<img, stack, locals, out, status>>

\* iadd, isub, imul, idiv: x3 moves down, w7 is combined with what it points
\* at.  sdiv never traps.
Arith ==
    \E op \in ArithOps :
        /\ Enters(op)
        /\ x3' = x3 - 1
        /\ w7' = App(op, <<w7, stack[x3 - 1]>>)
        /\ x0' = x0 + 1
        /\ UNCHANGED <<img, stack, locals, out, status>>

\* Mutant: str w7, [x3], without the post-index.
Spill_NoIncrement ==
    /\ stack' = [stack EXCEPT ![x3] = w7]
    /\ UNCHANGED x3

\* str w7, [x3], #8
Spill ==
    /\ stack' = [stack EXCEPT ![x3] = w7]
    /\ x3' = x3 + 1

IConst ==
    /\ Enters("IConst")
    /\ Spill
    /\ w7' = Lit(SubSeq(img.code, x0 + 2, x0 + 3))
    /\ x0' = x0 + 3
    /\ UNCHANGED <<img, locals, out, status>>

\* Mutant: the index is not stepped over, as the argument count is not in
\* printi.s.
LoadI_KeepsIndex ==
    /\ Enters("LoadI")
    /\ Spill
    /\ w7' = locals[Half(1)]
    /\ x0' = x0 + 1
    /\ UNCHANGED <<img, locals, out, status>>

LoadI ==
    /\ Enters("LoadI")
    /\ Spill
    /\ w7' = locals[Half(1)]
    /\ x0' = x0 + 2
    /\ UNCHANGED <<img, locals, out, status>>

\* The new top is read from below x3, but x3 does not move.
StoreI ==
    /\ Enters("StoreI")
    /\ locals' = [locals EXCEPT ![Half(1)] = w7]
    /\ w7' = stack[x3 - 1]
    /\ x0' = x0 + 2
    /\ UNCHANGED <<img, x3, stack, out, status>>

\* Mutant: x3 is moved by the store and once more by the load of the new top.
PrintI_TwoSlots ==
    /\ Enters("PrintI")
    /\ out' = Append(out, w7)
    /\ stack' = [stack EXCEPT ![x3 - 1] = w7]
    /\ x3' = x3 - 2
    /\ x0' = x0 + 1
    /\ UNCHANGED <<img, w7, locals, status>>

\* str w7, [x3, #-8]! writes the printed value where the new top is, and x0
\* moves by the opcode only: the argument count is dispatched on next.
PrintI ==
    /\ Enters("PrintI")
    /\ out' = Append(out, w7)
    /\ stack' = [stack EXCEPT ![x3 - 1] = w7]
    /\ x3' = x3 - 1
    /\ x0' = x0 + 1
    /\ UNCHANGED <<img, w7, locals, status>>

Done ==
    /\ Enters("Done")
    /\ status' = "done"
    /\ UNCHANGED <<img, x0, x3, w7, stack, locals, out>>

\* A branch through an unfilled entry, or an access outside a buffer.
Wild ==
    /\ status = "running"
    /\ InCode(0) => (Fetched \notin Filled \/ ~InBounds(Fetched))
    /\ status' = "wild"
    /\ UNCHANGED <<img, x0, x3, w7, stack, locals, out>>

Next == Arith \/ IConst \/ LoadI \/ StoreI \/ PrintI \/ Done \/ Wild

Spec == Init /\ [][Next]_vars

\* One thread: each handler branches to the next.
FairSpec == Spec /\ WF_vars(Next)

-------------------------------------------------------------------------------
(* When a certificate is right. *)

\* The instruction at p moves x3 by delta, len halfwords further.
Moves(i, p, len, delta) ==
    /\ p + len \in DOMAIN i.height
    /\ i.height[p + len] = i.height[p] + delta

NamesLocal(i, p) == p + 2 <= Len(i.code) /\ i.code[p + 2] < LocalSlots

\* A print needs two slots below x3: its own, and that of the subtraction
\* its argument count is dispatched as.
PlacedAt(i, p) ==
    LET op == Decode(i.code[p + 1])
    IN  \/ op \in ArithOps /\ i.height[p] \in 1 .. StackSlots /\ Moves(i, p, 1, -1)
        \/ op = "IConst" /\ i.height[p] \in 0 .. (StackSlots - 1) /\ Moves(i, p, 3, 1)
        \/ /\ op = "LoadI" /\ i.height[p] \in 0 .. (StackSlots - 1)
           /\ NamesLocal(i, p) /\ Moves(i, p, 2, 1)
        \/ /\ op = "StoreI" /\ i.height[p] \in 1 .. StackSlots
           /\ NamesLocal(i, p) /\ Moves(i, p, 2, 0)
        \/ /\ op = "PrintI" /\ i.height[p] \in 2 .. StackSlots
           /\ Decode(i.code[p + 2]) = "ISub" /\ Moves(i, p, 2, -2)
        \/ op = "Done"

Placed(i) ==
    /\ 0 \in DOMAIN i.height
    /\ i.height[0] = 0
    /\ \A p \in DOMAIN i.height : p < Len(i.code) /\ PlacedAt(i, p)

(***************************************************************************)
(* The typing of an image, as ByteCodeInterpreter has it: typing[p] is the *)
(* operand stack of the language before the instruction at p.  Measured    *)
(* says when its depths and its offsets are those of the instructions that *)
(* the template interpreter has handlers for.                              *)
(***************************************************************************)
Depth(i, p) == Len(i.typing[p])

\* The instruction at p is len halfwords long and moves the depth by delta.
Deepens(i, p, len, delta) ==
    /\ p + len \in DOMAIN i.typing
    /\ Depth(i, p + len) = Depth(i, p) + delta
    /\ \A q \in DOMAIN i.typing : q <= p \/ q >= p + len

MeasuredAt(i, p) ==
    LET op == Decode(i.code[p + 1])
    IN  \/ op \in ArithOps /\ Deepens(i, p, 1, -1)
        \/ op = "IConst" /\ Deepens(i, p, 3, 1)
        \/ op = "LoadI" /\ Deepens(i, p, 2, 1)
        \/ op = "StoreI" /\ Deepens(i, p, 2, -1)
        \/ op = "PrintI" /\ Deepens(i, p, 2, -1) /\ Decode(i.code[p + 2]) = "ISub"
        \/ op \notin Filled \ {"Done"}

Measured(i) ==
    /\ 0 \in DOMAIN i.typing /\ Depth(i, 0) = 0
    /\ \A p \in DOMAIN i.typing : p \in Nat /\ Depth(i, p) \in Nat /\ MeasuredAt(i, p)

-------------------------------------------------------------------------------
TypeOK ==
    /\ ImageShape(img)
    /\ x0 \in Nat
    /\ x3 \in 0 .. StackSlots
    /\ DOMAIN stack = 0 .. (StackSlots - 1)
    /\ DOMAIN locals = 0 .. (LocalSlots - 1)
    /\ status \in Status

\* Code whose every prefix stores at least as often as it prints stays inside
\* the stack, the locals and the table, although each store leaves x3 a slot
\* too high and each print a slot too low.
Contained == Placed(img) => status # "wild"

\* The executed stores; there is no jump, so they are the ones before x0.
StoresAt == {p \in DOMAIN img.typing : Decode(img.code[p + 1]) = "StoreI"}
Stores == Cardinality({p \in StoresAt : p < x0})

\* At the start of an instruction x3 is off from the depth of the operand
\* stack by exactly the stores minus the prints executed so far, for as long
\* as the interpreter runs.
Drift ==
    (Measured(img) /\ status = "running" /\ x0 \in DOMAIN img.typing) =>
        x3 = Depth(img, x0) + Stores - Len(out)
===============================================================================
