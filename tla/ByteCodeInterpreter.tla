-------------------------- MODULE ByteCodeInterpreter --------------------------
(***************************************************************************)
(* ByteCodeInterpreter: the portable interpreter of Core-VM.  The          *)
(* constructor copies a code image and allocates an operand stack and a    *)
(* table of local variables, both uninitialised; Run decodes and executes  *)
(* one instruction per turn of its switch, with no bounds check anywhere.  *)
(*                                                                         *)
(* pc counts halfwords: _pc is a byte offset, and every increment of it    *)
(* is even.                                                                *)
(***************************************************************************)
EXTENDS Bytecode

CONSTANTS
    Images,       \* the code images a run may be given, see ImageShape
    StackSlots    \* 8-byte slots in the stack: stack_size / 8

(***************************************************************************)
(* An image is what the compiler hands over: the code and the number of    *)
(* local variables.  It carries a certificate the program does not have,   *)
(* in the manner of a class file's stack maps: typing[p] is the types of   *)
(* the operands on the stack, bottom first, whenever pc = p, and ltypes[x] *)
(* is the type of local x.  WellTyped says when the certificate is right.  *)
(***************************************************************************)
ImageShape(i) ==
    /\ i.code \in Seq(Halfword)
    /\ i.vars \in Nat
    /\ i.ltypes \in [0 .. (i.vars - 1) -> Type]
    /\ DOMAIN i.typing \subseteq Nat
    /\ \A p \in DOMAIN i.typing : i.typing[p] \in Seq(Type)

ASSUME ImagesAssumption == \A i \in Images : ImageShape(i)
ASSUME StackSlotsAssumption == StackSlots \in Nat \ {0}

VARIABLES
    img,      \* _code_buf, _code_size, _var_size: set by the constructor only
    pc,       \* _pc, in halfwords
    top,      \* _top
    stack,    \* _stack: slot index -> the last value written there
    locals,   \* _local_var_table
    out,      \* what was written to std::cout
    status    \* how far the program has come

vars == <<img, pc, top, stack, locals, out, status>>

\* "wild" is the state after an access outside the three buffers: undefined
\* behaviour, after which the model says nothing.
Status == {"new", "running", "done", "aborted", "panicked", "trapped", "wild"}

-------------------------------------------------------------------------------
\* A slot remembers the type it was last written at ("none": never written).
Slot(t, v) == [t |-> t, v |-> v]

\* The slot read at type t: its value if it was written at t, otherwise a
\* reinterpretation of whatever bits are there.
ReadAs(s, t) == IF s.t \in {t, "none"} THEN s.v ELSE App("Bits", <<s.v>>)

-------------------------------------------------------------------------------
(* Instruction groups of the switch. *)

\* Every binary operator with a case of its own that ends in a break.
ArithOps ==
    [int    |-> {"IAdd", "ISub", "IMul", "IDiv", "IMod"},
     double |-> {"DAdd", "DSub", "DMul", "DDiv"},
     float  |-> {"FAdd", "FSub", "FDiv"},
     long   |-> {}]

Operators == UNION {ArithOps[t] : t \in Type}
ConstOps  == {ConstOf[t] : t \in Type}
LoadOps   == {LoadOf[t] : t \in Type}
StoreOps  == {StoreOf[t] : t \in Type}
PrintOps  == {PrintOf[t] : t \in Type}
CastOps   == UNION {{CastOf[f][t] : t \in Type \ {f}} : f \in Type}

Implemented ==
    Operators \cup {"FMul"} \cup ConstOps \cup LoadOps
    \cup StoreOps \cup PrintOps \cup CastOps

\* Stack slots popped and pushed, and halfwords read after the opcode.
Pops(op) ==
    IF op = "FMul" THEN 3
    ELSE IF op \in Operators THEN 2
    ELSE IF op \in ConstOps \cup LoadOps THEN 0 ELSE 1
Pushes(op) == IF op \in StoreOps \cup PrintOps THEN 0 ELSE 1
Operands(op) ==
    IF op \in {"IConst", "FConst"} THEN 2
    ELSE IF op \in {"LConst", "DConst"} THEN 4
    ELSE IF op \in LoadOps \cup StoreOps THEN 1 ELSE 0

CodeSize == Len(img.code)
Half(k) == img.code[pc + k + 1]        \* the k-th halfword from pc
Fetched == Decode(Half(0))
Running == status = "running" /\ pc < CodeSize

\* Every byte instruction op touches lies inside its buffer.
InBounds(op) ==
    /\ Pops(op) <= top
    /\ top - Pops(op) + Pushes(op) <= StackSlots
    /\ pc + Operands(op) < CodeSize
    /\ op \in LoadOps \cup StoreOps => Half(1) < img.vars

Executes(op) == Running /\ Fetched = op /\ InBounds(op)

\* The d-th slot from the top, read at type t: the d-th POP_* of a handler.
Operand(d, t) == ReadAs(stack[top - d], t)

\* d POP_*, then one PUSH_* of v at type t.
PopPush(d, t, v) ==
    /\ stack' = [stack EXCEPT ![top - d] = Slot(t, v)]
    /\ top' = top - d + 1

-------------------------------------------------------------------------------
Init ==
    /\ img \in Images
    /\ pc = 0
    /\ top = 0
    /\ stack = [s \in 0 .. (StackSlots - 1) |-> Slot("none", Garbage)]
    /\ locals = [x \in 0 .. (img.vars - 1) |-> Slot("none", Junk(x))]
    /\ out = <<>>
    /\ status = "new"

\* The constructor, whose assertion refuses a program without variables.
Construct ==
    /\ status = "new"
    /\ status' = IF img.vars > 0 THEN "running" ELSE "aborted"
    /\ UNCHANGED <<img, pc, top, stack, locals, out>>

\* Mutant: POP_TWO pops the right operand first.
Arith_Swapped(t) ==
    \E op \in ArithOps[t] :
        /\ Executes(op)
        /\ PopPush(2, t, App(op, <<Operand(2, t), Operand(1, t)>>))
        /\ pc' = pc + 1
        /\ UNCHANGED <<img, locals, out, status>>

\* POP_TWO pops the left operand first: the emitter evaluates it last.
Arith(t) ==
    \E op \in ArithOps[t] :
        /\ Executes(op)
        /\ PopPush(2, t, App(op, <<Operand(1, t), Operand(2, t)>>))
        /\ pc' = pc + 1
        /\ UNCHANGED <<img, locals, out, status>>

\* An integer division may trap on its operands (zero, or the least int by
\* -1); what x86 and ARM do with them differs, so both outcomes are possible.
DivTrap ==
    /\ Executes("IDiv") \/ Executes("IMod")
    /\ status' = "trapped"
    /\ UNCHANGED <<img, pc, top, stack, locals, out>>

\* case kFMul has no break: it runs on into case kFDiv, which divides the
\* product by the next operand and advances pc a second time.
FMul ==
    /\ Executes("FMul")
    /\ LET product == App("FMul", <<Operand(1, "float"), Operand(2, "float")>>)
       IN  stack' = [stack EXCEPT
               ![top - 2] = Slot("float", product),
               ![top - 3] = Slot("float", App("FDiv", <<product, Operand(3, "float")>>))]
    /\ top' = top - 2
    /\ pc' = pc + 2
    /\ UNCHANGED <<img, locals, out, status>>

\* Mutant: every immediate is stepped over as if it were four bytes long.
Const_FourBytes(t) ==
    /\ Executes(ConstOf[t])
    /\ PopPush(0, t, Lit(SubSeq(img.code, pc + 2, pc + 1 + Width[t])))
    /\ pc' = pc + 3
    /\ UNCHANGED <<img, locals, out, status>>

Const(t) ==
    /\ Executes(ConstOf[t])
    /\ PopPush(0, t, Lit(SubSeq(img.code, pc + 2, pc + 1 + Width[t])))
    /\ pc' = pc + 1 + Width[t]
    /\ UNCHANGED <<img, locals, out, status>>

Load(t) ==
    /\ Executes(LoadOf[t])
    /\ PopPush(0, t, ReadAs(locals[Half(1)], t))
    /\ pc' = pc + 2
    /\ UNCHANGED <<img, locals, out, status>>

\* Mutant: the stored operand stays on the stack, as in storei.s.
Store_Leaves(t) ==
    /\ Executes(StoreOf[t])
    /\ locals' = [locals EXCEPT ![Half(1)] = Slot(t, Operand(1, t))]
    /\ pc' = pc + 2
    /\ UNCHANGED <<img, top, stack, out, status>>

Store(t) ==
    /\ Executes(StoreOf[t])
    /\ locals' = [locals EXCEPT ![Half(1)] = Slot(t, Operand(1, t))]
    /\ top' = top - 1
    /\ pc' = pc + 2
    /\ UNCHANGED <<img, stack, out, status>>

\* Mutant: the result is pushed at the type of the operand.
Cast_PushesSource(f, t) ==
    /\ Executes(CastOf[f][t])
    /\ PopPush(1, f, App(CastOf[f][t], <<Operand(1, f)>>))
    /\ pc' = pc + 1
    /\ UNCHANGED <<img, locals, out, status>>

Cast(f, t) ==
    /\ Executes(CastOf[f][t])
    /\ PopPush(1, t, App(CastOf[f][t], <<Operand(1, f)>>))
    /\ pc' = pc + 1
    /\ UNCHANGED <<img, locals, out, status>>

\* Mutant: the argument count is popped as well, though it was never pushed.
PrintValue_PopsTwice(t) ==
    /\ Executes(PrintOf[t])
    /\ out' = Append(out, Slot(t, Operand(1, t)))
    /\ top' = top - 2
    /\ pc' = pc + 2
    /\ UNCHANGED <<img, stack, locals, status>>

\* The argument count that follows a print opcode is skipped unread.
PrintValue(t) ==
    /\ Executes(PrintOf[t])
    /\ out' = Append(out, Slot(t, Operand(1, t)))
    /\ top' = top - 1
    /\ pc' = pc + 2
    /\ UNCHANGED <<img, stack, locals, status>>

\* kDone, or a pc that has run past the code.
Return ==
    /\ status = "running"
    /\ (pc < CodeSize) => (Fetched = "Done")
    /\ status' = "done"
    /\ UNCHANGED <<img, pc, top, stack, locals, out>>

\* default: every other halfword, the whole of long arithmetic among them.
Panic ==
    /\ Running
    /\ Fetched \notin Implemented \cup {"Done"}
    /\ status' = "panicked"
    /\ UNCHANGED <<img, pc, top, stack, locals, out>>

\* No bounds check: undefined behaviour from here on.
OutOfBounds ==
    /\ Running
    /\ Fetched \in Implemented
    /\ ~InBounds(Fetched)
    /\ status' = "wild"
    /\ UNCHANGED <<img, pc, top, stack, locals, out>>

Next ==
    \/ Construct
    \/ \E t \in Type : Arith(t) \/ Const(t) \/ Load(t) \/ Store(t) \/ PrintValue(t)
    \/ \E f \in Type : \E t \in Type \ {f} : Cast(f, t)
    \/ FMul \/ DivTrap \/ Return \/ Panic \/ OutOfBounds

Spec == Init /\ [][Next]_vars

\* One thread, one loop: it keeps taking turns until it leaves the switch.
FairSpec == Spec /\ WF_vars(Next)
-------------------------------------------------------------------------------
(* When a certificate is right: one rule per instruction group. *)

\* At p, instruction takes the n topmost operands, all of type t, leaves
\* one result of each type in r, and goes on len halfwords further.
Flows(i, p, t, n, r, len) ==
    LET before == i.typing[p]
        after  == i.typing[p + len]
        kept   == Len(before) - n
    IN  /\ kept >= 0
        /\ \A k \in (kept + 1) .. Len(before) : before[k] = t
        /\ p + len \in DOMAIN i.typing
        /\ Len(after) = kept + Len(r)
        /\ \A k \in 1 .. kept : after[k] = before[k]
        /\ \A k \in 1 .. Len(r) : after[kept + k] = r[k]
        /\ Len(after) <= StackSlots

\* The index operand names a local of type t.
Indexes(i, p, t) ==
    /\ p + 2 <= Len(i.code)
    /\ i.code[p + 2] < i.vars
    /\ i.ltypes[i.code[p + 2]] = t

TypedAt(i, p) ==
    LET op == Decode(i.code[p + 1])
    IN  \/ \E t \in Type :
             \/ op \in ArithOps[t] /\ Flows(i, p, t, 2, <<t>>, 1)
             \/ op = ConstOf[t] /\ Flows(i, p, t, 0, <<t>>, 1 + Width[t])
             \/ op = LoadOf[t]  /\ Indexes(i, p, t) /\ Flows(i, p, t, 0, <<t>>, 2)
             \/ op = StoreOf[t] /\ Indexes(i, p, t) /\ Flows(i, p, t, 1, <<>>, 2)
             \/ op = PrintOf[t] /\ Flows(i, p, t, 1, <<>>, 2)
        \/ \E f \in Type : \E t \in Type \ {f} :
             op = CastOf[f][t] /\ Flows(i, p, f, 1, <<t>>, 1)
        \/ op = "FMul" /\ Flows(i, p, "float", 3, <<"float">>, 2)
        \/ op = "Done" /\ i.typing[p] = <<>>

WellTyped(i) ==
    /\ i.vars > 0
    /\ 0 \in DOMAIN i.typing
    /\ i.typing[0] = <<>>
    /\ \A p \in DOMAIN i.typing : p < Len(i.code) /\ TypedAt(i, p)

-------------------------------------------------------------------------------
TypeOK ==
    /\ ImageShape(img)
    /\ pc \in Nat
    /\ top \in 0 .. StackSlots
    /\ DOMAIN stack = 0 .. (StackSlots - 1)
    /\ \A s \in DOMAIN stack : stack[s].t \in Type \cup {"none"}
    /\ DOMAIN locals = 0 .. (img.vars - 1)
    /\ \A x \in DOMAIN locals : locals[x].t \in Type \cup {"none"}
    /\ status \in Status

\* Instruction op expects the d-th slot from the top to hold a t.
Expects(op, d, t) ==
    \/ op \in ArithOps[t] /\ d \in 1 .. 2
    \/ op = "FMul" /\ t = "float" /\ d \in 1 .. 3
    \/ op \in {StoreOf[t], PrintOf[t]} /\ d = 1
    \/ \E u \in Type \ {t} : op = CastOf[t][u] /\ d = 1

\* Verified code never reads a value at another type than it was written at:
\* no POP_* and no load reinterprets the bits of a slot (TOP_AS_TYPE and the
\* casts of _local_var_table check nothing).
OperandsTyped ==
    (WellTyped(img) /\ Running) =>
        /\ \A t \in Type, d \in 1 .. 3 :
               Expects(Fetched, d, t) => (d <= top /\ stack[top - d].t = t)
        /\ \A t \in Type :
               Fetched = LoadOf[t] => locals[Half(1)].t \in {t, "none"}

\* Verified code stays inside the stack, the locals and the code, although
\* Run checks none of the three, and never reaches the default case or the
\* constructor's assertion.
Contained == WellTyped(img) => status \notin {"wild", "panicked", "aborted"}

\* Verified code stops at a kDone with nothing left on the stack.
Balanced ==
    (WellTyped(img) /\ status = "done") =>
        (top = 0 /\ pc < CodeSize /\ Fetched = "Done")
===============================================================================
