----------------------- MODULE ByteCodeInterpreterProofs -----------------------
(***************************************************************************)
(* Proofs about ByteCodeInterpreter, for every set of images, every code   *)
(* and every stack: Run needs no bounds check and no type tag on code that *)
(* has a typing certificate.                                               *)
(***************************************************************************)
EXTENDS ByteCodeInterpreter, TLAPS

\* The opcodes of each group of the switch, listed.
LEMMA OpSets ==
    /\ Operators = {"IAdd", "ISub", "IMul", "IDiv", "IMod", "DAdd", "DSub", "DMul", "DDiv",
                    "FAdd", "FSub", "FDiv"}
    /\ ConstOps = {"IConst", "LConst", "FConst", "DConst"}
    /\ LoadOps = {"LoadI", "LoadL", "LoadF", "LoadD"}
    /\ StoreOps = {"StoreI", "StoreL", "StoreF", "StoreD"}
    /\ PrintOps = {"PrintI", "PrintL", "PrintF", "PrintD"}
<1>1. ConstOps = {"IConst", "LConst", "FConst", "DConst"}
  BY DEF ConstOps, ConstOf, Type
<1>2. LoadOps = {"LoadI", "LoadL", "LoadF", "LoadD"}
  BY DEF LoadOps, LoadOf, Type
<1>3. StoreOps = {"StoreI", "StoreL", "StoreF", "StoreD"}
  BY DEF StoreOps, StoreOf, Type
<1>4. PrintOps = {"PrintI", "PrintL", "PrintF", "PrintD"}
  BY DEF PrintOps, PrintOf, Type
<1>5. Operators = {"IAdd", "ISub", "IMul", "IDiv", "IMod", "DAdd", "DSub", "DMul", "DDiv",
                    "FAdd", "FSub", "FDiv"}
  BY DEF Operators, ArithOps, Type
<1> QED
  BY <1>1, <1>2, <1>3, <1>4, <1>5

\* The twelve conversions the switch has a case for.
LEMMA CastSets ==
    CastOps = {"ICastL", "ICastD", "ICastF", "LCastI", "LCastD", "LCastF",
               "FCastI", "FCastD", "FCastL", "DCastI", "DCastF", "DCastL"}
BY DEF CastOps, CastOf, Type

\* What an instruction of each group needs of the three buffers.
LEMMA Costs ==
    /\ \A t \in Type : \A op \in ArithOps[t] :
          op \in Operators /\ Pops(op) = 2 /\ Pushes(op) = 1 /\ Operands(op) = 0
    /\ Pops("FMul") = 3 /\ Pushes("FMul") = 1 /\ Operands("FMul") = 0
    /\ \A t \in Type :
          /\ Pops(ConstOf[t]) = 0 /\ Pushes(ConstOf[t]) = 1 /\ Operands(ConstOf[t]) = Width[t]
          /\ Pops(LoadOf[t]) = 0 /\ Pushes(LoadOf[t]) = 1 /\ Operands(LoadOf[t]) = 1
          /\ Pops(StoreOf[t]) = 1 /\ Pushes(StoreOf[t]) = 0 /\ Operands(StoreOf[t]) = 1
          /\ Pops(PrintOf[t]) = 1 /\ Pushes(PrintOf[t]) = 0 /\ Operands(PrintOf[t]) = 0
    /\ \A f \in Type : \A t \in Type \ {f} :
          Pops(CastOf[f][t]) = 1 /\ Pushes(CastOf[f][t]) = 1 /\ Operands(CastOf[f][t]) = 0
<1>1. ASSUME NEW t \in Type, NEW op \in ArithOps[t]
      PROVE  op \in Operators /\ Pops(op) = 2 /\ Pushes(op) = 1 /\ Operands(op) = 0
  <2>1. op \in Operators
    BY DEF Operators
  <2> QED
    BY <2>1, OpSets DEF Pops, Pushes, Operands
<1>2. Pops("FMul") = 3 /\ Pushes("FMul") = 1 /\ Operands("FMul") = 0
  BY OpSets DEF Pops, Pushes, Operands
<1>3. ASSUME NEW t \in Type
      PROVE  Pops(ConstOf[t]) = 0 /\ Pushes(ConstOf[t]) = 1 /\ Operands(ConstOf[t]) = Width[t]
  BY OpSets DEF Pops, Pushes, Operands, ConstOf, Width, Type
<1>4. ASSUME NEW t \in Type
      PROVE  Pops(LoadOf[t]) = 0 /\ Pushes(LoadOf[t]) = 1 /\ Operands(LoadOf[t]) = 1
  BY OpSets DEF Pops, Pushes, Operands, LoadOf, Type
<1>5. ASSUME NEW t \in Type
      PROVE  Pops(StoreOf[t]) = 1 /\ Pushes(StoreOf[t]) = 0 /\ Operands(StoreOf[t]) = 1
  BY OpSets DEF Pops, Pushes, Operands, StoreOf, Type
<1>6. ASSUME NEW t \in Type
      PROVE  Pops(PrintOf[t]) = 1 /\ Pushes(PrintOf[t]) = 0 /\ Operands(PrintOf[t]) = 0
  BY OpSets DEF Pops, Pushes, Operands, PrintOf, Type
<1>7. ASSUME NEW f \in Type, NEW t \in Type \ {f}
      PROVE  Pops(CastOf[f][t]) = 1 /\ Pushes(CastOf[f][t]) = 1 /\ Operands(CastOf[f][t]) = 0
  BY OpSets DEF Pops, Pushes, Operands, CastOf, Type
<1> QED
  BY <1>1, <1>2, <1>3, <1>4, <1>5, <1>6, <1>7

-------------------------------------------------------------------------------
\* The two shapes in which an instruction leaves the stack typed.
LEMMA PopPushType ==
    ASSUME TypeOK, NEW d \in 0 .. 3, NEW t \in Type, NEW v, PopPush(d, t, v),
           d <= top, top - d + 1 <= StackSlots
    PROVE  /\ top' \in 0 .. StackSlots
           /\ DOMAIN stack' = 0 .. (StackSlots - 1)
           /\ \A s \in DOMAIN stack' : stack'[s].t \in Type \cup {"none"}
           /\ stack'[top - d].t = t
           /\ \A s \in 0 .. (top - d - 1) : stack'[s] = stack[s]
BY StackSlotsAssumption DEF TypeOK, PopPush, Slot

\* Run keeps its state well formed on any code at all, verified or not: _top
\* stays within the stack, because the step that would leave it is OutOfBounds.
THEOREM TypeCorrect == Spec => []TypeOK
<1>1. Init => TypeOK
  BY ImagesAssumption, StackSlotsAssumption DEF Init, TypeOK, Slot, Status
<1>2. TypeOK /\ [Next]_vars => TypeOK'
  <2> SUFFICES ASSUME TypeOK, [Next]_vars PROVE TypeOK'
    OBVIOUS
  <2>1. CASE Construct
    BY <2>1 DEF TypeOK, Construct, Status
  <2>2. ASSUME NEW t \in Type, Arith(t) PROVE TypeOK'
    <3>1. PICK op \in ArithOps[t] :
            /\ Executes(op)
            /\ PopPush(2, t, App(op, <<Operand(1, t), Operand(2, t)>>))
            /\ pc' = pc + 1 /\ UNCHANGED <<img, locals, out, status>>
      BY <2>2 DEF Arith
    <3>2. 2 <= top /\ top - 2 + 1 <= StackSlots
      BY <3>1, Costs DEF Executes, InBounds
    <3> QED
      BY <3>1, <3>2, PopPushType DEF TypeOK
  <2>3. ASSUME NEW t \in Type, Const(t) PROVE TypeOK'
    <3>1. 0 <= top /\ top - 0 + 1 <= StackSlots
      BY <2>3, Costs DEF Const, Executes, InBounds
    <3>2. Width[t] \in Nat
      BY DEF Width, Type
    <3> QED
      BY <2>3, <3>1, <3>2, PopPushType DEF TypeOK, Const
  <2>4. ASSUME NEW t \in Type, Load(t) PROVE TypeOK'
    <3>1. 0 <= top /\ top - 0 + 1 <= StackSlots
      BY <2>4, Costs DEF Load, Executes, InBounds
    <3> QED
      BY <2>4, <3>1, PopPushType DEF TypeOK, Load
  <2>5. ASSUME NEW t \in Type, Store(t) PROVE TypeOK'
    <3>1. 1 <= top
      BY <2>5, Costs DEF Store, Executes, InBounds
    <3> QED
      BY <2>5, <3>1, StackSlotsAssumption DEF TypeOK, Store, Slot
  <2>6. ASSUME NEW t \in Type, PrintValue(t) PROVE TypeOK'
    <3>1. 1 <= top
      BY <2>6, Costs DEF PrintValue, Executes, InBounds
    <3> QED
      BY <2>6, <3>1, StackSlotsAssumption DEF TypeOK, PrintValue
  <2>7. ASSUME NEW f \in Type, NEW t \in Type \ {f}, Cast(f, t) PROVE TypeOK'
    <3>1. 1 <= top /\ top - 1 + 1 <= StackSlots
      BY <2>7, Costs DEF Cast, Executes, InBounds
    <3> QED
      BY <2>7, <3>1, PopPushType DEF TypeOK, Cast
  <2>8. CASE FMul
    <3>1. 3 <= top
      BY <2>8, Costs DEF FMul, Executes, InBounds
    <3>2. "float" \in Type
      BY DEF Type
    <3> QED
      BY <2>8, <3>1, <3>2, StackSlotsAssumption DEF TypeOK, FMul, Slot
  <2>9. CASE DivTrap
    BY <2>9 DEF TypeOK, DivTrap, Status
  <2>10. CASE Return
    BY <2>10 DEF TypeOK, Return, Status
  <2>11. CASE Panic
    BY <2>11 DEF TypeOK, Panic, Status
  <2>12. CASE OutOfBounds
    BY <2>12 DEF TypeOK, OutOfBounds, Status
  <2>13. CASE UNCHANGED vars
    BY <2>13 DEF TypeOK, vars
  <2> QED
    BY <2>1, <2>2, <2>3, <2>4, <2>5, <2>6, <2>7, <2>8, <2>9, <2>10, <2>11, <2>12, <2>13
    DEF Next
<1> QED
  BY <1>1, <1>2, PTL DEF Spec

-------------------------------------------------------------------------------
(***************************************************************************)
(* What the certificate says of the instruction at p, read off by opcode:  *)
(* the groups of TypedAt are disjoint, and in each the opcode fixes the    *)
(* type.                                                                   *)
(***************************************************************************)
\* Every opcode of the five tables is in the group named after it.
LEMMA Members ==
    /\ \A t \in Type : \A op \in ArithOps[t] : op \in Operators
    /\ \A t \in Type : /\ ConstOf[t] \in ConstOps /\ LoadOf[t] \in LoadOps
                       /\ StoreOf[t] \in StoreOps /\ PrintOf[t] \in PrintOps
    /\ \A f \in Type : \A t \in Type \ {f} : CastOf[f][t] \in CastOps
BY DEF Operators, ConstOps, LoadOps, StoreOps, PrintOps, CastOps

\* No opcode is in two groups.
LEMMA Disjoint ==
    /\ \A op \in Operators : op \notin ConstOps \cup LoadOps \cup StoreOps \cup PrintOps
                                        \cup CastOps \cup {"FMul", "Done"}
    /\ \A op \in ConstOps : op \notin LoadOps \cup StoreOps \cup PrintOps
                                        \cup CastOps \cup {"FMul", "Done"}
    /\ \A op \in LoadOps : op \notin StoreOps \cup PrintOps \cup CastOps \cup {"FMul", "Done"}
    /\ \A op \in StoreOps : op \notin PrintOps \cup CastOps \cup {"FMul", "Done"}
    /\ \A op \in PrintOps : op \notin CastOps \cup {"FMul", "Done"}
    /\ \A op \in CastOps : op \notin {"FMul", "Done"}
BY OpSets, CastSets

\* An opcode fixes the types it works on.
LEMMA Injective ==
    /\ \A t, u \in Type : \A op \in ArithOps[t] : op \in ArithOps[u] => t = u
    /\ \A t, u \in Type : ConstOf[t] = ConstOf[u] => t = u
    /\ \A t, u \in Type : LoadOf[t] = LoadOf[u] => t = u
    /\ \A t, u \in Type : StoreOf[t] = StoreOf[u] => t = u
    /\ \A t, u \in Type : PrintOf[t] = PrintOf[u] => t = u
<1>1. \A t, u \in Type : \A op \in ArithOps[t] : op \in ArithOps[u] => t = u
  BY DEF Type, ArithOps
<1>2. \A t, u \in Type : ConstOf[t] = ConstOf[u] => t = u
  BY DEF Type, ConstOf
<1>3. \A t, u \in Type : LoadOf[t] = LoadOf[u] => t = u
  BY DEF Type, LoadOf
<1>4. \A t, u \in Type : StoreOf[t] = StoreOf[u] => t = u
  BY DEF Type, StoreOf
<1>5. \A t, u \in Type : PrintOf[t] = PrintOf[u] => t = u
  BY DEF Type, PrintOf
<1> QED
  BY <1>1, <1>2, <1>3, <1>4, <1>5

\* An opcode of a conversion fixes both of its types.
LEMMA CastInjective ==
    ASSUME NEW f \in Type, NEW g \in Type, NEW t \in Type \ {f}, NEW u \in Type \ {g},
           CastOf[f][t] = CastOf[g][u]
    PROVE  f = g /\ t = u
BY DEF Type, CastOf

\* In code with a certificate, a binary operator has
\* the rule of the handlers that POP_TWO and push.
LEMMA TypedArith ==
    ASSUME NEW i, NEW p, NEW t \in Type, NEW op \in ArithOps[t],
           TypedAt(i, p), Decode(i.code[p + 1]) = op
    PROVE  Flows(i, p, t, 2, <<t>>, 1)
<1> DEFINE code == Decode(i.code[p + 1])
<1>1. code \in Operators
  BY Members
<1>2. /\ \A u \in Type : /\ code # ConstOf[u] /\ code # LoadOf[u] /\ code # StoreOf[u]
                         /\ code # PrintOf[u]
      /\ code # "FMul" /\ code # "Done"
      /\ \A f \in Type : \A u \in Type \ {f} : code # CastOf[f][u]
  BY <1>1, Members, Disjoint
<1>3. \E u \in Type : code \in ArithOps[u] /\ Flows(i, p, u, 2, <<u>>, 1)
  BY <1>2 DEF TypedAt
<1> QED
  BY <1>3, Injective

\* In code with a certificate, a constant has the
\* rule of a push.
LEMMA TypedConst ==
    ASSUME NEW i, NEW p, NEW t \in Type,
           TypedAt(i, p), Decode(i.code[p + 1]) = ConstOf[t]
    PROVE  Flows(i, p, t, 0, <<t>>, 1 + Width[t])
<1> DEFINE code == Decode(i.code[p + 1])
<1>1. code \in ConstOps
  BY Members
<1>2. /\ \A u \in Type : /\ code \notin ArithOps[u] /\ code # LoadOf[u] /\ code # StoreOf[u]
                         /\ code # PrintOf[u]
      /\ code # "FMul" /\ code # "Done"
      /\ \A f \in Type : \A u \in Type \ {f} : code # CastOf[f][u]
  BY <1>1, Members, Disjoint
<1>3. \E u \in Type : code = ConstOf[u] /\ Flows(i, p, u, 0, <<u>>, 1 + Width[u])
  BY <1>2 DEF TypedAt
<1> QED
  BY <1>3, Injective

\* In code with a certificate, a load has the rule of a
\* push, and its index is checked.
LEMMA TypedLoad ==
    ASSUME NEW i, NEW p, NEW t \in Type,
           TypedAt(i, p), Decode(i.code[p + 1]) = LoadOf[t]
    PROVE  Indexes(i, p, t) /\ Flows(i, p, t, 0, <<t>>, 2)
<1> DEFINE code == Decode(i.code[p + 1])
<1>1. code \in LoadOps
  BY Members
<1>2. /\ \A u \in Type : /\ code \notin ArithOps[u] /\ code # ConstOf[u] /\ code # StoreOf[u]
                         /\ code # PrintOf[u]
      /\ code # "FMul" /\ code # "Done"
      /\ \A f \in Type : \A u \in Type \ {f} : code # CastOf[f][u]
  BY <1>1, Members, Disjoint
<1>3. \E u \in Type : code = LoadOf[u] /\ Indexes(i, p, u) /\ Flows(i, p, u, 0, <<u>>, 2)
  BY <1>2 DEF TypedAt
<1> QED
  BY <1>3, Injective

\* In code with a certificate, a store has the rule of
\* a pop, and its index is checked.
LEMMA TypedStore ==
    ASSUME NEW i, NEW p, NEW t \in Type,
           TypedAt(i, p), Decode(i.code[p + 1]) = StoreOf[t]
    PROVE  Indexes(i, p, t) /\ Flows(i, p, t, 1, <<>>, 2)
<1> DEFINE code == Decode(i.code[p + 1])
<1>1. code \in StoreOps
  BY Members
<1>2. /\ \A u \in Type : /\ code \notin ArithOps[u] /\ code # ConstOf[u] /\ code # LoadOf[u]
                         /\ code # PrintOf[u]
      /\ code # "FMul" /\ code # "Done"
      /\ \A f \in Type : \A u \in Type \ {f} : code # CastOf[f][u]
  BY <1>1, Members, Disjoint
<1>3. \E u \in Type : code = StoreOf[u] /\ Indexes(i, p, u) /\ Flows(i, p, u, 1, <<>>, 2)
  BY <1>2 DEF TypedAt
<1> QED
  BY <1>3, Injective

\* In code with a certificate, a print has the rule of
\* a pop.
LEMMA TypedPrint ==
    ASSUME NEW i, NEW p, NEW t \in Type,
           TypedAt(i, p), Decode(i.code[p + 1]) = PrintOf[t]
    PROVE  Flows(i, p, t, 1, <<>>, 2)
<1> DEFINE code == Decode(i.code[p + 1])
<1>1. code \in PrintOps
  BY Members
<1>2. /\ \A u \in Type : /\ code \notin ArithOps[u] /\ code # ConstOf[u] /\ code # LoadOf[u]
                         /\ code # StoreOf[u]
      /\ code # "FMul" /\ code # "Done"
      /\ \A f \in Type : \A u \in Type \ {f} : code # CastOf[f][u]
  BY <1>1, Members, Disjoint
<1>3. \E u \in Type : code = PrintOf[u] /\ Flows(i, p, u, 1, <<>>, 2)
  BY <1>2 DEF TypedAt
<1> QED
  BY <1>3, Injective

\* In code with a certificate, a conversion has the rule
\* of one operand replaced.
LEMMA TypedCast ==
    ASSUME NEW i, NEW p, NEW f \in Type, NEW t \in Type \ {f},
           TypedAt(i, p), Decode(i.code[p + 1]) = CastOf[f][t]
    PROVE  Flows(i, p, f, 1, <<t>>, 1)
<1> DEFINE code == Decode(i.code[p + 1])
<1>1. code \in CastOps
  BY Members
<1>2. /\ \A u \in Type : /\ code \notin ArithOps[u] /\ code # ConstOf[u] /\ code # LoadOf[u]
                         /\ code # StoreOf[u] /\ code # PrintOf[u]
      /\ code # "FMul" /\ code # "Done"
  BY <1>1, Members, Disjoint
<1>3. \E g \in Type : \E u \in Type \ {g} : code = CastOf[g][u] /\ Flows(i, p, g, 1, <<u>>, 1)
  BY <1>2 DEF TypedAt
<1>4. PICK g \in Type : \E u \in Type \ {g} : code = CastOf[g][u] /\ Flows(i, p, g, 1, <<u>>, 1)
  BY <1>3
<1>5. PICK u \in Type \ {g} : code = CastOf[g][u] /\ Flows(i, p, g, 1, <<u>>, 1)
  BY <1>4
<1>6. CastOf[f][t] = CastOf[g][u]
  BY <1>5
<1>7. f = g /\ t = u
  BY <1>6, CastInjective
<1> QED
  BY <1>5, <1>7

\* In code with a certificate, kFMul, which runs on into
\* kFDiv, takes three operands and two halfwords.
LEMMA TypedFMul ==
    ASSUME NEW i, NEW p, TypedAt(i, p), Decode(i.code[p + 1]) = "FMul"
    PROVE  Flows(i, p, "float", 3, <<"float">>, 2)
<1> DEFINE code == Decode(i.code[p + 1])
<1>2. /\ \A u \in Type : /\ code \notin ArithOps[u] /\ code # ConstOf[u] /\ code # LoadOf[u]
                         /\ code # StoreOf[u] /\ code # PrintOf[u]
      /\ code # "Done"
      /\ \A f \in Type : \A u \in Type \ {f} : code # CastOf[f][u]
  BY Members, Disjoint
<1> QED
  BY <1>2 DEF TypedAt

\* In code with a certificate, kDone finds the stack
\* empty.
LEMMA TypedDone ==
    ASSUME NEW i, NEW p, TypedAt(i, p), Decode(i.code[p + 1]) = "Done"
    PROVE  i.typing[p] = <<>>
<1> DEFINE code == Decode(i.code[p + 1])
<1>2. /\ \A u \in Type : /\ code \notin ArithOps[u] /\ code # ConstOf[u] /\ code # LoadOf[u]
                         /\ code # StoreOf[u] /\ code # PrintOf[u]
      /\ code # "FMul"
      /\ \A f \in Type : \A u \in Type \ {f} : code # CastOf[f][u]
  BY Members, Disjoint
<1> QED
  BY <1>2 DEF TypedAt

\* Only instructions of the switch have a rule.
LEMMA TypedImplemented ==
    ASSUME NEW i, NEW p, TypedAt(i, p)
    PROVE  Decode(i.code[p + 1]) \in Implemented \cup {"Done"}
BY Members DEF TypedAt, Implemented

-------------------------------------------------------------------------------
(***************************************************************************)
(* The inductive invariant behind the three safety properties.  None of    *)
(* them is inductive: that the next instruction finds operands of its type *)
(* follows from the types of ALL the slots below top agreeing with the     *)
(* certificate at pc, and those only from pc being an offset the           *)
(* certificate covers, at every step since the first.                      *)
(***************************************************************************)
StackTyped ==
    /\ pc \in DOMAIN img.typing
    /\ top = Len(img.typing[pc])
    /\ \A k \in 1 .. top : stack[k - 1].t = img.typing[pc][k]

LocalsTyped == \A x \in DOMAIN locals : locals[x].t \in {"none", img.ltypes[x]}

Agrees ==
    WellTyped(img) =>
        /\ StackTyped
        /\ LocalsTyped
        /\ status \notin {"wild", "panicked", "aborted"}
        /\ status = "done" => Fetched = "Done"

\* An instruction whose rule is Flows and that leaves the slots as the rule
\* says keeps the stack typed.
LEMMA FlowsKeepsStack ==
    ASSUME TypeOK, WellTyped(img), StackTyped,
           NEW t \in Type, NEW n \in 0 .. 3, NEW r, NEW len \in Nat,
           r = <<>> \/ \E u \in Type : r = <<u>>,
           Flows(img, pc, t, n, r, len),
           img' = img, pc' = pc + len, top' = top - n + Len(r),
           \A s \in 0 .. (top - n - 1) : stack'[s] = stack[s],
           Len(r) = 1 => stack'[top - n].t = r[1]
    PROVE  StackTyped'
<1> DEFINE before == img.typing[pc]
           after == img.typing[pc + len]
<1>1. /\ pc + len \in DOMAIN img.typing
      /\ top - n >= 0
      /\ Len(after) = top - n + Len(r)
      /\ \A k \in 1 .. (top - n) : after[k] = before[k]
      /\ \A k \in 1 .. Len(r) : after[top - n + k] = r[k]
  BY DEF Flows, StackTyped
<1>2. Len(r) \in {0, 1} /\ top \in Nat
  BY StackSlotsAssumption DEF TypeOK
<1>3. pc' \in DOMAIN img'.typing /\ top' = Len(img'.typing[pc'])
  BY <1>1
<1>4. ASSUME NEW k \in 1 .. top' PROVE stack'[k - 1].t = img'.typing[pc'][k]
  <2>1. CASE k <= top - n
    BY <2>1, <1>1, <1>2 DEF StackTyped
  <2>2. CASE k > top - n
    <3>1. Len(r) = 1 /\ k = top - n + 1
      <4>1. CASE Len(r) = 0
        BY <2>2, <4>1, <1>2
      <4>2. CASE Len(r) = 1
        BY <2>2, <4>2, <1>2
      <4> QED
        BY <4>1, <4>2, <1>2
    <3>2. stack'[k - 1].t = r[1]
      BY <3>1, <1>2
    <3>3. after[top - n + 1] = r[1]
      BY <3>1, <1>1
    <3> QED
      BY <3>1, <3>2, <3>3
  <2> QED
    BY <2>1, <2>2, <1>2
<1> QED
  BY <1>3, <1>4 DEF StackTyped

\* The same for the handlers that push one operand (PUSH_*).
LEMMA PushKeepsStack ==
    ASSUME TypeOK, WellTyped(img), StackTyped,
           NEW t \in Type, NEW n \in 0 .. 3, NEW u \in Type, NEW len \in Nat,
           Flows(img, pc, t, n, <<u>>, len),
           img' = img, pc' = pc + len, top' = top - n + 1,
           \A s \in 0 .. (top - n - 1) : stack'[s] = stack[s],
           stack'[top - n].t = u
    PROVE  StackTyped'
<1> DEFINE r == <<u>>
<1>1. Len(r) = 1 /\ r[1] = u /\ \E w \in Type : r = <<w>>
  OBVIOUS
<1>2. Flows(img, pc, t, n, r, len)
  OBVIOUS
<1> HIDE DEF r
<1> QED
  BY <1>1, <1>2, FlowsKeepsStack

\* The rule of the next instruction bounds what that instruction touches.
LEMMA VerifiedInBounds ==
    ASSUME TypeOK, WellTyped(img), StackTyped, Fetched \in Implemented
    PROVE  InBounds(Fetched)
<1>1. /\ pc \in Nat /\ top \in Nat /\ CodeSize \in Nat /\ TypedAt(img, pc)
      /\ Decode(img.code[pc + 1]) = Fetched
      /\ top = Len(img.typing[pc])
      /\ \A p \in DOMAIN img.typing : p < CodeSize
  BY StackSlotsAssumption
  DEF TypeOK, WellTyped, StackTyped, Fetched, Half, CodeSize, ImageShape
<1>2. Half(1) = img.code[pc + 2]
  BY <1>1 DEF Half
<1>3. Len(<<>>) = 0 /\ \A t \in Type : Len(<<t>>) = 1 /\ Width[t] \in Nat
  BY DEF Type, Width
<1>4. ASSUME NEW t \in Type, Fetched \in ArithOps[t] PROVE InBounds(Fetched)
  <2>1. Flows(img, pc, t, 2, <<t>>, 1)
    BY <1>1, <1>4, TypedArith
  <2>2. 2 <= top /\ top - 2 + 1 <= StackSlots /\ pc + 1 < CodeSize
    BY <2>1, <1>1, <1>3 DEF Flows
  <2>3. /\ Pops(Fetched) = 2 /\ Pushes(Fetched) = 1 /\ Operands(Fetched) = 0
        /\ Fetched \notin LoadOps \cup StoreOps
    BY <1>4, Costs, Members, Disjoint
  <2> QED
    BY <2>1, <2>2, <2>3, <1>1, <1>2, <1>3, StackSlotsAssumption DEF InBounds
<1>5. CASE Fetched = "FMul"
  <2>5. "float" \in Type
    BY DEF Type
  <2>1. Flows(img, pc, "float", 3, <<"float">>, 2)
    BY <1>1, <1>5, TypedFMul, <2>5
  <2>2. 3 <= top /\ top - 3 + 1 <= StackSlots /\ pc + 2 < CodeSize
    BY <2>1, <1>1, <1>3, <2>5 DEF Flows
  <2>3. /\ Pops(Fetched) = 3 /\ Pushes(Fetched) = 1 /\ Operands(Fetched) = 0
        /\ Fetched \notin LoadOps \cup StoreOps
    BY <1>5, Costs, Members, Disjoint
  <2> QED
    BY <2>1, <2>2, <2>3, <1>1, <1>2, <1>3, StackSlotsAssumption DEF InBounds
<1>6. ASSUME NEW t \in Type, Fetched = ConstOf[t] PROVE InBounds(Fetched)
  <2>1. Flows(img, pc, t, 0, <<t>>, 1 + Width[t])
    BY <1>1, <1>6, TypedConst
  <2>2. 0 <= top /\ top - 0 + 1 <= StackSlots /\ pc + (1 + Width[t]) < CodeSize
    BY <2>1, <1>1, <1>3 DEF Flows
  <2>3. /\ Pops(Fetched) = 0 /\ Pushes(Fetched) = 1 /\ Operands(Fetched) = Width[t]
        /\ Fetched \notin LoadOps \cup StoreOps
    BY <1>6, Costs, Members, Disjoint
  <2> QED
    BY <2>1, <2>2, <2>3, <1>1, <1>2, <1>3, StackSlotsAssumption DEF InBounds
<1>7. ASSUME NEW t \in Type, Fetched = LoadOf[t] PROVE InBounds(Fetched)
  <2>1. Indexes(img, pc, t) /\ Flows(img, pc, t, 0, <<t>>, 2)
    BY <1>1, <1>7, TypedLoad
  <2>2. 0 <= top /\ top - 0 + 1 <= StackSlots /\ pc + 2 < CodeSize
    BY <2>1, <1>1, <1>3 DEF Flows
  <2>3. /\ Pops(Fetched) = 0 /\ Pushes(Fetched) = 1 /\ Operands(Fetched) = 1
        /\ img.code[pc + 2] < img.vars
    BY <2>1, <1>7, Costs DEF Indexes
  <2> QED
    BY <2>1, <2>2, <2>3, <1>1, <1>2, <1>3, StackSlotsAssumption DEF InBounds
<1>8. ASSUME NEW t \in Type, Fetched = StoreOf[t] PROVE InBounds(Fetched)
  <2>1. Indexes(img, pc, t) /\ Flows(img, pc, t, 1, <<>>, 2)
    BY <1>1, <1>8, TypedStore
  <2>2. 1 <= top /\ top - 1 + 0 <= StackSlots /\ pc + 2 < CodeSize
    BY <2>1, <1>1, <1>3 DEF Flows
  <2>3. /\ Pops(Fetched) = 1 /\ Pushes(Fetched) = 0 /\ Operands(Fetched) = 1
        /\ img.code[pc + 2] < img.vars
    BY <2>1, <1>8, Costs DEF Indexes
  <2> QED
    BY <2>1, <2>2, <2>3, <1>1, <1>2, <1>3, StackSlotsAssumption DEF InBounds
<1>9. ASSUME NEW t \in Type, Fetched = PrintOf[t] PROVE InBounds(Fetched)
  <2>1. Flows(img, pc, t, 1, <<>>, 2)
    BY <1>1, <1>9, TypedPrint
  <2>2. 1 <= top /\ top - 1 + 0 <= StackSlots /\ pc + 2 < CodeSize
    BY <2>1, <1>1, <1>3 DEF Flows
  <2>3. /\ Pops(Fetched) = 1 /\ Pushes(Fetched) = 0 /\ Operands(Fetched) = 0
        /\ Fetched \notin LoadOps \cup StoreOps
    BY <1>9, Costs, Members, Disjoint
  <2> QED
    BY <2>1, <2>2, <2>3, <1>1, <1>2, <1>3, StackSlotsAssumption DEF InBounds
<1>10. ASSUME NEW f \in Type, NEW t \in Type \ {f}, Fetched = CastOf[f][t]
       PROVE  InBounds(Fetched)
  <2>1. Flows(img, pc, f, 1, <<t>>, 1)
    BY <1>1, <1>10, TypedCast
  <2>2. 1 <= top /\ top - 1 + 1 <= StackSlots /\ pc + 1 < CodeSize
    BY <2>1, <1>1, <1>3 DEF Flows
  <2>3. /\ Pops(Fetched) = 1 /\ Pushes(Fetched) = 1 /\ Operands(Fetched) = 0
        /\ Fetched \notin LoadOps \cup StoreOps
    BY <1>10, Costs, Members, Disjoint
  <2> QED
    BY <2>1, <2>2, <2>3, <1>1, <1>2, <1>3, StackSlotsAssumption DEF InBounds
<1> QED
  BY <1>4, <1>5, <1>6, <1>7, <1>8, <1>9, <1>10
  DEF Implemented, Operators, ConstOps, LoadOps, StoreOps, PrintOps, CastOps

\* At the constructor the stack is empty, as the certificate says of offset 0.
LEMMA AgreesInit == Init => Agrees
BY ImagesAssumption, StackSlotsAssumption
   DEF Init, Agrees, StackTyped, LocalsTyped, WellTyped, Slot, ImageShape

\* Each case of Run's switch keeps stack and locals as the certificate says.
LEMMA AgreesStep == TypeOK /\ Agrees /\ [Next]_vars => Agrees'
<1> SUFFICES ASSUME TypeOK, Agrees, [Next]_vars, WellTyped(img)', img' = img
             PROVE  /\ StackTyped' /\ LocalsTyped'
                    /\ status' \notin {"wild", "panicked", "aborted"}
                    /\ status' = "done" => Fetched' = "Done"
  BY DEF Agrees, Next, vars, Construct, Arith, Const, Load, Store, PrintValue, Cast, FMul,
         DivTrap, Return, Panic, OutOfBounds
<1> USE StackSlotsAssumption
<1>1. /\ WellTyped(img) /\ StackTyped /\ LocalsTyped
      /\ status \notin {"wild", "panicked", "aborted"}
      /\ status = "done" => Fetched = "Done"
  BY DEF Agrees
<1>2. /\ pc \in Nat /\ pc < CodeSize /\ TypedAt(img, pc) /\ top \in 0 .. StackSlots
      /\ Decode(img.code[pc + 1]) = Fetched
  BY <1>1 DEF TypeOK, WellTyped, StackTyped, Fetched, Half, CodeSize, ImageShape
<1>3. CASE Construct
  BY <1>3, <1>1 DEF Construct, WellTyped, StackTyped, LocalsTyped
<1>4. ASSUME NEW t \in Type, Arith(t)
      PROVE  /\ StackTyped' /\ LocalsTyped' /\ status' = "running"
  <2>1. PICK op \in ArithOps[t] :
          /\ Executes(op)
          /\ PopPush(2, t, App(op, <<Operand(1, t), Operand(2, t)>>))
          /\ pc' = pc + 1 /\ UNCHANGED <<img, locals, out, status>>
    BY <1>4 DEF Arith
  <2>2. Flows(img, pc, t, 2, <<t>>, 1)
    BY <2>1, <1>2, TypedArith DEF Executes
  <2>5. 2 <= top /\ top - 2 + 1 <= StackSlots
    BY <2>1, Costs DEF Executes, InBounds
  <2>3. /\ top' = top - 2 + 1 /\ stack'[top - 2].t = t
        /\ \A s \in 0 .. (top - 2 - 1) : stack'[s] = stack[s]
    BY <2>1, <2>5, <1>2 DEF PopPush, Slot, TypeOK
  <2>4. StackTyped'
    BY <2>1, <2>2, <2>3, <1>1, PushKeepsStack
  <2> QED
    BY <2>1, <2>4, <1>1 DEF LocalsTyped, Executes, Running
<1>5. ASSUME NEW t \in Type, Const(t)
      PROVE  /\ StackTyped' /\ LocalsTyped' /\ status' = "running"
  <2>1. Flows(img, pc, t, 0, <<t>>, 1 + Width[t])
    BY <1>5, <1>2, TypedConst DEF Const, Executes
  <2>2. 0 <= top /\ top - 0 + 1 <= StackSlots
    BY <1>5, Costs DEF Const, Executes, InBounds
  <2>5. 1 + Width[t] \in Nat /\ pc' = pc + (1 + Width[t])
    BY <1>5, <1>2 DEF Width, Type, Const
  <2>3. /\ top' = top - 0 + 1 /\ stack'[top - 0].t = t
        /\ \A s \in 0 .. (top - 0 - 1) : stack'[s] = stack[s]
    BY <1>5, <2>2, <1>2 DEF PopPush, Slot, TypeOK, Const
  <2>4. StackTyped'
    BY <2>1, <2>5, <2>3, <1>1, PushKeepsStack
  <2> QED
    BY <1>5, <2>4, <1>1 DEF LocalsTyped, Const, Executes, Running
<1>6. ASSUME NEW t \in Type, Load(t)
      PROVE  /\ StackTyped' /\ LocalsTyped' /\ status' = "running"
  <2>1. Flows(img, pc, t, 0, <<t>>, 2)
    BY <1>6, <1>2, TypedLoad DEF Load, Executes
  <2>2. 0 <= top /\ top - 0 + 1 <= StackSlots
    BY <1>6, Costs DEF Load, Executes, InBounds
  <2>3. /\ top' = top - 0 + 1 /\ stack'[top - 0].t = t
        /\ \A s \in 0 .. (top - 0 - 1) : stack'[s] = stack[s]
    BY <1>6, <2>2, <1>2 DEF PopPush, Slot, TypeOK, Load
  <2>4. StackTyped'
    BY <1>6, <2>1, <2>3, <1>1, PushKeepsStack DEF Load
  <2> QED
    BY <1>6, <2>4, <1>1 DEF LocalsTyped, Load, Executes, Running
<1>7. ASSUME NEW t \in Type, Store(t)
      PROVE  /\ StackTyped' /\ LocalsTyped' /\ status' = "running"
  <2>1. Indexes(img, pc, t) /\ Flows(img, pc, t, 1, <<>>, 2)
    BY <1>7, <1>2, TypedStore DEF Store, Executes
  <2>2. StackTyped'
    BY <1>7, <2>1, <1>1, <1>2, FlowsKeepsStack DEF Store
  <2>3. LocalsTyped'
    BY <1>7, <2>1, <1>1, <1>2 DEF Store, LocalsTyped, Indexes, Half, Slot, TypeOK
  <2> QED
    BY <1>7, <2>2, <2>3, <1>1 DEF Store, Executes, Running
<1>8. ASSUME NEW t \in Type, PrintValue(t)
      PROVE  /\ StackTyped' /\ LocalsTyped' /\ status' = "running"
  <2>1. Flows(img, pc, t, 1, <<>>, 2)
    BY <1>8, <1>2, TypedPrint DEF PrintValue, Executes
  <2>2. StackTyped'
    BY <1>8, <2>1, <1>1, <1>2, FlowsKeepsStack DEF PrintValue
  <2> QED
    BY <1>8, <2>2, <1>1 DEF LocalsTyped, PrintValue, Executes, Running
<1>9. ASSUME NEW f \in Type, NEW t \in Type \ {f}, Cast(f, t)
      PROVE  /\ StackTyped' /\ LocalsTyped' /\ status' = "running"
  <2>1. Flows(img, pc, f, 1, <<t>>, 1)
    BY <1>9, <1>2, TypedCast DEF Cast, Executes
  <2>2. 1 <= top /\ top - 1 + 1 <= StackSlots
    BY <1>9, Costs DEF Cast, Executes, InBounds
  <2>3. /\ top' = top - 1 + 1 /\ stack'[top - 1].t = t
        /\ \A s \in 0 .. (top - 1 - 1) : stack'[s] = stack[s]
    BY <1>9, <2>2, <1>2 DEF PopPush, Slot, TypeOK, Cast
  <2>4. StackTyped'
    BY <1>9, <2>1, <2>3, <1>1, PushKeepsStack DEF Cast
  <2> QED
    BY <1>9, <2>4, <1>1 DEF LocalsTyped, Cast, Executes, Running
<1>10. CASE FMul
  <2>1. Flows(img, pc, "float", 3, <<"float">>, 2)
    BY <1>10, <1>2, TypedFMul DEF FMul, Executes
  <2>2. 3 <= top /\ "float" \in Type
    BY <1>10, Costs DEF FMul, Executes, InBounds, Type
  <2>3. PICK v, w : stack' = [stack EXCEPT ![top - 2] = Slot("float", v),
                                          ![top - 3] = Slot("float", w)]
    BY <1>10 DEF FMul
  <2>4. top' = top - 3 + 1 /\ pc' = pc + 2
    BY <1>10, <1>2 DEF FMul
  <2>5. stack'[top - 3].t = "float"
    BY <2>2, <2>3, <1>2 DEF TypeOK, Slot
  <2>6. \A s \in 0 .. (top - 3 - 1) : stack'[s] = stack[s]
    BY <2>2, <2>3, <1>2 DEF TypeOK
  <2>7. StackTyped'
    BY <2>1, <2>2, <2>4, <2>5, <2>6, <1>1, PushKeepsStack
  <2> QED
    BY <1>10, <2>7, <1>1 DEF LocalsTyped, FMul, Executes, Running
<1>11. CASE DivTrap
  BY <1>11, <1>1 DEF DivTrap, StackTyped, LocalsTyped
<1>12. CASE Return
  BY <1>12, <1>1, <1>2 DEF Return, StackTyped, LocalsTyped, Fetched, Half, CodeSize
<1>13. CASE Panic
  BY <1>13, <1>2, TypedImplemented DEF Panic
<1>14. CASE OutOfBounds
  BY <1>14, <1>1, VerifiedInBounds DEF OutOfBounds
<1>15. CASE UNCHANGED vars
  BY <1>15, <1>1 DEF vars, StackTyped, LocalsTyped, Fetched, Half
<1> QED
  BY <1>3, <1>4, <1>5, <1>6, <1>7, <1>8, <1>9, <1>10, <1>11, <1>12, <1>13, <1>14, <1>15
  DEF Next

\* Stack, locals and certificate agree before every turn of Run's loop; the
\* three properties below follow from this.
THEOREM AgreesAlways == Spec => []Agrees
BY TypeCorrect, AgreesInit, AgreesStep, PTL DEF Spec

\* On verified code Run never leaves the stack, the locals or the code, never
\* reaches the default case, and the constructor's assertion holds.
THEOREM ContainedAlways == Spec => []Contained
<1>1. Agrees => Contained
  BY DEF Agrees, Contained
<1> QED
  BY <1>1, AgreesAlways, PTL

\* Verified code leaves Run by kDone, with every operand it pushed popped.
THEOREM BalancedAlways == Spec => []Balanced
<1>1. TypeOK /\ Agrees => Balanced
  <2> SUFFICES ASSUME TypeOK, Agrees, WellTyped(img), status = "done" PROVE Balanced
    BY DEF Balanced
  <2>1. StackTyped /\ Fetched = "Done"
    BY DEF Agrees
  <2>2. TypedAt(img, pc) /\ pc < CodeSize /\ Decode(img.code[pc + 1]) = "Done"
    BY <2>1 DEF StackTyped, WellTyped, CodeSize, Fetched, Half, TypeOK
  <2>3. img.typing[pc] = <<>>
    BY <2>2, TypedDone
  <2> QED
    BY <2>1, <2>2, <2>3 DEF StackTyped, Balanced
<1> QED
  BY <1>1, AgreesAlways, TypeCorrect, PTL

\* On verified code every POP_* and every load reads a slot at the type it was
\* written at, FMul's fall through into FDiv included.
THEOREM OperandsTypedAlways == Spec => []OperandsTyped
<1>1. TypeOK /\ Agrees => OperandsTyped
  <2> SUFFICES ASSUME TypeOK, Agrees, WellTyped(img), Running PROVE OperandsTyped
    BY DEF OperandsTyped
  <2>1. StackTyped /\ LocalsTyped
    BY DEF Agrees
  <2>2. /\ pc \in Nat /\ top \in Nat /\ TypedAt(img, pc)
        /\ Decode(img.code[pc + 1]) = Fetched
        /\ top = Len(img.typing[pc])
        /\ Half(1) = img.code[pc + 2]
    BY <2>1, StackSlotsAssumption DEF TypeOK, WellTyped, StackTyped, Fetched, Half
  <2>3. ASSUME NEW t \in Type, NEW n \in 0 .. 3, NEW r, NEW len,
               Flows(img, pc, t, n, r, len), NEW d \in 1 .. n
        PROVE  d <= top /\ stack[top - d].t = t
    <3>1. top - n >= 0 /\ \A k \in (top - n + 1) .. top : img.typing[pc][k] = t
      BY <2>2, <2>3 DEF Flows
    <3>2. top - d + 1 \in (top - n + 1) .. top /\ top - d + 1 \in 1 .. top
      BY <2>2, <3>1
    <3>3. stack[(top - d + 1) - 1].t = t
      BY <3>1, <3>2, <2>1 DEF StackTyped
    <3>4. (top - d + 1) - 1 = top - d
      BY <2>2
    <3>5. stack[top - d].t = t
      BY <3>3, <3>4
    <3> QED
      BY <3>2, <3>5, <2>2
  <2>4. ASSUME NEW t \in Type, NEW d \in 1 .. 3, Expects(Fetched, d, t)
        PROVE  d <= top /\ stack[top - d].t = t
    <3>1. CASE Fetched \in ArithOps[t] /\ d \in 1 .. 2
      <4>1. Flows(img, pc, t, 2, <<t>>, 1)
        BY <3>1, <2>2, TypedArith
      <4> QED
        BY <3>1, <4>1, <2>3
    <3>2. CASE Fetched = "FMul" /\ t = "float" /\ d \in 1 .. 3
      <4>1. Flows(img, pc, t, 3, <<"float">>, 2)
        BY <3>2, <2>2, TypedFMul
      <4> QED
        BY <3>2, <4>1, <2>3
    <3>3. CASE Fetched = StoreOf[t] /\ d = 1
      <4>1. Flows(img, pc, t, 1, <<>>, 2)
        BY <3>3, <2>2, TypedStore
      <4> QED
        BY <3>3, <4>1, <2>3
    <3>4. CASE Fetched = PrintOf[t] /\ d = 1
      <4>1. Flows(img, pc, t, 1, <<>>, 2)
        BY <3>4, <2>2, TypedPrint
      <4> QED
        BY <3>4, <4>1, <2>3
    <3>5. ASSUME NEW u \in Type \ {t}, Fetched = CastOf[t][u], d = 1
          PROVE  d <= top /\ stack[top - d].t = t
      <4>1. Flows(img, pc, t, 1, <<u>>, 1)
        BY <3>5, <2>2, TypedCast
      <4> QED
        BY <3>5, <4>1, <2>3
    <3> QED
      BY <2>4, <3>1, <3>2, <3>3, <3>4, <3>5 DEF Expects
  <2>5. ASSUME NEW t \in Type, Fetched = LoadOf[t]
        PROVE  locals[Half(1)].t \in {t, "none"}
    <3>1. Indexes(img, pc, t)
      BY <2>2, <2>5, TypedLoad
    <3>2. Half(1) \in Halfword
      BY <3>1, <2>2 DEF Indexes, TypeOK, ImageShape
    <3>3. Half(1) \in Nat
      BY <3>2 DEF Halfword
    <3>4. Half(1) \in DOMAIN locals /\ img.ltypes[Half(1)] = t
      BY <3>1, <3>3, <2>2 DEF Indexes, TypeOK, ImageShape
    <3> QED
      BY <3>4, <2>1 DEF LocalsTyped
  <2> QED
    BY <2>4, <2>5 DEF OperandsTyped
<1> QED
  BY <1>1, AgreesAlways, TypeCorrect, PTL
===============================================================================
