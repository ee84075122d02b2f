------------------------- MODULE AsmInterpreterProofs -------------------------
(***************************************************************************)
(* Proofs about AsmInterpreter, for every image and every size of the      *)
(* stack and of the table of locals: it keeps its types on any code, and   *)
(* never leaves its buffers on code with a right certificate.              *)
(***************************************************************************)
EXTENDS AsmInterpreter, FiniteSetTheorems, SequenceTheorems, TLAPS

(***************************************************************************)
(* What a right certificate says of a state.  A handler may be entered     *)
(* where no instruction starts: PrintI leaves x0 at its argument count,    *)
(* which is then run as a subtraction.                                     *)
(***************************************************************************)
AtInstruction == x0 \in DOMAIN img.height /\ x3 = img.height[x0]

AtArgumentCount ==
    LET p == x0 - 1
    IN  /\ p \in DOMAIN img.height /\ p + 2 \in DOMAIN img.height
        /\ Fetched = "ISub"
        /\ x3 \in 1 .. StackSlots
        /\ img.height[p + 2] = x3 - 1

Agrees ==
    /\ status # "wild"
    /\ status = "running" => AtInstruction \/ AtArgumentCount

Inv == TypeOK /\ (Placed(img) => Agrees)

-------------------------------------------------------------------------------
(* Types, on any code at all. *)

LEMMA TypeInit == Init => TypeOK
BY ImagesAssumption, SlotsAssumption DEF Init, TypeOK, Status

\* InBounds keeps x3 on the stack, so no handler moves it off.
LEMMA TypeStep == TypeOK /\ [Next]_vars => TypeOK'
<1> SUFFICES ASSUME TypeOK, [Next]_vars PROVE TypeOK'
  OBVIOUS
<1> USE SlotsAssumption
<1>1. CASE Arith
  <2>1. x3 \in 1 .. StackSlots
    BY <1>1 DEF Arith, Enters, InBounds
  <2> QED
    BY <1>1, <2>1 DEF Arith, TypeOK
<1>2. CASE IConst \/ LoadI
  <2>1. x3 \in 0 .. (StackSlots - 1)
    BY <1>2 DEF IConst, LoadI, Enters, InBounds, PushOps
  <2>2. /\ x3' = x3 + 1 /\ DOMAIN stack' = DOMAIN stack /\ x0' \in {x0 + 2, x0 + 3}
        /\ UNCHANGED <<img, locals, status>>
    BY <1>2 DEF IConst, LoadI, Spill
  <2> QED
    BY <2>1, <2>2 DEF TypeOK
<1>3. CASE StoreI
  BY <1>3 DEF StoreI, TypeOK
<1>4. CASE PrintI
  <2>1. x3 \in 1 .. StackSlots
    BY <1>4 DEF PrintI, Enters, InBounds
  <2> QED
    BY <1>4, <2>1 DEF PrintI, TypeOK
<1>5. CASE Done \/ Wild
  BY <1>5 DEF Done, Wild, TypeOK, Status
<1>6. CASE UNCHANGED vars
  BY <1>6 DEF vars, TypeOK
<1> QED
  BY <1>1, <1>2, <1>3, <1>4, <1>5, <1>6 DEF Next

\* On any code, and whatever the halfwords are taken for, x0 stays an offset
\* and x3 on the stack until the model is left.
THEOREM TypeCorrect == Spec => []TypeOK
BY TypeInit, TypeStep, PTL DEF Spec

-------------------------------------------------------------------------------
(* Code with a right certificate. *)

\* The handlers tell apart the instructions a certificate has a rule for.
LEMMA RuleAt ==
    ASSUME TypeOK, Placed(img), AtInstruction
    PROVE  /\ x0 < Len(img.code) /\ PlacedAt(img, x0)
           /\ Fetched = Decode(img.code[x0 + 1])
<1>1. x0 \in Nat /\ x0 + 0 + 1 = x0 + 1
  BY DEF TypeOK
<1> QED
  BY <1>1 DEF AtInstruction, Placed, Fetched, Half

\* An offset of the certificate lies in the code.
LEMMA CoveredInCode ==
    ASSUME Placed(img), NEW p \in DOMAIN img.height
    PROVE  p < Len(img.code)
BY DEF Placed

\* What an instruction with a rule finds is in bounds.
LEMMA InstructionInBounds ==
    ASSUME TypeOK, Placed(img), AtInstruction
    PROVE  InCode(0) /\ Fetched \in Filled /\ InBounds(Fetched)
<1>1. /\ x0 \in Nat /\ x3 = img.height[x0] /\ x3 \in Int
      /\ Len(img.code) \in Nat
      /\ x0 < Len(img.code) /\ PlacedAt(img, x0)
      /\ Fetched = Decode(img.code[x0 + 1])
      /\ Half(1) = img.code[x0 + 2]
  BY RuleAt DEF TypeOK, ImageShape, AtInstruction, Half
<1>2. InCode(0)
  BY <1>1 DEF InCode
<1>3. CASE Fetched \in ArithOps /\ x3 \in 1 .. StackSlots
  BY <1>2, <1>3 DEF InBounds, Filled, ArithOps, PushOps
<1>4. CASE Fetched = "IConst" /\ x3 \in 0 .. (StackSlots - 1) /\ Moves(img, x0, 3, 1)
  <2>1. x0 + 3 < Len(img.code)
    BY <1>4, CoveredInCode DEF Moves
  <2> QED
    BY <1>1, <1>2, <1>4, <2>1 DEF InBounds, Filled, ArithOps, PushOps, InCode
<1>5. CASE Fetched = "LoadI" /\ x3 \in 0 .. (StackSlots - 1) /\ NamesLocal(img, x0)
  BY <1>1, <1>2, <1>5 DEF InBounds, Filled, ArithOps, PushOps, InCode, NamesLocal
<1>6. CASE Fetched = "StoreI" /\ x3 \in 1 .. StackSlots /\ NamesLocal(img, x0)
  BY <1>1, <1>2, <1>6 DEF InBounds, Filled, ArithOps, PushOps, InCode, NamesLocal
<1>7. CASE Fetched = "PrintI" /\ x3 \in 2 .. StackSlots
  BY <1>1, <1>2, <1>7, SlotsAssumption DEF InBounds, Filled, ArithOps, PushOps
<1>8. CASE Fetched = "Done"
  BY <1>2, <1>8 DEF InBounds, Filled, ArithOps, PushOps
<1> QED
  BY <1>1, <1>3, <1>4, <1>5, <1>6, <1>7, <1>8 DEF PlacedAt

\* So is the subtraction that an argument count is run as.
LEMMA ArgumentCountInBounds ==
    ASSUME TypeOK, Placed(img), AtArgumentCount
    PROVE  InCode(0) /\ Fetched \in Filled /\ InBounds(Fetched)
<1>1. x0 \in Nat /\ Fetched = "ISub" /\ x3 \in 1 .. StackSlots /\ Len(img.code) \in Nat
  BY DEF AtArgumentCount, TypeOK, ImageShape
<1>2. x0 + 1 < Len(img.code)
  <2>1. x0 - 1 + 2 \in DOMAIN img.height
    BY DEF AtArgumentCount
  <2> QED
    BY <1>1, <2>1, CoveredInCode
<1> QED
  BY <1>1, <1>2 DEF InCode, InBounds, Filled, ArithOps, PushOps

\* A handler moves as the rule of its instruction says.
LEMMA AgreesStep ==
    ASSUME TypeOK, Placed(img), Agrees, Next
    PROVE  Agrees'
<1>1. /\ x0 \in Nat /\ x3 \in Int /\ Len(img.code) \in Nat /\ StackSlots \in Nat
      /\ DOMAIN img.height \subseteq Nat
      /\ \A p \in DOMAIN img.height : img.height[p] \in Int
  BY SlotsAssumption DEF TypeOK, ImageShape
<1>2. status = "running" /\ (AtInstruction \/ AtArgumentCount)
  BY DEF Agrees, Next, Arith, IConst, LoadI, StoreI, PrintI, Done, Wild, Enters
<1>3. ~Wild
  BY <1>2, InstructionInBounds, ArgumentCountInBounds DEF Wild
<1>4. CASE Done
  BY <1>4 DEF Done, Agrees
<1>5. CASE AtArgumentCount /\ ~Done
  <2>1. Arith
    BY <1>3, <1>5
       DEF AtArgumentCount, Next, IConst, LoadI, StoreI, PrintI, Enters
  <2>2. x3' = x3 - 1 /\ x0' = x0 + 1 /\ img' = img /\ status' = status
    BY <2>1 DEF Arith
  <2>3. x0 + 1 \in DOMAIN img.height /\ img.height[x0 + 1] = x3 - 1
    <3>1. x0 - 1 + 2 = x0 + 1
      BY <1>1
    <3> QED
      BY <1>5, <3>1 DEF AtArgumentCount
  <2> QED
    BY <1>2, <2>2, <2>3 DEF Agrees, AtInstruction
<1>6. CASE AtInstruction /\ ~Done
  <2>1. /\ PlacedAt(img, x0) /\ Fetched = Decode(img.code[x0 + 1])
        /\ x3 = img.height[x0]
    BY <1>6, RuleAt DEF AtInstruction
  <2>2. ASSUME NEW len \in Nat, NEW delta \in Int, Moves(img, x0, len, delta),
               x0' = x0 + len, x3' = x3 + delta, img' = img, status' = status
        PROVE  Agrees'
    BY <1>2, <2>1, <2>2 DEF Moves, Agrees, AtInstruction
  <2>3. CASE Arith
    <3>1. Fetched \in ArithOps
      BY <2>3 DEF Arith, Enters
    <3>2. Moves(img, x0, 1, -1)
      BY <2>1, <3>1 DEF PlacedAt, ArithOps
    <3>3. x0' = x0 + 1 /\ x3' = x3 + (-1) /\ img' = img /\ status' = status
      BY <1>1, <2>3 DEF Arith
    <3> QED
      BY <2>2, <3>2, <3>3
  <2>4. CASE IConst
    <3>1. Moves(img, x0, 3, 1)
      BY <2>1, <2>4 DEF PlacedAt, ArithOps, IConst, Enters
    <3>2. x0' = x0 + 3 /\ x3' = x3 + 1 /\ img' = img /\ status' = status
      BY <2>4 DEF IConst, Spill
    <3> QED
      BY <2>2, <3>1, <3>2
  <2>5. CASE LoadI
    <3>1. Moves(img, x0, 2, 1)
      BY <2>1, <2>5 DEF PlacedAt, ArithOps, LoadI, Enters
    <3>2. x0' = x0 + 2 /\ x3' = x3 + 1 /\ img' = img /\ status' = status
      BY <2>5 DEF LoadI, Spill
    <3> QED
      BY <2>2, <3>1, <3>2
  <2>6. CASE StoreI
    <3>1. Moves(img, x0, 2, 0)
      BY <2>1, <2>6 DEF PlacedAt, ArithOps, StoreI, Enters
    <3>2. x0' = x0 + 2 /\ x3' = x3 + 0 /\ img' = img /\ status' = status
      BY <1>1, <2>6 DEF StoreI
    <3> QED
      BY <2>2, <3>1, <3>2
  <2>7. CASE PrintI
    <3>1. /\ x3 \in 2 .. StackSlots /\ Decode(img.code[x0 + 2]) = "ISub"
          /\ Moves(img, x0, 2, -2)
      BY <2>1, <2>7 DEF PlacedAt, ArithOps, PrintI, Enters
    <3>2. x0' = x0 + 1 /\ x3' = x3 - 1 /\ img' = img /\ status' = status
      BY <2>7 DEF PrintI
    <3>3. Fetched' = "ISub"
      <4>1. Fetched' = Decode(img'.code[x0' + 0 + 1])
        BY DEF Fetched, Half
      <4>2. x0' + 0 + 1 = x0 + 2
        BY <1>1, <3>2
      <4> QED
        BY <3>1, <3>2, <4>1, <4>2
    <3>4. /\ x0' - 1 = x0 /\ x0 \in DOMAIN img.height /\ x0 + 2 \in DOMAIN img.height
          /\ x3' \in 1 .. StackSlots /\ img.height[x0 + 2] = x3' - 1
      <4>1. x0' - 1 = x0 /\ x3' \in 1 .. StackSlots /\ x3 + (-2) = x3' - 1
        BY <1>1, <3>1, <3>2
      <4>2. x0 \in DOMAIN img.height
        BY <1>6 DEF AtInstruction
      <4>3. x0 + 2 \in DOMAIN img.height /\ img.height[x0 + 2] = x3 + (-2)
        BY <2>1, <3>1 DEF Moves
      <4> QED
        BY <4>1, <4>2, <4>3
    <3>5. AtArgumentCount'
      BY <3>2, <3>3, <3>4 DEF AtArgumentCount
    <3> QED
      BY <1>2, <3>2, <3>5 DEF Agrees
  <2> QED
    BY <1>3, <1>6, <2>3, <2>4, <2>5, <2>6, <2>7 DEF Next
<1> QED
  BY <1>2, <1>4, <1>5, <1>6

LEMMA InvInit == Init => Inv
<1>1. Init /\ Placed(img) => Agrees
  BY DEF Init, Placed, Agrees, AtInstruction
<1> QED
  BY <1>1, TypeInit DEF Inv

LEMMA InvStep == Inv /\ [Next]_vars => Inv'
<1> SUFFICES ASSUME Inv, [Next]_vars PROVE Inv'
  OBVIOUS
<1>1. TypeOK'
  BY TypeStep DEF Inv
<1>2. img' = img
  BY DEF Next, Arith, IConst, LoadI, StoreI, PrintI, Done, Wild, vars
<1>3. Placed(img)' = Placed(img)
  BY <1>2 DEF Placed, PlacedAt, Moves, NamesLocal
<1>4. ASSUME Placed(img) PROVE Agrees'
  <2>1. CASE Next
    BY <1>4, <2>1, AgreesStep DEF Inv
  <2>2. CASE UNCHANGED vars
    BY <1>4, <2>2 DEF Inv, Agrees, AtInstruction, AtArgumentCount, Fetched, Half, vars
  <2> QED
    BY <2>1, <2>2
<1> QED
  BY <1>1, <1>3, <1>4 DEF Inv

\* Code that stores at least as often as it prints stays inside the stack, the
\* locals and the table of handlers, for every such code and every size of
\* them, although stores and prints leave x3 where no operand is.
THEOREM ContainedAlways == Spec => []Contained
<1>1. Inv => Contained
  BY DEF Inv, Agrees, Contained
<1> QED
  BY <1>1, InvInit, InvStep, PTL DEF Spec
-------------------------------------------------------------------------------
(* Where x3 is. *)

Stored(n) == {p \in StoresAt : p < n}
PrintedAll == \E S : out \in Seq(S)

\* At the start of an instruction, and between the two handlers of a print.
DriftsAt(p) ==
    /\ p \in DOMAIN img.typing
    /\ x3 = Depth(img, p) + Cardinality(Stored(p)) - Len(out)

DriftsAtArgumentCount ==
    LET p == x0 - 1
    IN  /\ DriftsAt(p) /\ p \notin StoresAt
        /\ Deepens(img, p, 2, -1)
        /\ Fetched = "ISub"

Drifts ==
    /\ PrintedAll
    /\ status = "running" => DriftsAt(x0) \/ DriftsAtArgumentCount

\* There are finitely many stores before an offset.
LEMMA StoredFinite ==
    ASSUME Measured(img), NEW n \in Nat
    PROVE  IsFiniteSet(Stored(n)) /\ Cardinality(Stored(n)) \in Nat
<1>1. Stored(n) \subseteq 0 .. n
  BY DEF Stored, StoresAt, Measured
<1>2. IsFiniteSet(0 .. n)
  BY FS_Interval
<1> QED
  BY <1>1, <1>2, FS_Subset, FS_CardinalityType

\* From one instruction to the next the stores grow by the one in between, if
\* it is one.
LEMMA StoredNext ==
    ASSUME Measured(img), NEW p \in DOMAIN img.typing, NEW len \in Nat \ {0}, NEW delta,
           Deepens(img, p, len, delta)
    PROVE  Cardinality(Stored(p + len))
              = IF p \in StoresAt THEN Cardinality(Stored(p)) + 1 ELSE Cardinality(Stored(p))
<1>1. \A q \in DOMAIN img.typing : q \in Nat /\ (q <= p \/ q >= p + len)
  BY DEF Measured, Deepens
<1>2. p \in Nat /\ StoresAt \subseteq DOMAIN img.typing
  BY <1>1 DEF StoresAt
<1>3. \A q \in StoresAt : q < p + len <=> (q < p \/ q = p)
  BY <1>1, <1>2
<1>4. CASE p \in StoresAt
  <2>1. Stored(p + len) = Stored(p) \cup {p}
    BY <1>3, <1>4 DEF Stored
  <2>2. p \notin Stored(p)
    BY <1>2 DEF Stored
  <2> QED
    BY <1>2, <1>4, <2>1, <2>2, StoredFinite, FS_AddElement
<1>5. CASE p \notin StoresAt
  <2>1. Stored(p + len) = Stored(p)
    BY <1>3, <1>5 DEF Stored
  <2> QED
    BY <1>5, <2>1
<1> QED
  BY <1>4, <1>5

\* A print makes what was printed one longer.
LEMMA PrintsOne ==
    ASSUME PrintedAll, PrintI
    PROVE  PrintedAll' /\ Len(out) \in Nat /\ Len(out') = Len(out) + 1
<1>1. PICK S : out \in Seq(S)
  BY DEF PrintedAll
<1>2. out \in Seq(S \cup {w7})
  BY <1>1, SeqMonotonic
<1>3. out' = Append(out, w7) /\ w7 \in S \cup {w7}
  BY DEF PrintI
<1>4. out' \in Seq(S \cup {w7}) /\ Len(out) \in Nat /\ Len(out') = Len(out) + 1
  BY <1>2, <1>3
<1> QED
  BY <1>4 DEF PrintedAll

\* Every handler but the one of a print leaves what was printed.
LEMMA PrintedStays ==
    ASSUME PrintedAll, Next, ~PrintI
    PROVE  out' = out /\ PrintedAll' /\ Len(out) \in Nat
<1>1. out' = out
  BY DEF Next, Arith, IConst, LoadI, StoreI, Done, Wild
<1>2. PICK S : out \in Seq(S)
  BY DEF PrintedAll
<1> QED
  BY <1>1, <1>2 DEF PrintedAll

\* An instruction of len halfwords that moves the depth by delta and x3 by as
\* much, or by one more if it is a store, keeps the drift.
LEMMA DriftsOn ==
    ASSUME Measured(img), PrintedAll, PrintedAll', DriftsAt(x0), Len(out) \in Nat,
           NEW len \in Nat \ {0}, NEW delta \in Int, Deepens(img, x0, len, delta),
           UNCHANGED <<img, out>>, x0' = x0 + len,
           x3' = x3 + (IF x0 \in StoresAt THEN delta + 1 ELSE delta)
    PROVE  Drifts'
<1>1. x0 \in Nat /\ x0 + len \in DOMAIN img.typing /\ x0 + len \in Nat
  BY DEF DriftsAt, Measured, Deepens
<1>2. /\ Depth(img, x0) \in Nat /\ Depth(img, x0 + len) = Depth(img, x0) + delta
      /\ Cardinality(Stored(x0)) \in Nat
      /\ Cardinality(Stored(x0 + len)) = IF x0 \in StoresAt THEN Cardinality(Stored(x0)) + 1
                                         ELSE Cardinality(Stored(x0))
  BY <1>1, StoredFinite, StoredNext DEF DriftsAt, Measured, Deepens
<1>3. Depth(img, x0)' = Depth(img, x0 + len) /\ Stored(x0)' = Stored(x0 + len)
  BY DEF Depth, Stored, StoresAt
<1>4. x3' = Depth(img, x0 + len) + Cardinality(Stored(x0 + len)) - Len(out)
  BY <1>2 DEF DriftsAt
<1>5. DriftsAt(x0)'
  BY <1>1, <1>3, <1>4 DEF DriftsAt
<1> QED
  BY <1>5 DEF Drifts

LEMMA DriftsStep ==
    ASSUME TypeOK, Measured(img), Drifts, Next
    PROVE  Drifts'
<1>1. status = "running" /\ PrintedAll /\ (DriftsAt(x0) \/ DriftsAtArgumentCount)
  BY DEF Drifts, Next, Arith, IConst, LoadI, StoreI, PrintI, Done, Wild, Enters
<1>2. x0 \in Nat /\ x3 \in Int
  BY SlotsAssumption DEF TypeOK
<1>3. CASE Done \/ Wild
  <2>1. PrintedAll'
    BY <1>1, <1>3, PrintedStays DEF PrintI, Done, Wild, Next
  <2> QED
    BY <1>3, <2>1 DEF Done, Wild, Drifts
<1>4. CASE DriftsAtArgumentCount /\ ~Done /\ ~Wild
  <2> DEFINE p == x0 - 1
  <2>1. Arith
    BY <1>4 DEF DriftsAtArgumentCount, Next, IConst, LoadI, StoreI, PrintI, Enters
  <2>2. /\ x3' = x3 - 1 /\ x0' = x0 + 1 /\ img' = img /\ out' = out
        /\ PrintedAll' /\ Len(out) \in Nat
    BY <1>1, <2>1, PrintedStays DEF Arith, PrintI, Next, Enters, ArithOps
  <2>3. /\ p \in DOMAIN img.typing /\ p \in Nat /\ p \notin StoresAt
        /\ Deepens(img, p, 2, -1) /\ p + 2 = x0 + 1
        /\ x3 = Depth(img, p) + Cardinality(Stored(p)) - Len(out)
    BY <1>2, <1>4 DEF DriftsAtArgumentCount, DriftsAt, Measured
  <2>4. /\ x0 + 1 \in DOMAIN img.typing /\ Depth(img, p) \in Nat
        /\ Depth(img, x0 + 1) = Depth(img, p) + (-1)
        /\ Cardinality(Stored(p)) \in Nat
        /\ Cardinality(Stored(x0 + 1)) = Cardinality(Stored(p))
    <3> HIDE DEF p
    <3>1. p + 2 \in DOMAIN img.typing /\ Depth(img, p + 2) = Depth(img, p) + (-1)
      BY <2>3 DEF Deepens
    <3>2. Depth(img, p) \in Nat
      BY <2>3 DEF Measured
    <3>3. Cardinality(Stored(p)) \in Nat
      BY <2>3, StoredFinite
    <3>4. Cardinality(Stored(p + 2)) = Cardinality(Stored(p))
      BY <2>3, StoredNext
    <3> QED
      BY <2>3, <3>1, <3>2, <3>3, <3>4
  <2>5. x3' = Depth(img, x0 + 1) + Cardinality(Stored(x0 + 1)) - Len(out)
    BY <2>2, <2>3, <2>4
  <2>6. DriftsAt(x0)'
    BY <2>2, <2>4, <2>5 DEF DriftsAt, Depth, Stored, StoresAt
  <2> QED
    BY <2>2, <2>6 DEF Drifts
<1>5. CASE DriftsAt(x0) /\ ~Done /\ ~Wild
  <2>1. /\ MeasuredAt(img, x0) /\ Fetched = Decode(img.code[x0 + 1])
        /\ x0 \in StoresAt <=> Fetched = "StoreI"
    <3>1. x0 + 0 + 1 = x0 + 1
      BY <1>2
    <3> QED
      BY <1>5, <3>1 DEF DriftsAt, Measured, Fetched, Half, StoresAt
  <2>2. CASE PrintI
    <3>1. Fetched = "PrintI" /\ Deepens(img, x0, 2, -1) /\ Decode(img.code[x0 + 2]) = "ISub"
      BY <2>1, <2>2 DEF PrintI, Enters, MeasuredAt, ArithOps, Filled, PushOps
    <3>2. /\ x0' = x0 + 1 /\ x0' - 1 = x0 /\ x3' = x3 - 1 /\ img' = img
          /\ PrintedAll' /\ Len(out) \in Nat /\ Len(out') = Len(out) + 1
      BY <1>1, <1>2, <2>2, PrintsOne DEF PrintI
    <3>3. Fetched' = "ISub"
      <4>1. Fetched' = Decode(img'.code[x0' + 0 + 1]) /\ x0' + 0 + 1 = x0 + 2
        BY <1>2, <3>2 DEF Fetched, Half
      <4> QED
        BY <3>1, <3>2, <4>1
    <3>4. x3' = Depth(img, x0) + Cardinality(Stored(x0)) - Len(out')
      <4>1. Depth(img, x0) \in Nat /\ Cardinality(Stored(x0)) \in Nat
        BY <1>2, <1>5, StoredFinite DEF DriftsAt, Measured
      <4> QED
        BY <1>5, <3>2, <4>1 DEF DriftsAt
    <3>5. DriftsAtArgumentCount'
      BY <1>5, <2>1, <3>1, <3>2, <3>3, <3>4
         DEF DriftsAtArgumentCount, DriftsAt, Depth, Stored, StoresAt, Deepens
    <3> QED
      BY <3>2, <3>5 DEF Drifts
  <2>3. CASE ~PrintI
    <3>1. out' = out /\ PrintedAll' /\ Len(out) \in Nat /\ img' = img
      BY <1>1, <2>3, PrintedStays
         DEF Next, Arith, IConst, LoadI, StoreI, PrintI, Done, Wild
    <3>2. CASE Arith
      <4>1. Fetched # "StoreI" /\ Deepens(img, x0, 1, -1)
        BY <2>1, <3>2 DEF Arith, Enters, MeasuredAt, ArithOps, Filled, PushOps
      <4>2. x3' = x3 + (-1) /\ x0' = x0 + 1
        BY <1>2, <3>2 DEF Arith
      <4> QED
        BY <1>1, <1>5, <2>1, <3>1, <4>1, <4>2, DriftsOn
    <3>3. CASE IConst
      <4>1. Fetched # "StoreI" /\ Deepens(img, x0, 3, 1)
        BY <2>1, <3>3 DEF IConst, Enters, MeasuredAt, ArithOps, Filled, PushOps
      <4>2. x3' = x3 + 1 /\ x0' = x0 + 3
        BY <3>3 DEF IConst, Spill
      <4> QED
        BY <1>1, <1>5, <2>1, <3>1, <4>1, <4>2, DriftsOn
    <3>4. CASE LoadI
      <4>1. Fetched # "StoreI" /\ Deepens(img, x0, 2, 1)
        BY <2>1, <3>4 DEF LoadI, Enters, MeasuredAt, ArithOps, Filled, PushOps
      <4>2. x3' = x3 + 1 /\ x0' = x0 + 2
        BY <3>4 DEF LoadI, Spill
      <4> QED
        BY <1>1, <1>5, <2>1, <3>1, <4>1, <4>2, DriftsOn
    <3>5. CASE StoreI
      <4>1. Fetched = "StoreI" /\ Deepens(img, x0, 2, -1)
        BY <2>1, <3>5 DEF StoreI, Enters, MeasuredAt, ArithOps, Filled, PushOps
      <4>2. x3' = x3 + (-1 + 1) /\ x0' = x0 + 2
        BY <1>2, <3>5 DEF StoreI
      <4> QED
        BY <1>1, <1>5, <2>1, <3>1, <4>1, <4>2, DriftsOn
    <3> QED
      BY <1>5, <2>3, <3>2, <3>3, <3>4, <3>5 DEF Next
  <2> QED
    BY <2>2, <2>3
<1> QED
  BY <1>1, <1>3, <1>4, <1>5

DriftInv == TypeOK /\ (Measured(img) => Drifts)

LEMMA DriftInit == Init => DriftInv
<1> SUFFICES ASSUME Init, Measured(img) PROVE Drifts
  BY TypeInit DEF DriftInv
<1>1. x0 = 0 /\ x3 = 0 /\ out = <<>> /\ 0 \in DOMAIN img.typing /\ Depth(img, 0) = 0
  BY DEF Init, Measured
<1>2. Stored(0) = {}
  BY DEF Stored, StoresAt, Measured
<1>3. Cardinality(Stored(0)) = 0 /\ Len(out) = 0 /\ out \in Seq({})
  BY <1>1, <1>2, FS_EmptySet
<1> QED
  BY <1>1, <1>3 DEF Drifts, DriftsAt, PrintedAll

LEMMA DriftStep == DriftInv /\ [Next]_vars => DriftInv'
<1> SUFFICES ASSUME DriftInv, [Next]_vars PROVE DriftInv'
  OBVIOUS
<1>1. TypeOK'
  BY TypeStep DEF DriftInv
<1>2. img' = img
  BY DEF Next, Arith, IConst, LoadI, StoreI, PrintI, Done, Wild, vars
<1>3. Measured(img)' = Measured(img)
  BY <1>2 DEF Measured, MeasuredAt, Deepens, Depth
<1>4. ASSUME Measured(img) PROVE Drifts'
  <2>1. CASE Next
    BY <1>4, <2>1, DriftsStep DEF DriftInv
  <2>2. CASE UNCHANGED vars
    <3>1. Drifts
      BY <1>4 DEF DriftInv
    <3> QED
      BY <2>2, <3>1 DEF Drifts, DriftsAt, DriftsAtArgumentCount, PrintedAll, Depth, Stored,
                        StoresAt, Deepens, Fetched, Half, vars
  <2> QED
    BY <2>1, <2>2
<1> QED
  BY <1>1, <1>3, <1>4 DEF DriftInv

\* How far x3 is from the depth of the language's operand stack: the stores
\* minus the prints executed so far, for every program and at every step.
THEOREM DriftAlways == Spec => []Drift
<1>1. DriftInv => Drift
  <2> SUFFICES ASSUME DriftInv, Measured(img), status = "running", x0 \in DOMAIN img.typing
               PROVE  x3 = Depth(img, x0) + Stores - Len(out)
    BY DEF Drift
  <2>1. ~DriftsAtArgumentCount
    <3>1. SUFFICES ASSUME DriftsAtArgumentCount PROVE FALSE
      OBVIOUS
    <3>2. x0 \in Nat /\ (x0 <= x0 - 1 \/ x0 >= x0 - 1 + 2)
      BY <3>1 DEF DriftsAtArgumentCount, Deepens, DriftInv, TypeOK
    <3> QED
      BY <3>2
  <2>2. DriftsAt(x0)
    BY <2>1 DEF DriftInv, Drifts
  <2> QED
    BY <2>2 DEF DriftsAt, Stored, Stores
<1> QED
  BY <1>1, DriftInit, DriftStep, PTL DEF Spec
===============================================================================
