----------------------------- MODULE ParserProofs -----------------------------
(***************************************************************************)
(* Proofs about Parser, for every sequence of tokens: the table numbers    *)
(* its names without gaps, the position runs past the tokens only at an    *)
(* open call, every name of the trees resolves, and operators bind as they *)
(* should.                                                                 *)
(***************************************************************************)
EXTENDS Parser, FiniteSetTheorems, SequenceTheorems, WellFoundedInduction, TLAPS

-------------------------------------------------------------------------------
(* Position and table, which no step changes but by what it reads next. *)

\* Whatever the tokens are: nothing below asks what their texts and bits hold.
Token == {tokens[k] : k \in DOMAIN tokens}

\* Every name of the table was declared at a place already passed.
Origins ==
    \A n \in DOMAIN table :
        \E j \in 1 .. (pos - 1) : DeclaredAt(j) /\ tokens[j + 1].text = n

Base ==
    /\ tokens \in Seq(Token)
    /\ pos \in 0 .. (Len(tokens) + 1)
    /\ OverrunsOnlyOpenCall
    /\ table \in [DOMAIN table -> [ix : Nat, type : TypeNames]]
    /\ IsFiniteSet(DOMAIN table)
    /\ IndexesDense
    /\ Origins
    /\ status \in {"running", "done", "panicked", "wild"}

\* A declaration that is complete: what Define and Initialise have seen.
Declaration == Declares /\ HasNext(3)

\* A step enters a name only at a declaration, which it passes.
Enters ==
    /\ Declaration
    /\ table' = Insert(Tok(2).text, Tok(1).text)
    /\ pos' = pos + 3

\* Every other step leaves the table alone, and passes the last token only
\* by passing an opening parenthesis or a comma.
MovesOn ==
    /\ UNCHANGED table
    /\ pos' = pos \/ (pos' \in Nat /\ pos < pos' /\ pos' <= Len(tokens) + 1)
    /\ (pos' = Len(tokens) + 1 /\ pos' # pos) => OverrunsOnlyOpenCall'

LEMMA ArgumentMoves ==
    ASSUME Base, NEW k \in Nat, HasNext(k), NEW name, NEW args,
           k = 0 => HasNext(1),
           k > 0 => Tok(k).tag \in {"kLParentheses", "kComma"},
           NextArgument(k, name, args), tokens' = tokens, table' = table
    PROVE  MovesOn
<1>1. pos \in Nat /\ Len(tokens) \in Nat
    BY DEF Base
<1>2. CASE k = 0
    <2>1. HasNext(1) /\ (pos' = pos + 0 \/ pos' = pos + (0 + 1))
        BY <1>2 DEF NextArgument, Eat
    <2> QED  BY <1>1, <2>1 DEF MovesOn, HasNext
<1>3. CASE k > 0
    <2>1. pos' = pos + k \/ pos' = pos + (k + 1)
        BY DEF NextArgument, Eat
    <2>2. pos + k <= Len(tokens) /\ tokens[pos + k].tag \in {"kLParentheses", "kComma"}
        BY <1>3 DEF HasNext, Tok
    <2>3. pos' \in Nat /\ pos < pos' /\ pos' <= Len(tokens) + 1
        BY <1>1, <1>3, <2>1, <2>2
    <2>4. pos' = Len(tokens) + 1 => pos + k = Len(tokens)
        BY <1>1, <2>1, <2>2
    <2>5. pos' = Len(tokens) + 1 => OverrunsOnlyOpenCall'
        BY <1>1, <1>3, <2>2, <2>4 DEF OverrunsOnlyOpenCall, Base
    <2> QED  BY <2>3, <2>5 DEF MovesOn
<1> QED  BY <1>2, <1>3

\* Steps that stop the parser move nothing.
LEMMA StopMoves ==
    ASSUME Base, BadStatement \/ BadPrimary \/ BadReturn \/ Finish
    PROVE  /\ UNCHANGED <<tokens, pos, table, program, frames, value>>
           /\ status' \in {"done", "panicked", "wild"}
BY DEF BadStatement, BadPrimary, BadReturn, Finish, Panic, ReadPastEnd

LEMMA StepMoves ==
    ASSUME Base, Next
    PROVE  tokens' = tokens /\ (Enters \/ MovesOn)
<1>1. pos \in Nat /\ Len(tokens) \in Nat
    BY DEF Base
<1> DEFINE Forward(k) == UNCHANGED <<tokens, table>> /\ HasNext(k) /\ Eat(k)
<1>2. ASSUME NEW k \in 1 .. 3, Forward(k) PROVE MovesOn
    <2>1. pos' = pos + k /\ pos + k <= Len(tokens) /\ UNCHANGED table
        BY <1>2 DEF Eat, HasNext
    <2> QED  BY <1>1, <2>1 DEF MovesOn
<1>3. ASSUME UNCHANGED <<tokens, pos, table>> PROVE tokens' = tokens /\ MovesOn
    BY <1>1, <1>3 DEF MovesOn
<1>4. CASE Define
    BY <1>4 DEF Define, Enters, Declaration, Is, Eat
<1>5. CASE Initialise
    BY <1>5 DEF Initialise, Enters, Declaration, Is, Eat
<1>6. CASE Reassign
    <2>1. Forward(2)
        BY <1>6 DEF Reassign, Is
    <2> QED  BY <2>1, <1>2
<1>7. CASE CallFunction
    <2>1. /\ HasNext(2) /\ Tok(2).tag = "kLParentheses"
          /\ NextArgument(2, Tok(1).text, <<>>) /\ UNCHANGED <<tokens, table>>
        BY <1>7 DEF CallFunction, Is
    <2> QED  BY <2>1, ArgumentMoves
<1>8. CASE Semicolon
    <2>1. Forward(1)
        BY <1>8 DEF Semicolon, Is
    <2> QED  BY <2>1, <1>2
<1>9. CASE Literal
    <2>1. Forward(1)
        BY <1>9 DEF Literal
    <2> QED  BY <2>1, <1>2
<1>10. CASE Variable
    <2>1. Forward(1)
        BY <1>10 DEF Variable, Is
    <2> QED  BY <2>1, <1>2
<1>11. CASE OpenCast
    <2>1. Forward(3)
        BY <1>11 DEF OpenCast, OpensCast, Is
    <2> QED  BY <2>1, <1>2
<1>12. CASE OpenGroup
    <2>1. Forward(1)
        BY <1>12 DEF OpenGroup, Is
    <2> QED  BY <2>1, <1>2
<1>13. ASSUME NEW kind \in DOMAIN LoopOps, FoldLoop(kind) PROVE tokens' = tokens /\ MovesOn
    <2>1. Forward(1) \/ UNCHANGED <<tokens, pos, table>>
        BY <1>13 DEF FoldLoop
    <2> QED  BY <2>1, <1>2, <1>3
<1>14. CASE CloseCast
    BY <1>3, <1>14 DEF CloseCast
<1>15. CASE CloseGroup
    <2>1. Forward(1)
        BY <1>15 DEF CloseGroup
    <2> QED  BY <2>1, <1>2
<1>16. CASE EndAssign
    BY <1>3, <1>16 DEF EndAssign
<1>17. CASE EndArgument
    <2> DEFINE k == IF Is(1, "kComma") THEN 1 ELSE 0
    <2>1. /\ NextArgument(k, Top.word, Append(Top.irs, Result))
          /\ HasNext(1) /\ UNCHANGED <<tokens, table>>
        BY <1>17 DEF EndArgument
    <2>2. /\ k \in Nat
          /\ k > 0 => HasNext(k) /\ Tok(k).tag \in {"kLParentheses", "kComma"}
        BY DEF Is
    <2>3. HasNext(0)
        BY <1>1, <2>1 DEF HasNext
    <2> HIDE DEF k
    <2>4. HasNext(k)
        BY <2>2, <2>3
    <2> QED  BY <2>1, <2>2, <2>4, ArgumentMoves
<1>18. CASE BadStatement \/ BadPrimary \/ BadReturn \/ Finish
    BY <1>3, <1>18, StopMoves
<1> QED
    BY <1>4, <1>5, <1>6, <1>7, <1>8, <1>9, <1>10, <1>11, <1>12, <1>13, <1>14, <1>15,
       <1>16, <1>17, <1>18 DEF Next

\* A step stops the parser, or leaves it running.
LEMMA StepStatus ==
    ASSUME Base, Next
    PROVE  status' \in {"running", "done", "panicked", "wild"}
<1>1. CASE BadStatement \/ BadPrimary \/ BadReturn \/ Finish
    BY <1>1, StopMoves
<1>2. CASE UNCHANGED status
    BY <1>2 DEF Base
<1> QED
    BY <1>1, <1>2 DEF Next, Define, Initialise, Reassign, CallFunction, Semicolon, Literal,
       Variable, OpenCast, OpenGroup, FoldLoop, CloseCast, CloseGroup, EndAssign, EndArgument

-------------------------------------------------------------------------------
(* The table. *)

\* What a declaration has read.
LEMMA DeclarationReads ==
    ASSUME Base, Declaration
    PROVE  /\ pos + 1 \in DOMAIN tokens /\ DeclaredAt(pos + 1)
           /\ tokens[pos + 1 + 1] = Tok(2)
           /\ Tok(1).text \in TypeNames
           /\ pos + 3 <= Len(tokens)
<1>1. pos \in Nat /\ Len(tokens) \in Nat /\ pos + 3 <= Len(tokens)
    BY DEF Base, Declaration, HasNext
<1>2. /\ pos + 1 \in DOMAIN tokens /\ pos + 2 \in DOMAIN tokens
      /\ pos + 1 + 1 = pos + 2
    BY <1>1 DEF Base
<1>4. /\ Tok(1).tag = "kString" /\ Tok(1).text \in TypeNames /\ Tok(2).tag = "kString"
    BY DEF Declaration, Declares, IsType, Is
<1> QED  BY <1>1, <1>2, <1>4 DEF Tok, DeclaredAt

\* Entering a name keeps the table typed and its indexes dense, whether or
\* not the name is there already.
LEMMA InsertKeepsTable ==
    ASSUME Base, NEW name, NEW type \in TypeNames, table' = Insert(name, type)
    PROVE  /\ table' \in [DOMAIN table' -> [ix : Nat, type : TypeNames]]
           /\ DOMAIN table' = DOMAIN table \cup {name} /\ IsFiniteSet(DOMAIN table')
           /\ IndexesDense'
           /\ \A n \in DOMAIN table : table'[n] = table[n]
           /\ name \notin DOMAIN table => table'[name] = [ix |-> NextIx, type |-> type]
<1> DEFINE D == DOMAIN table
           New == [ix |-> Cardinality(D), type |-> type]
<1>1. /\ IsFiniteSet(D) /\ Cardinality(D) \in Nat
      /\ \A n \in D : table[n] \in [ix : Nat, type : TypeNames]
    BY FS_CardinalityType DEF Base
<1>2. table' = [n \in D \cup {name} |-> IF n \in D THEN table[n] ELSE New]
    BY DEF Insert
<1>3. New \in [ix : Nat, type : TypeNames] /\ New.ix = Cardinality(D)
    BY <1>1
<1> HIDE DEF New
<1>4. /\ DOMAIN table' = D \cup {name}
      /\ \A n \in D : table'[n] = table[n]
      /\ name \notin D => table'[name] = New
    BY <1>2
<1>5. IsFiniteSet(D \cup {name})
    BY <1>1, FS_AddElement
<1>6. table' \in [D \cup {name} -> [ix : Nat, type : TypeNames]]
    BY <1>1, <1>2, <1>3
<1>7. /\ {table[n].ix : n \in D} = 0 .. (Cardinality(D) - 1)
      /\ \A m, n \in D : table[m].ix = table[n].ix => m = n
    BY DEF Base, IndexesDense
<1>8. IndexesDense'
    <2>1. CASE name \in D
        <3>1. D \cup {name} = D
            BY <2>1
        <3>2. {table'[n].ix : n \in D} = {table[n].ix : n \in D}
            BY <1>4
        <3> QED  BY <1>4, <1>7, <3>1, <3>2 DEF IndexesDense
    <2>2. CASE name \notin D
        <3>1. Cardinality(D \cup {name}) = Cardinality(D) + 1
            BY <1>1, <2>2, FS_AddElement
        <3>2. {table'[n].ix : n \in D \cup {name}} = {table[n].ix : n \in D} \cup {Cardinality(D)}
            BY <1>3, <1>4, <2>2
        <3>3. 0 .. (Cardinality(D) + 1 - 1) = 0 .. (Cardinality(D) - 1) \cup {Cardinality(D)}
            BY <1>1
        <3>4. \A n \in D : table[n].ix \in 0 .. (Cardinality(D) - 1)
            BY <1>7
        <3>5. \A n \in D : table[n].ix # Cardinality(D)
            BY <1>1, <3>4
        <3>6. \A m, n \in D \cup {name} : table'[m].ix = table'[n].ix => m = n
            BY <1>3, <1>4, <1>7, <3>5
        <3> QED  BY <1>4, <1>7, <3>1, <3>2, <3>3, <3>6 DEF IndexesDense
    <2> QED  BY <2>1, <2>2
<1> QED  BY <1>4, <1>5, <1>6, <1>8 DEF NextIx, New

LEMMA IntervalGrows ==
    ASSUME NEW a \in Int, NEW b \in Int, a <= b
    PROVE  \A j \in 1 .. (a - 1) : j \in 1 .. (b - 1)
OBVIOUS

\* What every step keeps: the tokens and the entries of the table.
Kept ==
    /\ tokens' = tokens
    /\ \A n \in DOMAIN table : n \in DOMAIN table' /\ table'[n] = table[n]

LEMMA BaseStep ==
    ASSUME Base, Next
    PROVE  Base' /\ Kept
<1>1. tokens' = tokens
    BY StepMoves
<1>2. status' \in {"running", "done", "panicked", "wild"}
    BY StepStatus
<1>3. pos \in Nat /\ Len(tokens) \in Nat /\ tokens \in Seq(Token)
    BY DEF Base
<1>6. (tokens \in Seq(Token))'
    BY <1>1, <1>3 DEF Token
<1>4. CASE MovesOn
    <2>1. table' = table /\ pos' \in 0 .. (Len(tokens) + 1) /\ pos' >= pos
        BY <1>3, <1>4 DEF MovesOn, Base
    <2>2. OverrunsOnlyOpenCall'
        <3>1. CASE pos' = pos
            BY <1>1, <3>1 DEF Base, OverrunsOnlyOpenCall
        <3>2. CASE pos' # pos /\ pos' = Len(tokens) + 1
            BY <1>4, <3>2 DEF MovesOn
        <3>3. CASE pos' <= Len(tokens)
            BY <1>1, <1>3, <2>1, <3>3 DEF OverrunsOnlyOpenCall
        <3> QED  BY <1>3, <2>1, <3>1, <3>2, <3>3
    <2>3. Origins'
        <3> SUFFICES ASSUME NEW n \in DOMAIN table
                     PROVE  \E j \in 1 .. (pos' - 1) : DeclaredAt(j)' /\ tokens'[j + 1].text = n
            BY <2>1 DEF Origins
        <3>1. PICK j \in 1 .. (pos - 1) : DeclaredAt(j) /\ tokens[j + 1].text = n
            BY DEF Base, Origins
        <3>2. j \in 1 .. (pos' - 1)
            <4>1. pos' \in Int /\ pos \in Int /\ pos <= pos'
                BY <1>3, <2>1
            <4> QED  BY <4>1, IntervalGrows
        <3> QED  BY <1>1, <3>1, <3>2 DEF DeclaredAt
    <2>4. IndexesDense'
        BY <2>1 DEF Base, IndexesDense
    <2> QED  BY <1>1, <1>2, <1>6, <2>1, <2>2, <2>3, <2>4 DEF Base, Kept
<1>5. CASE Enters
    <2>1. /\ pos + 1 \in DOMAIN tokens /\ DeclaredAt(pos + 1)
          /\ tokens[pos + 1 + 1] = Tok(2)
          /\ Tok(1).text \in TypeNames
          /\ pos + 3 <= Len(tokens) /\ pos' = pos + 3
        BY <1>5, DeclarationReads DEF Enters
    <2>2. pos' \in 0 .. (Len(tokens) + 1) /\ OverrunsOnlyOpenCall'
        BY <1>1, <1>3, <2>1 DEF OverrunsOnlyOpenCall
    <2>3. /\ table' \in [DOMAIN table' -> [ix : Nat, type : TypeNames]]
          /\ DOMAIN table' = DOMAIN table \cup {Tok(2).text} /\ IsFiniteSet(DOMAIN table')
          /\ IndexesDense'
          /\ \A n \in DOMAIN table : table'[n] = table[n]
        BY <1>5, <2>1, InsertKeepsTable DEF Enters
    <2>4. Origins'
        <3> SUFFICES ASSUME NEW n \in DOMAIN table \cup {Tok(2).text}
                     PROVE  \E j \in 1 .. (pos' - 1) : DeclaredAt(j)' /\ tokens'[j + 1].text = n
            BY <2>3 DEF Origins
        <3>1. \A j : DeclaredAt(j)' <=> DeclaredAt(j)
            BY <1>1 DEF DeclaredAt
        <3>2. CASE n = Tok(2).text
            <4>1. pos + 1 \in 1 .. (pos' - 1)
                BY <1>3, <2>1
            <4> QED  BY <1>1, <2>1, <3>1, <3>2, <4>1
        <3>3. CASE n \in DOMAIN table
            <4>1. PICK j \in 1 .. (pos - 1) : DeclaredAt(j) /\ tokens[j + 1].text = n
                BY <3>3 DEF Base, Origins
            <4>2. j \in 1 .. (pos' - 1)
                BY <1>3, <2>1
            <4> QED  BY <1>1, <3>1, <4>1, <4>2
        <3> QED  BY <3>2, <3>3
    <2> QED  BY <1>1, <1>2, <1>6, <2>2, <2>3, <2>4 DEF Base, Kept
<1> QED  BY <1>4, <1>5, StepMoves

-------------------------------------------------------------------------------
(* Trees. *)

\* The words of frames.
Words == {tokens[k].text : k \in DOMAIN tokens} \cup TypeNames \cup {"", "add", "sub", "mul", "div"}

\* A node is one its constructor makes, from trees of T of the right types.
Built(n, T) ==
    \/ \E ix \in Nat, t \in Type : n = VariableIR(ix, t) \/ n = StoreIR(ix, t)
    \/ \E k \in DOMAIN tokens : /\ tokens[k].tag \in DOMAIN LiteralTags
                                /\ n = Constant(LiteralTags[tokens[k].tag], tokens[k].bits)
    \/ \E c \in {"add", "sub", "mul", "div"}, l, r \in T :
          l.type \in Type /\ BinaryAccepts(l, r) /\ n = BinaryIR(c, l, r)
    \/ \E t \in Type, e \in T : e.type \in Type /\ n = CastIR(t, e)
    \/ \E s, e \in T : s.ir = "Store" /\ s.type = e.type /\ n = AssignStmtIR(s, e)
    \/ \E ix \in Nat, t \in TypeNames : n = DefinitionIR(ix, t)
    \/ n = NopIR
    \/ \E name \in Words, args \in Seq(T) :
          (\A k \in DOMAIN args : args[k].type \in Type) /\ n = FunctionCallIR(name, args)

\* A set of nodes with all their children, as they should be.
Sound(T) ==
    \A n \in T :
        /\ Built(n, T)
        /\ DeclaredOnce => Resolved(n)
        /\ Ungrouped => Binds(n)

(* The calls in progress. *)

\* Which calls make a call of a kind.
CallersOf ==
    [Term       |-> {"Expression"},
     Expression |-> {"Assign", "Call", "Group"},
     Cast       |-> {"Term", "Cast"},
     Group      |-> {"Term", "Cast"},
     Assign     |-> {},
     Call       |-> {}]

FrameOf(T) == [kind : DOMAIN CallersOf, word : Words, ix : Nat, irs : Seq(T)]

\* Without groups, what a call of a kind is handed by the call it makes: a
\* Term an operand that is no operation, an Expression one that is no sum.
Hands(kind, v) ==
    /\ v.type \in Type
    /\ Ungrouped => /\ kind \in {"Term", "Cast"} => v.ir # "Binary"
                    /\ kind = "Expression" => ~IsSum(v)

GoodFrame(f) ==
    /\ \A j \in DOMAIN f.irs : f.irs[j].type \in Type
    /\ f.kind \in DOMAIN LoopOps =>
          \/ f.irs = <<>>
          \/ /\ Len(f.irs) = 1
             /\ \E tag \in DOMAIN LoopOps[f.kind] : f.word = LoopOps[f.kind][tag]
             /\ (Ungrouped /\ f.kind = "Term") => ~IsSum(f.irs[1])
    /\ f.kind = "Cast" => f.word \in TypeNames
    /\ (f.kind = "Assign" /\ DeclaredOnce) =>
          \E m \in DOMAIN table : table[m] = [ix |-> f.ix, type |-> f.word]
    /\ Ungrouped => f.kind # "Group"

Stacked(f) ==
    \A k \in DOMAIN f :
        /\ GoodFrame(f[k])
        /\ IF k = 1 THEN f[k].kind \in {"Assign", "Call"}
                    ELSE f[k - 1].kind \in CallersOf[f[k].kind]

\* A call in progress waits for a Primary, or is handed a tree.
Waits(T) ==
    \/ value = <<>> /\ (frames # <<>> => Top.kind \in {"Term", "Cast"})
    \/ frames # <<>> /\ \E v \in T : value = <<v>> /\ Hands(Top.kind, v)

\* The last token of an expression in progress, if it is a word, is a name of
\* the table.
LastWord ==
    frames # <<>> =>
        /\ pos \in 1 .. Len(tokens)
        /\ (Ungrouped /\ tokens[pos].tag = "kString") => tokens[pos].text \in DOMAIN table

Holds(T) ==
    /\ program \in Seq(T)
    /\ frames \in Seq(FrameOf(T))
    /\ Stacked(frames)
    /\ Waits(T)
    /\ LastWord

\* The inductive invariant.
Inv == Base /\ \E T : Sound(T) /\ Holds(T)

(* What a step keeps of all this, when it keeps the tokens and the entries of *)
(* the table.                                                                *)

LEMMA SeqGrows ==
    ASSUME NEW S, NEW U, S \subseteq U
    PROVE  Seq(S) \subseteq Seq(U)
OBVIOUS

LEMMA FrameGrows ==
    ASSUME NEW T, NEW U, T \subseteq U
    PROVE  FrameOf(T) \subseteq FrameOf(U)
<1>1. Seq(T) \subseteq Seq(U)
    BY SeqGrows
<1> QED  BY <1>1 DEF FrameOf

LEMMA FrameKept ==
    ASSUME Kept, NEW T
    PROVE  FrameOf(T)' = FrameOf(T)
BY DEF Kept, FrameOf, Words

LEMMA BuiltGrows ==
    ASSUME Kept, NEW T, NEW U, T \subseteq U, NEW n, Built(n, T)
    PROVE  Built(n, U) /\ Built(n, U)'
<1>1. Seq(T) \subseteq Seq(U)
    BY SeqGrows
<1>2. Built(n, U)
    BY <1>1 DEF Built
<1>3. Built(n, U)' <=> Built(n, U)
    BY DEF Built, Words, Kept
<1> QED  BY <1>2, <1>3

LEMMA KeptHypotheses ==
    ASSUME Kept
    PROVE  (DeclaredOnce' <=> DeclaredOnce) /\ (Ungrouped' <=> Ungrouped)
BY DEF Kept, DeclaredOnce, Ungrouped, DeclaredAt

LEMMA ResolvedKept ==
    ASSUME Kept, NEW n, Resolved(n)
    PROVE  Resolved(n)'
BY DEF Kept, Resolved

LEMMA StackedKept ==
    ASSUME Kept, NEW f, Stacked(f)
    PROVE  Stacked(f)'
<1>1. ASSUME NEW g, GoodFrame(g) PROVE GoodFrame(g)'
    <2>1. (DeclaredOnce' <=> DeclaredOnce) /\ (Ungrouped' <=> Ungrouped)
        BY KeptHypotheses
    <2> QED  BY <1>1, <2>1 DEF GoodFrame, Kept
<1> QED  BY <1>1 DEF Stacked

\* New nodes, as the trees built before and they themselves require.
NewNodes(N, T) ==
    \A n \in N : /\ Built(n, T \cup N)
                 /\ DeclaredOnce => Resolved(n)'
                 /\ Ungrouped => Binds(n)

LEMMA SoundGrows ==
    ASSUME Kept, NEW T, Sound(T), NEW N, NewNodes(N, T)
    PROVE  Sound(T \cup N)'
<1> SUFFICES ASSUME NEW n \in T \cup N
             PROVE  /\ Built(n, T \cup N)'
                    /\ DeclaredOnce' => Resolved(n)'
                    /\ Ungrouped' => Binds(n)
    BY DEF Sound, Binds, IsSum, IsProduct
<1>1. (DeclaredOnce' <=> DeclaredOnce) /\ (Ungrouped' <=> Ungrouped)
    BY KeptHypotheses
<1>2. CASE n \in T
    <2>1. Built(n, T \cup N)'
        BY <1>2, BuiltGrows DEF Sound
    <2> QED  BY <1>1, <1>2, <2>1, ResolvedKept DEF Sound
<1>3. CASE n \in N
    <2>1. Built(n, T \cup N)'
        BY <1>3, BuiltGrows DEF NewNodes
    <2> QED  BY <1>1, <1>3, <2>1 DEF NewNodes
<1> QED  BY <1>2, <1>3

-------------------------------------------------------------------------------
(* Frames pushed and popped. *)

LEMMA AppendTwo ==
    ASSUME NEW S, NEW f \in Seq(S), NEW a \in S, NEW b \in S
    PROVE  f \o <<a, b>> = Append(Append(f, a), b)
OBVIOUS

LEMMA PushFrame ==
    ASSUME NEW T, NEW f \in Seq(FrameOf(T)), NEW g \in FrameOf(T),
           Stacked(f)', GoodFrame(g)',
           IF f = <<>> THEN g.kind \in {"Assign", "Call"}
                       ELSE f[Len(f)].kind \in CallersOf[g.kind]
    PROVE  LET h == Append(f, g)
           IN  /\ h \in Seq(FrameOf(T)) /\ Stacked(h)'
               /\ h # <<>> /\ h[Len(h)] = g
<1> DEFINE h == Append(f, g)
<1>1. /\ h \in Seq(FrameOf(T)) /\ Len(f) \in Nat /\ Len(h) = Len(f) + 1 /\ h # <<>>
      /\ DOMAIN h = 1 .. Len(h) /\ DOMAIN f = 1 .. Len(f)
      /\ h[Len(h)] = g /\ \A k \in 1 .. Len(f) : h[k] = f[k]
    OBVIOUS
<1>2. f = <<>> <=> Len(f) = 0
    OBVIOUS
<1> HIDE DEF h
<1>3. ASSUME NEW k \in 1 .. Len(h)
      PROVE  /\ GoodFrame(h[k])'
             /\ IF k = 1 THEN h[k].kind \in {"Assign", "Call"}
                         ELSE h[k - 1].kind \in CallersOf[h[k].kind]
    <2>1. CASE k = Len(h)
        <3>1. GoodFrame(h[k])'
            BY <1>1, <2>1
        <3>2. k # 1 => h[k - 1] = f[Len(f)] /\ f # <<>>
            BY <1>1, <1>2, <2>1
        <3>3. k = 1 => f = <<>>
            BY <1>1, <1>2, <2>1
        <3> QED  BY <1>1, <2>1, <3>1, <3>2, <3>3
    <2>2. CASE k # Len(h)
        <3>1. k \in 1 .. Len(f) /\ h[k] = f[k]
            BY <1>1, <2>2
        <3>2. k # 1 => h[k - 1] = f[k - 1]
            BY <1>1, <3>1
        <3>3. /\ GoodFrame(f[k])'
              /\ IF k = 1 THEN f[k].kind \in {"Assign", "Call"}
                          ELSE f[k - 1].kind \in CallersOf[f[k].kind]
            BY <1>1, <3>1 DEF Stacked
        <3> QED  BY <3>1, <3>2, <3>3
    <2> QED  BY <2>1, <2>2
<1>4. Stacked(h)'
    BY <1>1, <1>3 DEF Stacked
<1> QED  BY <1>1, <1>4 DEF h

\* The frames of a loop that begins.
LEMMA LoopFrame ==
    ASSUME NEW T, NEW kind \in {"Term", "Expression"}
    PROVE  Loop(kind) \in FrameOf(T) /\ Loop(kind).kind = kind /\ GoodFrame(Loop(kind))'
<1> DEFINE g == [kind |-> kind, word |-> "", ix |-> 0, irs |-> <<>>]
<1>1. Loop(kind) = g
    BY DEF Loop, Frame
<1>2. g.kind = kind /\ g.irs = <<>>
    OBVIOUS
<1>4. kind \in DOMAIN CallersOf
    BY DEF CallersOf
<1>5. g \in FrameOf(T)
    BY <1>4 DEF FrameOf, Words
<1> HIDE DEF g
<1>3. GoodFrame(g)'
    BY <1>2 DEF GoodFrame
<1> QED  BY <1>1, <1>2, <1>3, <1>5

LEMMA PushExpression ==
    ASSUME NEW T, NEW f \in Seq(FrameOf(T)), f # <<>>, Stacked(f)',
           f[Len(f)].kind \in {"Assign", "Call", "Group"}
    PROVE  LET h == f \o CallExpression
           IN  /\ h \in Seq(FrameOf(T)) /\ Stacked(h)'
               /\ h # <<>> /\ h[Len(h)].kind = "Term"
<1> DEFINE g == Append(f, Loop("Expression"))
           h == Append(g, Loop("Term"))
<1>1. /\ Loop("Expression") \in FrameOf(T) /\ GoodFrame(Loop("Expression"))'
      /\ Loop("Expression").kind = "Expression"
      /\ Loop("Term") \in FrameOf(T) /\ GoodFrame(Loop("Term"))' /\ Loop("Term").kind = "Term"
    BY LoopFrame
<1>2. f \o CallExpression = h
    BY <1>1, AppendTwo DEF CallExpression
<1>3. /\ f[Len(f)].kind \in CallersOf["Expression"]
      /\ "Expression" \in CallersOf["Term"]
    BY DEF CallersOf
<1>4. /\ g \in Seq(FrameOf(T)) /\ Stacked(g)' /\ g # <<>>
      /\ g[Len(g)] = Loop("Expression")
    BY <1>1, <1>3, PushFrame
<1> HIDE DEF g
<1>5. h \in Seq(FrameOf(T)) /\ Stacked(h)' /\ h # <<>> /\ h[Len(h)] = Loop("Term")
    BY <1>1, <1>3, <1>4, PushFrame
<1> QED  BY <1>1, <1>2, <1>5

\* What is left when the innermost call returns.
LEMMA PopFrame ==
    ASSUME NEW T, frames \in Seq(FrameOf(T)), Stacked(frames), frames # <<>>, Kept
    PROVE  /\ Top \in FrameOf(T) /\ GoodFrame(Top)
           /\ \E b \in Seq(FrameOf(T)) :
                 /\ Below = b /\ Stacked(b)'
                 /\ Top.kind \notin {"Assign", "Call"} =>
                       b # <<>> /\ b[Len(b)].kind \in CallersOf[Top.kind]
<1> DEFINE n == Len(frames)
<1>1. n \in Nat /\ n > 0 /\ DOMAIN frames = 1 .. n /\ frames[n] \in FrameOf(T)
    OBVIOUS
<1>2. /\ Below \in Seq(FrameOf(T)) /\ Len(Below) = n - 1 /\ DOMAIN Below = 1 .. (n - 1)
      /\ \A k \in 1 .. (n - 1) : Below[k] = frames[k]
    BY <1>1 DEF Below
<1> HIDE DEF n
<1>3. ASSUME NEW k \in 1 .. n
      PROVE  /\ GoodFrame(frames[k])
             /\ IF k = 1 THEN frames[k].kind \in {"Assign", "Call"}
                         ELSE frames[k - 1].kind \in CallersOf[frames[k].kind]
    BY <1>1 DEF Stacked
<1>4. ASSUME NEW k \in 1 .. (n - 1)
      PROVE  /\ GoodFrame(Below[k])
             /\ IF k = 1 THEN Below[k].kind \in {"Assign", "Call"}
                         ELSE Below[k - 1].kind \in CallersOf[Below[k].kind]
    <2>1. k \in 1 .. n /\ Below[k] = frames[k] /\ (k # 1 => Below[k - 1] = frames[k - 1])
        BY <1>1, <1>2
    <2> QED  BY <1>3, <2>1
<1>5. Stacked(Below)
    BY <1>2, <1>4 DEF Stacked
<1>6. n \in 1 .. n /\ Top = frames[n]
    BY <1>1 DEF Top, n
<1>7. ASSUME Top.kind \notin {"Assign", "Call"}
      PROVE  Below # <<>> /\ Below[Len(Below)].kind \in CallersOf[Top.kind]
    <2>1. n # 1 /\ frames[n - 1].kind \in CallersOf[frames[n].kind]
        BY <1>3, <1>6, <1>7
    <2>2. n - 1 \in 1 .. (n - 1) /\ Below[n - 1] = frames[n - 1]
        BY <1>1, <1>2, <2>1
    <2>3. Len(Below) = n - 1 /\ n - 1 > 0
        BY <1>1, <1>2, <2>1
    <2> QED  BY <1>2, <1>6, <2>1, <2>2, <2>3
<1>8. PICK b : b = Below
    OBVIOUS
<1>9. Stacked(b)'
    BY <1>5, <1>8, StackedKept
<1>10. /\ b \in Seq(FrameOf(T))
       /\ Top.kind \notin {"Assign", "Call"} => b # <<>> /\ b[Len(b)].kind \in CallersOf[Top.kind]
    BY <1>2, <1>7, <1>8
<1> QED  BY <1>1, <1>3, <1>6, <1>8, <1>9, <1>10

-------------------------------------------------------------------------------
(* Nodes and their operators. *)

LEMMA NoOperation ==
    ASSUME NEW n, n.ir # "Binary"
    PROVE  Binds(n) /\ ~IsSum(n)
BY DEF Binds, IsSum, IsProduct

\* The opcodes of sums and those of products are different.
LEMMA Operators ==
    ASSUME NEW t \in Type, NEW u \in Type, NEW c \in {"add", "sub"}, NEW d \in {"mul", "div"}
    PROVE  BinaryOf[t][c] # BinaryOf[u][d]
BY DEF Type, BinaryOf

LEMMA SumNode ==
    ASSUME NEW l, NEW r, l.type \in Type, NEW c \in {"add", "sub"}, NEW n, n = BinaryIR(c, l, r)
    PROVE  IsSum(n) /\ ~IsProduct(n) /\ n.kids[2] = r /\ n.type = l.type
<1>1. n.ir = "Binary" /\ n.op = BinaryOf[l.type][c] /\ n.kids = <<l, r>> /\ n.type = l.type
    BY DEF BinaryIR, Node
<1> QED  BY <1>1, Operators DEF IsSum, IsProduct

LEMMA ProductNode ==
    ASSUME NEW l, NEW r, l.type \in Type, NEW c \in {"mul", "div"}, NEW n, n = BinaryIR(c, l, r)
    PROVE  /\ IsProduct(n) /\ ~IsSum(n)
           /\ n.kids[1] = l /\ n.kids[2] = r /\ n.type = l.type
<1>1. n.ir = "Binary" /\ n.op = BinaryOf[l.type][c] /\ n.kids = <<l, r>> /\ n.type = l.type
    BY DEF BinaryIR, Node
<1> QED  BY <1>1, Operators DEF IsSum, IsProduct

-------------------------------------------------------------------------------
(* The state after a step. *)

\* Holds after a step whose frames are f.
LEMMA NextHolds ==
    ASSUME NEW U, NEW f \in Seq(FrameOf(U)), frames' = f, Stacked(f)', program' \in Seq(U),
           \/ value' = <<>> /\ (f # <<>> => f[Len(f)].kind \in {"Term", "Cast"})
           \/ f # <<>> /\ \E v \in U : value' = <<v>> /\ Hands(f[Len(f)].kind, v),
           f # <<>> => /\ pos' \in 1 .. Len(tokens)
                       /\ (Ungrouped /\ tokens[pos'].tag = "kString") =>
                              tokens[pos'].text \in DOMAIN table',
           Kept
    PROVE  Holds(U)'
<1>1. tokens' = tokens /\ (Ungrouped' <=> Ungrouped)
    BY KeptHypotheses DEF Kept
<1>2. \A kind, v : Hands(kind, v) => Hands(kind, v)'
    BY <1>1 DEF Hands, IsSum
<1>3. frames' \in Seq(FrameOf(U)') /\ Stacked(frames)'
    BY FrameKept
<1>4. LastWord'
    BY <1>1 DEF LastWord
<1>5. Waits(U)'
    <2>1. ASSUME NEW v \in U, f # <<>>, value' = <<v>>, Hands(f[Len(f)].kind, v)
          PROVE  Waits(U)'
        <3>1. PICK kind : kind = f[Len(f)].kind
            OBVIOUS
        <3>2. Hands(kind, v)' /\ frames'[Len(frames')].kind = kind
            BY <1>2, <2>1, <3>1
        <3>3. Hands(frames[Len(frames)].kind, v)'
            BY <3>2
        <3> QED  BY <2>1, <3>3 DEF Waits, Top
    <2>2. ASSUME value' = <<>>, f # <<>> => f[Len(f)].kind \in {"Term", "Cast"}
          PROVE  Waits(U)'
        BY <2>2 DEF Waits, Top
    <2> QED  BY <2>1, <2>2
<1> QED  BY <1>3, <1>4, <1>5 DEF Holds

Continues == \E U : Sound(U)' /\ Holds(U)'

\* A statement is complete.
LEMMA AddsStatement ==
    ASSUME Kept, NEW T, Sound(T), program \in Seq(T), NEW N, NewNodes(N, T),
           NEW ir \in T \cup N, AddStatement(ir)
    PROVE  Continues
<1>1. Seq(T) \subseteq Seq(T \cup N)
    BY SeqGrows
<1>2. program' \in Seq(T \cup N) /\ frames' = <<>> /\ value' = <<>>
    BY <1>1 DEF AddStatement
<1>3. <<>> \in Seq(FrameOf(T \cup N)) /\ Stacked(<<>>)'
    BY DEF Stacked
<1>4. Holds(T \cup N)'
    BY <1>2, <1>3, NextHolds
<1> QED  BY <1>4, SoundGrows DEF Continues

\* A call of Primary begins.
LEMMA Begins ==
    ASSUME Kept, NEW T, Sound(T), program \in Seq(T), UNCHANGED program,
           NEW N, NewNodes(N, T),
           NEW f \in Seq(FrameOf(T \cup N)), frames' = f, Stacked(f)', value' = <<>>,
           f # <<>>, f[Len(f)].kind \in {"Term", "Cast"},
           pos' \in 1 .. Len(tokens),
           (Ungrouped /\ tokens[pos'].tag = "kString") => tokens[pos'].text \in DOMAIN table'
    PROVE  Continues
<1>1. program' \in Seq(T \cup N)
    BY SeqGrows
<1>2. Holds(T \cup N)'
    BY <1>1, NextHolds
<1> QED  BY <1>2, SoundGrows DEF Continues

\* ... and nothing is built.
LEMMA BeginsOnly ==
    ASSUME Kept, NEW T, Sound(T), program \in Seq(T), UNCHANGED program,
           NEW f \in Seq(FrameOf(T)), frames' = f, Stacked(f)', value' = <<>>,
           f # <<>>, f[Len(f)].kind \in {"Term", "Cast"},
           pos' \in 1 .. Len(tokens),
           (Ungrouped /\ tokens[pos'].tag = "kString") => tokens[pos'].text \in DOMAIN table'
    PROVE  Continues
<1>1. NewNodes({}, T) /\ T \cup {} = T
    BY DEF NewNodes
<1> QED  BY <1>1, Begins

\* A call returns a tree to the one below.
LEMMA Returns ==
    ASSUME Kept, NEW T, Sound(T), Holds(T), UNCHANGED program, frames # <<>>,
           NEW N, NewNodes(N, T), NEW ir \in T \cup N, Return(ir),
           Top.kind \notin {"Assign", "Call"},
           \A kind \in CallersOf[Top.kind] : Hands(kind, ir),
           pos' \in 1 .. Len(tokens),
           (Ungrouped /\ tokens[pos'].tag = "kString") => tokens[pos'].text \in DOMAIN table'
    PROVE  Continues
<1>1. PICK f \in Seq(FrameOf(T)) :
          /\ Below = f /\ Stacked(f)'
          /\ f # <<>> /\ f[Len(f)].kind \in CallersOf[Top.kind]
    BY PopFrame DEF Holds
<1>2. Seq(FrameOf(T)) \subseteq Seq(FrameOf(T \cup N)) /\ Seq(T) \subseteq Seq(T \cup N)
    BY SeqGrows, FrameGrows
<1>3. frames' = f /\ value' = <<ir>> /\ program' \in Seq(T \cup N)
    BY <1>1, <1>2 DEF Return, Holds
<1>4. Hands(f[Len(f)].kind, ir)
    BY <1>1
<1>5. Holds(T \cup N)'
    BY <1>1, <1>2, <1>3, <1>4, NextHolds
<1> QED  BY <1>5, SoundGrows DEF Continues

-------------------------------------------------------------------------------
(* Statement. *)

LEMMA TokenAt ==
    ASSUME Base, NEW k \in 1 .. 3, HasNext(k)
    PROVE  /\ pos + k \in 1 .. Len(tokens) /\ Tok(k) \in Token
           /\ Tok(k) = tokens[pos + k]
<1>1. pos \in Nat /\ Len(tokens) \in Nat /\ tokens \in Seq(Token) /\ pos + k <= Len(tokens)
    BY DEF Base, HasNext
<1>2. pos + k \in 1 .. Len(tokens)
    BY <1>1
<1> QED  BY <1>1, <1>2 DEF Tok

\* What is entered for a declaration; the entry is its own when no name is
\* declared twice.
LEMMA DeclarationEnters ==
    ASSUME Base, Declaration, table' = Insert(Tok(2).text, Tok(1).text)
    PROVE  \E i \in Nat, t \in TypeNames :
              /\ i = NextIx /\ t = Tok(1).text
              /\ DeclaredOnce => \E m \in DOMAIN table' : table'[m] = [ix |-> i, type |-> t]
<1>1. /\ pos + 1 \in DOMAIN tokens /\ DeclaredAt(pos + 1)
      /\ tokens[pos + 1 + 1] = Tok(2)
      /\ Tok(1).text \in TypeNames
    BY DeclarationReads
<1>2. PICK i, t : i = NextIx /\ t = Tok(1).text
    OBVIOUS
<1>3. i \in Nat
    BY <1>2, FS_CardinalityType DEF Base, NextIx
<1>5. ASSUME DeclaredOnce PROVE Tok(2).text \notin DOMAIN table
    <2> SUFFICES ASSUME Tok(2).text \in DOMAIN table PROVE FALSE
        OBVIOUS
    <2>1. PICK j \in 1 .. (pos - 1) : DeclaredAt(j) /\ tokens[j + 1].text = Tok(2).text
        BY DEF Base, Origins
    <2>2. j \in DOMAIN tokens /\ j # pos + 1
        BY <2>1 DEF Base
    <2> QED  BY <1>1, <1>5, <2>1, <2>2 DEF DeclaredOnce
<1>6. /\ DOMAIN table' = DOMAIN table \cup {Tok(2).text}
      /\ Tok(2).text \notin DOMAIN table => table'[Tok(2).text] = [ix |-> NextIx, type |-> Tok(1).text]
    BY <1>1, InsertKeepsTable
<1>7. DeclaredOnce => \E m \in DOMAIN table' : table'[m] = [ix |-> i, type |-> t]
    BY <1>2, <1>5, <1>6
<1> QED  BY <1>1, <1>2, <1>3, <1>7

LEMMA DefineStep ==
    ASSUME Base, Kept, NEW T, Sound(T), Holds(T), Define
    PROVE  Continues
<1>1. Declaration /\ table' = Insert(Tok(2).text, Tok(1).text)
    BY DEF Define, Declaration, Is
<1>2. PICK i \in Nat, t \in TypeNames :
          /\ i = NextIx /\ t = Tok(1).text
          /\ DeclaredOnce => \E m \in DOMAIN table' : table'[m] = [ix |-> i, type |-> t]
    BY <1>1, DeclarationEnters
<1>3. PICK n : n = DefinitionIR(i, t)
    OBVIOUS
<1>4. n.ir = "Definition" /\ n.data[1] = i /\ n.type = t
    BY <1>3 DEF DefinitionIR, Node
<1>5. DeclaredOnce => Resolved(n)'
    BY <1>2, <1>4 DEF Resolved
<1>6. Built(n, T \cup {n})
    BY <1>3 DEF Built
<1>7. NewNodes({n}, T)
    BY <1>4, <1>5, <1>6, NoOperation DEF NewNodes
<1>8. AddStatement(n)
    BY <1>2, <1>3 DEF Define
<1> QED  BY <1>7, <1>8, AddsStatement DEF Holds

LEMMA SemicolonStep ==
    ASSUME Kept, NEW T, Sound(T), Holds(T), Semicolon
    PROVE  Continues
<1>1. NopIR.ir = "Nop"
    BY DEF NopIR, Node
<1>2. NewNodes({NopIR}, T)
    <2>1. Built(NopIR, T \cup {NopIR})
        BY DEF Built
    <2>2. PICK n : n = NopIR
        OBVIOUS
    <2>3. n.ir = "Nop" /\ Resolved(n)'
        BY <1>1, <2>2 DEF Resolved
    <2> QED  BY <2>1, <2>2, <2>3, NoOperation DEF NewNodes
<1>3. AddStatement(NopIR)
    BY DEF Semicolon
<1> QED  BY <1>2, <1>3, AddsStatement DEF Holds

\* The frames of a call that a statement makes.
LEMMA StatementFrames ==
    ASSUME NEW T, NEW g \in FrameOf(T), g.kind \in {"Assign", "Call"}, GoodFrame(g)'
    PROVE  LET h == <<g>> \o CallExpression
           IN  /\ h \in Seq(FrameOf(T)) /\ Stacked(h)'
               /\ h # <<>> /\ h[Len(h)].kind = "Term"
<1>1. <<>> \in Seq(FrameOf(T)) /\ Stacked(<<>>)' /\ Append(<<>>, g) = <<g>>
    BY DEF Stacked
<1>2. /\ <<g>> \in Seq(FrameOf(T)) /\ Stacked(<<g>>)'
      /\ <<g>> # <<>> /\ <<g>>[Len(<<g>>)] = g
    BY <1>1, PushFrame
<1> QED  BY <1>2, PushExpression

\* An assignment begins, to an entry of the table.
LEMMA AssignBegins ==
    ASSUME Kept, NEW T, Sound(T), Holds(T), UNCHANGED <<program, value>>, frames = <<>>,
           NEW i \in Nat, NEW t \in TypeNames,
           DeclaredOnce => \E m \in DOMAIN table' : table'[m] = [ix |-> i, type |-> t],
           Push(<<Assign(i, t)>> \o CallExpression),
           pos' \in 1 .. Len(tokens), tokens[pos'].tag # "kString"
    PROVE  Continues
<1>1. PICK g : g = Assign(i, t)
    OBVIOUS
<1>2. /\ g = [kind |-> "Assign", word |-> t, ix |-> i, irs |-> <<>>]
      /\ "Assign" \in DOMAIN CallersOf
    BY <1>1 DEF Assign, Frame, CallersOf
<1>3. g \in FrameOf(T) /\ g.kind = "Assign" /\ g.word = t /\ g.ix = i /\ g.irs = <<>>
    <2>1. t \in Words
        BY DEF Words
    <2>2. <<>> \in Seq(T)
        OBVIOUS
    <2> QED  BY <1>2, <2>1, <2>2 DEF FrameOf
<1>4. GoodFrame(g)'
    BY <1>3, KeptHypotheses DEF GoodFrame, LoopOps
<1>5. PICK h : h = <<g>> \o CallExpression
    OBVIOUS
<1>6. h \in Seq(FrameOf(T)) /\ Stacked(h)' /\ h # <<>> /\ h[Len(h)].kind = "Term"
    BY <1>3, <1>4, <1>5, StatementFrames
<1>7. frames' = h
    <2>1. frames' = frames \o h
        BY <1>1, <1>5 DEF Push
    <2> QED  BY <1>6, <2>1
<1>8. value' = <<>>
    BY DEF Holds, Waits
<1> QED  BY <1>6, <1>7, <1>8, BeginsOnly DEF Holds

LEMMA InitialiseStep ==
    ASSUME Base, Kept, NEW T, Sound(T), Holds(T), Initialise
    PROVE  Continues
<1>1. Declaration /\ table' = Insert(Tok(2).text, Tok(1).text)
    BY DEF Initialise, Declaration, Is
<1>2. PICK i \in Nat, t \in TypeNames :
          /\ i = NextIx /\ t = Tok(1).text
          /\ DeclaredOnce => \E m \in DOMAIN table' : table'[m] = [ix |-> i, type |-> t]
    BY <1>1, DeclarationEnters
<1>3. Push(<<Assign(i, t)>> \o CallExpression)
    BY <1>2 DEF Initialise
<1>4. UNCHANGED <<program, value>> /\ frames = <<>> /\ HasNext(3)
    BY DEF Initialise, Declares, AtStatement, Is
<1>5. Tok(3).tag = "kEq" /\ pos' = pos + 3
    BY DEF Initialise, Is, Eat
<1>6. pos' \in 1 .. Len(tokens) /\ tokens[pos'].tag # "kString"
    BY <1>4, <1>5, TokenAt
<1> QED  BY <1>2, <1>3, <1>4, <1>6, AssignBegins

LEMMA ReassignStep ==
    ASSUME Base, Kept, NEW T, Sound(T), Holds(T), Reassign
    PROVE  Continues
<1>1. PICK m \in DOMAIN table : m = Tok(1).text
    BY DEF Reassign
<1>2. table[m] \in [ix : Nat, type : TypeNames] /\ m \in DOMAIN table' /\ table'[m] = table[m]
    BY DEF Base, Kept
<1>3. PICK i \in Nat, t \in TypeNames : table[m] = [ix |-> i, type |-> t]
    BY <1>2
<1>4. table'[m] = [ix |-> i, type |-> t] /\ table[m].ix = i /\ table[m].type = t
    BY <1>2, <1>3
<1>5. Push(<<Assign(i, t)>> \o CallExpression)
    BY <1>1, <1>4 DEF Reassign
<1>6. UNCHANGED <<program, value>> /\ frames = <<>> /\ HasNext(2)
    BY DEF Reassign, AtStatement, Is
<1>7. Tok(2).tag = "kEq" /\ pos' = pos + 2
    BY DEF Reassign, Is, Eat
<1>8. pos' \in 1 .. Len(tokens) /\ tokens[pos'].tag # "kString"
    BY <1>6, <1>7, TokenAt
<1> QED  BY <1>2, <1>4, <1>5, <1>6, <1>8, AssignBegins

\* The next argument of a call, or its end.
LEMMA ArgumentStep ==
    ASSUME Base, Kept, NEW T, Sound(T), Holds(T),
           NEW k \in 0 .. 2, NEW name \in Words, NEW args \in Seq(T),
           \A j \in DOMAIN args : args[j].type \in Type,
           pos + k \in 1 .. Len(tokens),
           (Ungrouped /\ tokens[pos + k].tag = "kString") => tokens[pos + k].text \in DOMAIN table,
           NextArgument(k, name, args)
    PROVE  Continues
<1>1. CASE HasNext(k + 1) /\ ~Is(k + 1, "kRParentheses")
    <2>1. /\ pos' = pos + k /\ value' = <<>> /\ UNCHANGED program
          /\ frames' = <<Call(name, args)>> \o CallExpression
        BY <1>1 DEF NextArgument, Eat
    <2>2. PICK g : g = Call(name, args)
        OBVIOUS
    <2>3. /\ g = [kind |-> "Call", word |-> name, ix |-> 0, irs |-> args]
          /\ "Call" \in DOMAIN CallersOf
        BY <2>2 DEF Call, Frame, CallersOf
    <2>4. g \in FrameOf(T) /\ g.kind = "Call" /\ g.irs = args
        BY <2>3 DEF FrameOf
    <2>5. GoodFrame(g)'
        BY <2>4 DEF GoodFrame, LoopOps
    <2>6. PICK h : h = <<g>> \o CallExpression
        OBVIOUS
    <2>7. h \in Seq(FrameOf(T)) /\ Stacked(h)' /\ h # <<>> /\ h[Len(h)].kind = "Term"
        BY <2>4, <2>5, <2>6, StatementFrames
    <2>8. frames' = h
        BY <2>1, <2>2, <2>6
    <2>9. (Ungrouped /\ tokens[pos'].tag = "kString") => tokens[pos'].text \in DOMAIN table'
        BY <2>1 DEF Kept
    <2>10. pos' \in 1 .. Len(tokens) /\ program \in Seq(T)
        BY <2>1 DEF Holds
    <2> QED  BY <2>1, <2>7, <2>8, <2>9, <2>10, BeginsOnly
<1>2. CASE ~(HasNext(k + 1) /\ ~Is(k + 1, "kRParentheses"))
    <2>1. AddStatement(FunctionCallIR(name, args))
        BY <1>2 DEF NextArgument
    <2>2. PICK n : n = FunctionCallIR(name, args)
        OBVIOUS
    <2>3. n.ir = "Call"
        BY <2>2 DEF FunctionCallIR, Node
    <2>4. args \in Seq(T \cup {n})
        BY SeqGrows
    <2>5. Built(n, T \cup {n})
        BY <2>2, <2>4 DEF Built
    <2>6. Resolved(n)'
        BY <2>3 DEF Resolved
    <2>7. NewNodes({n}, T)
        BY <2>3, <2>5, <2>6, NoOperation DEF NewNodes
    <2> QED  BY <2>1, <2>2, <2>7, AddsStatement DEF Holds
<1> QED  BY <1>1, <1>2

LEMMA CallFunctionStep ==
    ASSUME Base, Kept, NEW T, Sound(T), Holds(T), CallFunction
    PROVE  Continues
<1>1. HasNext(1) /\ HasNext(2) /\ Tok(2).tag = "kLParentheses"
    BY DEF CallFunction, Is
<1>2. Tok(1).text \in Words
    <2>1. pos + 1 \in DOMAIN tokens /\ Tok(1) = tokens[pos + 1]
        BY <1>1, TokenAt DEF Base
    <2> QED  BY <2>1 DEF Words
<1>3. pos + 2 \in 1 .. Len(tokens) /\ tokens[pos + 2].tag # "kString"
    BY <1>1, TokenAt
<1>4. NextArgument(2, Tok(1).text, <<>>)
    BY DEF CallFunction
<1>5. <<>> \in Seq(T)
    OBVIOUS
<1>6. PICK name \in Words, args \in Seq(T) : name = Tok(1).text /\ args = <<>>
    BY <1>2, <1>5
<1>7. 2 \in 0 .. 2 /\ NextArgument(2, name, args)
    BY <1>4, <1>6
<1>8. \A j \in DOMAIN args : args[j].type \in Type
    BY <1>6
<1> QED  BY <1>3, <1>7, <1>8, ArgumentStep

-------------------------------------------------------------------------------
(* Primary. *)

\* A leaf: a literal or a variable.
LEMMA LeafStep ==
    ASSUME Base, Kept, NEW T, Sound(T), Holds(T), AtPrimary, HasNext(1), Eat(1),
           UNCHANGED <<program, frames>>,
           NEW n, value' = <<n>>, n.ir # "Binary", n.type \in Type,
           NewNodes({n}, T),
           (Ungrouped /\ Tok(1).tag = "kString") => Tok(1).text \in DOMAIN table
    PROVE  Continues
<1>1. Top.kind \in {"Term", "Cast"} /\ frames # <<>> /\ value = <<>>
    BY DEF AtPrimary, Holds, Waits
<1>2. Hands(Top.kind, n)
    BY <1>1 DEF Hands
<1>3. PICK f : f = frames
    OBVIOUS
<1>4. f \in Seq(FrameOf(T)) /\ Stacked(f)' /\ f # <<>>
    BY <1>1, <1>3, StackedKept DEF Holds
<1>5. Seq(T) \subseteq Seq(T \cup {n}) /\ Seq(FrameOf(T)) \subseteq Seq(FrameOf(T \cup {n}))
    BY SeqGrows, FrameGrows
<1>6. f \in Seq(FrameOf(T \cup {n})) /\ program' \in Seq(T \cup {n}) /\ frames' = f
    BY <1>3, <1>4, <1>5 DEF Holds
<1>7. Hands(f[Len(f)].kind, n)
    BY <1>2, <1>3 DEF Top
<1>8. pos' = pos + 1 /\ pos + 1 \in 1 .. Len(tokens) /\ Tok(1) = tokens[pos + 1]
    BY TokenAt DEF Eat
<1>9. (Ungrouped /\ tokens[pos'].tag = "kString") => tokens[pos'].text \in DOMAIN table'
    BY <1>8 DEF Kept
<1>10. Holds(T \cup {n})'
    BY <1>4, <1>6, <1>7, <1>8, <1>9, NextHolds
<1> QED  BY <1>10, SoundGrows DEF Continues

LEMMA LiteralTypes ==
    ASSUME NEW tag \in DOMAIN LiteralTags
    PROVE  LiteralTags[tag] \in Type /\ tag # "kString"
BY DEF LiteralTags, Type

LEMMA LiteralStep ==
    ASSUME Base, Kept, NEW T, Sound(T), Holds(T), Literal
    PROVE  Continues
<1>1. /\ AtPrimary /\ HasNext(1) /\ Eat(1) /\ UNCHANGED <<program, frames>>
      /\ Tok(1).tag \in DOMAIN LiteralTags
    BY DEF Literal
<1>2. pos + 1 \in DOMAIN tokens /\ Tok(1) = tokens[pos + 1]
    BY <1>1, TokenAt DEF Base
<1>3. PICK n : n = Constant(LiteralTags[Tok(1).tag], Tok(1).bits)
    OBVIOUS
<1>4. n.ir = "Constant" /\ n.type = LiteralTags[Tok(1).tag]
    BY <1>3 DEF Constant, Node
<1>5. n.type \in Type /\ Tok(1).tag # "kString"
    BY <1>1, <1>4, LiteralTypes
<1>6. value' = <<n>>
    BY <1>3 DEF Literal
<1>7. Built(n, T \cup {n})
    BY <1>1, <1>2, <1>3 DEF Built
<1>8. Resolved(n)'
    BY <1>4 DEF Resolved
<1>9. NewNodes({n}, T)
    BY <1>4, <1>7, <1>8, NoOperation DEF NewNodes
<1> QED  BY <1>1, <1>4, <1>5, <1>6, <1>9, LeafStep

LEMMA VariableStep ==
    ASSUME Base, Kept, NEW T, Sound(T), Holds(T), Variable
    PROVE  Continues
<1>1. AtPrimary /\ HasNext(1) /\ Eat(1) /\ UNCHANGED <<program, frames>>
    BY DEF Variable, Is
<1>2. PICK m \in DOMAIN table : m = Tok(1).text
    BY DEF Variable
<1>3. table[m] \in [ix : Nat, type : TypeNames] /\ m \in DOMAIN table' /\ table'[m] = table[m]
    BY DEF Base, Kept
<1>4. PICK i \in Nat, t \in TypeNames : table[m] = [ix |-> i, type |-> t]
    BY <1>3
<1>5. table'[m] = [ix |-> i, type |-> t] /\ table[m].ix = i /\ table[m].type = t /\ t # "void"
    BY <1>2, <1>3, <1>4 DEF Variable
<1>6. t \in Type
    BY <1>5 DEF TypeNames
<1>7. PICK n : n = VariableIR(i, t)
    OBVIOUS
<1>8. n.ir = "Variable" /\ n.data[1] = i /\ n.type = t
    BY <1>7 DEF VariableIR, Node
<1>9. value' = <<n>>
    BY <1>2, <1>5, <1>7 DEF Variable
<1>10. Built(n, T \cup {n})
    BY <1>6, <1>7 DEF Built
<1>11. Resolved(n)'
    BY <1>3, <1>5, <1>8 DEF Resolved
<1>12. NewNodes({n}, T)
    BY <1>8, <1>10, <1>11, NoOperation DEF NewNodes
<1> QED  BY <1>1, <1>2, <1>6, <1>8, <1>9, <1>12, LeafStep

\* The state in which Primary begins.
LEMMA PrimaryState ==
    ASSUME Kept, NEW T, Holds(T), AtPrimary
    PROVE  /\ frames \in Seq(FrameOf(T)) /\ frames # <<>> /\ value = <<>>
           /\ Top.kind \in {"Term", "Cast"}
           /\ \E f : f = frames /\ Stacked(f)'
<1>1. PICK f : f = frames
    OBVIOUS
<1>2. Stacked(f)'
    BY <1>1, StackedKept DEF Holds
<1> QED  BY <1>1, <1>2 DEF Holds, Waits, AtPrimary

LEMMA OpenCastStep ==
    ASSUME Base, Kept, NEW T, Sound(T), Holds(T), OpenCast
    PROVE  Continues
<1>1. PICK f \in Seq(FrameOf(T)) : f = frames /\ Stacked(f)'
    BY PrimaryState DEF OpenCast
<1>2. f # <<>> /\ f[Len(f)].kind \in {"Term", "Cast"}
    BY <1>1, PrimaryState DEF OpenCast, Top
<1>3. HasNext(3) /\ Tok(3).tag = "kRParentheses" /\ Tok(2).text \in TypeNames
    BY DEF OpenCast, OpensCast, Is, IsType
<1>4. PICK g : g = Cast(Tok(2).text)
    OBVIOUS
<1>5. g = [kind |-> "Cast", word |-> Tok(2).text, ix |-> 0, irs |-> <<>>]
    BY <1>4 DEF Cast, Frame
<1>6. "Cast" \in DOMAIN CallersOf /\ {"Term", "Cast"} = CallersOf["Cast"]
    BY DEF CallersOf
<1>7. Tok(2).text \in Words
    BY <1>3 DEF Words
<1>8. g \in FrameOf(T) /\ g.kind = "Cast" /\ g.irs = <<>> /\ g.word \in TypeNames
    <2>1. <<>> \in Seq(T)
        OBVIOUS
    <2> QED  BY <1>3, <1>5, <1>6, <1>7, <2>1 DEF FrameOf
<1>9. GoodFrame(g)'
    BY <1>8 DEF GoodFrame, LoopOps
<1>10. PICK h : h = Append(f, g)
    OBVIOUS
<1>11. h \in Seq(FrameOf(T)) /\ Stacked(h)' /\ h # <<>> /\ h[Len(h)] = g
    BY <1>1, <1>2, <1>6, <1>8, <1>9, <1>10, PushFrame
<1>12. frames' = h
    <2>1. frames' = f \o <<g>>
        BY <1>1, <1>4 DEF OpenCast, Push
    <2> QED  BY <1>8, <1>10, <2>1, AppendIsConcat
<1>13. pos' = pos + 3 /\ UNCHANGED <<program, value>>
    BY DEF OpenCast, Eat
<1>14. pos' \in 1 .. Len(tokens) /\ tokens[pos'].tag # "kString"
    BY <1>3, <1>13, TokenAt
<1>15. value' = <<>>
    BY <1>13, PrimaryState DEF OpenCast
<1> QED  BY <1>8, <1>11, <1>12, <1>13, <1>14, <1>15, BeginsOnly DEF Holds

\* A parenthesis that opens no cast opens a group.
LEMMA GroupNotUngrouped ==
    ASSUME Base, NEW T, Holds(T), OpenGroup
    PROVE  ~Ungrouped
<1> SUFFICES ASSUME Ungrouped PROVE FALSE
    OBVIOUS
<1>1. pos \in Nat /\ Len(tokens) \in Nat /\ DOMAIN tokens = 1 .. Len(tokens)
    BY DEF Base
<1>2. pos + 1 <= Len(tokens) /\ tokens[pos + 1].tag = "kLParentheses" /\ ~OpensCast
    BY DEF OpenGroup, Is, HasNext, Tok
<1>3. PICK k \in DOMAIN tokens : k = pos + 1
    BY <1>1, <1>2
<1>4. CASE /\ k + 2 <= Len(tokens)
           /\ tokens[k + 1].tag = "kString" /\ tokens[k + 1].text \in TypeNames
           /\ tokens[k + 2].tag = "kRParentheses"
    <2>1. k + 1 = pos + 2 /\ k + 2 = pos + 3 /\ pos + 2 <= Len(tokens)
        BY <1>1, <1>3, <1>4
    <2> QED  BY <1>2, <1>4, <2>1 DEF OpensCast, Is, IsType, HasNext, Tok
<1>5. CASE /\ k > 1 /\ tokens[k - 1].tag = "kString"
           /\ \A j \in DOMAIN tokens : DeclaredAt(j) => tokens[j + 1].text # tokens[k - 1].text
    <2>1. k - 1 = pos
        BY <1>1, <1>3
    <2>2. tokens[pos].text \in DOMAIN table
        BY <1>5, <2>1 DEF Holds, LastWord, OpenGroup, AtPrimary
    <2>3. PICK j \in 1 .. (pos - 1) : DeclaredAt(j) /\ tokens[j + 1].text = tokens[pos].text
        BY <2>2 DEF Base, Origins
    <2>4. j \in DOMAIN tokens
        BY <1>1, <1>2, <2>3
    <2> QED  BY <1>5, <2>1, <2>3, <2>4
<1>6. tokens[k].tag = "kLParentheses"
    BY <1>2, <1>3
<1> QED  BY <1>3, <1>4, <1>5, <1>6 DEF Ungrouped

LEMMA OpenGroupStep ==
    ASSUME Base, Kept, NEW T, Sound(T), Holds(T), OpenGroup
    PROVE  Continues
<1>1. PICK f \in Seq(FrameOf(T)) : f = frames /\ Stacked(f)'
    BY PrimaryState DEF OpenGroup
<1>2. f # <<>> /\ f[Len(f)].kind \in {"Term", "Cast"}
    BY <1>1, PrimaryState DEF OpenGroup, Top
<1>3. HasNext(1) /\ Tok(1).tag = "kLParentheses"
    BY DEF OpenGroup, Is
<1>4. PICK g : g = Group
    OBVIOUS
<1>5. g = [kind |-> "Group", word |-> "", ix |-> 0, irs |-> <<>>]
    BY <1>4 DEF Group, Frame
<1>6. "Group" \in DOMAIN CallersOf /\ {"Term", "Cast"} = CallersOf["Group"]
    BY DEF CallersOf
<1>7. g \in FrameOf(T) /\ g.kind = "Group" /\ g.irs = <<>>
    <2>1. <<>> \in Seq(T)
        OBVIOUS
    <2>2. "" \in Words
        BY DEF Words
    <2> QED  BY <1>5, <1>6, <2>1, <2>2 DEF FrameOf
<1>8. ~Ungrouped'
    BY GroupNotUngrouped, KeptHypotheses
<1>9. GoodFrame(g)'
    BY <1>7, <1>8 DEF GoodFrame, LoopOps
<1>10. PICK a : a = Append(f, g)
    OBVIOUS
<1>11. a \in Seq(FrameOf(T)) /\ Stacked(a)' /\ a # <<>> /\ a[Len(a)] = g
    BY <1>1, <1>2, <1>6, <1>7, <1>9, <1>10, PushFrame
<1>12. PICK h : h = a \o CallExpression
    OBVIOUS
<1>13. h \in Seq(FrameOf(T)) /\ Stacked(h)' /\ h # <<>> /\ h[Len(h)].kind = "Term"
    BY <1>7, <1>11, <1>12, PushExpression
<1>14. frames' = h
    <2>1. frames' = f \o (<<g>> \o CallExpression)
        BY <1>1, <1>4 DEF OpenGroup, Push
    <2>2. <<g>> \in Seq(FrameOf(T)) /\ CallExpression \in Seq(FrameOf(T))
        BY <1>7, LoopFrame DEF CallExpression
    <2>3. frames' = (f \o <<g>>) \o CallExpression
        BY <2>1, <2>2, ConcatAssociative
    <2> QED  BY <1>7, <1>10, <1>12, <2>3, AppendIsConcat
<1>15. pos' = pos + 1 /\ UNCHANGED <<program, value>>
    BY DEF OpenGroup, Eat
<1>16. pos' \in 1 .. Len(tokens) /\ tokens[pos'].tag # "kString"
    BY <1>3, <1>15, TokenAt
<1>17. value' = <<>>
    BY <1>15, PrimaryState DEF OpenGroup
<1> QED  BY <1>13, <1>14, <1>15, <1>16, <1>17, BeginsOnly DEF Holds

-------------------------------------------------------------------------------
(* Returns. *)

\* The state in which a call of a kind is handed a tree.
LEMMA ReturningState ==
    ASSUME NEW T, Holds(T), NEW kind, Returning(kind), Kept
    PROVE  /\ frames # <<>> /\ Top \in FrameOf(T) /\ GoodFrame(Top) /\ Top.kind = kind
           /\ pos \in 1 .. Len(tokens)
           /\ (Ungrouped /\ tokens[pos].tag = "kString") => tokens[pos].text \in DOMAIN table
           /\ \E v \in T : Result = v /\ Hands(kind, v)
<1>1. value # <<>> /\ Top.kind = kind
    BY DEF Returning, Top
<1>2. frames # <<>> /\ \E v \in T : value = <<v>> /\ Hands(kind, v)
    BY <1>1 DEF Holds, Waits
<1>3. \E v \in T : Result = v /\ Hands(kind, v)
    BY <1>2 DEF Result
<1> QED  BY <1>1, <1>2, <1>3, PopFrame DEF Holds, LastWord

\* What a loop has parsed is a tree that binds as it should.
LEMMA JoinedNode ==
    ASSUME Kept, NEW T, Sound(T), Holds(T), NEW kind \in DOMAIN LoopOps, Returning(kind), Joins
    PROVE  \E N : /\ NewNodes(N, T)
                  /\ \E j \in T \cup N :
                        /\ j = Joined /\ j.type \in Type
                        /\ (Ungrouped /\ kind = "Term") => ~IsSum(j)
<1>1. /\ Top \in FrameOf(T) /\ GoodFrame(Top) /\ Top.kind = kind
    BY ReturningState
<1>2. PICK v \in T : Result = v /\ Hands(kind, v)
    BY ReturningState
<1>3. kind \in {"Term", "Expression"} /\ v.type \in Type
    BY <1>2 DEF LoopOps, Hands
<1>4. CASE Top.irs = <<>>
    <2>1. v = Joined /\ NewNodes({}, T)
        BY <1>2, <1>4 DEF Joined, NewNodes
    <2>2. (Ungrouped /\ kind = "Term") => ~IsSum(v)
        BY <1>2, NoOperation DEF Hands
    <2> QED  BY <1>3, <2>1, <2>2
<1>5. CASE Top.irs # <<>>
    <2>1. /\ Len(Top.irs) = 1 /\ Top.irs \in Seq(T) /\ \A k \in DOMAIN Top.irs : Top.irs[k].type \in Type
          /\ (Ungrouped /\ kind = "Term") => ~IsSum(Top.irs[1])
        BY <1>1, <1>5 DEF GoodFrame, FrameOf
    <2>2. PICK tag \in DOMAIN LoopOps[kind] : Top.word = LoopOps[kind][tag]
        BY <1>1, <1>5 DEF GoodFrame
    <2>3. 1 \in DOMAIN Top.irs
        BY <2>1
    <2>4. PICK l \in T : l = Top.irs[1] /\ l.type \in Type /\ BinaryAccepts(l, v)
        BY <1>2, <2>1, <2>3 DEF Joins
    <2>5. PICK c : c = Top.word
        OBVIOUS
    <2>6. /\ kind = "Term" => c \in {"mul", "div"}
          /\ kind = "Expression" => c \in {"add", "sub"}
        BY <2>2, <2>5 DEF LoopOps
    <2>7. PICK n : n = BinaryIR(c, l, v)
        OBVIOUS
    <2>8. n = Joined
        BY <1>2, <1>5, <2>4, <2>5, <2>7 DEF Joined
    <2>9. n.ir = "Binary" /\ n.type = l.type
        BY <2>7 DEF BinaryIR, Node
    <2>10. Resolved(n)'
        BY <2>9 DEF Resolved
    <2>11. Built(n, T \cup {n})
        <3>1. c \in {"add", "sub", "mul", "div"}
            BY <1>3, <2>6
        <3> QED  BY <2>4, <2>7, <3>1 DEF Built
    <2>12. Ungrouped => Binds(n) /\ (kind = "Term" => ~IsSum(n))
        <3>1. CASE kind = "Term"
            <4>1. IsProduct(n) /\ ~IsSum(n) /\ n.kids[1] = l /\ n.kids[2] = v
                BY <2>4, <2>6, <2>7, <3>1, ProductNode
            <4>2. Ungrouped => v.ir # "Binary" /\ ~IsSum(l)
                BY <1>2, <2>1, <2>4, <3>1 DEF Hands
            <4> QED  BY <4>1, <4>2 DEF Binds
        <3>2. CASE kind = "Expression"
            <4>1. IsSum(n) /\ ~IsProduct(n) /\ n.kids[2] = v
                BY <2>4, <2>6, <2>7, <3>2, SumNode
            <4>2. Ungrouped => ~IsSum(v)
                BY <1>2, <3>2 DEF Hands
            <4> QED  BY <3>2, <4>1, <4>2 DEF Binds
        <3> QED  BY <1>3, <3>1, <3>2
    <2>13. NewNodes({n}, T)
        BY <2>10, <2>11, <2>12 DEF NewNodes
    <2> QED  BY <2>4, <2>8, <2>9, <2>12, <2>13
<1> QED  BY <1>4, <1>5

LEMMA CloseCastStep ==
    ASSUME Kept, NEW T, Sound(T), Holds(T), CloseCast
    PROVE  Continues
<1>1. /\ frames # <<>> /\ GoodFrame(Top) /\ Top.kind = "Cast"
      /\ pos \in 1 .. Len(tokens)
      /\ (Ungrouped /\ tokens[pos].tag = "kString") => tokens[pos].text \in DOMAIN table
    BY ReturningState DEF CloseCast
<1>2. PICK v \in T : Result = v /\ Hands("Cast", v)
    BY ReturningState DEF CloseCast
<1>3. PICK t \in Type : t = Top.word
    BY <1>1 DEF GoodFrame, CloseCast, TypeNames
<1>4. PICK n : n = CastIR(t, v)
    OBVIOUS
<1>5. n.ir = "Cast" /\ n.type = t
    BY <1>4 DEF CastIR, Node
<1>6. Built(n, T \cup {n})
    BY <1>2, <1>3, <1>4 DEF Built, Hands
<1>7. Resolved(n)'
    BY <1>5 DEF Resolved
<1>8. NewNodes({n}, T)
    BY <1>5, <1>6, <1>7, NoOperation DEF NewNodes
<1>9. \A kind : Hands(kind, n)
    BY <1>5, NoOperation DEF Hands
<1>10. Return(n) /\ UNCHANGED <<pos, program>>
    BY <1>2, <1>3, <1>4 DEF CloseCast
<1>11. (Ungrouped /\ tokens[pos'].tag = "kString") => tokens[pos'].text \in DOMAIN table'
    BY <1>1, <1>10 DEF Kept
<1>12. pos' \in 1 .. Len(tokens) /\ Top.kind \notin {"Assign", "Call"}
    BY <1>1, <1>10
<1> QED  BY <1>1, <1>8, <1>9, <1>10, <1>11, <1>12, Returns

LEMMA CloseGroupStep ==
    ASSUME Base, Kept, NEW T, Sound(T), Holds(T), CloseGroup
    PROVE  Continues
<1>1. frames # <<>> /\ GoodFrame(Top) /\ Top.kind = "Group"
    BY ReturningState DEF CloseGroup
<1>2. PICK v \in T : Result = v /\ Hands("Group", v)
    BY ReturningState DEF CloseGroup
<1>3. ~Ungrouped
    BY <1>1 DEF GoodFrame
<1>4. \A kind : Hands(kind, v)
    BY <1>2, <1>3 DEF Hands
<1>5. Return(v) /\ UNCHANGED program /\ pos' = pos + 1 /\ HasNext(1)
    BY <1>2 DEF CloseGroup, Eat
<1>6. pos' \in 1 .. Len(tokens)
    BY <1>5, TokenAt
<1>7. NewNodes({}, T) /\ Top.kind \notin {"Assign", "Call"}
    BY <1>1 DEF NewNodes
<1> QED  BY <1>1, <1>3, <1>4, <1>5, <1>6, <1>7, Returns

\* The frame of a loop that goes on for another operand.
LEMMA OperandFrame ==
    ASSUME NEW T, NEW kind \in DOMAIN LoopOps, NEW tag \in DOMAIN LoopOps[kind],
           NEW j \in T, j.type \in Type, (Ungrouped' /\ kind = "Term") => ~IsSum(j)
    PROVE  LET g == Frame(kind, LoopOps[kind][tag], 0, <<j>>)
           IN  g \in FrameOf(T) /\ g.kind = kind /\ GoodFrame(g)'
<1>1. kind \in {"Term", "Expression"} /\ kind \in DOMAIN CallersOf
    BY DEF LoopOps, CallersOf
<1>2. PICK c : c = LoopOps[kind][tag]
    OBVIOUS
<1>3. c \in Words
    <2>1. c \in {"add", "sub", "mul", "div"}
        BY <1>1, <1>2 DEF LoopOps
    <2> QED  BY <2>1 DEF Words
<1>4. PICK g : g = Frame(kind, c, 0, <<j>>)
    OBVIOUS
<1>5. g = [kind |-> kind, word |-> c, ix |-> 0, irs |-> <<j>>]
    BY <1>4 DEF Frame
<1>6. <<j>> \in Seq(T) /\ Len(<<j>>) = 1 /\ <<j>>[1] = j /\ DOMAIN <<j>> = {1}
    OBVIOUS
<1>7. g \in FrameOf(T)
    BY <1>1, <1>3, <1>5, <1>6 DEF FrameOf
<1>8. g.kind = kind /\ g.word = c /\ g.irs = <<j>>
    BY <1>5
<1>9. IsSum(j)' <=> IsSum(j)
    BY DEF IsSum
<1>10. GoodFrame(g)'
    BY <1>1, <1>2, <1>6, <1>8, <1>9 DEF GoodFrame
<1> QED  BY <1>2, <1>4, <1>7, <1>8, <1>10

LEMMA FoldLoopStep ==
    ASSUME Base, Kept, NEW T, Sound(T), Holds(T), NEW kind \in DOMAIN LoopOps, FoldLoop(kind)
    PROVE  Continues
<1>1. Returning(kind) /\ Joins /\ UNCHANGED program
    BY DEF FoldLoop
<1>2. /\ frames # <<>> /\ Top.kind = kind /\ pos \in 1 .. Len(tokens)
      /\ (Ungrouped /\ tokens[pos].tag = "kString") => tokens[pos].text \in DOMAIN table
    BY <1>1, ReturningState
<1>3. PICK N : /\ NewNodes(N, T)
               /\ \E j \in T \cup N :
                     /\ j = Joined /\ j.type \in Type
                     /\ (Ungrouped /\ kind = "Term") => ~IsSum(j)
    BY <1>1, JoinedNode
<1>4. PICK j \in T \cup N :
               /\ j = Joined /\ j.type \in Type
               /\ (Ungrouped /\ kind = "Term") => ~IsSum(j)
    BY <1>3
<1>5. kind \in {"Term", "Expression"}
    BY DEF LoopOps
<1>6. CASE ~(HasNext(1) /\ Tok(1).tag \in DOMAIN LoopOps[kind])
    <2>1. Return(j) /\ UNCHANGED pos
        BY <1>4, <1>6 DEF FoldLoop
    <2>2. \A caller \in CallersOf[kind] : Hands(caller, j)
        BY <1>4, <1>5 DEF Hands, CallersOf
    <2>3. (Ungrouped /\ tokens[pos'].tag = "kString") => tokens[pos'].text \in DOMAIN table'
        BY <1>2, <2>1 DEF Kept
    <2>4. Top.kind \notin {"Assign", "Call"} /\ pos' \in 1 .. Len(tokens)
        BY <1>2, <1>5, <2>1
    <2> QED  BY <1>1, <1>2, <1>3, <2>1, <2>2, <2>3, <2>4, Returns
<1>7. CASE HasNext(1) /\ Tok(1).tag \in DOMAIN LoopOps[kind]
    <2> DEFINE U == T \cup N
    <2>1. PICK tag \in DOMAIN LoopOps[kind] : tag = Tok(1).tag
        BY <1>7
    <2>2. PICK g : g = Frame(kind, LoopOps[kind][tag], 0, <<j>>)
        OBVIOUS
    <2>3. g \in FrameOf(U) /\ g.kind = kind /\ GoodFrame(g)'
        BY <1>4, <2>2, KeptHypotheses, OperandFrame
    <2>4. PICK b \in Seq(FrameOf(T)) :
              /\ Below = b /\ Stacked(b)'
              /\ b # <<>> /\ b[Len(b)].kind \in CallersOf[kind]
        BY <1>2, <1>5, PopFrame DEF Holds
    <2>5. b \in Seq(FrameOf(U))
        BY <2>4, SeqGrows, FrameGrows
    <2> HIDE DEF U
    <2>6. PICK a : a = Append(b, g)
        OBVIOUS
    <2>7. a \in Seq(FrameOf(U)) /\ Stacked(a)' /\ a # <<>> /\ a[Len(a)] = g
        BY <2>3, <2>4, <2>5, <2>6, PushFrame
    <2>8. /\ frames' = Below \o <<g>> \o (IF kind = "Expression" THEN <<Loop("Term")>> ELSE <<>>)
          /\ value' = <<>> /\ pos' = pos + 1
        BY <1>4, <1>7, <2>1, <2>2 DEF FoldLoop, Eat
    <2>9. b \o <<g>> = a
        BY <2>3, <2>5, <2>6, AppendIsConcat
    <2>10. PICK h : h = frames'
        OBVIOUS
    <2>11. h \in Seq(FrameOf(U)) /\ Stacked(h)' /\ h # <<>> /\ h[Len(h)].kind = "Term"
        <3>1. CASE kind = "Term"
            <4>1. h = a \o <<>>
                BY <2>4, <2>8, <2>9, <2>10, <3>1
            <4>2. h = a
                BY <2>7, <4>1, ConcatEmptySeq
            <4> QED  BY <2>3, <2>7, <3>1, <4>2
        <3>2. CASE kind = "Expression"
            <4>1. h = a \o <<Loop("Term")>>
                BY <2>4, <2>8, <2>9, <2>10, <3>2
            <4>2. PICK l : l = Loop("Term")
                OBVIOUS
            <4>3. l \in FrameOf(U) /\ l.kind = "Term" /\ GoodFrame(l)'
                BY <4>2, LoopFrame
            <4>4. h = Append(a, l)
                BY <2>7, <4>1, <4>2, <4>3, AppendIsConcat
            <4>5. a[Len(a)].kind \in CallersOf[l.kind]
                BY <2>3, <2>7, <3>2, <4>3 DEF CallersOf
            <4>6. h \in Seq(FrameOf(U)) /\ Stacked(h)' /\ h # <<>> /\ h[Len(h)] = l
                BY <2>7, <4>3, <4>4, <4>5, PushFrame
            <4> QED  BY <4>3, <4>6
        <3> QED  BY <1>5, <3>1, <3>2
    <2>12. pos' \in 1 .. Len(tokens) /\ tokens[pos'] = Tok(1)
        BY <1>7, <2>8, TokenAt
    <2>13. tokens[pos'].tag # "kString"
        BY <1>5, <2>1, <2>12 DEF LoopOps
    <2>14. h \in Seq(FrameOf(T \cup N)) /\ program \in Seq(T)
        BY <2>11 DEF U, Holds
    <2> QED  BY <1>1, <1>3, <2>8, <2>10, <2>11, <2>12, <2>13, <2>14, Begins
<1> QED  BY <1>6, <1>7

\* The value of an assignment is of the type of what it is assigned to.
LEMMA EndAssignStep ==
    ASSUME Kept, NEW T, Sound(T), Holds(T), EndAssign
    PROVE  Continues
<1>1. /\ frames # <<>> /\ GoodFrame(Top) /\ Top.kind = "Assign" /\ Top \in FrameOf(T)
    BY ReturningState DEF EndAssign
<1>2. PICK v \in T : Result = v /\ Hands("Assign", v)
    BY ReturningState DEF EndAssign
<1>3. PICK i \in Nat, t \in Type : i = Top.ix /\ t = Top.word /\ t = v.type
    BY <1>1, <1>2 DEF FrameOf, EndAssign, Hands
<1>4. PICK s : s = StoreIR(i, t)
    OBVIOUS
<1>5. s.ir = "Store" /\ s.type = t /\ s.data[1] = i
    BY <1>4 DEF StoreIR, Node
<1>6. PICK a : a = AssignStmtIR(s, v)
    OBVIOUS
<1>7. a.ir = "Assign"
    BY <1>6 DEF AssignStmtIR, Node
<1> DEFINE N == {s, a}
<1>8. Built(s, T \cup N) /\ Built(a, T \cup N)
    <2>1. s \in T \cup N /\ v \in T \cup N
        OBVIOUS
    <2> HIDE DEF N
    <2>2. Built(s, T \cup N)
        BY <1>4 DEF Built
    <2>3. Built(a, T \cup N)
        BY <1>3, <1>5, <1>6, <2>1 DEF Built
    <2> QED  BY <2>2, <2>3
<1>9. DeclaredOnce => Resolved(s)'
    <2> SUFFICES ASSUME DeclaredOnce PROVE Resolved(s)'
        OBVIOUS
    <2>1. PICK m \in DOMAIN table : table[m] = [ix |-> i, type |-> t]
        BY <1>1, <1>3 DEF GoodFrame
    <2>2. m \in DOMAIN table' /\ table'[m] = [ix |-> i, type |-> t]
        BY <2>1 DEF Kept
    <2> QED  BY <1>5, <2>2 DEF Resolved
<1>10. Resolved(a)'
    BY <1>7 DEF Resolved
<1>11. NewNodes(N, T)
    BY <1>5, <1>7, <1>8, <1>9, <1>10, NoOperation DEF NewNodes
<1>12. AddStatement(a)
    BY <1>2, <1>3, <1>4, <1>6 DEF EndAssign
<1> QED  BY <1>11, <1>12, AddsStatement DEF Holds

LEMMA EndArgumentStep ==
    ASSUME Base, Kept, NEW T, Sound(T), Holds(T), EndArgument
    PROVE  Continues
<1>1. /\ frames # <<>> /\ GoodFrame(Top) /\ Top.kind = "Call" /\ Top \in FrameOf(T)
      /\ pos \in 1 .. Len(tokens)
      /\ (Ungrouped /\ tokens[pos].tag = "kString") => tokens[pos].text \in DOMAIN table
    BY ReturningState DEF EndArgument
<1>2. PICK v \in T : Result = v /\ Hands("Call", v)
    BY ReturningState DEF EndArgument
<1>3. PICK k : k = IF Is(1, "kComma") THEN 1 ELSE 0
    OBVIOUS
<1>4. PICK name \in Words, irs \in Seq(T) : name = Top.word /\ irs = Top.irs
    BY <1>1 DEF FrameOf
<1>5. PICK args \in Seq(T) : args = Append(irs, v)
    <2>1. v \in T /\ irs \in Seq(T)
        OBVIOUS
    <2>2. Append(irs, v) \in Seq(T)
        BY <2>1, AppendProperties
    <2> QED  BY <2>2
<1>6. \A j \in DOMAIN args : args[j].type \in Type
    <2>1. \A j \in DOMAIN irs : irs[j].type \in Type
        BY <1>1, <1>4 DEF GoodFrame
    <2>2. v.type \in Type
        BY <1>2 DEF Hands
    <2> QED  BY <1>4, <1>5, <2>1, <2>2
<1>7. NextArgument(k, name, args) /\ HasNext(1)
    BY <1>2, <1>3, <1>4, <1>5 DEF EndArgument
<1>8. pos + 1 \in 1 .. Len(tokens) /\ tokens[pos + 1] = Tok(1)
    BY <1>7, TokenAt
<1>9. CASE Is(1, "kComma")
    <2>1. k = 1 /\ tokens[pos + k].tag # "kString"
        BY <1>3, <1>8, <1>9 DEF Is
    <2> QED  BY <1>6, <1>7, <1>8, <2>1, ArgumentStep
<1>10. CASE ~Is(1, "kComma")
    <2>1. k = 0 /\ pos + 0 = pos
        BY <1>1, <1>3, <1>10
    <2> QED  BY <1>1, <1>6, <1>7, <2>1, ArgumentStep
<1> QED  BY <1>9, <1>10

-------------------------------------------------------------------------------
(* The specification. *)

\* A step that changes nothing the invariant is about.
LEMMA StayStep ==
    ASSUME Kept, NEW T, Sound(T), Holds(T), UNCHANGED <<pos, program, frames, value>>
    PROVE  Continues
<1>1. PICK f : f = frames
    OBVIOUS
<1>2. f \in Seq(FrameOf(T)) /\ Stacked(f)' /\ frames' = f /\ program' \in Seq(T)
    BY <1>1, StackedKept DEF Holds
<1>3. \/ value' = <<>> /\ (f # <<>> => f[Len(f)].kind \in {"Term", "Cast"})
      \/ f # <<>> /\ \E v \in T : value' = <<v>> /\ Hands(f[Len(f)].kind, v)
    BY <1>1 DEF Holds, Waits, Top
<1>4. f # <<>> => /\ pos' \in 1 .. Len(tokens)
                  /\ (Ungrouped /\ tokens[pos'].tag = "kString") =>
                         tokens[pos'].text \in DOMAIN table'
    BY <1>1 DEF Holds, LastWord, Kept
<1>5. Holds(T)'
    BY <1>2, <1>3, <1>4, NextHolds
<1>6. NewNodes({}, T) /\ T \cup {} = T
    BY DEF NewNodes
<1>7. Sound(T)'
    BY <1>6, SoundGrows
<1> QED  BY <1>5, <1>7 DEF Continues

LEMMA TreesStep ==
    ASSUME Base, Kept, NEW T, Sound(T), Holds(T), Next
    PROVE  Continues
<1>1. CASE BadStatement \/ BadPrimary \/ BadReturn \/ Finish
    BY <1>1, StopMoves, StayStep
<1> QED
    BY <1>1, DefineStep, InitialiseStep, ReassignStep, CallFunctionStep, SemicolonStep,
       LiteralStep, VariableStep, OpenCastStep, OpenGroupStep, FoldLoopStep, CloseCastStep,
       CloseGroupStep, EndAssignStep, EndArgumentStep DEF Next

\* A parser at its first token.
Fresh ==
    /\ tokens \in Seq(Token)
    /\ pos = 0 /\ table = [n \in {} |-> 0] /\ program = <<>>
    /\ frames = <<>> /\ value = <<>> /\ status = "running"

LEMMA InvFresh == Fresh => Inv
<1> SUFFICES ASSUME Fresh PROVE Inv
    OBVIOUS
<1>1. /\ tokens \in Seq(Token) /\ pos = 0 /\ DOMAIN table = {} /\ program = <<>>
      /\ frames = <<>> /\ value = <<>> /\ status = "running"
    BY DEF Fresh
<1>2. IsFiniteSet(DOMAIN table) /\ Cardinality(DOMAIN table) = 0
    BY <1>1, FS_EmptySet
<1>3. Base
    <2>1. Len(tokens) \in Nat
        BY <1>1
    <2>2. pos \in 0 .. (Len(tokens) + 1) /\ OverrunsOnlyOpenCall
        BY <1>1, <2>1 DEF OverrunsOnlyOpenCall
    <2>3. table \in [DOMAIN table -> [ix : Nat, type : TypeNames]]
        BY <1>1
    <2>4. IndexesDense
        BY <1>1, <1>2 DEF IndexesDense
    <2> QED  BY <1>1, <1>2, <2>2, <2>3, <2>4 DEF Base, Origins
<1>4. Sound({})
    BY DEF Sound
<1>5. <<>> \in Seq({}) /\ <<>> \in Seq(FrameOf({}))
    OBVIOUS
<1>6. Holds({})
    BY <1>1, <1>5 DEF Holds, Stacked, Waits, LastWord
<1> QED  BY <1>3, <1>4, <1>6 DEF Inv

\* A sequence is one of its own elements.
LEMMA OwnElements ==
    ASSUME NEW S, NEW s \in Seq(S)
    PROVE  s \in Seq({s[k] : k \in DOMAIN s})
OBVIOUS

LEMMA InitFresh == Init => Fresh
<1> SUFFICES ASSUME Init PROVE Fresh
    OBVIOUS
<1>1. tokens \in Seq(Token)
    BY InputsAssumption, OwnElements DEF Init, Token
<1> QED  BY <1>1 DEF Init, Fresh

LEMMA InvInit == Init => Inv
BY InitFresh, InvFresh

LEMMA InvStep == Inv /\ [Next]_vars => Inv'
<1> SUFFICES ASSUME Inv, [Next]_vars PROVE Inv'
    OBVIOUS
<1>1. PICK T : Sound(T) /\ Holds(T)
    BY DEF Inv
<1>2. CASE Next
    <2>1. Base' /\ Kept
        BY <1>2, BaseStep DEF Inv
    <2>2. Continues
        BY <1>1, <1>2, <2>1, TreesStep DEF Inv
    <2> QED  BY <2>1, <2>2 DEF Inv, Continues
<1>3. CASE UNCHANGED vars
    <2>1. UNCHANGED <<tokens, pos, table, program, frames, value, status>> /\ Kept
        BY <1>3 DEF vars, Kept
    <2>2. Continues
        BY <1>1, <2>1, StayStep
    <2>3. Base'
        BY <2>1 DEF Inv, Base, Token, OverrunsOnlyOpenCall, IndexesDense, Origins, DeclaredAt
    <2> QED  BY <2>2, <2>3 DEF Inv, Continues
<1> QED  BY <1>2, <1>3

\* The invariant behind the theorems below: between two calls or returns the
\* parser has built a set of sound trees, and each call in progress has a
\* caller that makes such calls.
THEOREM InvAlways == Spec => []Inv
<1> QED  BY InvInit, InvStep, PTL DEF Spec

LEMMA InvType == Inv => TypeOK
<1> SUFFICES ASSUME Inv PROVE TypeOK
    OBVIOUS
<1>1. PICK T : Holds(T)
    BY DEF Inv
<1>2. \A k \in DOMAIN frames :
          frames[k].kind \in {"Term", "Expression", "Cast", "Group", "Assign", "Call"}
    <2>1. \A k \in DOMAIN frames : frames[k] \in FrameOf(T)
        BY <1>1 DEF Holds
    <2>2. DOMAIN CallersOf = {"Term", "Expression", "Cast", "Group", "Assign", "Call"}
        BY DEF CallersOf
    <2> QED  BY <2>1, <2>2 DEF FrameOf
<1>3. Len(value) <= 1
    <2>1. value = <<>> \/ \E v \in T : value = <<v>>
        BY <1>1 DEF Holds, Waits
    <2>2. value = <<>> => Len(value) = 0
        OBVIOUS
    <2>3. ASSUME NEW v, value = <<v>> PROVE Len(value) = 1
        BY <2>3
    <2>4. Len(value) = 0 \/ Len(value) = 1
        BY <2>1, <2>2, <2>3
    <2>5. CASE Len(value) = 0
        BY <2>5
    <2>6. CASE Len(value) = 1
        BY <2>6
    <2> QED  BY <2>4, <2>5, <2>6
<1> QED  BY <1>2, <1>3 DEF Inv, Base, TypeOK

\* The declared types: the position stays within one of the file's end, the
\* table maps names to indexes and types, the calls in progress are the
\* parser's own, and a call returns one tree.
THEOREM TypeCorrect == Spec => []TypeOK
BY InvType, InvAlways, PTL

\* The symbol table numbers its names 0, 1, 2, ... without a gap or a double,
\* whatever is declared twice: SymbolTable::add takes the size of the map
\* whether insert inserts or not.
THEOREM IndexesDenseAlways == Spec => []IndexesDense
<1>1. Inv => IndexesDense
    BY DEF Inv, Base
<1> QED  BY <1>1, InvAlways, PTL

\* Parser::Next, which has no bounds check, steps past the last token only at
\* a call whose name or last comma ends the file.
THEOREM OverrunsOnlyOpenCallAlways == Spec => []OverrunsOnlyOpenCall
<1>1. Inv => OverrunsOnlyOpenCall
    BY DEF Inv, Base
<1> QED  BY <1>1, InvAlways, PTL

-------------------------------------------------------------------------------
(* The nodes of trees of a sound set are in it. *)

\* A set of numbers that is not empty has a least one.
LEMMA LeastElement ==
    ASSUME NEW S \in SUBSET Nat, S # {}
    PROVE  \E x \in S : \A y \in S : x <= y
<1>1. PICK x \in S : \A y \in S : ~(<<y, x>> \in OpToRel(<, Nat))
    BY NatLessThanWellFounded, WFMin, Zenon
<1>2. \A y \in S : ~(y < x)
    BY <1>1 DEF OpToRel
<1> QED  BY <1>2

\* What the levels of trees are, from the roots on.
IsLevels(f, roots, depth) ==
    f = [d \in 0 .. depth |-> IF d = 0 THEN roots ELSE Kids(f[d - 1])]

LEMMA LevelsGrow ==
    ASSUME NEW roots, NEW depth \in Nat, NEW f, IsLevels(f, roots, depth)
    PROVE  \E g : IsLevels(g, roots, depth + 1)
<1> DEFINE g == [d \in 0 .. (depth + 1) |-> IF d = 0 THEN roots ELSE Kids(f[d - 1])]
<1>1. \A d \in 0 .. depth : f[d] = IF d = 0 THEN roots ELSE Kids(f[d - 1])
    BY DEF IsLevels
<1>2. \A d \in 0 .. (depth + 1) : g[d] = IF d = 0 THEN roots ELSE Kids(f[d - 1])
    OBVIOUS
<1>3. \A d \in 0 .. depth : g[d] = f[d]
    BY <1>1, <1>2
<1>4. \A d \in 0 .. (depth + 1) : d # 0 => g[d - 1] = f[d - 1]
    <2>1. \A d \in 0 .. (depth + 1) : d # 0 => d - 1 \in 0 .. depth
        OBVIOUS
    <2> HIDE DEF g
    <2> QED  BY <1>3, <2>1
<1>5. g = [d \in 0 .. (depth + 1) |-> IF d = 0 THEN roots ELSE Kids(g[d - 1])]
    BY <1>4
<1> QED  BY <1>5 DEF IsLevels

LEMMA LevelsExist ==
    ASSUME NEW roots, NEW depth \in Nat
    PROVE  IsLevels(Levels(roots, depth), roots, depth)
<1> DEFINE Lacks == {d \in Nat : ~ \E f : IsLevels(f, roots, d)}
<1>1. Lacks = {}
    <2> SUFFICES ASSUME Lacks # {} PROVE FALSE
        OBVIOUS
    <2>1. PICK d \in Lacks : \A e \in Lacks : d <= e
        BY LeastElement
    <2>2. CASE d = 0
        <3> DEFINE f == [c \in 0 .. 0 |-> roots]
        <3>1. f = [c \in 0 .. 0 |-> IF c = 0 THEN roots ELSE Kids(f[c - 1])]
            OBVIOUS
        <3> QED  BY <2>1, <2>2, <3>1 DEF IsLevels
    <2>3. CASE d # 0
        <3>1. d - 1 \in Nat /\ d - 1 \notin Lacks /\ d - 1 + 1 = d
            BY <2>1, <2>3
        <3>2. \E f : IsLevels(f, roots, d - 1)
            BY <3>1
        <3>3. \E f : IsLevels(f, roots, d)
            BY <3>1, <3>2, LevelsGrow
        <3> QED  BY <2>1, <3>3
    <2> QED  BY <2>2, <2>3
<1>2. \E f : IsLevels(f, roots, depth)
    BY <1>1
<1>3. Levels(roots, depth) =
          CHOOSE f : f = [d \in 0 .. depth |-> IF d = 0 THEN roots ELSE Kids(f[d - 1])]
    BY DEF Levels
<1> QED  BY <1>2, <1>3 DEF IsLevels

\* The levels of trees whose roots are in a set closed under children.
LEMMA LevelsWithin ==
    ASSUME NEW T, NEW roots \in SUBSET T, NEW depth \in Nat,
           \A n \in T : \A k \in DOMAIN n.kids : n.kids[k] \in T
    PROVE  \A d \in 0 .. depth : Levels(roots, depth)[d] \subseteq T
<1>1. PICK f : f = Levels(roots, depth)
    OBVIOUS
<1>2. \A d \in 0 .. depth : f[d] = IF d = 0 THEN roots ELSE Kids(f[d - 1])
    BY <1>1, LevelsExist DEF IsLevels
<1> DEFINE Strays == {d \in 0 .. depth : ~(f[d] \subseteq T)}
<1>3. Strays = {}
    <2> SUFFICES ASSUME Strays # {} PROVE FALSE
        OBVIOUS
    <2>1. Strays \in SUBSET Nat
        OBVIOUS
    <2>2. PICK d \in Strays : \A e \in Strays : d <= e
        BY <2>1, LeastElement
    <2>3. d # 0
        BY <1>2, <2>2
    <2>4. d - 1 \in 0 .. depth /\ d - 1 \notin Strays
        BY <2>2, <2>3
    <2>5. f[d - 1] \subseteq T
        BY <2>4
    <2>6. Kids(f[d - 1]) \subseteq T
        BY <2>5 DEF Kids
    <2> QED  BY <1>2, <2>2, <2>3, <2>6
<1> QED  BY <1>1, <1>3

\* The children of a node are trees built before it.
LEMMA KidsWithin ==
    ASSUME NEW T, NEW n, Built(n, T)
    PROVE  \A k \in DOMAIN n.kids : n.kids[k] \in T
<1>1. n.kids = <<>> \/ (\E l, r \in T : n.kids = <<l, r>>) \/ (\E e \in T : n.kids = <<e>>)
      \/ n.kids \in Seq(T)
    BY DEF Built, VariableIR, StoreIR, Constant, BinaryIR, CastIR, AssignStmtIR, DefinitionIR,
       NopIR, FunctionCallIR, Node
<1> QED  BY <1>1

LEMMA NodesWithin ==
    ASSUME Base, NEW T, Sound(T), Holds(T)
    PROVE  NodesOf(program \o value) \subseteq T
<1>1. program \o value \in Seq(T)
    <2>1. value = <<>> \/ \E v \in T : value = <<v>>
        BY DEF Holds, Waits
    <2>2. value \in Seq(T)
        <3>1. <<>> \in Seq(T) /\ \A v \in T : <<v>> \in Seq(T)
            OBVIOUS
        <3> QED  BY <2>1, <3>1, Zenon
    <2> QED  BY <2>2, ConcatProperties DEF Holds
<1>2. PICK irs \in Seq(T) : irs = program \o value
    BY <1>1
<1>3. {irs[k] : k \in DOMAIN irs} \in SUBSET T
    OBVIOUS
<1>4. Len(tokens) \in Nat
    BY DEF Base
<1>5. \A n \in T : \A k \in DOMAIN n.kids : n.kids[k] \in T
    BY KidsWithin DEF Sound
<1>6. \A d \in 0 .. Len(tokens) :
          Levels({irs[k] : k \in DOMAIN irs}, Len(tokens))[d] \subseteq T
    BY <1>3, <1>4, <1>5, LevelsWithin
<1> QED  BY <1>2, <1>6 DEF NodesOf, Nodes

\* When no name is declared twice, every variable, store and definition, of
\* finished statements and of the expression being parsed, carries the index
\* and the type of an entry of the table: what Primary, VariableAssign and
\* SymbolDefineOrInitialize looked up or added is still there.
THEOREM NamesResolveAlways == Spec => []NamesResolve
<1>1. Inv => NamesResolve
    BY NodesWithin DEF Inv, NamesResolve, Sound
<1> QED  BY <1>1, InvAlways, PTL

\* Products bind tighter than sums and both associate to the left, in every
\* file without a grouping parenthesis: what Term's and Expression's loops
\* make of the operators they go on for.
THEOREM PrecedenceAlways == Spec => []Precedence
<1>1. Inv => Precedence
    BY NodesWithin DEF Inv, Precedence, Sound
<1> QED  BY <1>1, InvAlways, PTL

\* A node's operands have the types its operation takes: those of a binary
\* node its own, that of a cast one that has a conversion, that of an
\* assignment the type of the variable stored to.
TypesAgree(n) ==
    /\ n.ir = "Binary" => n.type \in Type /\ n.kids[1].type = n.type /\ n.kids[2].type = n.type
    /\ n.ir = "Cast" => n.type \in Type /\ n.kids[1].type \in Type
    /\ n.ir = "Assign" => n.kids[1].ir = "Store" /\ n.kids[1].type = n.kids[2].type
    /\ n.ir = "Call" => \A k \in DOMAIN n.kids : n.kids[k].type \in Type

LEMMA BuiltTypes ==
    ASSUME NEW T, NEW n, Built(n, T)
    PROVE  TypesAgree(n)
<1>1. CASE \/ \E ix \in Nat, t \in Type : n = VariableIR(ix, t) \/ n = StoreIR(ix, t)
           \/ \E k \in DOMAIN tokens : n = Constant(LiteralTags[tokens[k].tag], tokens[k].bits)
           \/ \E ix \in Nat, t \in TypeNames : n = DefinitionIR(ix, t)
           \/ n = NopIR
    <2>1. n.ir \in {"Variable", "Store", "Constant", "Definition", "Nop"}
        BY <1>1 DEF VariableIR, StoreIR, Constant, DefinitionIR, NopIR, Node
    <2> QED  BY <2>1 DEF TypesAgree
<1>2. ASSUME NEW c, NEW l \in T, NEW r \in T,
             l.type \in Type, BinaryAccepts(l, r), n = BinaryIR(c, l, r)
      PROVE  TypesAgree(n)
    <2>1. n.ir = "Binary" /\ n.type = l.type /\ n.kids[1] = l /\ n.kids[2] = r
        BY <1>2 DEF BinaryIR, Node
    <2> QED  BY <1>2, <2>1 DEF TypesAgree, BinaryAccepts
<1>3. ASSUME NEW t \in Type, NEW e \in T, e.type \in Type, n = CastIR(t, e)
      PROVE  TypesAgree(n)
    <2>1. n.ir = "Cast" /\ n.type = t /\ n.kids[1] = e
        BY <1>3 DEF CastIR, Node
    <2> QED  BY <1>3, <2>1 DEF TypesAgree
<1>4. ASSUME NEW s \in T, NEW e \in T, s.ir = "Store", s.type = e.type, n = AssignStmtIR(s, e)
      PROVE  TypesAgree(n)
    <2>1. n.ir = "Assign" /\ n.kids[1] = s /\ n.kids[2] = e
        BY <1>4 DEF AssignStmtIR, Node
    <2> QED  BY <1>4, <2>1 DEF TypesAgree
<1>5. ASSUME NEW name, NEW args \in Seq(T), \A k \in DOMAIN args : args[k].type \in Type,
             n = FunctionCallIR(name, args)
      PROVE  TypesAgree(n)
    <2>1. n.ir = "Call" /\ n.kids = args
        BY <1>5 DEF FunctionCallIR, Node
    <2> QED  BY <1>5, <2>1 DEF TypesAgree
<1> QED  BY <1>1, <1>2, <1>3, <1>4, <1>5 DEF Built

\* No tree mixes types, whatever the file declares and converts: what the
\* constructors of BinaryIR, CastIR and AssignStmtIR check when a node is
\* made still holds of the operands they were given.
THEOREM TypesAgreeAlways == Spec => [](\A n \in NodesOf(program \o value) : TypesAgree(n))
<1>1. Inv => \A n \in NodesOf(program \o value) : TypesAgree(n)
    BY NodesWithin, BuiltTypes DEF Inv, Sound
<1> QED  BY <1>1, InvAlways, PTL

-------------------------------------------------------------------------------
(* How deep trees are. *)

\* A set of nodes with all their children, each of a rank above theirs.
Tower(T, N, rank) ==
    /\ N \in Nat /\ rank \in [T -> 1 .. N]
    /\ \A n \in T : \A k \in DOMAIN n.kids : n.kids[k] \in T /\ rank[n.kids[k]] < rank[n]

\* The nodes a call in progress will make when it ends, whose tokens are
\* behind the parser: an operation, or an assignment with its store.
Cost(f) ==
    CASE f.kind \in DOMAIN LoopOps   -> IF f.irs = <<>> THEN 0 ELSE 1
      [] f.kind \in {"Cast", "Call"} -> 1
      [] f.kind = "Assign"           -> 2
      [] OTHER                       -> 0

\* Calls in progress will make no more than d nodes of the tokens behind.
Owes(f, d) ==
    \E sum \in [0 .. Len(f) -> Nat] :
        /\ sum[Len(f)] <= d
        /\ \A k \in 1 .. Len(f) : sum[k - 1] + Cost(f[k]) <= sum[k]

Trees(T) ==
    /\ program \in Seq(T) /\ value \in Seq(T)
    /\ \A k \in DOMAIN frames : frames[k].irs \in Seq(T)

\* No node is made without a token of its own.
Deep(T, N, rank) ==
    Tower(T, N, rank) /\ Trees(T) /\ N <= pos /\ Owes(frames, pos - N)

Ranked == \E T, N, rank : Deep(T, N, rank)

LEMMA CostType ==
    ASSUME NEW f
    PROVE  Cost(f) \in Nat
BY DEF Cost

LEMMA OwesNone ==
    ASSUME NEW d \in Nat
    PROVE  Owes(<<>>, d)
<1>1. [k \in 0 .. 0 |-> 0] \in [0 .. 0 -> Nat] /\ [k \in 0 .. 0 |-> 0][0] <= d
    OBVIOUS
<1>2. Len(<<>>) = 0
    OBVIOUS
<1>3. \A k \in 1 .. 0 : FALSE
    OBVIOUS
<1> QED  BY <1>1, <1>2, <1>3 DEF Owes

LEMMA OwesPush ==
    ASSUME NEW S, NEW f \in Seq(S), NEW g \in S, NEW d \in Nat, NEW e \in Nat,
           Owes(f, d), d + Cost(g) <= e
    PROVE  Owes(Append(f, g), e)
<1>1. PICK n \in Nat : n = Len(f)
    OBVIOUS
<1>2. PICK h : h = Append(f, g)
    OBVIOUS
<1>3. Len(h) = n + 1 /\ h[n + 1] = g /\ \A k \in 1 .. n : h[k] = f[k]
    BY <1>1, <1>2
<1>4. PICK sum \in [0 .. n -> Nat] :
          sum[n] <= d /\ \A k \in 1 .. n : sum[k - 1] + Cost(f[k]) <= sum[k]
    BY <1>1 DEF Owes
<1> DEFINE more == [k \in 0 .. (n + 1) |-> IF k = n + 1 THEN e ELSE sum[k]]
<1>5. /\ more \in [0 .. (n + 1) -> Nat] /\ more[n + 1] = e
      /\ \A k \in 0 .. n : more[k] = sum[k]
    BY <1>4
<1> HIDE DEF more
<1>6. ASSUME NEW k \in 1 .. (n + 1) PROVE more[k - 1] + Cost(h[k]) <= more[k]
    <2>1. CASE k = n + 1
        <3>1. more[k - 1] = sum[n] /\ more[k] = e /\ Cost(h[k]) = Cost(g)
            BY <1>3, <1>5, <2>1
        <3>2. Cost(g) \in Nat /\ sum[n] \in Nat /\ sum[n] <= d
            BY <1>4, CostType
        <3> QED  BY <3>1, <3>2
    <2>2. CASE k # n + 1
        <3>1. k \in 1 .. n /\ k - 1 \in 0 .. n /\ k \in 0 .. n
            BY <2>2
        <3> QED  BY <1>3, <1>4, <1>5, <3>1
    <2> QED  BY <2>1, <2>2
<1>7. more[n + 1] <= e
    BY <1>5
<1>8. Owes(h, e)
    BY <1>3, <1>5, <1>6, <1>7 DEF Owes
<1> QED  BY <1>2, <1>8

LEMMA OwesPop ==
    ASSUME NEW S, NEW f \in Seq(S), f # <<>>, NEW d \in Nat, Owes(f, d)
    PROVE  /\ Cost(f[Len(f)]) <= d
           /\ Owes(SubSeq(f, 1, Len(f) - 1), d - Cost(f[Len(f)]))
<1>1. PICK n \in Nat : n = Len(f)
    OBVIOUS
<1>2. n > 0
    BY <1>1
<1>3. PICK b : b = SubSeq(f, 1, n - 1)
    OBVIOUS
<1>4. Len(b) = n - 1 /\ \A k \in 1 .. (n - 1) : b[k] = f[k]
    BY <1>1, <1>2, <1>3
<1>5. PICK sum \in [0 .. n -> Nat] :
          sum[n] <= d /\ \A k \in 1 .. n : sum[k - 1] + Cost(f[k]) <= sum[k]
    BY <1>1 DEF Owes
<1>6. PICK c \in Nat : c = Cost(f[n])
    BY CostType
<1>7. n - 1 \in 0 .. n /\ n \in 1 .. n /\ sum[n - 1] \in Nat /\ sum[n] \in Nat
    BY <1>2, <1>5
<1>8. sum[n - 1] + c <= sum[n]
    BY <1>5, <1>6, <1>7
<1>9. c <= d /\ sum[n - 1] <= d - c
    BY <1>5, <1>7, <1>8
<1> DEFINE less == [k \in 0 .. (n - 1) |-> sum[k]]
<1>10. less \in [0 .. (n - 1) -> Nat] /\ \A k \in 0 .. (n - 1) : less[k] = sum[k]
    BY <1>2
<1> HIDE DEF less
<1>11. less[n - 1] <= d - c
    BY <1>2, <1>9, <1>10
<1>12. ASSUME NEW k \in 1 .. (n - 1) PROVE less[k - 1] + Cost(b[k]) <= less[k]
    <2>1. k \in 1 .. n /\ k - 1 \in 0 .. (n - 1) /\ k \in 0 .. (n - 1)
        BY <1>2
    <2> QED  BY <1>4, <1>5, <1>10, <2>1
<1>13. Owes(b, d - c)
    BY <1>4, <1>10, <1>11, <1>12 DEF Owes
<1> QED  BY <1>1, <1>3, <1>6, <1>9, <1>13

\* Calls of Expression and Term owe nothing yet.
LEMMA OwesExpression ==
    ASSUME NEW T, NEW f \in Seq(FrameOf(T)), NEW d \in Nat, Owes(f, d)
    PROVE  Owes(f \o CallExpression, d)
<1>1. PICK a \in FrameOf(T), b \in FrameOf(T) : a = Loop("Expression") /\ b = Loop("Term")
    BY LoopFrame
<1>2. Cost(a) = 0 /\ Cost(b) = 0
    BY <1>1 DEF Cost, Loop, Frame, LoopOps
<1>3. f \o CallExpression = Append(Append(f, a), b)
    BY <1>1, AppendTwo DEF CallExpression
<1>4. Append(f, a) \in Seq(FrameOf(T)) /\ Owes(Append(f, a), d)
    <2>1. d + Cost(a) <= d
        BY <1>2
    <2> QED  BY <2>1, OwesPush
<1>5. d + Cost(b) <= d
    BY <1>2
<1> QED  BY <1>3, <1>4, <1>5, OwesPush

\* A node on top of a tower.
LEMMA NewNode ==
    ASSUME NEW T, NEW N, NEW rank, Tower(T, N, rank),
           NEW n, \A k \in DOMAIN n.kids : n.kids[k] \in T
    PROVE  \E U, r : Tower(U, N + 1, r) /\ T \subseteq U /\ n \in U
<1> DEFINE U == T \cup {n}
           r == [m \in U |-> IF m \in T THEN rank[m] ELSE N + 1]
<1>1. N \in Nat /\ \A m \in T : rank[m] \in 1 .. N
    BY DEF Tower
<1>2. \A m \in T : r[m] = rank[m]
    OBVIOUS
<1>3. n \notin T => r[n] = N + 1
    OBVIOUS
<1>4. r \in [U -> 1 .. (N + 1)]
    BY <1>1
<1> HIDE DEF r
<1>5. ASSUME NEW m \in U, NEW k \in DOMAIN m.kids
      PROVE  m.kids[k] \in U /\ r[m.kids[k]] < r[m]
    <2>1. CASE m \in T
        BY <1>2, <2>1 DEF Tower
    <2>2. CASE m \notin T
        <3>1. m = n /\ m.kids[k] \in T
            BY <2>2
        <3>2. r[m.kids[k]] \in 1 .. N /\ r[m] = N + 1
            BY <1>1, <1>2, <1>3, <2>2, <3>1
        <3> QED  BY <1>1, <3>1, <3>2
    <2> QED  BY <2>1, <2>2
<1>6. Tower(U, N + 1, r)
    BY <1>1, <1>4, <1>5 DEF Tower
<1> QED  BY <1>6

\* A step that leaves a tower paid for leaves Ranked.
LEMMA RankedNext ==
    ASSUME NEW T, NEW N, NEW rank, Tower(T, N, rank), NEW p \in Nat, pos' = p, N <= p,
           program' \in Seq(T), value' \in Seq(T),
           NEW f, frames' = f, \A k \in DOMAIN f : f[k].irs \in Seq(T), Owes(f, p - N)
    PROVE  Ranked'
<1>1. Trees(T)'
    BY DEF Trees
<1>2. Deep(T, N, rank)'
    BY <1>1 DEF Deep, Tower, Owes, Cost, LoopOps
<1> QED  BY <1>2 DEF Ranked

\* What is known of a tower between two steps.
LEMMA DeepState ==
    ASSUME Base, NEW T, NEW N, NEW rank, Deep(T, N, rank)
    PROVE  /\ pos \in Nat /\ N \in Nat /\ N <= pos /\ pos - N \in Nat
           /\ program \in Seq(T) /\ value \in Seq(T)
           /\ \A k \in DOMAIN frames : frames[k].irs \in Seq(T)
           /\ Owes(frames, pos - N) /\ Tower(T, N, rank)
BY DEF Base, Deep, Trees, Tower

\* A statement is complete.
LEMMA RankedAdds ==
    ASSUME Base', NEW T, program \in Seq(T), NEW U, T \subseteq U,
           NEW M, NEW r, Tower(U, M, r), M <= pos', NEW n \in U, AddStatement(n)
    PROVE  Ranked'
<1>1. PICK p \in Nat : pos' = p
    BY DEF Base
<1>2. program \in Seq(U)
    BY SeqGrows
<1>3. PICK irs \in Seq(U) : irs = program
    BY <1>2
<1>4. program' \in Seq(U) /\ value' = <<>> /\ frames' = <<>>
    <2>1. Append(irs, n) \in Seq(U)
        BY AppendProperties
    <2> QED  BY <1>3, <2>1 DEF AddStatement
<1>5. M \in Nat /\ p - M \in Nat /\ M <= p
    BY <1>1 DEF Tower
<1>6. Owes(<<>>, p - M)
    BY <1>5, OwesNone
<1>7. value' \in Seq(U) /\ \A k \in DOMAIN <<>> : <<>>[k].irs \in Seq(U)
    BY <1>4
<1> QED  BY <1>1, <1>4, <1>5, <1>6, <1>7, RankedNext

LEMMA RankedLeaf ==
    ASSUME Base, Base', NEW T, NEW N, NEW rank, Deep(T, N, rank),
           NEW n, n.kids = <<>>, AddStatement(n), NEW k \in 1 .. 3, pos' = pos + k
    PROVE  Ranked'
<1>1. PICK U, r : Tower(U, N + 1, r) /\ T \subseteq U /\ n \in U
    BY NewNode DEF Deep
<1>2. N + 1 <= pos' /\ program \in Seq(T)
    BY DeepState
<1> QED  BY <1>1, <1>2, RankedAdds

\* A call begins, and owes its own cost.
LEMMA RankedPush ==
    ASSUME Base', NEW S, NEW b \in Seq(FrameOf(S)),
           NEW T, NEW N, NEW rank, Tower(T, N, rank), program \in Seq(T),
           \A j \in DOMAIN b : b[j].irs \in Seq(T), UNCHANGED program, value' = <<>>,
           NEW g \in FrameOf(S), g.irs \in Seq(T),
           NEW d \in Nat, Owes(b, d), N + d + Cost(g) <= pos',
           \/ frames' = Append(b, g)
           \/ frames' = Append(b, g) \o CallExpression
    PROVE  Ranked'
<1>1. PICK p \in Nat : p = pos'
    BY DEF Base
<1>3. PICK h : h = Append(b, g)
    OBVIOUS
<1>4. N <= p /\ p - N \in Nat /\ d + Cost(g) <= p - N
    <2>1. PICK c \in Nat : c = Cost(g)
        BY CostType
    <2>2. N \in Nat /\ p \in Nat /\ N + d + c <= p
        BY <1>1, <2>1 DEF Tower
    <2>3. N <= p /\ p - N \in Nat /\ d + c <= p - N
        BY <2>2
    <2> QED  BY <2>1, <2>3
<1>5. Owes(h, p - N) /\ h \in Seq(FrameOf(S))
    <2>2. h \in Seq(FrameOf(S))
        BY <1>3
    <2> QED  BY <1>3, <1>4, <2>2, OwesPush
<1>6. \A j \in DOMAIN h : h[j].irs \in Seq(T)
    <2>2. \A j \in DOMAIN h : h[j] = g \/ (j \in DOMAIN b /\ h[j] = b[j])
        BY <1>3
    <2> QED  BY <2>2
<1>7. /\ Owes(h \o CallExpression, p - N)
      /\ \A j \in DOMAIN (h \o CallExpression) : (h \o CallExpression)[j].irs \in Seq(T)
    <2>1. Owes(h \o CallExpression, p - N)
        BY <1>4, <1>5, OwesExpression
    <2>2. PICK a \in FrameOf(S), l \in FrameOf(S) :
              a = Loop("Expression") /\ l = Loop("Term")
        BY LoopFrame
    <2>3. a.irs = <<>> /\ l.irs = <<>>
        BY <2>2 DEF Loop, Frame
    <2>4. h \o CallExpression = Append(Append(h, a), l)
        BY <1>5, <2>2, AppendTwo DEF CallExpression
    <2>5. PICK e : e = Append(Append(h, a), l)
        OBVIOUS
    <2>6. \A j \in DOMAIN e : e[j] = l \/ e[j] = a \/ (j \in DOMAIN h /\ e[j] = h[j])
        BY <1>5, <2>5
    <2>7. a.irs \in Seq(T) /\ l.irs \in Seq(T)
        BY <2>3
    <2>8. \A j \in DOMAIN e : e[j].irs \in Seq(T)
        BY <1>6, <2>6, <2>7
    <2> QED  BY <2>1, <2>4, <2>5, <2>8
<1>8. program' \in Seq(T) /\ value' \in Seq(T)
    OBVIOUS
<1>9. CASE frames' = Append(b, g)
    BY <1>1, <1>3, <1>4, <1>5, <1>6, <1>8, <1>9, RankedNext
<1>10. CASE frames' = Append(b, g) \o CallExpression
    <2>1. PICK e : e = h \o CallExpression
        OBVIOUS
    <2>2. frames' = e /\ Owes(e, p - N) /\ \A j \in DOMAIN e : e[j].irs \in Seq(T)
        BY <1>3, <1>7, <1>10, <2>1
    <2> QED  BY <1>1, <1>4, <1>8, <2>2, RankedNext
<1> QED  BY <1>9, <1>10

\* A literal or a variable pays for itself.
LEMMA RankedOperand ==
    ASSUME Base, Base', NEW T, NEW N, NEW rank, Deep(T, N, rank),
           NEW n, n.kids = <<>>, value' = <<n>>, UNCHANGED <<program, frames>>, Eat(1)
    PROVE  Ranked'
<1>1. PICK U, r : Tower(U, N + 1, r) /\ T \subseteq U /\ n \in U
    BY NewNode DEF Deep
<1>2. PICK p \in Nat : p = pos + 1
    BY DeepState
<1>3. pos' = p /\ N + 1 <= p /\ p - (N + 1) = pos - N
    BY <1>2, DeepState DEF Eat
<1>4. Seq(T) \subseteq Seq(U)
    BY <1>1, SeqGrows
<1>5. program' \in Seq(U)
    BY <1>4, DeepState
<1>6. value' \in Seq(U)
    <2>1. <<n>> \in Seq(U)
        BY <1>1
    <2> QED  BY <2>1
<1>7. PICK f : f = frames
    OBVIOUS
<1>8. frames' = f /\ (\A k \in DOMAIN f : f[k].irs \in Seq(U)) /\ Owes(f, p - (N + 1))
    BY <1>3, <1>4, <1>7, DeepState
<1> QED  BY <1>1, <1>3, <1>5, <1>6, <1>8, RankedNext

\* The call that is handed a tree: what it has, and what is left without it.
LEMMA RankedTop ==
    ASSUME Base, NEW S, Holds(S), NEW T, NEW N, NEW rank, Deep(T, N, rank),
           NEW kind, Returning(kind)
    PROVE  /\ frames # <<>> /\ Top.kind = kind /\ Result \in T /\ Top.irs \in Seq(T)
           /\ Cost(Top) \in Nat /\ Cost(Top) <= pos - N
           /\ \E b \in Seq(FrameOf(S)) :
                 /\ b = Below /\ Owes(b, pos - N - Cost(Top))
                 /\ \A k \in DOMAIN b : b[k].irs \in Seq(T)
<1>1. value # <<>> /\ Top.kind = kind
    BY DEF Returning, Top
<1>2. frames # <<>>
    BY <1>1 DEF Holds, Waits
<1>3. Result \in T
    <2>1. value \in Seq(T)
        BY DeepState
    <2> QED  BY <1>1, <2>1 DEF Result
<1>4. PICK n \in Nat : n = Len(frames)
    BY DEF Holds
<1>5. n > 0 /\ n \in DOMAIN frames /\ Top = frames[n]
    BY <1>2, <1>4 DEF Holds, Top
<1>6. Top.irs \in Seq(T)
    BY <1>5, DeepState
<1>7. PICK d \in Nat : d = pos - N
    BY DeepState
<1>8. Cost(Top) <= d /\ Owes(Below, d - Cost(Top))
    <2>1. frames \in Seq(FrameOf(S)) /\ Owes(frames, d)
        BY <1>7, DeepState DEF Holds
    <2> QED  BY <1>2, <2>1, OwesPop DEF Top, Below
<1>9. PICK b : b = Below
    OBVIOUS
<1>10. b \in Seq(FrameOf(S)) /\ \A k \in DOMAIN b : k \in DOMAIN frames /\ b[k] = frames[k]
    BY <1>4, <1>5, <1>9 DEF Holds, Below
<1>11. \A k \in DOMAIN b : b[k].irs \in Seq(T)
    BY <1>10, DeepState
<1> QED  BY <1>1, <1>2, <1>3, <1>6, <1>7, <1>8, <1>9, <1>10, <1>11, CostType

\* A call returns a tree.
LEMMA RankedReturns ==
    ASSUME Base, Base', NEW S, NEW b \in Seq(FrameOf(S)), NEW T, program \in Seq(T),
           \A k \in DOMAIN b : b[k].irs \in Seq(T), UNCHANGED program,
           NEW U, NEW M, NEW r, Tower(U, M, r), T \subseteq U, NEW n \in U,
           frames' = b, value' = <<n>>, M <= pos', Owes(b, pos' - M)
    PROVE  Ranked'
<1>1. PICK p \in Nat : p = pos'
    BY DEF Base
<1>2. Seq(T) \subseteq Seq(U)
    BY SeqGrows
<1>3. program' \in Seq(U) /\ \A k \in DOMAIN b : b[k].irs \in Seq(U)
    BY <1>2
<1>4. value' \in Seq(U)
    <2>1. <<n>> \in Seq(U)
        OBVIOUS
    <2> QED  BY <2>1
<1> QED  BY <1>1, <1>3, <1>4, RankedNext

LEMMA RankedCloseCast ==
    ASSUME Base, Base', NEW S, Holds(S), NEW T, NEW N, NEW rank, Deep(T, N, rank), CloseCast
    PROVE  Ranked'
<1>1. /\ Top.kind = "Cast" /\ Result \in T
      /\ Cost(Top) <= pos - N
    BY RankedTop DEF CloseCast
<1>2. PICK b \in Seq(FrameOf(S)) : /\ b = Below /\ Owes(b, pos - N - Cost(Top))
                                   /\ \A k \in DOMAIN b : b[k].irs \in Seq(T)
    BY RankedTop DEF CloseCast
<1>3. Cost(Top) = 1
    BY <1>1 DEF Cost, LoopOps
<1>4. PICK n : n = CastIR(Top.word, Result)
    OBVIOUS
<1>5. n.kids = <<Result>>
    BY <1>4 DEF CastIR, Node
<1>6. \A k \in DOMAIN n.kids : n.kids[k] \in T
    BY <1>1, <1>5
<1>7. PICK U, r : Tower(U, N + 1, r) /\ T \subseteq U /\ n \in U
    BY <1>6, NewNode DEF Deep
<1>8. frames' = b /\ value' = <<n>> /\ UNCHANGED <<pos, program>>
    BY <1>2, <1>4 DEF CloseCast, Return
<1>9. N + 1 <= pos' /\ pos' - (N + 1) = pos - N - Cost(Top) /\ program \in Seq(T)
    BY <1>1, <1>3, <1>8, DeepState
<1>10. Owes(b, pos' - (N + 1))
    BY <1>2, <1>9
<1> QED  BY <1>2, <1>7, <1>8, <1>9, <1>10, RankedReturns

LEMMA RankedCloseGroup ==
    ASSUME Base, Base', NEW S, Holds(S), NEW T, NEW N, NEW rank, Deep(T, N, rank), CloseGroup
    PROVE  Ranked'
<1>1. Top.kind = "Group" /\ Result \in T
    BY RankedTop DEF CloseGroup
<1>2. PICK b \in Seq(FrameOf(S)) : /\ b = Below /\ Owes(b, pos - N - Cost(Top))
                                   /\ \A k \in DOMAIN b : b[k].irs \in Seq(T)
    BY RankedTop DEF CloseGroup
<1>3. Cost(Top) = 0
    BY <1>1 DEF Cost, LoopOps
<1>4. PICK v \in T : v = Result
    BY <1>1
<1>5. frames' = b /\ value' = <<v>> /\ UNCHANGED program /\ pos' = pos + 1
    BY <1>2, <1>4 DEF CloseGroup, Return, Eat
<1>6. PICK d \in Nat : d = pos - N
    BY DeepState
<1>7. PICK e \in Nat : e = d + 1
    OBVIOUS
<1>8. pos' - N = e /\ N <= pos' /\ program \in Seq(T) /\ Tower(T, N, rank)
    BY <1>5, <1>6, <1>7, DeepState
<1>9. Owes(b, e)
    <2>1. Owes(b, d)
        BY <1>2, <1>3, <1>6
    <2>2. PICK sum \in [0 .. Len(b) -> Nat] :
              sum[Len(b)] <= d /\ \A k \in 1 .. Len(b) : sum[k - 1] + Cost(b[k]) <= sum[k]
        BY <2>1 DEF Owes
    <2>3. sum[Len(b)] <= e
        <3>1. sum[Len(b)] \in Nat
            OBVIOUS
        <3> QED  BY <1>7, <2>2, <3>1
    <2> QED  BY <2>2, <2>3 DEF Owes
<1> QED  BY <1>2, <1>4, <1>5, <1>8, <1>9, RankedReturns

\* What a loop has parsed is in a tower that its cost pays for.
LEMMA RankedJoined ==
    ASSUME NEW T, NEW N, NEW rank, Tower(T, N, rank), Result \in T, Top.irs \in Seq(T),
           Top.kind \in DOMAIN LoopOps
    PROVE  \E U, r : Tower(U, N + Cost(Top), r) /\ T \subseteq U /\ Joined \in U
<1>1. N \in Nat
    BY DEF Tower
<1>2. CASE Top.irs = <<>>
    <2>1. Cost(Top) = 0 /\ Joined = Result
        BY <1>2 DEF Cost, Joined, LoopOps
    <2>2. N + Cost(Top) = N
        BY <1>1, <2>1
    <2> QED  BY <2>1, <2>2
<1>3. CASE Top.irs # <<>>
    <2>1. Cost(Top) = 1 /\ Joined = BinaryIR(Top.word, Top.irs[1], Result)
        BY <1>3 DEF Cost, Joined, LoopOps
    <2>2. PICK n : n = BinaryIR(Top.word, Top.irs[1], Result)
        OBVIOUS
    <2>3. PICK l \in T : l = Top.irs[1]
        BY <1>3
    <2>4. n.kids = <<l, Result>>
        BY <2>2, <2>3 DEF BinaryIR, Node
    <2>5. \A k \in DOMAIN n.kids : n.kids[k] \in T
        BY <2>4
    <2>6. \E U, r : Tower(U, N + 1, r) /\ T \subseteq U /\ n \in U
        BY <2>5, NewNode
    <2> QED  BY <2>1, <2>2, <2>6
<1> QED  BY <1>2, <1>3

LEMMA RankedFoldLoop ==
    ASSUME Base, Base', NEW S, Holds(S), NEW T, NEW N, NEW rank, Deep(T, N, rank),
           NEW kind \in DOMAIN LoopOps, FoldLoop(kind)
    PROVE  Ranked'
<1>1. Returning(kind) /\ UNCHANGED program
    BY DEF FoldLoop
<1>2. Top.kind = kind /\ Result \in T /\ Top.irs \in Seq(T)
    BY <1>1, RankedTop
<1>3. PICK c \in Nat : c = Cost(Top) /\ c <= pos - N
    BY <1>1, RankedTop
<1>4. PICK b \in Seq(FrameOf(S)) : /\ b = Below /\ Owes(b, pos - N - c)
                                   /\ \A k \in DOMAIN b : b[k].irs \in Seq(T)
    BY <1>1, <1>3, RankedTop
<1>5. PICK U, r : Tower(U, N + c, r) /\ T \subseteq U /\ Joined \in U
    BY <1>2, <1>3, RankedJoined DEF Deep
<1>6. PICK n \in U : n = Joined
    BY <1>5
<1>7. /\ pos \in Nat /\ N \in Nat /\ N + c <= pos /\ pos - (N + c) = pos - N - c
      /\ pos - (N + c) \in Nat /\ program \in Seq(T)
    BY <1>3, DeepState
<1>8. Owes(b, pos - (N + c))
    BY <1>4, <1>7
<1>9. CASE ~(HasNext(1) /\ Tok(1).tag \in DOMAIN LoopOps[kind])
    <2>1. frames' = b /\ value' = <<n>> /\ pos' = pos
        BY <1>4, <1>6, <1>9 DEF FoldLoop, Return
    <2>2. N + c <= pos' /\ Owes(b, pos' - (N + c))
        BY <1>7, <1>8, <2>1
    <2> QED  BY <1>1, <1>4, <1>5, <1>7, <2>1, <2>2, RankedReturns
<1>10. CASE HasNext(1) /\ Tok(1).tag \in DOMAIN LoopOps[kind]
    <2>1. PICK word : word = LoopOps[kind][Tok(1).tag]
        OBVIOUS
    <2>2. PICK g : g = Frame(kind, word, 0, <<n>>)
        OBVIOUS
    <2>3. g.kind = kind /\ g.irs = <<n>>
        BY <2>2 DEF Frame
    <2>4. <<n>> # <<>> /\ <<n>> \in Seq(U)
        OBVIOUS
    <2>5. Cost(g) = 1
        BY <2>3, <2>4 DEF Cost, LoopOps
    <2>6. /\ frames' = b \o <<g>> \o (IF kind = "Expression" THEN <<Loop("Term")>> ELSE <<>>)
          /\ value' = <<>> /\ pos' = pos + 1
        BY <1>4, <1>6, <1>10, <2>1, <2>2 DEF FoldLoop, Eat
    <2>7. PICK p \in Nat : p = pos + 1
        BY <1>7
    <2>8. PICK l : l = Loop("Term")
        OBVIOUS
    <2>9. l.kind = "Term" /\ l.irs = <<>> /\ Cost(l) = 0
        BY <2>8 DEF Loop, Frame, Cost, LoopOps
    <2>10. PICK F : F = FrameOf(S) \cup {g, l}
        OBVIOUS
    <2>11. b \in Seq(F) /\ g \in F /\ l \in F
        BY <2>10, SeqGrows
    <2>12. PICK a : a = Append(b, g)
        OBVIOUS
    <2>13. a \in Seq(F) /\ b \o <<g>> = a
        BY <2>11, <2>12
    <2>14. /\ N + c <= p /\ pos - (N + c) + Cost(g) <= p - (N + c)
           /\ p - (N + c) \in Nat /\ p - (N + c) + Cost(l) <= p - (N + c)
        BY <1>7, <2>5, <2>7, <2>9
    <2>15. Owes(a, p - (N + c))
        BY <1>7, <1>8, <2>11, <2>12, <2>14, OwesPush
    <2>16. Owes(Append(a, l), p - (N + c))
        BY <2>11, <2>13, <2>14, <2>15, OwesPush
    <2>17. PICK h : h = frames'
        OBVIOUS
    <2>18. h = a \/ h = Append(a, l)
        <3>1. CASE kind = "Expression"
            <4>1. h = a \o <<l>>
                BY <2>6, <2>8, <2>13, <2>17, <3>1
            <4> QED  BY <2>11, <2>13, <4>1, AppendIsConcat
        <3>2. CASE kind # "Expression"
            <4>1. h = a \o <<>>
                BY <2>6, <2>13, <2>17, <3>2
            <4> QED  BY <2>13, <4>1, ConcatEmptySeq
        <3> QED  BY <3>1, <3>2
    <2>19. Seq(T) \subseteq Seq(U)
        BY <1>5, SeqGrows
    <2>20. \A k \in DOMAIN h : h[k].irs \in Seq(U)
        <3>1. \A k \in DOMAIN b : b[k].irs \in Seq(U)
            BY <1>4, <2>19
        <3>2. \A k \in DOMAIN a : a[k] = g \/ (k \in DOMAIN b /\ a[k] = b[k])
            BY <2>11, <2>12
        <3>3. \A k \in DOMAIN a : a[k].irs \in Seq(U)
            BY <2>3, <2>4, <3>1, <3>2
        <3>4. PICK e : e = Append(a, l)
            OBVIOUS
        <3>5. \A k \in DOMAIN e : e[k] = l \/ (k \in DOMAIN a /\ e[k] = a[k])
            BY <2>11, <2>13, <3>4
        <3>6. l.irs \in Seq(U)
            BY <2>9
        <3>7. \A k \in DOMAIN e : e[k].irs \in Seq(U)
            BY <3>3, <3>5, <3>6
        <3> QED  BY <2>18, <3>3, <3>4, <3>7
    <2>21. Owes(h, p - (N + c))
        BY <2>15, <2>16, <2>18
    <2>22. program' \in Seq(U) /\ value' \in Seq(U) /\ pos' = p /\ frames' = h
        BY <1>1, <1>7, <2>6, <2>7, <2>17, <2>19
    <2> QED  BY <1>5, <2>14, <2>20, <2>21, <2>22, RankedNext
<1> QED  BY <1>9, <1>10

LEMMA RankedEndAssign ==
    ASSUME Base, Base', NEW S, Holds(S), NEW T, NEW N, NEW rank, Deep(T, N, rank), EndAssign
    PROVE  Ranked'
<1>1. /\ Top.kind = "Assign" /\ Result \in T /\ Cost(Top) <= pos - N
    BY RankedTop DEF EndAssign
<1>2. Cost(Top) = 2
    BY <1>1 DEF Cost, LoopOps
<1>3. PICK s : s = StoreIR(Top.ix, Top.word)
    OBVIOUS
<1>4. s.kids = <<>>
    BY <1>3 DEF StoreIR, Node
<1>5. PICK U, r : Tower(U, N + 1, r) /\ T \subseteq U /\ s \in U
    BY <1>4, NewNode DEF Deep
<1>6. PICK n : n = AssignStmtIR(s, Result)
    OBVIOUS
<1>7. n.kids = <<s, Result>>
    BY <1>6 DEF AssignStmtIR, Node
<1>8. \A k \in DOMAIN n.kids : n.kids[k] \in U
    BY <1>1, <1>5, <1>7
<1>9. PICK V, q : Tower(V, N + 1 + 1, q) /\ U \subseteq V /\ n \in V
    BY <1>5, <1>8, NewNode
<1>10. AddStatement(n) /\ pos' = pos
    BY <1>3, <1>6 DEF EndAssign
<1>11. N + 1 + 1 <= pos' /\ program \in Seq(T)
    BY <1>1, <1>2, <1>10, DeepState
<1>12. T \subseteq V
    BY <1>5, <1>9
<1> QED  BY <1>9, <1>10, <1>11, <1>12, RankedAdds

\* The next argument of a call, or its end, which one token pays for.
LEMMA RankedArgument ==
    ASSUME Base, Base', NEW S, NEW T, NEW N, NEW rank, Deep(T, N, rank),
           NEW k \in 0 .. 2, N + 1 <= pos + k,
           NEW name \in Words, NEW args \in Seq(T), args \in Seq(S),
           NextArgument(k, name, args)
    PROVE  Ranked'
<1>1. pos \in Nat /\ N \in Nat /\ program \in Seq(T) /\ Tower(T, N, rank)
    BY DeepState
<1>2. CASE HasNext(k + 1) /\ ~Is(k + 1, "kRParentheses")
    <2>1. /\ pos' = pos + k /\ value' = <<>> /\ UNCHANGED program
          /\ frames' = <<Call(name, args)>> \o CallExpression
        BY <1>2 DEF NextArgument, Eat
    <2>2. PICK g : g = Call(name, args)
        OBVIOUS
    <2>3. g = [kind |-> "Call", word |-> name, ix |-> 0, irs |-> args]
        BY <2>2 DEF Call, Frame
    <2>4. "Call" \in DOMAIN CallersOf
        BY DEF CallersOf
    <2>5. g \in FrameOf(S) /\ g.irs \in Seq(T) /\ g.kind = "Call"
        BY <2>3, <2>4 DEF FrameOf
    <2>6. Cost(g) = 1
        BY <2>5 DEF Cost, LoopOps
    <2>7. PICK b \in Seq(FrameOf(S)) : b = <<>>
        <3>1. <<>> \in Seq(FrameOf(S))
            OBVIOUS
        <3> QED  BY <3>1
    <2>8. Append(b, g) = <<g>> /\ \A j \in DOMAIN b : b[j].irs \in Seq(T)
        BY <2>7
    <2>9. Owes(b, 0)
        BY <2>7, OwesNone
    <2>10. N + 0 + Cost(g) <= pos'
        BY <1>1, <2>1, <2>6
    <2>11. frames' = Append(b, g) \o CallExpression
        BY <2>1, <2>2, <2>8
    <2> QED  BY <1>1, <2>1, <2>5, <2>8, <2>9, <2>10, <2>11, RankedPush
<1>3. CASE ~(HasNext(k + 1) /\ ~Is(k + 1, "kRParentheses"))
    <2>1. AddStatement(FunctionCallIR(name, args)) /\ pos' = pos + (k + 1)
        BY <1>3 DEF NextArgument, Eat
    <2>2. PICK n : n = FunctionCallIR(name, args)
        OBVIOUS
    <2>3. n.kids = args
        BY <2>2 DEF FunctionCallIR, Node
    <2>4. \A j \in DOMAIN n.kids : n.kids[j] \in T
        BY <2>3
    <2>5. PICK U, r : Tower(U, N + 1, r) /\ T \subseteq U /\ n \in U
        BY <1>1, <2>4, NewNode
    <2>6. N + 1 <= pos'
        BY <1>1, <2>1
    <2> QED  BY <1>1, <2>1, <2>2, <2>5, <2>6, RankedAdds
<1> QED  BY <1>2, <1>3

LEMMA RankedEndArgument ==
    ASSUME Base, Base', NEW S, Holds(S), NEW T, NEW N, NEW rank, Deep(T, N, rank), Kept,
           EndArgument
    PROVE  Ranked'
<1>1. /\ Top.kind = "Call" /\ Result \in T /\ Top.irs \in Seq(T)
      /\ Cost(Top) <= pos - N
    BY RankedTop DEF EndArgument
<1>2. Cost(Top) = 1
    BY <1>1 DEF Cost, LoopOps
<1>3. PICK k \in 0 .. 2 : k = IF Is(1, "kComma") THEN 1 ELSE 0
    OBVIOUS
<1>4. N + 1 <= pos + k
    BY <1>1, <1>2, DeepState
<1>5. PICK args : args = Append(Top.irs, Result)
    OBVIOUS
<1>6. args \in Seq(T)
    BY <1>1, <1>5, AppendProperties
<1>7. Top.word \in Words
    BY ReturningState DEF EndArgument, FrameOf
<1>8. args \in Seq(S)
    <2>1. Result \in S /\ Top.irs \in Seq(S)
        BY ReturningState DEF EndArgument, FrameOf
    <2> QED  BY <1>5, <2>1, AppendProperties
<1>9. NextArgument(k, Top.word, args)
    BY <1>3, <1>5 DEF EndArgument
<1> QED  BY <1>4, <1>6, <1>7, <1>8, <1>9, RankedArgument

LEMMA RankedCallFunction ==
    ASSUME Base, Base', NEW T, NEW N, NEW rank, Deep(T, N, rank), CallFunction
    PROVE  Ranked'
<1>1. HasNext(1) /\ NextArgument(2, Tok(1).text, <<>>)
    BY DEF CallFunction, Is
<1>2. pos + 1 \in DOMAIN tokens /\ Tok(1) = tokens[pos + 1]
    BY <1>1, TokenAt DEF Base
<1>3. PICK name \in Words : name = Tok(1).text
    BY <1>2 DEF Words
<1>4. PICK args \in Seq(T) : args = <<>> /\ args \in Seq({})
    <2>1. <<>> \in Seq(T) /\ <<>> \in Seq({})
        OBVIOUS
    <2> QED  BY <2>1
<1>5. PICK k \in 0 .. 2 : k = 2
    OBVIOUS
<1>6. N + 1 <= pos + k /\ NextArgument(k, name, args)
    BY <1>1, <1>3, <1>4, <1>5, DeepState
<1> QED  BY <1>4, <1>6, RankedArgument

LEMMA RankedFresh == Fresh => Ranked
<1> SUFFICES ASSUME Fresh PROVE Ranked
    OBVIOUS
<1>1. [n \in {} |-> 0] \in [{} -> 1 .. 0]
    OBVIOUS
<1>2. PICK rank : rank = [n \in {} |-> 0]
    OBVIOUS
<1>3. Tower({}, 0, rank)
    BY <1>1, <1>2 DEF Tower
<1>4. Trees({})
    BY DEF Trees, Fresh
<1>5. pos - 0 = 0 /\ Owes(<<>>, 0)
    BY OwesNone DEF Fresh
<1>6. Deep({}, 0, rank)
    <2>1. 0 <= pos /\ Owes(frames, pos - 0)
        BY <1>5 DEF Fresh
    <2> QED  BY <1>3, <1>4, <2>1 DEF Deep
<1> QED  BY <1>6 DEF Ranked

\* An assignment begins.
LEMMA RankedAssign ==
    ASSUME Base, Base', NEW S, Holds(S), NEW T, NEW N, NEW rank, Deep(T, N, rank),
           UNCHANGED <<program, value>>, frames = <<>>, NEW i \in Nat, NEW t \in TypeNames,
           Push(<<Assign(i, t)>> \o CallExpression), NEW k \in 2 .. 3, pos' = pos + k
    PROVE  Ranked'
<1>1. PICK g : g = Assign(i, t)
    OBVIOUS
<1>2. /\ g = [kind |-> "Assign", word |-> t, ix |-> i, irs |-> <<>>]
      /\ "Assign" \in DOMAIN CallersOf
    BY <1>1 DEF Assign, Frame, CallersOf
<1>3. g \in FrameOf(S) /\ g.kind = "Assign" /\ g.irs = <<>>
    <2>1. t \in Words
        BY DEF Words
    <2>2. <<>> \in Seq(S)
        OBVIOUS
    <2> QED  BY <1>2, <2>1, <2>2 DEF FrameOf
<1>4. g.irs \in Seq(T)
    BY <1>3
<1>5. Cost(g) = 2
    BY <1>3 DEF Cost, LoopOps
<1>6. PICK b \in Seq(FrameOf(S)) : b = <<>>
    <2>1. <<>> \in Seq(FrameOf(S))
        OBVIOUS
    <2> QED  BY <2>1
<1>7. Append(b, g) = <<g>> /\ \A j \in DOMAIN b : b[j].irs \in Seq(T)
    BY <1>6
<1>8. PICK h : h = <<g>> \o CallExpression
    OBVIOUS
<1>9. frames' = Append(b, g) \o CallExpression
    <2>1. h \in Seq(FrameOf(S))
        <3>1. <<g>> \in Seq(FrameOf(S)) /\ CallExpression \in Seq(FrameOf(S))
            BY <1>3, LoopFrame DEF CallExpression
        <3> QED  BY <1>8, <3>1
    <2>2. frames' = <<>> \o h
        BY <1>1, <1>8 DEF Push
    <2> QED  BY <1>7, <1>8, <2>1, <2>2
<1>10. Owes(b, 0)
    BY <1>6, OwesNone
<1>11. N + 0 + Cost(g) <= pos' /\ program \in Seq(T) /\ Tower(T, N, rank)
    BY <1>5, DeepState
<1>12. value' = <<>>
    BY DEF Holds, Waits
<1> QED  BY <1>3, <1>4, <1>7, <1>9, <1>10, <1>11, <1>12, RankedPush

LEMMA PushOne ==
    ASSUME NEW F, NEW f \in Seq(F), NEW g \in F, NEW c \in Seq(F)
    PROVE  f \o <<g>> = Append(f, g) /\ f \o (<<g>> \o c) = Append(f, g) \o c
<1>1. <<g>> \in Seq(F)
    OBVIOUS
<1>2. f \o (<<g>> \o c) = (f \o <<g>>) \o c
    BY <1>1, ConcatAssociative
<1> QED  BY <1>2, AppendIsConcat

LEMMA FrameTyped ==
    ASSUME NEW S, NEW kind \in DOMAIN CallersOf, NEW word \in Words, NEW irs \in Seq(S)
    PROVE  Frame(kind, word, 0, irs) \in FrameOf(S)
BY DEF Frame, FrameOf

\* The frames of the calls that Primary makes.
LEMMA PrimaryFrame ==
    ASSUME NEW S, NEW word \in Words, NEW kind \in {"Cast", "Group"},
           NEW g, g = Frame(kind, word, 0, <<>>)
    PROVE  g \in FrameOf(S) /\ g.irs = <<>> /\ Cost(g) \in 0 .. 1
<1>1. /\ g = [kind |-> kind, word |-> word, ix |-> 0, irs |-> <<>>]
      /\ kind \in DOMAIN CallersOf
    BY DEF Frame, CallersOf
<1>2. word \in Words
    OBVIOUS
<1>3. <<>> \in Seq(S)
    OBVIOUS
<1>4. g \in FrameOf(S) /\ g.kind = kind /\ g.irs = <<>>
    <2>1. Frame(kind, word, 0, <<>>) \in FrameOf(S)
        BY <1>1, <1>2, <1>3, FrameTyped
    <2>2. g \in FrameOf(S)
        BY <2>1
    <2> QED  BY <1>1, <2>2
<1>5. Cost(g) = 0 \/ Cost(g) = 1
    BY <1>4 DEF Cost, LoopOps
<1>6. ASSUME NEW c, c = 0 \/ c = 1 PROVE c \in 0 .. 1
    BY <1>6
<1>7. Cost(g) \in 0 .. 1
    BY <1>5, <1>6
<1> QED  BY <1>4, <1>7

\* A call that Primary makes.
LEMMA RankedPrimary ==
    ASSUME Base, Base', NEW S, Holds(S), NEW T, NEW N, NEW rank, Deep(T, N, rank),
           UNCHANGED <<program, value>>, AtPrimary,
           NEW word \in Words, NEW kind \in {"Cast", "Group"},
           NEW g, g = Frame(kind, word, 0, <<>>),
           frames' = Append(frames, g) \/ frames' = Append(frames, g) \o CallExpression,
           NEW k \in {1, 3}, pos' = pos + k
    PROVE  Ranked'
<1>1. g \in FrameOf(S) /\ g.irs = <<>> /\ Cost(g) \in 0 .. 1
    BY PrimaryFrame
<1>2. g.irs \in Seq(T)
    <2>1. <<>> \in Seq(T)
        OBVIOUS
    <2> QED  BY <1>1, <2>1
<1>3. PICK b \in Seq(FrameOf(S)) : b = frames
    BY DEF Holds
<1>4. PICK d \in Nat : d = pos - N
    BY DeepState
<1>5. Owes(b, d) /\ (\A j \in DOMAIN b : b[j].irs \in Seq(T)) /\ program \in Seq(T)
    BY <1>3, <1>4, DeepState
<1>6. N + d + Cost(g) <= pos' /\ Tower(T, N, rank)
    <2>1. pos \in Nat /\ N \in Nat /\ N <= pos /\ Tower(T, N, rank)
        BY DeepState
    <2>2. PICK c \in 0 .. 1 : c = Cost(g)
        BY <1>1
    <2>3. N + d + c <= pos'
        BY <1>4, <2>1
    <2> QED  BY <2>1, <2>2, <2>3
<1>7. frames' = Append(b, g) \/ frames' = Append(b, g) \o CallExpression
    BY <1>3
<1>8. value' = <<>>
    BY DEF AtPrimary
<1> QED  BY <1>1, <1>2, <1>5, <1>6, <1>7, <1>8, RankedPush

LEMMA RankedStay ==
    ASSUME Ranked, UNCHANGED <<pos, program, frames, value>>
    PROVE  Ranked'
<1>1. PICK T, N, rank : Deep(T, N, rank)
    BY DEF Ranked
<1>2. Deep(T, N, rank)'
    BY <1>1 DEF Deep, Trees, Tower, Owes, Cost
<1> QED  BY <1>2 DEF Ranked

LEMMA RankedStep == Inv /\ Ranked /\ [Next]_vars => Ranked'
<1> SUFFICES ASSUME Inv, Ranked, [Next]_vars PROVE Ranked'
    OBVIOUS
<1>1. PICK S : Holds(S)
    BY DEF Inv
<1>2. PICK T, N, rank : Deep(T, N, rank)
    BY DEF Ranked
<1>3. CASE UNCHANGED vars
    BY <1>3, RankedStay DEF vars
<1>4. ASSUME Next PROVE Base /\ Base' /\ Kept
    BY <1>4, BaseStep DEF Inv
<1>5. CASE BadStatement \/ BadPrimary \/ BadReturn \/ Finish
    BY <1>5, StopMoves, RankedStay DEF Inv
<1> USE DEF Inv
<1>6. ASSUME Next, Define PROVE Ranked'
    <2>1. PICK n : n = DefinitionIR(NextIx, Tok(1).text)
        OBVIOUS
    <2>2. n.kids = <<>> /\ AddStatement(n) /\ pos' = pos + 3 /\ 3 \in 1 .. 3
        BY <1>6, <2>1 DEF Define, Eat, DefinitionIR, Node
    <2> QED  BY <1>2, <1>4, <1>6, <2>2, RankedLeaf
<1>7. ASSUME Next, Semicolon PROVE Ranked'
    <2>1. NopIR.kids = <<>> /\ AddStatement(NopIR) /\ pos' = pos + 1 /\ 1 \in 1 .. 3
        BY <1>7 DEF Semicolon, Eat, NopIR, Node
    <2> QED  BY <1>2, <1>4, <1>7, <2>1, RankedLeaf
<1>8. ASSUME Next, Initialise PROVE Ranked'
    <2>1. PICK i \in Nat, t \in TypeNames : i = NextIx /\ t = Tok(1).text
        <3>1. Tok(1).text \in TypeNames
            BY <1>8 DEF Initialise, Declares, IsType
        <3>2. NextIx \in Nat
            BY FS_CardinalityType DEF Base, NextIx
        <3> QED  BY <3>1, <3>2
    <2>2. /\ Push(<<Assign(i, t)>> \o CallExpression) /\ UNCHANGED <<program, value>>
          /\ frames = <<>> /\ pos' = pos + 3 /\ 3 \in 2 .. 3
        BY <1>8, <2>1 DEF Initialise, Declares, AtStatement, Eat
    <2> QED  BY <1>1, <1>2, <1>4, <1>8, <2>2, RankedAssign
<1>9. ASSUME Next, Reassign PROVE Ranked'
    <2>1. PICK m \in DOMAIN table : m = Tok(1).text
        BY <1>9 DEF Reassign
    <2>2. table[m] \in [ix : Nat, type : TypeNames]
        BY DEF Base
    <2>3. PICK i \in Nat, t \in TypeNames : i = table[m].ix /\ t = table[m].type
        BY <2>2
    <2>4. /\ Push(<<Assign(i, t)>> \o CallExpression) /\ UNCHANGED <<program, value>>
          /\ frames = <<>> /\ pos' = pos + 2 /\ 2 \in 2 .. 3
        BY <1>9, <2>1, <2>3 DEF Reassign, AtStatement, Eat
    <2> QED  BY <1>1, <1>2, <1>4, <1>9, <2>4, RankedAssign
<1>10. ASSUME Next, Literal PROVE Ranked'
    <2>1. PICK n : n = Constant(LiteralTags[Tok(1).tag], Tok(1).bits)
        OBVIOUS
    <2>2. n.kids = <<>>
        BY <2>1 DEF Constant, Node
    <2>3. value' = <<n>> /\ UNCHANGED <<program, frames>> /\ Eat(1)
        BY <1>10, <2>1 DEF Literal
    <2> QED  BY <1>2, <1>4, <1>10, <2>2, <2>3, RankedOperand
<1>11. ASSUME Next, Variable PROVE Ranked'
    <2>1. PICK n : n = VariableIR(table[Tok(1).text].ix, table[Tok(1).text].type)
        OBVIOUS
    <2>2. n.kids = <<>>
        BY <2>1 DEF VariableIR, Node
    <2>3. value' = <<n>> /\ UNCHANGED <<program, frames>> /\ Eat(1)
        BY <1>11, <2>1 DEF Variable
    <2> QED  BY <1>2, <1>4, <1>11, <2>2, <2>3, RankedOperand
<1>12. ASSUME Next, OpenCast PROVE Ranked'
    <2>1. PICK word \in Words : word = Tok(2).text
        BY <1>12 DEF OpenCast, OpensCast, IsType, Words
    <2>2. PICK kind, g : kind \in {"Cast", "Group"} /\ kind = "Cast" /\ g = Frame(kind, word, 0, <<>>)
        OBVIOUS
    <2>3. /\ AtPrimary /\ g = Cast(word)
          /\ UNCHANGED <<program, value>> /\ pos' = pos + 3 /\ 3 \in {1, 3}
        BY <1>12, <2>1, <2>2 DEF OpenCast, Eat, Cast
    <2>4. frames' = Append(frames, g)
        <3>1. frames' = frames \o <<g>>
            BY <1>12, <2>1, <2>3 DEF OpenCast, Push
        <3>2. g \in FrameOf(S) /\ frames \in Seq(FrameOf(S))
            BY <1>1, <2>2, PrimaryFrame DEF Holds
        <3> QED  BY <3>1, <3>2, AppendIsConcat
    <2> QED  BY <1>1, <1>2, <1>4, <1>12, <2>2, <2>3, <2>4, RankedPrimary
<1>13. ASSUME Next, OpenGroup PROVE Ranked'
    <2>1. PICK word \in Words : word = ""
        BY DEF Words
    <2>2. PICK kind, g : kind \in {"Cast", "Group"} /\ kind = "Group" /\ g = Frame(kind, word, 0, <<>>)
        OBVIOUS
    <2>3. /\ AtPrimary /\ g = Group
          /\ UNCHANGED <<program, value>> /\ pos' = pos + 1 /\ 1 \in {1, 3}
        BY <1>13, <2>1, <2>2 DEF OpenGroup, Eat, Group
    <2>4. frames' = Append(frames, g) \o CallExpression
        <3>1. frames' = frames \o (<<g>> \o CallExpression)
            BY <1>13, <2>3 DEF OpenGroup, Push
        <3>2. g \in FrameOf(S) /\ frames \in Seq(FrameOf(S))
            BY <1>1, <2>2, PrimaryFrame DEF Holds
        <3>3. CallExpression \in Seq(FrameOf(S))
            <4>1. Loop("Expression") \in FrameOf(S) /\ Loop("Term") \in FrameOf(S)
                BY LoopFrame
            <4> QED  BY <4>1 DEF CallExpression
        <3>4. PICK h, c : h = frames /\ c = CallExpression
            OBVIOUS
        <3>5. h \o (<<g>> \o c) = Append(h, g) \o c
            BY <3>2, <3>3, <3>4, PushOne
        <3> QED  BY <3>1, <3>4, <3>5
    <2> QED  BY <1>1, <1>2, <1>4, <1>13, <2>2, <2>3, <2>4, RankedPrimary
<1>14. ASSUME Next, NEW kind \in DOMAIN LoopOps, FoldLoop(kind) PROVE Ranked'
    BY <1>1, <1>2, <1>4, <1>14, RankedFoldLoop
<1>15. ASSUME Next, CloseCast PROVE Ranked'
    BY <1>1, <1>2, <1>4, <1>15, RankedCloseCast
<1>16. ASSUME Next, CloseGroup PROVE Ranked'
    BY <1>1, <1>2, <1>4, <1>16, RankedCloseGroup
<1>17. ASSUME Next, EndAssign PROVE Ranked'
    BY <1>1, <1>2, <1>4, <1>17, RankedEndAssign
<1>18. ASSUME Next, EndArgument PROVE Ranked'
    BY <1>1, <1>2, <1>4, <1>18, RankedEndArgument
<1>19. ASSUME Next, CallFunction PROVE Ranked'
    BY <1>1, <1>2, <1>4, <1>19, RankedCallFunction
<1> QED
    BY <1>3, <1>5, <1>6, <1>7, <1>8, <1>9, <1>10, <1>11, <1>12, <1>13, <1>14, <1>15,
       <1>16, <1>17, <1>18, <1>19 DEF Next

THEOREM RankedAlways == Spec => []Ranked
<1>1. Init => Ranked
    BY InitFresh, RankedFresh
<1> QED  BY <1>1, RankedStep, InvAlways, PTL DEF Spec

\* A level down is a rank down.
LEMMA LevelsRanked ==
    ASSUME NEW T, NEW N, NEW rank, Tower(T, N, rank), NEW roots \in SUBSET T, NEW depth \in Nat
    PROVE  \A d \in 0 .. depth : \A n \in Levels(roots, depth)[d] : n \in T /\ rank[n] + d <= N
<1>1. PICK f : f = Levels(roots, depth)
    OBVIOUS
<1>2. \A d \in 0 .. depth : f[d] = IF d = 0 THEN roots ELSE Kids(f[d - 1])
    BY <1>1, LevelsExist DEF IsLevels
<1>3. N \in Nat /\ \A n \in T : rank[n] \in 1 .. N
    BY DEF Tower
<1> DEFINE Low(d) == \A n \in f[d] : n \in T /\ rank[n] + d <= N
           High == {d \in 0 .. depth : ~Low(d)}
<1>4. High = {}
    <2> SUFFICES ASSUME High # {} PROVE FALSE
        OBVIOUS
    <2>1. High \in SUBSET Nat
        OBVIOUS
    <2>2. PICK d \in High : \A e \in High : d <= e
        BY <2>1, LeastElement
    <2>3. d # 0
        <3> SUFFICES ASSUME d = 0 PROVE Low(d)
            BY <2>2
        <3>1. ASSUME NEW n \in f[d] PROVE n \in T /\ rank[n] + d <= N
            <4>1. n \in T
                BY <1>2, <2>2, <3>1
            <4>2. rank[n] \in 1 .. N
                BY <1>3, <4>1
            <4> QED  BY <1>3, <4>1, <4>2
        <3> QED  BY <3>1
    <2>4. d - 1 \in 0 .. depth /\ d - 1 \notin High
        BY <2>2, <2>3
    <2>5. Low(d - 1)
        BY <2>4
    <2>6. ASSUME NEW n \in f[d] PROVE n \in T /\ rank[n] + d <= N
        <3>1. PICK m \in f[d - 1] : \E k \in DOMAIN m.kids : n = m.kids[k]
            <4>1. f[d] = Kids(f[d - 1])
                BY <1>2, <2>2, <2>3
            <4>2. n \in Kids(f[d - 1])
                BY <2>6, <4>1
            <4> QED  BY <4>2 DEF Kids
        <3>2. m \in T /\ rank[m] + (d - 1) <= N
            BY <2>5, <3>1
        <3>3. n \in T /\ rank[n] < rank[m]
            BY <3>1, <3>2 DEF Tower
        <3>4. rank[n] \in Nat /\ rank[m] \in Nat
            BY <1>3, <3>2, <3>3
        <3>5. d \in Nat
            BY <2>1, <2>2
        <3> QED  BY <1>3, <3>2, <3>3, <3>4, <3>5
    <2> QED  BY <2>2, <2>6
<1> QED  BY <1>1, <1>4

\* Trees of which no chain of nodes is longer than the levels counted: their
\* nodes are all counted.
LEMMA NodesClosed ==
    ASSUME NEW T, NEW N, NEW rank, Tower(T, N, rank), NEW irs \in Seq(T),
           NEW depth \in Nat, N <= depth + 1
    PROVE  /\ \A k \in DOMAIN irs : irs[k] \in Nodes(irs, depth)
           /\ \A n \in Nodes(irs, depth) :
                 n \in T /\ \A k \in DOMAIN n.kids : n.kids[k] \in Nodes(irs, depth)
<1>1. PICK roots \in SUBSET T : roots = {irs[k] : k \in DOMAIN irs}
    <2>1. {irs[k] : k \in DOMAIN irs} \in SUBSET T
        OBVIOUS
    <2> QED  BY <2>1
<1>2. PICK f : f = Levels(roots, depth)
    OBVIOUS
<1>3. \A d \in 0 .. depth : f[d] = IF d = 0 THEN roots ELSE Kids(f[d - 1])
    BY <1>2, LevelsExist DEF IsLevels
<1>4. \A d \in 0 .. depth : \A n \in f[d] : n \in T /\ rank[n] + d <= N
    BY <1>2, LevelsRanked
<1>5. Nodes(irs, depth) = UNION {f[d] : d \in 0 .. depth}
    BY <1>1, <1>2 DEF Nodes
<1>6. ASSUME NEW n \in Nodes(irs, depth), NEW k \in DOMAIN n.kids
      PROVE  n.kids[k] \in Nodes(irs, depth)
    <2>1. PICK d \in 0 .. depth : n \in f[d]
        BY <1>5
    <2>2. n \in T /\ rank[n] + d <= N /\ n.kids[k] \in T /\ rank[n.kids[k]] < rank[n]
        BY <1>4, <1>6, <2>1 DEF Tower
    <2>3. rank[n] \in 1 .. N /\ rank[n.kids[k]] \in 1 .. N /\ N \in Nat
        BY <2>2 DEF Tower
    <2>4. d + 1 \in 0 .. depth /\ d + 1 # 0 /\ d + 1 - 1 = d
        BY <2>2, <2>3
    <2>5. f[d + 1] = Kids(f[d])
        BY <1>3, <2>4
    <2>6. n.kids[k] \in f[d + 1]
        BY <1>6, <2>1, <2>5 DEF Kids
    <2> QED  BY <1>5, <2>4, <2>6
<1>7. 0 \in 0 .. depth /\ f[0] = roots
    BY <1>3
<1> QED  BY <1>1, <1>4, <1>5, <1>6, <1>7

\* The nodes of every tree of the file, finished or not, are counted to the
\* last leaf: no tree is deeper than the file is long.
AllCounted(irs) ==
    \A n \in NodesOf(irs) : \A k \in DOMAIN n.kids : n.kids[k] \in NodesOf(irs)

LEMMA CountsAll == Inv /\ Ranked => AllCounted(program \o value) /\ AllCounted(program)
<1> SUFFICES ASSUME Inv, Ranked PROVE AllCounted(program \o value) /\ AllCounted(program)
    OBVIOUS
<1>1. PICK T, N, rank : Deep(T, N, rank)
    BY DEF Ranked
<1>2. Base
    BY DEF Inv
<1>3. Tower(T, N, rank) /\ program \in Seq(T) /\ value \in Seq(T) /\ N \in Nat /\ N <= pos
    BY <1>1, <1>2, DeepState
<1>4. Len(tokens) \in Nat /\ N <= Len(tokens) + 1
    BY <1>2, <1>3 DEF Base
<1>5. PICK irs \in Seq(T) : irs = program \o value
    BY <1>3, ConcatProperties
<1> QED  BY <1>3, <1>4, <1>5, NodesClosed DEF AllCounted, NodesOf

\* No token makes more than one node: every tree that is parsed has at most
\* as many levels as the file has tokens, so what the properties above say of
\* NodesOf they say of every node.
THEOREM CountsAllAlways == Spec => [](AllCounted(program \o value) /\ AllCounted(program))
<1> QED  BY CountsAll, InvAlways, RankedAlways, PTL

-------------------------------------------------------------------------------
(* Verify and the two gates of Compile. *)

\* The nodes of statements of T are of T.
LEMMA StatementsWithin ==
    ASSUME Base, NEW T, Sound(T), NEW irs \in Seq(T)
    PROVE  NodesOf(irs) \subseteq T
<1>1. {irs[k] : k \in DOMAIN irs} \in SUBSET T
    OBVIOUS
<1>2. Len(tokens) \in Nat
    BY DEF Base
<1>3. \A n \in T : \A k \in DOMAIN n.kids : n.kids[k] \in T
    BY KidsWithin DEF Sound
<1>4. \A d \in 0 .. Len(tokens) :
          Levels({irs[k] : k \in DOMAIN irs}, Len(tokens))[d] \subseteq T
    BY <1>1, <1>2, <1>3, LevelsWithin
<1> QED  BY <1>4 DEF NodesOf, Nodes

\* The operation of a binary node is one of its type.
LEMMA BuiltOperations ==
    ASSUME NEW T, NEW n, Built(n, T), n.ir = "Binary"
    PROVE  n.type \in Type /\ \E c \in {"add", "sub", "mul", "div"} : n.op = BinaryOf[n.type][c]
<1>1. PICK c \in {"add", "sub", "mul", "div"}, l \in T, r \in T :
          l.type \in Type /\ n = BinaryIR(c, l, r)
    BY DEF Built, VariableIR, StoreIR, Constant, CastIR, AssignStmtIR, DefinitionIR, NopIR,
       FunctionCallIR, Node
<1> QED  BY <1>1 DEF BinaryIR, Node

\* A program that Verify lets through can be compiled, whatever it declares,
\* but for a conversion to the same type and a call of another function:
\* Compile, which never calls Verify, does not stop it at a float operation.
THEOREM VerifiedCompilesAlways == Spec => []VerifiedCompiles
<1>1. Inv => VerifiedCompiles
    <2> SUFFICES ASSUME Inv, NEW n \in NodesOf(program), VerifyAccepts(n),
                        n.ir = "Call" => n.data = <<"print">>, n.ir = "Cast" => n.op # "Nop"
                 PROVE  DumpAccepts(n) /\ EmitAccepts(n)
        BY DEF VerifiedCompiles, Compiles, NodesOf
    <2>1. PICK T : Sound(T) /\ Holds(T)
        BY DEF Inv
    <2>2. Built(n, T)
        BY <2>1, StatementsWithin DEF Inv, Holds, Sound
    <2>3. n.ir = "Call" => n.kids # <<>>
        BY DEF VerifyAccepts
    <2>4. ASSUME n.ir = "Binary" PROVE n.op \notin {"FSub", "FMul", "FDiv"}
        <3>1. n.type \in {"int", "double"}
            BY <2>4 DEF VerifyAccepts
        <3>2. PICK c \in {"add", "sub", "mul", "div"} : n.op = BinaryOf[n.type][c]
            BY <2>2, <2>4, BuiltOperations
        <3> QED  BY <3>1, <3>2 DEF BinaryOf
    <2> QED  BY <2>3, <2>4 DEF DumpAccepts, EmitAccepts, VerifyAccepts
<1> QED  BY <1>1, InvAlways, PTL
===============================================================================
