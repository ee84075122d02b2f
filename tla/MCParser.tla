------------------------------- MODULE MCParser -------------------------------
(***************************************************************************)
(* Token sequences for the parser: every short one, programs of a few      *)
(* statements, and these with a token missing; and what their trees must   *)
(* be, stated over whole trees.                                            *)
(***************************************************************************)
EXTENDS Parser, CodeImages, SequencesExt

CONSTANTS MaxLen, MaxStatements

W(text)   == [tag |-> "kString", text |-> text, bits |-> <<>>]
P(tag)    == [tag |-> tag, text |-> "", bits |-> <<>>]
LiteralOf(t)   == [tag |-> CHOOSE g \in DOMAIN LiteralTags : LiteralTags[g] = t,
              text |-> "", bits |-> Bits[t]]
IntLit    == LiteralOf("int")
DblLit    == LiteralOf("double")
LongLit   == LiteralOf("long")
Semi      == P("kSemicolon")
Open      == P("kLParentheses")
Close     == P("kRParentheses")
CastTo(t) == <<Open, W(t), Close>>
PrintCall(e) == <<W("print"), Open>> \o e \o <<Close>>
Set(n, e) == <<W(n), P("kEq")>> \o e \o <<Semi>>

Vocabulary ==
    {W("int"), W("void"), W("a"), W("print"), IntLit, DblLit, Semi,
     P("kEq"), P("kPlus"), P("kMul"), P("kComma"), Open, Close, P("kLBrace")}

A == <<W("a")>>
B == <<W("b")>>
One == <<IntLit>>
Two == <<DblLit>>

Statements ==
    {<<W("int"), W("a"), Semi>>, <<W("int")>> \o Set("a", One),
     <<W("double")>> \o Set("b", Two \o <<P("kMul")>> \o Two),
     <<W("float")>> \o Set("b", CastTo("float") \o One),
     <<W("long")>> \o Set("b", <<LongLit>>), <<W("void"), W("b"), Semi>>,
     <<W("int"), W("int"), Semi>>, Set("int", One), <<Semi>>,
     Set("b", CastTo("double") \o A), Set("b", CastTo("void") \o A),
     Set("a", CastTo("int") \o B \o <<P("kMinus")>> \o A),
     Set("b", B \o <<P("kPlus")>> \o B),
     Set("b", B \o <<P("kDiv")>> \o CastTo("double") \o Two),
     PrintCall(A), PrintCall(B), PrintCall(A \o <<P("kComma")>> \o One), PrintCall(<<>>),
     <<W("foo"), Open>> \o One \o <<Close>>,
     PrintCall(<<Open>> \o A \o <<P("kMinus")>> \o One \o <<Close>>),
     PrintCall(<<Open>> \o A \o <<P("kMinus")>> \o One \o <<Semi>>)}

\* Every pair of operators between three operands, to tell precedence and
\* association.
Ops == {<<P(o)>> : o \in {"kPlus", "kMinus", "kMul", "kDiv"}}
Chains3 == {<<W("int")>> \o Set("a", One) \o PrintCall(One \o o \o A \o q \o One) : o, q \in Ops}

Programs == {FlattenSeq(s) : s \in UNION {[1 .. n -> Statements] : n \in 1 .. MaxStatements}}

Short == UNION {[1 .. n -> Vocabulary] : n \in 0 .. MaxLen}
Broken == UNION {{RemoveAt(p, k) : k \in DOMAIN p} :
                   p \in Chains3 \cup {FlattenSeq(s) : s \in [1 .. 2 -> Statements]}}

MCInputs == Short \cup Programs \cup Chains3 \cup Broken

-------------------------------------------------------------------------------
Parsed == status = "done"

\* The tokens a tree stands for, with the names of the table.
NameOf(ix) == CHOOSE n \in DOMAIN table : table[n].ix = ix
TokenOf == [add |-> "kPlus", sub |-> "kMinus", mul |-> "kMul", div |-> "kDiv"]
RECURSIVE Unparse(_)
UnparseAll(irs) == FlattenSeq([k \in DOMAIN irs |-> Unparse(irs[k])])
Unparse(n) ==
    CASE n.ir = "Binary" ->
            LET c == CHOOSE c \in DOMAIN TokenOf : BinaryOf[n.type][c] = n.op
            IN  Unparse(n.kids[1]) \o <<P(TokenOf[c])>> \o Unparse(n.kids[2])
      [] n.ir = "Constant" ->
            <<[LiteralOf(n.type) EXCEPT !.bits = n.data]>>
      [] n.ir \in {"Variable", "Store"} -> <<W(NameOf(n.data[1]))>>
      [] n.ir = "Cast"       -> CastTo(n.type) \o Unparse(n.kids[1])
      [] n.ir = "Assign"     -> Unparse(n.kids[1]) \o <<P("kEq")>> \o Unparse(n.kids[2])
      [] n.ir = "Definition" -> <<W(n.type), W(NameOf(n.data[1])), Semi>>
      [] n.ir = "Nop"        -> <<Semi>>
      [] n.ir = "Call"       -> <<W(n.data[1]), Open>> \o UnparseAll(n.kids) \o <<Close>>

\* A tree does not keep commas, nor the type of a definition with a value.
Kept == {k \in DOMAIN tokens :
           /\ tokens[k].tag # "kComma"
           /\ ~(DeclaredAt(k) /\ k + 2 <= Len(tokens) /\ tokens[k + 2].tag = "kEq")}
KeptTokens == [n \in 1 .. Cardinality(Kept) |->
                 tokens[CHOOSE k \in Kept : Cardinality({j \in Kept : j <= k}) = n]]

\* The tree of a program is its text: read back in order it gives the tokens,
\* none lost, swapped or made up.
ReadsSource ==
    (Parsed /\ DeclaredOnce /\ Ungrouped) =>
        UnparseAll(program) = KeptTokens \o (IF pos > Len(tokens) THEN <<Close>> ELSE <<>>)

-------------------------------------------------------------------------------
Locals == [k \in 1 .. Cardinality(DOMAIN table) |-> table[NameOf(k - 1)].type]

Interpreter == INSTANCE ByteCodeInterpreter WITH
    Images <- {}, StackSlots <- MaxDepth, img <- <<>>, pc <- 0, top <- 0,
    stack <- <<>>, locals <- <<>>, out <- <<>>, status <- ""

\* Compiled code has a typing certificate, so what is proved of the
\* interpreter for code that has one holds for every program that compiles,
\* declares a variable and none twice, has none of type void, and does no
\* long arithmetic.
CompiledWellTyped ==
    (/\ Parsed /\ Compiles(program, Len(tokens))
     /\ DeclaredOnce /\ table # <<>>
     /\ \A n \in DOMAIN table : table[n].type # "void"
     /\ \A n \in NodesOf(program) : n.ir = "Binary" => n.type # "long")
        => Interpreter!WellTyped(RawImage(EmitProgram(program, Len(tokens)), Locals))
===============================================================================
