------------------------------ MODULE CodeImages ------------------------------
(***************************************************************************)
(* Code images for model checking: programs as the parser builds them,     *)
(* compiled by Emit, with the typing certificate a scan of their code      *)
(* finds.  Nothing here is part of the program.                            *)
(***************************************************************************)
EXTENDS IRTraversal, TLC, FiniteSets

CONSTANT MaxDepth  \* the deepest stack the scan accepts

TreeDepth == MaxDepth + 3   \* no tree below is deeper

\* One variable of each type; the program declares them in this order.
MCTypes == <<"int", "double", "long", "float">>
MCVars == [x \in 0 .. 3 |-> MCTypes[x + 1]]
IxOf(t) == CHOOSE x \in 0 .. 3 : MCVars[x] = t

Bits == [int |-> <<2, 0>>, float |-> <<0, 16384>>,
         long |-> <<2, 0, 0, 0>>, double |-> <<0, 0, 0, 16384>>]

Leaves(t) == {VariableIR(IxOf(t), t), Constant(t, Bits[t])}
Casts(t) == UNION {{CastIR(t, e) : e \in Leaves(f)} : f \in Type \ {t}}
Pairs(cs, ls, rs) == {BinaryIR(c, l, r) : c \in cs, l \in ls, r \in rs}
All4 == {"add", "sub", "mul", "div"}

\* Chains associate to the left; a product may be either operand of a sum.
Chains(t) ==
    LET v == VariableIR(IxOf(t), t)
        k == Constant(t, Bits[t])
    IN  Pairs({"add", "sub"}, Pairs({"mul", "add"}, {v}, {k}), {v, k})
        \cup Pairs({"sub"}, {v, k}, Pairs({"mul", "div"}, {v}, {k}))
        \cup Pairs({"mul", "div"}, Pairs({"mul"}, {v}, {k}), {k})
        \cup Pairs({"sub"}, {CastIR(t, e) : e \in Leaves(CHOOSE f \in Type : f # t)}, {v})

Exprs(t) == Leaves(t) \cup Casts(t) \cup Pairs(All4, Leaves(t), Leaves(t)) \cup Chains(t)

Declarations == [x \in 1 .. 4 |-> DefinitionIR(x - 1, MCVars[x - 1])]
AssignTo(t, e) == AssignStmtIR(StoreIR(IxOf(t), t), e)
PrintStmt(e) == FunctionCallIR("print", <<e>>)
Var(t) == VariableIR(IxOf(t), t)

\* Every expression printed and assigned; variables read after, before and
\* between assignments of themselves and of each other.
Bodies ==
    UNION {{<<AssignTo(t, e), PrintStmt(Var(t))>> : e \in Exprs(t)} : t \in Type}
    \cup UNION {{<<PrintStmt(e)>> : e \in Exprs(t)} : t \in Type}
    \cup UNION {{<<AssignTo(t, Constant(t, Bits[t])), NopIR,
                   AssignTo(u, CastIR(u, Var(t))),
                   AssignTo(t, BinaryIR("sub", CastIR(t, Var(u)), Var(t))),
                   PrintStmt(Var(u)), PrintStmt(Var(t))>>
                 : u \in Type \ {t}} : t \in Type}

-------------------------------------------------------------------------------
\* What the instruction op does to a stack of types: the type it takes, how
\* many, what it leaves, its length; a type of "" when it is not a case.
Rule(op, ix, ltypes) ==
    LET arith(t) == IF t = "int" THEN {"IAdd", "ISub", "IMul", "IDiv", "IMod"}
                    ELSE IF t = "double" THEN {"DAdd", "DSub", "DMul", "DDiv"}
                    ELSE IF t = "float" THEN {"FAdd", "FSub", "FDiv"} ELSE {}
        r(t, n, out, len) == [t |-> t, n |-> n, r |-> out, len |-> len]
    IN  CASE \E t \in Type : op \in arith(t) ->
               LET t == CHOOSE t \in Type : op \in arith(t) IN r(t, 2, <<t>>, 1)
          [] op = "FMul" -> r("float", 3, <<"float">>, 2)
          [] \E t \in Type : op = ConstOf[t] ->
               LET t == CHOOSE t \in Type : op = ConstOf[t] IN r(t, 0, <<t>>, 1 + Width[t])
          [] \E t \in Type : op = LoadOf[t] /\ ix \in DOMAIN ltypes /\ ltypes[ix] = t ->
               LET t == ltypes[ix] IN r(t, 0, <<t>>, 2)
          [] \E t \in Type : op = StoreOf[t] /\ ix \in DOMAIN ltypes /\ ltypes[ix] = t ->
               LET t == ltypes[ix] IN r(t, 1, <<>>, 2)
          [] \E t \in Type : op = PrintOf[t] ->
               LET t == CHOOSE t \in Type : op = PrintOf[t] IN r(t, 1, <<>>, 2)
          [] \E f \in Type : \E t \in Type \ {f} : op = CastOf[f][t] ->
               LET ft == CHOOSE ft \in Type \X Type :
                             ft[1] # ft[2] /\ op = CastOf[ft[1]][ft[2]]
               IN  r(ft[1], 1, <<ft[2]>>, 1)
          [] OTHER -> r("", 0, <<>>, 0)

\* The certificate: the types on the stack at every offset reached from p
\* with types s there; the scan stops where no rule applies.
RECURSIVE Certify(_, _, _, _)
Certify(code, ltypes, p, s) ==
    LET rule == Rule(Decode(code[p + 1]),
                     IF p + 2 <= Len(code) THEN code[p + 2] ELSE -1, ltypes)
        kept == Len(s) - rule.n
        after == SubSeq(s, 1, kept) \o rule.r
    IN  IF p >= Len(code) THEN <<>>
        ELSE (p :> s) @@
             (IF /\ rule.t # "" /\ kept >= 0
                 /\ \A k \in (kept + 1) .. Len(s) : s[k] = rule.t
                 /\ Len(after) <= MaxDepth /\ p + rule.len < Len(code)
              THEN Certify(code, ltypes, p + rule.len, after) ELSE <<>>)

\* How the template interpreter's x3 moves: a store does not lower it, and a
\* print lowers it by one slot, then by another for its argument count.
RECURSIVE Heights(_, _, _)
Heights(code, p, h) ==
    LET op == Decode(code[p + 1])
        move(len, delta) == Heights(code, p + len, h + delta)
    IN  IF p >= Len(code) THEN <<>>
        ELSE (p :> h) @@
             CASE op \in {"IAdd", "ISub", "IMul", "IDiv"} -> move(1, -1)
               [] op = "IConst" -> move(3, 1)
               [] op = "LoadI"  -> move(2, 1)
               [] op = "StoreI" -> move(2, 0)
               [] op = "PrintI" -> move(2, -2)
               [] OTHER -> <<>>

\* A statement that has an effect when it runs; ends are where its code ends.
Effective(irs) == SelectSeq(irs, LAMBDA s : s.ir \in {"Assign", "Call"})
RECURSIVE Ends(_, _)
Ends(irs, p) ==
    IF irs = <<>> THEN <<>>
    ELSE LET q == p + Len(EmitAll(<<Head(irs)>>, TreeDepth)) IN <<q>> \o Ends(Tail(irs), q)

RawImage(code, ltypes) ==
    [code |-> code, vars |-> Len(ltypes),
     ltypes |-> [x \in 0 .. (Len(ltypes) - 1) |-> ltypes[x + 1]],
     typing |-> Certify(code, [x \in 0 .. (Len(ltypes) - 1) |-> ltypes[x + 1]], 0, <<>>),
     height |-> Heights(code, 0, 0),
     stmts |-> <<>>, ends |-> <<>>]

ImageOf(irs, ltypes) ==
    [RawImage(EmitProgram(irs, TreeDepth), ltypes) EXCEPT
        !.stmts = Effective(irs), !.ends = Ends(Effective(irs), 0)]

\* The code alone: of what it should do nothing is said.
Unsourced(i) == [i EXCEPT !.stmts = <<>>, !.ends = <<>>]
Sourced(i) == i.stmts # <<>>
===============================================================================
