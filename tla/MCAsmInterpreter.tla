---------------------------- MODULE MCAsmInterpreter ----------------------------
(***************************************************************************)
(* Instances of AsmInterpreter over compiled programs.                     *)
(***************************************************************************)
EXTENDS AsmInterpreter, CodeImages

I == VariableIR(0, "int")
J == VariableIR(1, "int")
K == Constant("int", <<2, 0>>)
Set(e) == AssignStmtIR(StoreIR(0, "int"), e)
SetJ(e) == AssignStmtIR(StoreIR(1, "int"), e)

IntExprs ==
    {I, K}
    \cup Pairs(All4, {I, K}, {I, J})
    \cup Pairs({"add", "sub"}, Pairs({"mul", "sub"}, {I}, {K}), {J, K})
    \cup Pairs({"sub"}, {K}, Pairs({"mul", "div"}, {I}, {J}))

\* Programs over two int variables: stores and prints in every order, never
\* more prints than stores, and one that leaks its way up to the last slot.
IntBodies ==
    {<<Set(e), PrintStmt(f)>> : e \in IntExprs, f \in {I, BinaryIR("sub", J, I)}}
    \cup {<<SetJ(K), Set(e), PrintStmt(e), NopIR, PrintStmt(I)>> : e \in IntExprs}
    \cup {<<Set(K), SetJ(I), Set(BinaryIR("sub", J, I)), PrintStmt(I), SetJ(J),
            PrintStmt(BinaryIR("add", I, J)), PrintStmt(J)>>,
          <<Set(K), Set(K), Set(K), Set(K), Set(K), PrintStmt(I)>>}

\* Prints no store has paid for; more stores than the stack has slots; types
\* other than int; a local past the table.
OtherBodies ==
    {<<PrintStmt(I)>>,
     <<Set(K), PrintStmt(I), PrintStmt(I)>>,
     <<Set(K), PrintStmt(I), SetJ(J), Set(I), PrintStmt(J), PrintStmt(I), PrintStmt(I), Set(I)>>,
     [n \in 1 .. (StackSlots + 1) |-> Set(K)],
     <<AssignStmtIR(StoreIR(0, "double"), Constant("double", Bits["double"]))>>,
     <<Set(CastIR("int", Constant("long", Bits["long"])))>>,
     <<AssignStmtIR(StoreIR(LocalSlots, "int"), K)>>,
     <<PrintStmt(VariableIR(LocalSlots, "int"))>>}

IntTypes == <<"int", "int">>
IntImages   == {ImageOf(b, IntTypes) : b \in IntBodies}
OtherImages == {Unsourced(ImageOf(b, IntTypes)) : b \in OtherBodies}
                 \cup {RawImage(<<Encode("LoadI"), 0>>, IntTypes)}
AllImages == IntImages \cup OtherImages

-------------------------------------------------------------------------------
\* A print has an effect at its first handler, one halfword before its end.
\* Code without a source only has to stop, or to leave the model.
Source == INSTANCE SourceProgram WITH
    Programs <- {[stmts |-> i.stmts, vars |-> i.vars] : i \in Images},
    prog  <- [stmts |-> img.stmts, vars |-> img.vars],
    next  <- 1 + Len(SelectSeq(img.ends, LAMBDA e : e - 1 <= x0)),
    env   <- [x \in 0 .. (img.vars - 1) |-> IF Sourced(img) THEN locals[x] ELSE Junk(x)],
    out   <- IF Sourced(img) THEN out ELSE <<>>,
    state <- CASE status = "running" -> "running"
               [] status = "done" \/ ~Sourced(img) -> "done"
               [] OTHER -> "failed"

\* For int programs that store before they print, the template interpreter
\* does what the source says, stray subtractions and leaked slots included.
RunsSource == Source!Spec

\* "jump to next instruction" (printi.s:34): a handler branches to the start
\* of an instruction.
JumpsToInstruction == status = "running" => x0 \in DOMAIN img.typing
===============================================================================
