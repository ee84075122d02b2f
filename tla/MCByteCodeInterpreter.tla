------------------------- MODULE MCByteCodeInterpreter -------------------------
(***************************************************************************)
(* Instances of ByteCodeInterpreter over compiled and over raw images.     *)
(***************************************************************************)
EXTENDS ByteCodeInterpreter, CodeImages

\* Every program of Bodies that Compile lets through.
CompiledImages == {ImageOf(Declarations \o b, MCTypes) :
                     b \in {b \in Bodies : Compiles(Declarations \o b, TreeDepth)}}

\* The sequence of halfwords written for a list of trees, without the kDone.
Code(irs) == EmitAll(irs, TreeDepth)

F == Var("float")
I == Var("int")
FloatProduct == BinaryIR("mul", F, Constant("float", Bits["float"]))
RECURSIVE Deep(_)
Deep(n) == IF n = 1 THEN I ELSE BinaryIR("add", Deep(n - 1), I)

\* Images no Compile produces: float products, which Dump refuses; code with
\* no kDone; operands deeper than the stack; an index past the locals; code
\* cut inside an immediate; halfwords that are no instruction.
RawImages ==
    {Unsourced(ImageOf(irs, MCTypes)) : irs \in
        {<<PrintStmt(FloatProduct)>>,
         <<PrintStmt(BinaryIR("mul", FloatProduct, F))>>,
         <<PrintStmt(BinaryIR("div", FloatProduct, F)), PrintStmt(I)>>,
         <<AssignTo("float", BinaryIR("mul", FloatProduct, F)), PrintStmt(F)>>,
         <<PrintStmt(Deep(StackSlots))>>,
         <<PrintStmt(Deep(StackSlots + 1))>>,
         <<AssignStmtIR(StoreIR(4, "double"), Constant("double", Bits["double"]))>>,
         <<PrintStmt(VariableIR(4, "int"))>>}}
    \cup {RawImage(code, MCTypes) : code \in
        {Code(<<PrintStmt(I)>>),
         Code(<<FloatProduct>>),
         Code(<<PrintStmt(CastIR("int", I))>>),
         Code(<<PrintStmt(CastIR("double", I)), F, FloatProduct, FloatProduct>>),
         <<Encode("LConst"), 7, 0>>, <<Encode("LoadI")>>,
         <<Encode("IConst"), 7, 0, Encode("PrintD"), 1, Encode("Done")>>,
         <<Encode("IConst"), 7, 0, Encode("IConst"), 7, 0, Encode("IMod"), Encode("ICastD"),
           Encode("PrintD"), 1, Encode("Done")>>,
         <<Encode("PrintI"), 1>>, <<Encode("Stmt")>>, <<999>>, <<>>}}

MCImages == CompiledImages \cup RawImages

-------------------------------------------------------------------------------
(* The interpreter runs its source program.  A statement has taken effect  *)
(* once pc is past its code: its last instruction is a store or a print.   *)
(* Code without a source only has to stop.                                 *)
Source == INSTANCE SourceProgram WITH
    Programs <- {[stmts |-> i.stmts, vars |-> i.vars] : i \in Images},
    prog  <- [stmts |-> img.stmts, vars |-> img.vars],
    next  <- 1 + Len(SelectSeq(img.ends, LAMBDA e : e <= pc)),
    env   <- [x \in DOMAIN locals |-> IF Sourced(img) THEN locals[x].v ELSE Junk(x)],
    out   <- IF Sourced(img) THEN [n \in DOMAIN out |-> out[n].v] ELSE <<>>,
    state <- CASE status \in {"new", "running"} -> "running"
               [] status = "done" \/ ~Sourced(img) -> "done"
               [] OTHER -> "failed"

\* Compiled code, run by the portable interpreter, does what its source says:
\* the same assignments and prints in the same order with the same operands,
\* and it always stops; only a division or long arithmetic stops it early.
\* Code without a source stops as well: pc grows with every instruction.
RunsSource == Source!Spec
===============================================================================
