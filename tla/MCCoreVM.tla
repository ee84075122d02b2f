-------------------------------- MODULE MCCoreVM --------------------------------
(***************************************************************************)
(* The whole program on small files: what a command line opens, what a     *)
(* text compiles to, and what running it does, stated from the text and    *)
(* not from what any part of the program makes of it.                      *)
(***************************************************************************)
EXTENDS CoreVM, CodeImages

VARIABLE promised   \* what running the program should do, kept from the start

Chars(s) == [k \in 1 .. Len(s) |-> SubSeq(s, k, k)]

(* Texts, and what they say: the types of their variables in the order they *)
(* are declared, and their statements.                                      *)

IntVar(x) == VariableIR(x, "int")
IntLit(n) == Constant("int", <<n, 0>>)
Double75 == Constant("double", <<0, 0, 0, 1075>>)
Sub(l, r) == BinaryIR("sub", l, r)
Set(x, e) == AssignStmtIR(StoreIR(x, e.type), e)
Ints(n) == [k \in 1 .. n |-> "int"]
Chain5 == Sub(Sub(Sub(Sub(IntVar(0), IntVar(0)), IntVar(0)), IntVar(0)), IntVar(0))

Says(text, types, stmts) == [text |-> text, types |-> types, stmts |-> stmts]

Sum ==
    Says("int a=300;int b=a-7;a=b*a+7;print(a-b);print(b);", Ints(2),
         <<Set(0, IntLit(300)), Set(1, Sub(IntVar(0), IntLit(7))),
           Set(0, BinaryIR("add", BinaryIR("mul", IntVar(1), IntVar(0)), IntLit(7))),
           PrintStmt(Sub(IntVar(0), IntVar(1))), PrintStmt(IntVar(1))>>)
Swap ==
    Says("int a=7;int b;b=a;a=a-2-b;\nprint(b);", Ints(2),
         <<Set(0, IntLit(7)), Set(1, IntVar(0)),
           Set(0, Sub(Sub(IntVar(0), IntLit(2)), IntVar(1))), PrintStmt(IntVar(1))>>)
Mixed ==
    Says("double d=7.5;int a=(int)d;print(a);print(d);", <<"double", "int">>,
         <<Set(0, Double75), Set(1, CastIR("int", VariableIR(0, "double"))),
           PrintStmt(IntVar(1)), PrintStmt(VariableIR(0, "double"))>>)
Long ==
    Says("long l=7L;print(l);", <<"long">>,
         <<Set(0, Constant("long", <<7, 0, 0, 0>>)), PrintStmt(VariableIR(0, "long"))>>)

\* As many variables as an index tells apart, and one more; as many operands
\* as the stack has slots, and one more.
Four == <<Set(0, IntLit(2)), Set(1, IntLit(7)), Set(2, IntLit(2)), Set(3, IntLit(7))>>
Limits ==
    {Says("int a=2;int b=7;int c=2;int d=7;c=b-d;", Ints(4),
          Append(Four, Set(2, Sub(IntVar(1), IntVar(3))))),
     Says("int a=2;int b=7;int c=2;int d=7;int e=a;print(a);", Ints(5),
          Four \o <<Set(4, IntVar(0)), PrintStmt(IntVar(0))>>),
     Says("int a=7;print(a-a-a-a-a);", Ints(1), <<Set(0, IntLit(7)), PrintStmt(Chain5)>>),
     Says("int a=7;print(a-a-a-a-a-a);", Ints(1),
          <<Set(0, IntLit(7)), PrintStmt(Sub(Chain5, IntVar(0)))>>)}

\* Every two statements of a few, over two variables.
Phrases ==
    {<<"a", IntVar(0)>>, <<"a-2*b", Sub(IntVar(0), BinaryIR("mul", IntLit(2), IntVar(1)))>>,
     <<"b/a-a", Sub(BinaryIR("div", IntVar(1), IntVar(0)), IntVar(0))>>}
Sentences ==
    {<<"a=" \o p[1] \o ";", Set(0, p[2])>> : p \in Phrases}
    \cup {<<"b=" \o p[1] \o ";", Set(1, p[2])>> : p \in Phrases}
    \cup {<<"print(" \o p[1] \o ");", PrintStmt(p[2])>> : p \in Phrases}
Stories ==
    {Says("int a=7;int b;" \o p[1] \o q[1], Ints(2), <<Set(0, IntLit(7)), p[2], q[2]>>) :
        p, q \in Sentences}

Runnable == {Sum, Swap, Mixed, Long} \cup Limits \cup Stories

\* Texts that stop on the way, or that are read for ever.
Others ==
    {"", "print(7);", "int a=2;int a=7;print(a);", "long l=7L;l=l+l;print(l);",
     "int a=7;a=a+a+a+a+a+a+a+a+a+a+a+a+a+a+a+a+a+a+a+a+a;",
     "int a=7#;", "int a=b;", "double d=7.5;float f=(float)d;f=f*f;", "int a=(int)7;",
     "foo(7);", "print();", "int a=7;print(a,a);", "int a"}

File(text) == text \o ".cvm"
Texts == {r.text : r \in Runnable} \cup Others
MCSourceNames == {File(t) : t \in Texts} \cup {"missing.cvm"}
MCFiles ==
    [f \in {File(t) : t \in Texts} \cup {"notes.txt"} |->
        Chars(IF f = "notes.txt" THEN Swap.text ELSE CHOOSE t \in Texts : File(t) = f)]

SumFile == File(Sum.text)
SwapFile == File(Swap.text)
MCCommandLines ==
    {<<File(t)>> : t \in Texts} \cup {<<File(t), "-f">> : t \in Texts}
    \cup {<<>>, <<"">>, <<"-h">>, <<"-f">>, <<"notes.txt">>, <<"missing.cvm">>,
          <<"-f", SumFile>>, <<"-d", SumFile>>, <<SumFile, "-b", "-h">>,
          <<SumFile, "">>, <<SumFile, SwapFile>>, <<SwapFile, "-d", SumFile, "-f">>,
          <<SwapFile, "missing.cvm">>, <<"missing.cvm", SwapFile>>,
          <<"notes.txt", SumFile, "-f">>, <<SumFile, "notes.txt">>}

MCDigit == {"0", "2", "3", "5", "7"}
MCLetter == {"a", "b", "c", "d", "e", "f", "g", "i", "l", "n", "o", "p", "r", "t", "u", "L"}

\* A literal is told apart by its digits.
MCLiteralBits(tag, text) ==
    LET digit == [c \in MCDigit |-> CHOOSE n \in 0 .. 9 : ToString(n) = c]
        number[k \in 0 .. Len(text)] ==
            IF k = 0 THEN 0
            ELSE IF text[k] = "." THEN number[k - 1]
            ELSE 10 * number[k - 1] + digit[text[k]]
        v == number[Len(text)]
    IN  CASE tag = "kInt"    -> <<v, 0>>
          [] tag = "kLong"   -> <<v, 0, 0, 0>>
          [] tag = "kDouble" -> <<0, 0, 0, 1000 + v>>

-------------------------------------------------------------------------------
\* The code a text should be compiled to, where its statements end in it, and
\* whether it has the certificate that each interpreter asks for; a text with
\* more variables than an index tells apart has none.
Expected(r) ==
    LET i == ImageOf(r.stmts, r.types)
        indexed == i.vars <= 2^IxBits
    IN  [file |-> File(r.text), stmts |-> i.stmts, vars |-> i.vars, ends |-> i.ends,
         asm |-> indexed /\ AI!Placed(i), bytecode |-> indexed /\ BI!WellTyped(i)]
Nothing == [file |-> "", stmts |-> <<>>, vars |-> 0, ends |-> <<>>,
            asm |-> TRUE, bytecode |-> TRUE]

\* The words of the command line let the program run.
Starts ==
    /\ \E k \in DOMAIN argv : argv[k] \in SourceNames
    /\ \A k \in DOMAIN argv : argv[k] \notin {"", "-h"}

\* Which interpreter will run: -f asks for one, and what was on the stack may.
RunsAsm == Arm64 /\ (use_asm \/ \E k \in DOMAIN argv : argv[k] = "-f")

\* What is promised of the text that argv[1] names, as a set.
Promises ==
    IF ~Starts THEN {}
    ELSE {e \in {Expected(r) : r \in {r \in Runnable :
                     \/ argv[1] = File(r.text)
                     \/ argv[1] = "notes.txt" /\ r = Swap}} :
             IF RunsAsm THEN e.asm ELSE e.bytecode}
MCInit == Init /\ promised \in (IF Promises = {} THEN {Nothing} ELSE Promises)
MCNext == Next /\ UNCHANGED promised
MCSpec == MCInit /\ [][MCNext]_<<vars, promised>> /\ WF_vars(Next)

Interpreting == stage \in {"bytecode", "asm"}

\* A print of the template interpreter has an effect one halfword before its
\* end.
Passed(e) == Interpreting /\ (IF stage = "asm" THEN e - 1 ELSE e) <= pc

Source == INSTANCE SourceProgram WITH
    Programs <- {[stmts |-> r.stmts, vars |-> Len(r.types)] :
                   r \in Runnable \cup {Says("", <<>>, <<>>)}},
    prog  <- [stmts |-> promised.stmts, vars |-> promised.vars],
    next  <- 1 + Len(SelectSeq(promised.ends, Passed)),
    env   <- [x \in 0 .. (promised.vars - 1) |->
                CASE stage = "bytecode" -> locals[x].v
                  [] stage = "asm"      -> locals[x]
                  [] OTHER              -> Junk(x)],
    out   <- IF promised = Nothing THEN <<>>
             ELSE IF stage = "bytecode" THEN [k \in DOMAIN out |-> out[k].v] ELSE out,
    state <- CASE ~Halted -> "running"
               [] promised = Nothing \/ running = "done" -> "done"
               [] OTHER -> "failed"

\* From its characters to what it prints, a program does what its text says,
\* whichever interpreter it happens to be given: its statements take effect in
\* order, with the operands the text has, and it fails before its end only at
\* an integer division.
RunsText == Source!Init /\ [][Source!Next]_(Source!vars)

-------------------------------------------------------------------------------
(* What an expression needs. *)

\* The slots an expression needs: its left operand is computed on top of the
\* value of its right one.
Greater(m, n) == IF m > n THEN m ELSE n
RECURSIVE Need(_)
Need(n) ==
    CASE n.ir = "Binary" -> Greater(Need(n.kids[2]), 1 + Need(n.kids[1]))
      [] n.ir = "Assign" -> Need(n.kids[2])
      [] n.ir \in {"Cast", "Call"} -> Need(n.kids[1])
      [] OTHER -> 1

Overruns ==
    \/ \E k \in DOMAIN program : Need(program[k]) > StackSlots
    \/ \E x \in Indexes : Index(x) >= Variables

\* The portable interpreter, as main sizes it, leaves its buffers only for a
\* chain of more operands than the stack has slots or for a name declared
\* twice, whose index the table of locals has no room for; it never returns
\* from such a program as if nothing had happened; and it refuses to start
\* exactly when there are no variables.
BreaksExactly ==
    (stage = "bytecode" /\ running \notin {"new", "running"}) =>
        /\ running = "aborted" <=> Variables = 0
        /\ running = "wild" => Overruns
        /\ running = "done" => ~Overruns

\* A command line as the usage line has it: both options, one or none, then the
\* name of a file that there is.
FollowsUsage ==
    \E options \in {<<>>, <<"-d">>, <<"-b">>, <<"-d", "-b">>} :
        \E f \in SourceNames \cap DOMAIN Files : argv = Append(options, f)

\* "Usage: cvm(core-vm) [-d] [-b] <filename>" (main.cpp:80): whichever of its
\* options come first, the file named after them is the one that is opened.
OpensFilename ==
    [][(FollowsUsage /\ stage = "arguments" /\ stage' # "arguments") =>
          stage' = "lexing" /\ input' = Files[argv[Len(argv)]]]_vars

\* Every run comes to an end, whatever the arguments and the file, unless the
\* file ends in a word or a number, which the lexer reads again for ever.
Terminates == <>(Halted \/ (stage = "lexing" /\ ~L!Closed))
===============================================================================
