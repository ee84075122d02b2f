-------------------------------- MODULE Parser --------------------------------
(***************************************************************************)
(* Parser: recursive descent from tokens to a tree.  The C++ call stack is *)
(* a sequence of frames; an action is what happens between one call or     *)
(* return of Expression, Term and Primary and the next.  Next() has no     *)
(* bounds check; where the code reads a token past the last one the model  *)
(* stops in "wild".                                                        *)
(***************************************************************************)
EXTENDS IRTraversal, FiniteSets

\* Sequences of tokens, as the lexer makes them: a tag, the text of a word
\* and the bits of a literal.
CONSTANT Inputs

ASSUME InputsAssumption ==
    Inputs \subseteq Seq([tag : STRING, text : STRING, bits : Seq(Halfword)])

VARIABLES
    tokens,    \* _tokens
    pos,       \* _pos
    table,     \* _symbol_table: name -> index and type
    program,   \* the statements added to the ProgramIR
    frames,    \* calls in progress, innermost last
    value,     \* <<the tree the innermost call has returned>>, or <<>>
    status,
    error      \* what panic printed

vars == <<tokens, pos, table, program, frames, value, status, error>>

TypeNames == Type \cup {"void"}      \* CVMType::_type_set after InitIntrinsicType

LiteralTags == [kInt |-> "int", kFloat |-> "float", kLong |-> "long", kDouble |-> "double"]

\* Mutant: the loop of Term also goes on for a sum.
LoopOps_Flat ==
    [Term       |-> [kMul |-> "mul", kDiv |-> "div", kPlus |-> "add", kMinus |-> "sub"],
     Expression |-> [kPlus |-> "add", kMinus |-> "sub"]]

\* The operators a loop goes on for: Term's and Expression's.
LoopOps == [Term       |-> [kMul |-> "mul", kDiv |-> "div"],
            Expression |-> [kPlus |-> "add", kMinus |-> "sub"]]

\* irs: the left operand of a loop, or the arguments of a call so far.
Frame(kind, word, ix, irs) == [kind |-> kind, word |-> word, ix |-> ix, irs |-> irs]
Loop(kind)        == Frame(kind, "", 0, <<>>)
Cast(type)        == Frame("Cast", type, 0, <<>>)
Group             == Frame("Group", "", 0, <<>>)
Assign(ix, type)  == Frame("Assign", type, ix, <<>>)
Call(name, args)  == Frame("Call", name, 0, args)

CallExpression == <<Loop("Expression"), Loop("Term")>>

-------------------------------------------------------------------------------
HasNext(k) == pos + k <= Len(tokens)            \* k more tokens
Tok(k) == tokens[pos + k]                       \* the k-th of them
Is(k, tag) == HasNext(k) /\ Tok(k).tag = tag
IsType(k) == Is(k, "kString") /\ Tok(k).text \in TypeNames

Running == status = "running"
AtStatement == Running /\ frames = <<>> /\ HasNext(1)
AtPrimary == Running /\ frames # <<>> /\ value = <<>>
Returning(kind) == Running /\ value # <<>> /\ frames[Len(frames)].kind = kind

Top == frames[Len(frames)]
Below == SubSeq(frames, 1, Len(frames) - 1)
Result == value[1]

\* Mutant: insert_or_assign in place of insert.
Insert_Replaces(name, type) ==
    [n \in DOMAIN table \cup {name} |->
        IF n = name THEN [ix |-> Cardinality(DOMAIN table), type |-> type] ELSE table[n]]

\* What add leaves in the table: insert keeps an entry that is there.
Insert(name, type) ==
    [n \in DOMAIN table \cup {name} |->
        IF n \in DOMAIN table THEN table[n]
        ELSE [ix |-> Cardinality(DOMAIN table), type |-> type]]

\* Mutant: the size is taken after the insertion.
NextIx_After == Cardinality(DOMAIN table) + 1

\* The index AddSymbol returns, whether or not it inserted anything.
NextIx == Cardinality(DOMAIN table)

Eat(k) == pos' = pos + k
Push(new) == frames' = frames \o new
Return(ir) == frames' = Below /\ value' = <<ir>>
AddStatement(ir) == program' = Append(program, ir) /\ frames' = <<>> /\ value' = <<>>

\* Mutant: the message is printed and the program goes on.
Panic_GoesOn(message) ==
    /\ error' = message
    /\ UNCHANGED <<tokens, pos, table, program, frames, value, status>>

Panic(message) ==
    /\ status' = "panicked" /\ error' = message
    /\ UNCHANGED <<tokens, pos, table, program, frames, value>>

\* A copy of _tokens[_tokens.size()].
ReadPastEnd ==
    /\ status' = "wild"
    /\ UNCHANGED <<tokens, pos, table, program, frames, value, error>>

-------------------------------------------------------------------------------
Init ==
    /\ tokens \in Inputs
    /\ pos = 0
    /\ table = [n \in {} |-> 0]
    /\ program = <<>>
    /\ frames = <<>>
    /\ value = <<>>
    /\ status = "running"
    /\ error = ""

(* Statement. *)

\* A type name followed by a word: a declaration, unless the file ends there.
Declares == AtStatement /\ IsType(1) /\ Is(2, "kString")

Define ==
    /\ Declares /\ Is(3, "kSemicolon")
    /\ table' = Insert(Tok(2).text, Tok(1).text)
    /\ AddStatement(DefinitionIR(NextIx, Tok(1).text))
    /\ Eat(3)
    /\ UNCHANGED <<tokens, status, error>>

\* The symbol is in the table before its initialiser is parsed.
Initialise ==
    /\ Declares /\ Is(3, "kEq")
    /\ table' = Insert(Tok(2).text, Tok(1).text)
    /\ Push(<<Assign(NextIx, Tok(1).text)>> \o CallExpression)
    /\ Eat(3)
    /\ UNCHANGED <<tokens, program, value, status, error>>

Reassign ==
    /\ AtStatement /\ ~Declares /\ Is(1, "kString") /\ Is(2, "kEq")
    /\ Tok(1).text \in DOMAIN table \ TypeNames
    /\ Push(<<Assign(table[Tok(1).text].ix, table[Tok(1).text].type)>> \o CallExpression)
    /\ Eat(2)
    /\ UNCHANGED <<tokens, table, program, value, status, error>>

\* Mutant: the end of a call steps over a closing token and one more.
NextArgument_StepsTwo(k, name, args) ==
    IF HasNext(k + 1) /\ ~Is(k + 1, "kRParentheses")
    THEN /\ Eat(k)
         /\ frames' = <<Call(name, args)>> \o CallExpression
         /\ value' = <<>>
         /\ UNCHANGED program
    ELSE /\ Eat(k + 2)
         /\ AddStatement(FunctionCallIR(name, args))

\* A turn of the argument loop, k tokens on: another argument, or the end
\* of the call, whose closing token is stepped over unseen when there is none.
NextArgument(k, name, args) ==
    IF HasNext(k + 1) /\ ~Is(k + 1, "kRParentheses")
    THEN /\ Eat(k)
         /\ frames' = <<Call(name, args)>> \o CallExpression
         /\ value' = <<>>
         /\ UNCHANGED program
    ELSE /\ Eat(k + 1)
         /\ AddStatement(FunctionCallIR(name, args))

CallFunction ==
    /\ AtStatement /\ ~Declares /\ Is(1, "kString") /\ Is(2, "kLParentheses")
    /\ NextArgument(2, Tok(1).text, <<>>)
    /\ UNCHANGED <<tokens, table, status, error>>

Semicolon ==
    /\ AtStatement /\ Is(1, "kSemicolon")
    /\ AddStatement(NopIR)
    /\ Eat(1)
    /\ UNCHANGED <<tokens, table, status, error>>

BadStatement ==
    /\ AtStatement
    /\ \/ Declares /\ ~HasNext(3) /\ Panic("expected a semicolon or expression")
       \/ Declares /\ HasNext(3) /\ ~Is(3, "kSemicolon") /\ ~Is(3, "kEq")
          /\ Panic("illegal statement")
       \/ ~Declares /\ Is(1, "kString") /\ Is(2, "kEq")
          /\ Tok(1).text \notin DOMAIN table /\ Panic("sym is not found")
       \/ ~Declares /\ Is(1, "kString") /\ Is(2, "kEq")
          /\ Tok(1).text \in DOMAIN table \cap TypeNames
          /\ Panic("sym conflicts with builtin types")
       \/ ~Declares /\ Is(1, "kString") /\ ~Is(2, "kEq") /\ ~Is(2, "kLParentheses")
          /\ Panic("expected a eq")
       \/ ~Is(1, "kString") /\ ~Is(1, "kSemicolon")
          /\ Panic("unexpected token in statement")

(* Primary. *)

Literal ==
    /\ AtPrimary /\ HasNext(1) /\ Tok(1).tag \in DOMAIN LiteralTags
    /\ value' = <<Constant(LiteralTags[Tok(1).tag], Tok(1).bits)>>
    /\ Eat(1)
    /\ UNCHANGED <<tokens, table, program, frames, status, error>>

Variable ==
    /\ AtPrimary /\ Is(1, "kString")
    /\ Tok(1).text \in DOMAIN table
    /\ table[Tok(1).text].type # "void"
    /\ value' = <<VariableIR(table[Tok(1).text].ix, table[Tok(1).text].type)>>
    /\ Eat(1)
    /\ UNCHANGED <<tokens, table, program, frames, status, error>>

OpensCast == Is(1, "kLParentheses") /\ IsType(2) /\ Is(3, "kRParentheses")

OpenCast ==
    /\ AtPrimary /\ OpensCast
    /\ Push(<<Cast(Tok(2).text)>>)
    /\ Eat(3)
    /\ UNCHANGED <<tokens, table, program, value, status, error>>

OpenGroup ==
    /\ AtPrimary /\ Is(1, "kLParentheses") /\ HasNext(2) /\ ~OpensCast
    /\ Push(<<Group>> \o CallExpression)
    /\ Eat(1)
    /\ UNCHANGED <<tokens, table, program, value, status, error>>

BadPrimary ==
    /\ AtPrimary
    /\ \/ ~HasNext(1) /\ Panic("Primary require a token")
       \/ Is(1, "kLParentheses") /\ ~HasNext(2) /\ ReadPastEnd
       \/ Is(1, "kString") /\ Tok(1).text \notin DOMAIN table /\ Panic("unknown variable")
       \/ Is(1, "kString") /\ Tok(1).text \in DOMAIN table
          /\ table[Tok(1).text].type = "void" /\ Panic("Unknown type")
       \/ /\ HasNext(1)
          /\ Tok(1).tag \notin DOMAIN LiteralTags \cup {"kString", "kLParentheses"}
          /\ Panic("Primary require a number or string")

(* Returns. *)

\* Mutant: the operands of a binary node are the other way round.
Joined_Swapped == IF Top.irs = <<>> THEN Result ELSE BinaryIR(Top.word, Result, Top.irs[1])

\* What a loop has parsed so far, its last operand included.
Joined == IF Top.irs = <<>> THEN Result ELSE BinaryIR(Top.word, Top.irs[1], Result)

Joins == \A k \in DOMAIN Top.irs : BinaryAccepts(Top.irs[k], Result)

\* Term and Expression: go on with the next operand, or return.
FoldLoop(kind) ==
    /\ Returning(kind) /\ Joins
    /\ IF HasNext(1) /\ Tok(1).tag \in DOMAIN LoopOps[kind]
       THEN /\ frames' = Below
                  \o <<Frame(kind, LoopOps[kind][Tok(1).tag], 0, <<Joined>>)>>
                  \o (IF kind = "Expression" THEN <<Loop("Term")>> ELSE <<>>)
            /\ value' = <<>>
            /\ Eat(1)
       ELSE Return(Joined) /\ UNCHANGED pos
    /\ UNCHANGED <<tokens, table, program, status, error>>

CloseCast ==
    /\ Returning("Cast")
    /\ Top.word # "void"
    /\ Return(CastIR(Top.word, Result))
    /\ UNCHANGED <<tokens, pos, table, program, status, error>>

\* The test is the wrong way round: any token but a closing one will do.
CloseGroup ==
    /\ Returning("Group") /\ HasNext(1) /\ ~Is(1, "kRParentheses")
    /\ Return(Result)
    /\ Eat(1)
    /\ UNCHANGED <<tokens, table, program, status, error>>

\* Mutant: the type of the value is not compared with that of the variable.
EndAssign_Unchecked ==
    /\ Returning("Assign") /\ Top.word # "void"
    /\ AddStatement(AssignStmtIR(StoreIR(Top.ix, Top.word), Result))
    /\ UNCHANGED <<tokens, pos, table, status, error>>

EndAssign ==
    /\ Returning("Assign") /\ Top.word = Result.type
    /\ AddStatement(AssignStmtIR(StoreIR(Top.ix, Top.word), Result))
    /\ UNCHANGED <<tokens, pos, table, status, error>>

\* Mutant: the argument may be the last thing of the file.
EndArgument_Unchecked ==
    /\ Returning("Call")
    /\ NextArgument(IF Is(1, "kComma") THEN 1 ELSE 0, Top.word, Append(Top.irs, Result))
    /\ UNCHANGED <<tokens, table, status, error>>

EndArgument ==
    /\ Returning("Call") /\ HasNext(1)
    /\ NextArgument(IF Is(1, "kComma") THEN 1 ELSE 0, Top.word, Append(Top.irs, Result))
    /\ UNCHANGED <<tokens, table, status, error>>

BadReturn ==
    \/ \E kind \in DOMAIN LoopOps :
          Returning(kind) /\ ~Joins /\ Panic("lhs and rhs mismatch")
    \/ Returning("Cast") /\ Top.word = "void" /\ Panic("unsupported cast")
    \/ Returning("Group") /\ Is(1, "kRParentheses") /\ Panic("require )")
    \/ Returning("Group") /\ ~HasNext(1) /\ ReadPastEnd
    \/ Returning("Assign") /\ Top.word = "void" /\ Panic("unknown type")
    \/ Returning("Assign") /\ Top.word \notin {"void", Result.type} /\ Panic("type mismatch")
    \/ Returning("Call") /\ ~HasNext(1) /\ Panic("no next token")

Finish ==
    /\ Running /\ frames = <<>> /\ ~HasNext(1)
    /\ IF tokens = <<>> THEN Panic("empty tokens")
       ELSE /\ status' = "done"
            /\ UNCHANGED <<tokens, pos, table, program, frames, value, error>>

Next ==
    \/ Define \/ Initialise \/ Reassign \/ CallFunction \/ Semicolon \/ BadStatement
    \/ Literal \/ Variable \/ OpenCast \/ OpenGroup \/ BadPrimary
    \/ \E kind \in DOMAIN LoopOps : FoldLoop(kind)
    \/ CloseCast \/ CloseGroup \/ EndAssign \/ EndArgument \/ BadReturn
    \/ Finish

Spec == Init /\ [][Next]_vars

\* One thread of recursive calls: it runs until it returns or panics.
FairSpec == Spec /\ WF_vars(Next)

-------------------------------------------------------------------------------
TypeOK ==
    /\ pos \in 0 .. (Len(tokens) + 1)
    /\ table \in [DOMAIN table -> [ix : Nat, type : TypeNames]]
    /\ \A k \in DOMAIN frames :
          frames[k].kind \in {"Term", "Expression", "Cast", "Group", "Assign", "Call"}
    /\ Len(value) <= 1
    /\ status \in {"running", "done", "panicked", "wild"}

\* The symbol table numbers its names 0, 1, 2, ... without a gap or a double:
\* its size, which sizes the table of local variables, bounds every index.
IndexesDense ==
    /\ {table[n].ix : n \in DOMAIN table} = 0 .. (Cardinality(DOMAIN table) - 1)
    /\ \A m, n \in DOMAIN table : table[m].ix = table[n].ix => m = n

\* Parsing steps past the last token only at a call that is never closed: its
\* name or its last comma ends the file.
OverrunsOnlyOpenCall ==
    pos > Len(tokens) =>
        tokens # <<>> /\ tokens[Len(tokens)].tag \in {"kLParentheses", "kComma"}

\* A declaration, wherever it stands.
DeclaredAt(k) ==
    /\ k + 1 <= Len(tokens)
    /\ tokens[k].tag = "kString" /\ tokens[k].text \in TypeNames
    /\ tokens[k + 1].tag = "kString"

\* A name is declared at most once.
DeclaredOnce ==
    \A j, k \in DOMAIN tokens :
        (DeclaredAt(j) /\ DeclaredAt(k) /\ tokens[j + 1].text = tokens[k + 1].text) => j = k

\* The nodes of the trees built so far: no tree has more levels than the
\* file has tokens.
NodesOf(irs) == Nodes(irs, Len(tokens))

\* A variable, a store or a definition carries the index and the type of an
\* entry of the table.
Resolved(n) ==
    n.ir \in {"Variable", "Store", "Definition"} =>
        \E m \in DOMAIN table : table[m] = [ix |-> n.data[1], type |-> n.type]

\* When no name is declared twice, every name of the program is resolved, in
\* finished statements and in the expression being parsed.
NamesResolve == DeclaredOnce => \A n \in NodesOf(program \o value) : Resolved(n)

\* No grouping parenthesis: each opens a cast, or the arguments of a call of
\* something that is no variable.
Ungrouped ==
    \A k \in DOMAIN tokens : tokens[k].tag = "kLParentheses" =>
        \/ /\ k + 2 <= Len(tokens)
           /\ tokens[k + 1].tag = "kString" /\ tokens[k + 1].text \in TypeNames
           /\ tokens[k + 2].tag = "kRParentheses"
        \/ /\ k > 1 /\ tokens[k - 1].tag = "kString"
           /\ \A j \in DOMAIN tokens : DeclaredAt(j) => tokens[j + 1].text # tokens[k - 1].text

IsSum(n) == n.ir = "Binary" /\ n.op \in {BinaryOf[t][c] : t \in Type, c \in {"add", "sub"}}
IsProduct(n) == n.ir = "Binary" /\ n.op \in {BinaryOf[t][c] : t \in Type, c \in {"mul", "div"}}

\* The right operand of a sum is no sum, that of a product no operation, and
\* the left operand of a product is no sum.
Binds(n) ==
    /\ IsSum(n) => ~IsSum(n.kids[2])
    /\ IsProduct(n) => n.kids[2].ir # "Binary" /\ ~IsSum(n.kids[1])
    /\ n.ir = "Binary" => IsSum(n) \/ IsProduct(n)

\* Products bind tighter than sums, and both associate to the left.
Precedence == Ungrouped => \A n \in NodesOf(program \o value) : Binds(n)

\* Verify lets no program through that Dump or Emit then stops, but for calls
\* of another function than print and conversions to the same type.
VerifiedCompiles ==
    (/\ status = "done"
     /\ \A n \in NodesOf(program) : /\ VerifyAccepts(n)
                                    /\ n.ir = "Call" => n.data = <<"print">>
                                    /\ n.ir = "Cast" => n.op # "Nop")
        => Compiles(program, Len(tokens))

\* The parser comes to an end on every file.
Halts == <>(status # "running")

\* "require )" (parser.cpp:286): the parser asks for a closing parenthesis
\* where there is none.
RequiresClosing == error = "require )" => ~Is(1, "kRParentheses")

\* "index of the variable in the symbol table" (ir.h:250): the index of a
\* definition is that of an entry of its type.
DefinitionsIndexed ==
    \A k \in DOMAIN program :
        program[k].ir = "Definition" =>
            \E n \in DOMAIN table :
                table[n] = [ix |-> program[k].data[1], type |-> program[k].type]
===============================================================================
