----------------------------- MODULE CompilerProofs -----------------------------
(***************************************************************************)
(* What Compile makes of its parts, for every file: the proofs about the   *)
(* lexer, the parser and the assembler carry over to the stages in which   *)
(* these run, and Dump and Emit join them.  Then what CoreVMProofs needs:  *)
(* that the code of a tree is one thing, and what the capacity can be.     *)
(***************************************************************************)
EXTENDS CoreVM, FiniteSetTheorems, SequenceTheorems, TLAPS

\* What WriteStream is given: the 2 to 8 bytes of one value.
Value == {v \in Seq(Byte) : Len(v) \in 2 .. 8}

LP == INSTANCE LexerProofs WITH Inputs <- {}, tokens <- lexed, status <- lexing
PP == INSTANCE ParserProofs WITH Inputs <- {}, status <- parsing
AP == INSTANCE CVMAssemblerProofs WITH
        Requests <- {CodeCapacity}, Values <- Value, Unset <- 256,
        pos <- written, code <- buffer, status <- writing
BP == INSTANCE ByteCodeInterpreterProofs WITH Images <- {}, img <- image, status <- running

-------------------------------------------------------------------------------
(* The parts are those the proofs are about. *)
LEMMA SameParser == P!Next <=> PP!Next
<1> USE DEF P!AddStatement, P!Assign, P!AssignStmtIR, P!AtPrimary, P!AtStatement,
            P!Below, P!BinaryAccepts, P!BinaryIR, P!BinaryOf, P!Call, P!CallExpression,
            P!Cast, P!CastIR, P!CastOf, P!ConstOf, P!Constant, P!Declares,
            P!DefinitionIR, P!Eat, P!Frame, P!FunctionCallIR, P!Group, P!HasNext,
            P!Insert, P!Is, P!IsType, P!Joined, P!Joins, P!LiteralTags, P!LoadOf,
            P!Loop, P!LoopOps, P!NextArgument, P!NextIx, P!Node, P!NopIR, P!OpensCast,
            P!Panic, P!Push, P!ReadPastEnd, P!Result, P!Return, P!Returning, P!Running,
            P!StoreIR, P!StoreOf, P!Term, P!Tok, P!Top, P!Type, P!TypeNames,
            P!VariableIR, P!void_op, P!Cardinality,
            PP!AddStatement, PP!Assign, PP!AssignStmtIR, PP!AtPrimary, PP!AtStatement,
            PP!Below, PP!BinaryAccepts, PP!BinaryIR, PP!BinaryOf, PP!Call,
            PP!CallExpression, PP!Cast, PP!CastIR, PP!CastOf, PP!ConstOf, PP!Constant,
            PP!Declares, PP!DefinitionIR, PP!Eat, PP!Frame, PP!FunctionCallIR, PP!Group,
            PP!HasNext, PP!Insert, PP!Is, PP!IsType, PP!Joined, PP!Joins,
            PP!LiteralTags, PP!LoadOf, PP!Loop, PP!LoopOps, PP!NextArgument, PP!NextIx,
            PP!Node, PP!NopIR, PP!OpensCast, PP!Panic, PP!Push, PP!ReadPastEnd,
            PP!Result, PP!Return, PP!Returning, PP!Running, PP!StoreIR, PP!StoreOf,
            PP!Term, PP!Tok, PP!Top, PP!Type, PP!TypeNames, PP!VariableIR, PP!void_op,
            PP!Cardinality
<1>1. P!Define <=> PP!Define
    BY Zenon DEF P!Define, PP!Define
<1>2. P!Initialise <=> PP!Initialise
    BY Zenon DEF P!Initialise, PP!Initialise
<1>3. P!Reassign <=> PP!Reassign
    BY Zenon DEF P!Reassign, PP!Reassign
<1>4. P!CallFunction <=> PP!CallFunction
    BY Zenon DEF P!CallFunction, PP!CallFunction
<1>5. P!Semicolon <=> PP!Semicolon
    BY Zenon DEF P!Semicolon, PP!Semicolon
<1>6. P!BadStatement <=> PP!BadStatement
    BY Zenon DEF P!BadStatement, PP!BadStatement
<1>7. P!Literal <=> PP!Literal
    BY Zenon DEF P!Literal, PP!Literal
<1>8. P!Variable <=> PP!Variable
    BY Zenon DEF P!Variable, PP!Variable
<1>9. P!OpenCast <=> PP!OpenCast
    BY Zenon DEF P!OpenCast, PP!OpenCast
<1>10. P!OpenGroup <=> PP!OpenGroup
    BY Zenon DEF P!OpenGroup, PP!OpenGroup
<1>11. P!BadPrimary <=> PP!BadPrimary
    BY Zenon DEF P!BadPrimary, PP!BadPrimary
<1>12. P!CloseCast <=> PP!CloseCast
    BY Zenon DEF P!CloseCast, PP!CloseCast
<1>13. P!CloseGroup <=> PP!CloseGroup
    BY Zenon DEF P!CloseGroup, PP!CloseGroup
<1>14. P!EndAssign <=> PP!EndAssign
    BY Zenon DEF P!EndAssign, PP!EndAssign
<1>15. P!EndArgument <=> PP!EndArgument
    BY Zenon DEF P!EndArgument, PP!EndArgument
<1>16. P!BadReturn <=> PP!BadReturn
    BY Zenon DEF P!BadReturn, PP!BadReturn
<1>17. P!Finish <=> PP!Finish
    BY Zenon DEF P!Finish, PP!Finish
<1>18. ASSUME NEW kind PROVE P!FoldLoop(kind) <=> PP!FoldLoop(kind)
    BY Zenon DEF P!FoldLoop, PP!FoldLoop
<1>19. DOMAIN P!LoopOps = DOMAIN PP!LoopOps
    OBVIOUS
<1> HIDE DEF P!AddStatement, P!Assign, P!AssignStmtIR, P!AtPrimary, P!AtStatement,
            P!Below, P!BinaryAccepts, P!BinaryIR, P!BinaryOf, P!Call, P!CallExpression,
            P!Cast, P!CastIR, P!CastOf, P!ConstOf, P!Constant, P!Declares,
            P!DefinitionIR, P!Eat, P!Frame, P!FunctionCallIR, P!Group, P!HasNext,
            P!Insert, P!Is, P!IsType, P!Joined, P!Joins, P!LiteralTags, P!LoadOf,
            P!Loop, P!LoopOps, P!NextArgument, P!NextIx, P!Node, P!NopIR, P!OpensCast,
            P!Panic, P!Push, P!ReadPastEnd, P!Result, P!Return, P!Returning, P!Running,
            P!StoreIR, P!StoreOf, P!Term, P!Tok, P!Top, P!Type, P!TypeNames,
            P!VariableIR, P!void_op, P!Cardinality,
            PP!AddStatement, PP!Assign, PP!AssignStmtIR, PP!AtPrimary, PP!AtStatement,
            PP!Below, PP!BinaryAccepts, PP!BinaryIR, PP!BinaryOf, PP!Call,
            PP!CallExpression, PP!Cast, PP!CastIR, PP!CastOf, PP!ConstOf, PP!Constant,
            PP!Declares, PP!DefinitionIR, PP!Eat, PP!Frame, PP!FunctionCallIR, PP!Group,
            PP!HasNext, PP!Insert, PP!Is, PP!IsType, PP!Joined, PP!Joins,
            PP!LiteralTags, PP!LoadOf, PP!Loop, PP!LoopOps, PP!NextArgument, PP!NextIx,
            PP!Node, PP!NopIR, PP!OpensCast, PP!Panic, PP!Push, PP!ReadPastEnd,
            PP!Result, PP!Return, PP!Returning, PP!Running, PP!StoreIR, PP!StoreOf,
            PP!Term, PP!Tok, PP!Top, PP!Type, PP!TypeNames, PP!VariableIR, PP!void_op,
            PP!Cardinality
<1> QED  BY <1>1, <1>2, <1>3, <1>4, <1>5, <1>6, <1>7, <1>8, <1>9, <1>10, <1>11, <1>12, <1>13, <1>14, <1>15, <1>16, <1>17, <1>18, <1>19, Zenon DEF P!Next, PP!Next

LEMMA SameLexer == (L!Next <=> LP!Next) /\ (L!TypeOK <=> LP!TypeOK)
<1> USE DEF L!WordChar, L!SymbolTags, L!Token, L!HasNext, L!At, L!Slice, L!RunEnd, L!BackFrom,
            L!Whole, L!HasDot, L!Fraction, L!NumberEnd, L!TwoDots, L!IsLong, L!FitsBuf, L!Turn,
            L!Push, L!Stop, L!Tags,
            LP!WordChar, LP!SymbolTags, LP!Token, LP!HasNext, LP!At, LP!Slice, LP!RunEnd,
            LP!BackFrom, LP!Whole, LP!HasDot, LP!Fraction, LP!NumberEnd, LP!TwoDots, LP!IsLong,
            LP!FitsBuf, LP!Turn, LP!Push, LP!Stop, LP!Tags
<1>1. (L!Number <=> LP!Number) /\ (L!Long <=> LP!Long) /\ (L!Word <=> LP!Word)
    BY Zenon DEF L!Number, LP!Number, L!Long, LP!Long, L!Word, LP!Word
<1>2. (L!Symbol <=> LP!Symbol) /\ (L!Blank <=> LP!Blank)
    BY Zenon DEF L!Symbol, LP!Symbol, L!Blank, LP!Blank
<1>3. (L!StringLiteral <=> LP!StringLiteral) /\ (L!Unclosed <=> LP!Unclosed)
    BY Zenon DEF L!StringLiteral, LP!StringLiteral, L!Unclosed, LP!Unclosed
<1>4. (L!BadNumber <=> LP!BadNumber) /\ (L!Overrun <=> LP!Overrun)
    BY Zenon DEF L!BadNumber, LP!BadNumber, L!Overrun, LP!Overrun
<1>5. (L!BadChar <=> LP!BadChar) /\ (L!Finish <=> LP!Finish)
    BY Zenon DEF L!BadChar, LP!BadChar, L!Finish, LP!Finish
<1>6. L!TypeOK <=> LP!TypeOK
    BY Zenon DEF L!TypeOK, LP!TypeOK
<1> QED  BY <1>1, <1>2, <1>3, <1>4, <1>5, <1>6, Zenon DEF L!Next, LP!Next

LEMMA SameAssembler ==
    /\ (A!RoundUp <=> AP!RoundUp) /\ (A!Allocate <=> AP!Allocate)
    /\ (A!TypeOK <=> AP!TypeOK)
    /\ \A v : (A!WriteStream(v) <=> AP!WriteStream(v)) /\ (A!AssertFails(v) <=> AP!AssertFails(v))
<1> USE DEF A!Doubled, A!Grows, A!NewCapacity, A!Fits, A!Buffer, A!Status,
            AP!Doubled, AP!Grows, AP!NewCapacity, AP!Fits, AP!Buffer, AP!Status
<1>1. (A!RoundUp <=> AP!RoundUp) /\ (A!Allocate <=> AP!Allocate)
    BY Zenon DEF A!RoundUp, AP!RoundUp, A!Allocate, AP!Allocate
<1>2. A!TypeOK <=> AP!TypeOK
    BY Zenon DEF A!TypeOK, AP!TypeOK
<1>3. ASSUME NEW v
      PROVE  (A!WriteStream(v) <=> AP!WriteStream(v)) /\ (A!AssertFails(v) <=> AP!AssertFails(v))
    BY Zenon DEF A!WriteStream, AP!WriteStream, A!AssertFails, AP!AssertFails
<1> QED  BY <1>1, <1>2, <1>3, Zenon

-------------------------------------------------------------------------------
(* What a tree is made of. *)

Tree == Nodes(program, Len(tokens))

\* The instructions there are.
Instruction == {OpCode[k] : k \in DOMAIN OpCode}

\* The bits of a number: those of an int, or of a long or a double.
Immediate == {h \in Seq(Halfword) : Len(h) \in {2, 4}}

\* atoi, atol and atof return a number for whatever text they are given.
Literals ==
    \A tag \in {"kInt", "kLong", "kDouble"}, text \in Seq(STRING) :
        LiteralBits(tag, text) \in Immediate

LiteralTokens ==
    \A k \in DOMAIN tokens : tokens[k].tag \in DOMAIN P!LiteralTags => tokens[k].bits \in Immediate

\* A node as both traversals find it, with children in S.
Shaped(n, S) ==
    \/ n.ir = "Binary" /\ n.op \in Instruction /\ \E l, r \in S : n.kids = <<l, r>>
    \/ n.ir = "Cast" /\ n.op \in Instruction /\ \E e \in S : n.kids = <<e>>
    \/ n.ir = "Assign" /\ \E s, e \in S : n.kids = <<s, e>>
    \/ n.ir = "Call" /\ n.kids \in Seq(S) /\ \A k \in DOMAIN n.kids : n.kids[k].type \in Type
    \/ /\ n.ir \in {"Variable", "Store"} /\ n.op \in Instruction /\ n.kids = <<>>
       /\ \E ix \in Nat : n.data = <<ix>>
    \/ n.ir = "Constant" /\ n.op \in Instruction /\ n.kids = <<>> /\ n.data \in Immediate
    \/ n.ir \in {"Definition", "Nop"} /\ n.kids = <<>>

LEMMA SameNodes ==
    ASSUME NEW irs, NEW depth
    PROVE  PP!Nodes(irs, depth) = Nodes(irs, depth)
BY Zenon DEF PP!Nodes, PP!Levels, PP!Kids, Nodes, Levels, Kids

LEMMA InstructionNames ==
    Instruction =
      {"IAdd", "ISub", "IMul", "IDiv", "IMod", "DAdd", "DSub", "DMul", "DDiv",
       "FAdd", "FSub", "FMul", "FDiv", "LAdd", "LSub", "LMul", "LDiv", "LMod",
       "IConst", "LConst", "FConst", "DConst", "LoadI", "LoadD", "LoadF", "LoadL",
       "StoreI", "StoreD", "StoreF", "StoreL", "ICastL", "ICastD", "ICastF",
       "LCastI", "LCastD", "LCastF", "FCastI", "FCastD", "FCastL",
       "DCastI", "DCastF", "DCastL", "PrintI", "PrintL", "PrintD", "PrintF",
       "Nop", "Program", "Stmt", "Def", "Done"}
<1>1. DOMAIN OpCode = 1 .. 51
    BY DEF OpCode
<1> QED  BY <1>1 DEF Instruction, OpCode

\* The tables of opcodes name instructions.
LEMMA TablesNameInstructions ==
    /\ \A t \in Type : {ConstOf[t], LoadOf[t], StoreOf[t], PrintOf[t]} \subseteq Instruction
    /\ \A t \in Type : \A c \in {"add", "sub", "mul", "div"} : BinaryOf[t][c] \in Instruction
    /\ \A f \in Type : \A t \in Type : CastOf[f][t] \in Instruction
BY InstructionNames DEF Type, ConstOf, LoadOf, StoreOf, PrintOf, BinaryOf, CastOf

\* The number of an instruction is a halfword.
LEMMA EncodesHalfword ==
    ASSUME NEW op \in Instruction
    PROVE  Encode(op) \in Halfword
<1>1. PICK k \in DOMAIN OpCode : op = OpCode[k]
    BY DEF Instruction
<1>2. DOMAIN OpCode = 1 .. 51 /\ Len(OpCode) = 51
    BY DEF OpCode
<1>3. k - 1 \in 0 .. (Len(OpCode) - 1) /\ OpCode[(k - 1) + 1] = op
    BY <1>1, <1>2
<1> DEFINE number == CHOOSE n \in 0 .. (Len(OpCode) - 1) : OpCode[n + 1] = op
<1>4. number \in 0 .. (Len(OpCode) - 1)
    BY <1>3
<1>5. Encode(op) = number
    BY DEF Encode, Number, Instruction
<1> HIDE DEF number
<1>6. Len(OpCode) - 1 = 50
    BY <1>2
<1>7. number \in 0 .. 50
    BY <1>4, <1>6
<1> QED  BY <1>5, <1>7 DEF Halfword

\* The trees of the program, once it is parsed.
LEMMA ParsedNode ==
    ASSUME PP!Base, LiteralTokens, NEW T, NEW n, PP!Built(n, T), NEW S,
           \A k \in DOMAIN n.kids : n.kids[k] \in S
    PROVE  Shaped(n, S)
<1> USE DEF PP!Node
<1>1. ASSUME NEW ix \in Nat, NEW t \in Type, n = PP!VariableIR(ix, t) \/ n = PP!StoreIR(ix, t)
      PROVE  Shaped(n, S)
    <2>1. PP!LoadOf = LoadOf /\ PP!StoreOf = StoreOf
        BY DEF PP!LoadOf, PP!StoreOf, LoadOf, StoreOf
    <2>2. CASE n = PP!VariableIR(ix, t)
        <3>1. n.ir = "Variable" /\ n.op = LoadOf[t] /\ n.kids = <<>> /\ n.data = <<ix>>
            BY <2>1, <2>2, Zenon DEF PP!VariableIR
        <3> QED  BY <3>1, TablesNameInstructions DEF Shaped
    <2>3. CASE n = PP!StoreIR(ix, t)
        <3>1. n.ir = "Store" /\ n.op = StoreOf[t] /\ n.kids = <<>> /\ n.data = <<ix>>
            BY <2>1, <2>3, Zenon DEF PP!StoreIR
        <3> QED  BY <3>1, TablesNameInstructions DEF Shaped
    <2> QED  BY <1>1, <2>2, <2>3
<1>2. ASSUME NEW k \in DOMAIN tokens, tokens[k].tag \in DOMAIN PP!LiteralTags,
             n = PP!Constant(PP!LiteralTags[tokens[k].tag], tokens[k].bits)
      PROVE  Shaped(n, S)
    <2>1. tokens[k].bits \in Immediate
        BY <1>2 DEF LiteralTokens, P!LiteralTags, PP!LiteralTags
    <2>2. PICK t \in Type : t = PP!LiteralTags[tokens[k].tag]
        BY <1>2 DEF PP!LiteralTags, Type
    <2>3. n.ir = "Constant" /\ n.op = ConstOf[t] /\ n.kids = <<>> /\ n.data = tokens[k].bits
        BY <1>2, <2>2, Zenon DEF PP!Constant, PP!ConstOf, ConstOf
    <2> QED  BY <2>1, <2>3, TablesNameInstructions DEF Shaped
<1>3. ASSUME NEW c \in {"add", "sub", "mul", "div"}, NEW l \in T, NEW r \in T,
             l.type \in PP!Type, n = PP!BinaryIR(c, l, r)
      PROVE  Shaped(n, S)
    <2>1. n.ir = "Binary" /\ n.op = BinaryOf[l.type][c] /\ n.kids = <<l, r>>
        BY <1>3, Zenon DEF PP!BinaryIR, PP!BinaryOf, BinaryOf
    <2>2. l \in S /\ r \in S
        BY <2>1
    <2>3. n.op \in Instruction
        BY <1>3, <2>1, TablesNameInstructions DEF PP!Type, Type
    <2> QED  BY <2>1, <2>2, <2>3 DEF Shaped
<1>4. ASSUME NEW t \in PP!Type, NEW e \in T, e.type \in PP!Type, n = PP!CastIR(t, e)
      PROVE  Shaped(n, S)
    <2>1. n.ir = "Cast" /\ n.op = CastOf[e.type][t] /\ n.kids = <<e>>
        BY <1>4, Zenon DEF PP!CastIR, PP!CastOf, CastOf
    <2>2. e \in S
        BY <2>1
    <2>3. n.op \in Instruction
        BY <1>4, <2>1, TablesNameInstructions DEF PP!Type, Type
    <2> QED  BY <2>1, <2>2, <2>3 DEF Shaped
<1>5. ASSUME NEW s \in T, NEW e \in T, n = PP!AssignStmtIR(s, e)
      PROVE  Shaped(n, S)
    <2>1. n.ir = "Assign" /\ n.kids = <<s, e>>
        BY <1>5, Zenon DEF PP!AssignStmtIR
    <2>2. s \in S /\ e \in S
        BY <2>1
    <2> QED  BY <2>1, <2>2 DEF Shaped
<1>6. ASSUME NEW ix, NEW t, n = PP!DefinitionIR(ix, t) \/ n = PP!NopIR
      PROVE  Shaped(n, S)
    BY <1>6 DEF Shaped, PP!DefinitionIR, PP!NopIR
<1>7. ASSUME NEW name, NEW args \in Seq(T),
             \A k \in DOMAIN args : args[k].type \in PP!Type, n = PP!FunctionCallIR(name, args)
      PROVE  Shaped(n, S)
    <2>1. n.ir = "Call" /\ n.kids = args
        BY <1>7, Zenon DEF PP!FunctionCallIR
    <2>2. n.kids \in Seq(S)
        BY <2>1
    <2>3. \A k \in DOMAIN n.kids : n.kids[k].type \in Type
        BY <1>7, <2>1 DEF PP!Type, Type
    <2> QED  BY <2>1, <2>2, <2>3 DEF Shaped
<1> QED
    <2> HIDE DEF PP!Node
    <2>1. PP!Type = Type
        BY DEF PP!Type, Type
    <2> QED  BY <1>1, <1>2, <1>3, <1>4, <1>5, <1>6, <1>7, <2>1 DEF PP!Built

\* A rank for each node, above those of its children.
Ranks(R, rank) ==
    /\ R \in Nat /\ rank \in [Tree -> 1 .. R]
    /\ \A n \in Tree : \A k \in DOMAIN n.kids : n.kids[k] \in Tree /\ rank[n.kids[k]] < rank[n]

LEMMA ParsedTree ==
    ASSUME PP!Inv, PP!Ranked, LiteralTokens
    PROVE  /\ program \in Seq(Tree)
           /\ \A n \in Tree : Shaped(n, Tree)
           /\ \E R, rank : Ranks(R, rank)
<1>1. PP!Base
    BY Zenon DEF PP!Inv
<1>2. PICK T : PP!Sound(T) /\ PP!Holds(T)
    BY Zenon DEF PP!Inv
<1>3. PICK U, N, r : PP!Deep(U, N, r)
    BY Zenon DEF PP!Ranked
<1>4. PP!Tower(U, N, r) /\ program \in Seq(U) /\ N \in Nat /\ N <= pos
    BY <1>1, <1>3, PP!DeepState
<1>5. Len(tokens) \in Nat /\ N <= Len(tokens) + 1
    BY <1>1, <1>4 DEF PP!Base
<1>6. /\ \A k \in DOMAIN program : program[k] \in Tree
      /\ \A n \in Tree : n \in U /\ \A k \in DOMAIN n.kids : n.kids[k] \in Tree
    BY <1>4, <1>5, PP!NodesClosed, SameNodes DEF Tree
<1>7. program \in Seq(Tree)
    BY <1>4, <1>6
<1>8. \A n \in Tree : n \in T
    <2>1. program \in Seq(T)
        BY <1>2, Zenon DEF PP!Holds
    <2>2. PP!NodesOf(program) \subseteq T
        BY <1>1, <1>2, <2>1, PP!StatementsWithin
    <2> QED  BY <2>2, SameNodes DEF Tree, PP!NodesOf
<1>9. \A n \in Tree : Shaped(n, Tree)
    <2> SUFFICES ASSUME NEW n \in Tree PROVE Shaped(n, Tree)
        OBVIOUS
    <2>1. PP!Built(n, T)
        BY <1>2, <1>8 DEF PP!Sound
    <2> QED  BY <1>1, <1>6, <2>1, ParsedNode
<1>10. \E R, rank : Ranks(R, rank)
    <2>1. /\ \A n \in U : r[n] \in 1 .. N
          /\ \A n \in U : \A k \in DOMAIN n.kids : r[n.kids[k]] < r[n]
        BY <1>4 DEF PP!Tower
    <2>2. PICK rank : rank = [n \in Tree |-> r[n]]
        OBVIOUS
    <2>3. Ranks(N, rank)
        BY <1>4, <1>6, <2>1, <2>2 DEF Ranks
    <2> QED  BY <2>3
<1> QED  BY <1>7, <1>9, <1>10

-------------------------------------------------------------------------------
(* What Emit writes for a node. *)

\* What one call of WriteStream is given, in halfwords.
Chunk == {v \in Seq(Halfword) : Len(v) \in 1 .. 4}

\* Halfwords go to memory and come back.
LEMMA BytesOf ==
    ASSUME NEW v \in Seq(Halfword)
    PROVE  /\ Bytes(v) \in Seq(Byte) /\ Len(Bytes(v)) = 2 * Len(v)
           /\ \A k \in 1 .. Len(v) : Bytes(v)[2 * k - 1] + 256 * Bytes(v)[2 * k] = v[k]
<1>1. Len(v) \in Nat /\ \A k \in 1 .. Len(v) : v[k] \in Halfword
    OBVIOUS
<1> DEFINE n == 2 * Len(v)
           byte(k) == IF k % 2 = 1 THEN v[(k + 1) \div 2] % 256 ELSE v[k \div 2] \div 256
<1>2. n \in Nat
    BY <1>1
<1>3. \A k \in 1 .. n : byte(k) \in Byte
    <2> SUFFICES ASSUME NEW k \in 1 .. n PROVE byte(k) \in Byte
        OBVIOUS
    <2>1. CASE k % 2 = 1
        <3>1. (k + 1) \div 2 \in 1 .. Len(v)
            BY <1>1, <2>1
        <3>2. PICK h \in Halfword : h = v[(k + 1) \div 2]
            BY <1>1, <3>1
        <3>3. h % 256 \in Byte
            BY DEF Halfword, Byte
        <3> QED  BY <2>1, <3>2, <3>3
    <2>2. CASE k % 2 # 1
        <3>1. k \div 2 \in 1 .. Len(v)
            BY <1>1, <2>2
        <3>2. PICK h \in Halfword : h = v[k \div 2]
            BY <1>1, <3>1
        <3>3. h \div 256 \in Byte
            BY DEF Halfword, Byte
        <3> QED  BY <2>2, <3>2, <3>3
    <2> QED  BY <2>1, <2>2
<1>4. Bytes(v) = [k \in 1 .. n |-> byte(k)]
    BY DEF Bytes
<1>5. ASSUME NEW k \in 1 .. Len(v) PROVE byte(2 * k - 1) + 256 * byte(2 * k) = v[k]
    <2>1. /\ (2 * k - 1) % 2 = 1 /\ ((2 * k - 1) + 1) \div 2 = k
          /\ (2 * k) % 2 = 0 /\ (2 * k) \div 2 = k
        BY <1>1
    <2>2. byte(2 * k - 1) = v[k] % 256 /\ byte(2 * k) = v[k] \div 256
        BY <2>1
    <2>3. PICK h \in Halfword : h = v[k]
        BY <1>1
    <2>4. (h % 256) + 256 * (h \div 256) = h
        BY DEF Halfword
    <2> HIDE DEF byte
    <2> QED  BY <2>2, <2>3, <2>4
<1> HIDE DEF n, byte
<1>6. Bytes(v) \in Seq(Byte) /\ Len(Bytes(v)) = n /\ \A k \in 1 .. n : Bytes(v)[k] = byte(k)
    BY <1>2, <1>3, <1>4
<1>7. n = 2 * Len(v)
    BY DEF n
<1>8. \A k \in 1 .. Len(v) : 2 * k - 1 \in 1 .. n /\ 2 * k \in 1 .. n
    BY <1>1, <1>7
<1>9. \A k \in 1 .. Len(v) : Bytes(v)[2 * k - 1] = byte(2 * k - 1) /\ Bytes(v)[2 * k] = byte(2 * k)
    BY <1>6, <1>8
<1> QED  BY <1>5, <1>6, <1>7, <1>9

\* A chunk is a value for the assembler.
LEMMA ChunkBytes ==
    ASSUME NEW v \in Chunk
    PROVE  Bytes(v) \in Value
<1>1. v \in Seq(Halfword) /\ Len(v) \in 1 .. 4
    BY DEF Chunk
<1>2. Bytes(v) \in Seq(Byte) /\ Len(Bytes(v)) = 2 * Len(v)
    BY <1>1, BytesOf
<1>3. PICK m \in 1 .. 4 : m = Len(v)
    BY <1>1
<1>4. 2 * m \in 2 .. 8
    OBVIOUS
<1> QED  BY <1>2, <1>3, <1>4 DEF Value

LEMMA IndexHalfword ==
    ASSUME NEW ix \in Nat
    PROVE  Index(ix) \in Halfword
<1>1. PICK m \in Nat \ {0} : m = 2^IxBits /\ m <= 65536
    BY IxBitsAssumption
<1>2. ix % m \in Nat /\ ix % m < m
    OBVIOUS
<1>3. ix % m \in Halfword
    BY <1>1, <1>2 DEF Halfword
<1> QED  BY <1>1, <1>3 DEF Index

\* One or two chunks for a node, or nothing.
LEMMA WritesChunks ==
    ASSUME NEW S, NEW n, Shaped(n, S) \/ n.ir = "Program", n.ir = "Call" => Len(n.kids) = 1
    PROVE  /\ Writes(n) \in Seq(Chunk)
           /\ Len(Writes(n)) \in 0 .. 2
<1>1. \A h \in Halfword : <<h>> \in Chunk
    <2> SUFFICES ASSUME NEW h \in Halfword PROVE <<h>> \in Chunk
        OBVIOUS
    <2>1. <<h>> \in Seq(Halfword) /\ Len(<<h>>) = 1
        OBVIOUS
    <2> QED  BY <2>1 DEF Chunk
<1>2. Immediate \subseteq Chunk
    BY DEF Immediate, Chunk
<1> DEFINE Good(w) == w \in Seq(Chunk) /\ Len(w) \in 0 .. 2
<1>3. Good(<<>>) /\ (\A a \in Chunk : Good(<<a>>)) /\ \A a, b \in Chunk : Good(<<a, b>>)
    <2>1. <<>> \in Seq(Chunk) /\ Len(<<>>) = 0
        OBVIOUS
    <2>2. ASSUME NEW a \in Chunk PROVE <<a>> \in Seq(Chunk) /\ Len(<<a>>) = 1
        OBVIOUS
    <2>3. ASSUME NEW a \in Chunk, NEW b \in Chunk
          PROVE  <<a, b>> \in Seq(Chunk) /\ Len(<<a, b>>) = 2
        OBVIOUS
    <2> QED  BY <2>1, <2>2, <2>3
<1> HIDE DEF Good
<1>4. CASE n.ir \in {"Binary", "Cast"}
    <2>1. n.op \in Instruction
        BY <1>4 DEF Shaped
    <2>2. Writes(n) = <<<<Encode(n.op)>>>>
        BY <1>4 DEF Writes
    <2> QED  BY <2>1, <2>2, <1>1, <1>3, EncodesHalfword DEF Good
<1>5. CASE n.ir \in {"Variable", "Store"}
    <2>1. n.op \in Instruction /\ \E ix \in Nat : n.data = <<ix>>
        BY <1>5 DEF Shaped
    <2>2. Writes(n) = <<<<Encode(n.op)>>, <<Index(n.data[1])>>>>
        BY <1>5 DEF Writes
    <2>3. Index(n.data[1]) \in Halfword
        BY <2>1, IndexHalfword
    <2> QED  BY <2>1, <2>2, <2>3, <1>1, <1>3, EncodesHalfword DEF Good
<1>6. CASE n.ir = "Constant"
    <2>1. n.op \in Instruction /\ n.data \in Immediate
        BY <1>6 DEF Shaped
    <2>2. Writes(n) = <<<<Encode(n.op)>>, n.data>>
        BY <1>6 DEF Writes
    <2> QED  BY <2>1, <2>2, <1>1, <1>2, <1>3, EncodesHalfword DEF Good
<1>7. CASE n.ir = "Call"
    <2>1. n.kids[1].type \in Type /\ Len(n.kids) = 1
        BY <1>7 DEF Shaped
    <2>2. Writes(n) = <<<<Encode(PrintOf[n.kids[1].type])>>, <<Len(n.kids)>>>>
        BY <1>7 DEF Writes
    <2>3. PrintOf[n.kids[1].type] \in Instruction
        BY <2>1, TablesNameInstructions
    <2>4. Len(n.kids) \in Halfword
        BY <2>1 DEF Halfword
    <2> QED  BY <2>2, <2>3, <2>4, <1>1, <1>3, EncodesHalfword DEF Good
<1>8. CASE n.ir = "Program"
    <2>1. Writes(n) = <<<<Encode("Done")>>>>
        BY <1>8 DEF Writes
    <2>2. "Done" \in Instruction
        BY InstructionNames
    <2> QED  BY <2>1, <2>2, <1>1, <1>3, EncodesHalfword DEF Good
<1>9. CASE n.ir \notin {"Binary", "Cast", "Variable", "Store", "Constant", "Call", "Program"}
    <2>1. Writes(n) = <<>>
        BY <1>9 DEF Writes
    <2> QED  BY <2>1, <1>3 DEF Good
<1> QED  BY <1>4, <1>5, <1>6, <1>7, <1>8, <1>9

-------------------------------------------------------------------------------
(* The steps of the program, by what they leave alone. *)

others == <<configVars, runVars>>

ReadsOn ==
    /\ stage = "arguments" /\ stage' = "arguments"
    /\ UNCHANGED <<compilerVars, runVars>>

\* The program ends, or is undefined from here on.
Stops ==
    /\ stage' \in Endings
    /\ UNCHANGED <<lexerVars, parserVars, assemblerVars, work, values, image, others>>

Opens ==
    /\ stage = "arguments" /\ stage' = "lexing"
    /\ argv[1] \in DOMAIN Files /\ input' = Files[argv[1]]
    /\ UNCHANGED <<cur, lexed, lexing, parserVars, assemblerVars, work, values, image, others>>

\* Dump or Emit leaves a node whose children it has visited.
DumpLeaves ==
    /\ stage = "dumping" /\ stage' = "dumping"
    /\ work # <<>> /\ values = <<>> /\ Visited
    /\ ~DumpPanics(Here) /\ ~(Here.ir = "Call" /\ Here.data # <<"print">>)
    /\ work' = Tail(work)
    /\ UNCHANGED <<lexerVars, parserVars, assemblerVars, values, image, others>>

EmitLeaves ==
    /\ stage = "emitting" /\ stage' = "emitting"
    /\ work # <<>> /\ values = <<>> /\ Visited
    /\ work' = Tail(work) /\ values' = Writes(Here)
    /\ UNCHANGED <<lexerVars, parserVars, assemblerVars, image, others>>

\* Either enters a node: what it goes on for.
Enters ==
    /\ stage \in {"dumping", "emitting"} /\ stage' = stage
    /\ work # <<>> /\ values = <<>> /\ ~Visited
    /\ stage = "dumping" => ~(Here.ir = "Call" /\ Here.kids = <<>>)
    /\ stage = "emitting" => ~(Here.ir = "Call" /\ (Here.data # <<"print">> \/ Len(Here.kids) # 1))
    /\ Descend
    /\ UNCHANGED <<lexerVars, parserVars, assemblerVars, values, image, others>>

\* What Dump and Emit stop at.
DumpStops ==
    /\ stage = "dumping" /\ work # <<>> /\ values = <<>>
    /\ \/ ~Visited /\ Here.ir = "Call" /\ Here.kids = <<>>
       \/ Visited /\ DumpPanics(Here)
       \/ Visited /\ Here.ir = "Call" /\ Here.data # <<"print">>
    /\ Stops

EmitStops ==
    /\ stage = "emitting" /\ work # <<>> /\ values = <<>>
    /\ ~Visited /\ Here.ir = "Call" /\ (Here.data # <<"print">> \/ Len(Here.kids) # 1)
    /\ Stops

LEMMA DumpSteps ==
    ASSUME DumpVisit, UNCHANGED others
    PROVE  DumpLeaves \/ DumpStops \/ Enters
<1>1. /\ stage = "dumping" /\ work # <<>> /\ values = <<>>
      /\ UNCHANGED <<lexerVars, parserVars, assemblerVars, values, image>>
    BY DEF DumpVisit, Visiting
<1>2. CASE ~Visited /\ Here.ir = "Call" /\ Here.kids = <<>>
    <2>1. stage' = "wild" /\ work' = work
        BY <1>2 DEF DumpVisit, Goes
    <2> QED  BY <1>1, <1>2, <2>1 DEF DumpStops, Stops, Endings
<1>3. CASE ~Visited /\ ~(Here.ir = "Call" /\ Here.kids = <<>>)
    <2>1. stage' = stage /\ Descend
        BY <1>3, Zenon DEF DumpVisit
    <2> QED  BY <1>1, <1>3, <2>1 DEF Enters
<1>4. CASE Visited /\ DumpPanics(Here)
    <2>1. Here.ir # "Call"
        BY <1>4 DEF DumpPanics
    <2>2. stage' = "panicked" /\ work' = work
        BY <1>4, <2>1 DEF DumpVisit, Goes
    <2> QED  BY <1>1, <1>4, <2>2 DEF DumpStops, Stops, Endings
<1>5. CASE Visited /\ ~DumpPanics(Here) /\ Here.ir = "Call" /\ Here.data # <<"print">>
    <2>1. stage' = "aborted" /\ work' = work
        BY <1>5 DEF DumpVisit, Goes
    <2> QED  BY <1>1, <1>5, <2>1 DEF DumpStops, Stops, Endings
<1>6. CASE Visited /\ ~DumpPanics(Here) /\ ~(Here.ir = "Call" /\ Here.data # <<"print">>)
    <2>1. stage' = stage /\ work' = Tail(work)
        BY <1>6 DEF DumpVisit
    <2> QED  BY <1>1, <1>6, <2>1 DEF DumpLeaves
<1> QED  BY <1>2, <1>3, <1>4, <1>5, <1>6

LEMMA EmitSteps ==
    ASSUME EmitVisit, UNCHANGED others
    PROVE  EmitLeaves \/ EmitStops \/ Enters
<1>1. /\ stage = "emitting" /\ work # <<>> /\ values = <<>>
      /\ UNCHANGED <<lexerVars, parserVars, assemblerVars, image>>
    BY DEF EmitVisit, Visiting
<1> DEFINE Refused == Here.ir = "Call" /\ (Here.data # <<"print">> \/ Len(Here.kids) # 1)
<1>2. CASE Visited
    <2>1. stage' = stage /\ work' = Tail(work) /\ values' = Writes(Here)
        BY <1>2 DEF EmitVisit
    <2> QED  BY <1>1, <1>2, <2>1 DEF EmitLeaves
<1>3. CASE ~Visited /\ Refused
    <2>1. stage' = "panicked" /\ work' = work /\ values' = values
        BY <1>3 DEF EmitVisit, Goes
    <2> QED  BY <1>1, <1>3, <2>1 DEF EmitStops, Stops, Endings
<1>4. CASE ~Visited /\ ~Refused
    <2>1. stage' = stage /\ values' = values /\ Descend
        BY <1>4, Zenon DEF EmitVisit
    <2> QED  BY <1>1, <1>4, <2>1 DEF Enters
<1> QED  BY <1>2, <1>3, <1>4

\* The constructors of the interpreters, and their steps.
Runs ==
    /\ StartByteCode \/ StartAsm \/ RunByteCode \/ RunAsm
    /\ stage \in {"compiled", "bytecode", "asm"} /\ stage' \in {"bytecode", "asm"}
    /\ UNCHANGED <<lexerVars, parserVars, assemblerVars, work, values, image, configVars>>

Steps ==
    \/ ReadsOn /\ (ReadName \/ ReadOption)
    \/ Stops /\ stage = "arguments"
    \/ Opens
    \/ DumpLeaves \/ EmitLeaves \/ Enters \/ DumpStops \/ EmitStops
    \/ /\ UNCHANGED others
       /\ Lex \/ BeginParse \/ Parse \/ BeginDump \/ BeginEmit \/ Allocate \/ Write
          \/ WriteAborts \/ CopyOut
    \/ Runs

LEMMA NextSteps == Next => Steps
<1> SUFFICES ASSUME Next PROVE Steps
    OBVIOUS
<1>1. CASE ReadName \/ ReadOption
    <2>1. ReadsOn
        BY <1>1 DEF ReadName, ReadOption, ReadsArgument, ReadsOn, compilerVars
    <2> QED  BY <1>1, <2>1 DEF Steps
<1>2. CASE ReadHelp \/ BadArguments
    <2>1. stage = "arguments" /\ stage' \in Endings
        BY <1>2 DEF ReadHelp, BadArguments, ReadsArgument, Goes, Endings
    <2>2. Stops
        BY <1>2, <2>1 DEF ReadHelp, BadArguments, Stops, others
    <2> QED  BY <2>1, <2>2 DEF Steps
<1>3. CASE StartCompile
    <2>1. /\ stage = "arguments"
          /\ UNCHANGED <<cur, lexed, lexing, parserVars, assemblerVars, work, values, image, others>>
        BY <1>3 DEF StartCompile, Open, others
    <2>2. CASE argv[1] \in DOMAIN Files
        <3>1. input' = Files[argv[1]] /\ stage' = "lexing"
            BY <1>3, <2>2 DEF StartCompile, Open, Goes
        <3> QED  BY <2>1, <2>2, <3>1 DEF Steps, Opens
    <2>3. CASE argv[1] \notin DOMAIN Files
        <3>1. input' = input /\ stage' = "wild"
            BY <1>3, <2>3 DEF StartCompile, Open, Goes
        <3> QED  BY <2>1, <3>1 DEF Steps, Stops, Endings, lexerVars
    <2> QED  BY <2>2, <2>3
<1>4. CASE CompileStep
    <2>1. UNCHANGED others
        BY <1>4 DEF CompileStep, others
    <2>2. CASE DumpVisit
        BY <2>1, <2>2, DumpSteps, Zenon DEF Steps
    <2>3. CASE EmitVisit
        BY <2>1, <2>3, EmitSteps, Zenon DEF Steps
    <2> QED  BY <1>4, <2>1, <2>2, <2>3, Zenon DEF CompileStep, Compile, Steps
<1>5. CASE StartByteCode \/ StartAsm
    <2>1. Runs
        BY <1>5 DEF StartByteCode, StartAsm, Start, Goes, Runs
    <2> QED  BY <2>1 DEF Steps
<1>6. CASE RunByteCode
    <2>1. stage = "bytecode" /\ UNCHANGED <<compilerVars, configVars>>
        BY <1>6 DEF RunByteCode
    <2>2. Runs
        BY <1>6, <2>1 DEF Runs, compilerVars
    <2> QED  BY <2>2 DEF Steps
<1>7. CASE RunAsm
    <2>1. stage = "asm" /\ UNCHANGED <<compilerVars, configVars>>
        BY <1>7 DEF RunAsm
    <2>2. Runs
        BY <1>7, <2>1 DEF Runs, compilerVars
    <2> QED  BY <2>2 DEF Steps
<1> QED  BY <1>1, <1>2, <1>3, <1>4, <1>5, <1>6, <1>7, Zenon DEF Next

-------------------------------------------------------------------------------
(* The invariant, part by part: a part has the invariant of its own proofs   *)
(* while it runs, and waits in its initial state before that.                *)

StageInv ==
    /\ stage \in {"arguments", "lexing", "parsing", "dumping", "allocating",
                  "emitting", "compiled", "bytecode", "asm"} \cup Endings
    /\ argv \in Seq(STRING) /\ arg \in 1 .. (Len(argv) + 1)
    /\ filename \in SourceNames \cup {""}
    /\ use_asm \in BOOLEAN

LexerInv ==
    /\ stage = "arguments" => (cur = 0 /\ lexed = <<>> /\ lexing = "running")
    /\ stage = "lexing" => LP!TypeOK

ParserInv ==
    /\ stage \in {"arguments", "lexing"} => PP!Fresh
    /\ PP!Inv /\ PP!Ranked /\ LiteralTokens

AssemblerInv ==
    /\ AP!Inv /\ want = CodeCapacity
    /\ stage \in {"arguments", "lexing", "parsing", "dumping", "allocating"} => writing = "rounding"
    /\ stage = "emitting" => writing = "open"

\* What is left to visit is nodes of the program, or the program itself, and
\* what is left to write is chunks; a call that Emit has entered has one
\* argument.
Item == [node : Tree \cup {ProgramIR(program)}, visited : BOOLEAN]

WalkInv ==
    /\ stage \in {"arguments", "lexing", "parsing"} => work = <<>>
    /\ stage \in {"dumping", "allocating", "emitting"} => work \in Seq(Item)
    /\ stage = "allocating" => work = Root
    /\ stage = "emitting" =>
          \A k \in DOMAIN work :
              (work[k].visited /\ work[k].node.ir = "Call") => Len(work[k].node.kids) = 1
    /\ values \in Seq(Chunk)
    /\ stage \in {"arguments", "lexing", "parsing", "dumping", "allocating"} => values = <<>>

ImageInv == image.code \in Seq(Halfword) /\ image.vars \in Nat

TopInv ==
    /\ top \in 0 .. StackSlots
    /\ stage \notin {"bytecode", "asm"} => top = 0

CInv == StageInv /\ LexerInv /\ ParserInv /\ AssemblerInv /\ WalkInv /\ ImageInv /\ TopInv

-------------------------------------------------------------------------------
(* The arguments and the lexer. *)

LEMMA StageStep == StageInv /\ Next => StageInv'
<1> SUFFICES ASSUME StageInv, Next PROVE StageInv'
    OBVIOUS
<1>1. Steps
    BY NextSteps
<1>0. Len(argv) \in Nat /\ arg \in 1 .. (Len(argv) + 1)
    <2>1. argv \in Seq(STRING) /\ arg \in 1 .. (Len(argv) + 1)
        BY Zenon DEF StageInv
    <2> QED  BY <2>1
<1>2. CASE ReadsOn /\ ReadName
    <2>1. /\ arg <= Len(argv) /\ argv[arg] \in SourceNames /\ filename' = argv[arg]
          /\ arg' = arg + 1 /\ argv' = argv /\ use_asm' = use_asm /\ stage' = stage
        BY <1>2 DEF ReadName, ReadsArgument, ReadsOn
    <2>2. arg' \in 1 .. (Len(argv') + 1)
        BY <1>0, <2>1
    <2>3. filename' \in SourceNames \cup {""}
        BY <2>1
    <2> QED  BY <2>1, <2>2, <2>3 DEF StageInv
<1>3. CASE ReadsOn /\ ReadOption
    <2>1. /\ arg <= Len(argv) /\ arg' = arg + 1 /\ argv' = argv /\ filename' = filename
          /\ stage' = stage /\ use_asm' \in BOOLEAN
        <3>1. use_asm \in BOOLEAN
            BY DEF StageInv
        <3> QED  BY <1>3, <3>1, Zenon DEF ReadOption, ReadsArgument, ReadsOn
    <2>2. arg' \in 1 .. (Len(argv') + 1)
        BY <1>0, <2>1
    <2> QED  BY <2>1, <2>2 DEF StageInv
<1>4. UNCHANGED configVars
      /\ stage' \in {"lexing", "parsing", "dumping", "allocating",
                     "emitting", "compiled", "bytecode", "asm"} \cup Endings
      => StageInv'
    BY DEF StageInv, configVars
<1>5. CASE Stops \/ Opens \/ DumpLeaves \/ EmitLeaves \/ Enters \/ DumpStops \/ EmitStops \/ Runs
    BY <1>4, <1>5 DEF Stops, Opens, DumpLeaves, EmitLeaves, Enters, DumpStops, EmitStops, Runs, others
<1>6. CASE /\ UNCHANGED others
           /\ Lex \/ BeginParse \/ Parse \/ BeginDump \/ BeginEmit \/ Allocate \/ Write
              \/ WriteAborts \/ CopyOut
    BY <1>4, <1>6 DEF others, Lex, BeginParse, Parse, BeginDump, BeginEmit, Allocate, Write,
                      WriteAborts, CopyOut, Goes, Endings
<1> QED  BY <1>1, <1>2, <1>3, <1>5, <1>6, Zenon DEF Steps

LEMMA LexerStep == LexerInv /\ Next => LexerInv'
<1> SUFFICES ASSUME LexerInv, Next PROVE LexerInv'
    OBVIOUS
<1>1. Steps
    BY NextSteps
<1>2. CASE ReadsOn
    BY <1>2 DEF ReadsOn, LexerInv, compilerVars, lexerVars
<1>3. CASE Opens
    <2>1. /\ input' = Files[argv[1]] /\ cur' = 0 /\ lexed' = <<>> /\ lexing' = "running"
          /\ stage' = "lexing" /\ argv[1] \in DOMAIN Files
        BY <1>3 DEF Opens, LexerInv
    <2>2. PICK text \in Seq(STRING) : input' = text
        BY <2>1, FilesAssumption
    <2>3. Len(text) \in Nat /\ <<>> \in Seq([tag : LP!Tags, text : Seq(STRING)]) /\ Len(<<>>) = 0
        OBVIOUS
    <2>4. MaxTokens \in Nat
        BY LexerAssumption
    <2>5. LP!TypeOK'
        BY <2>1, <2>2, <2>3, <2>4 DEF LP!TypeOK
    <2> QED  BY <2>1, <2>5 DEF LexerInv
<1>4. CASE Lex
    <2>1. stage = "lexing" /\ stage' = "lexing" /\ LP!Next
        BY <1>4, SameLexer DEF Lex
    <2>2. LP!TypeOK
        BY <2>1 DEF LexerInv
    <2>3. LP!TypeOK'
        BY <2>1, <2>2, LP!StepAdvances, LexerAssumption
    <2> QED  BY <2>1, <2>3 DEF LexerInv
<1>5. stage' \notin {"arguments", "lexing"} => LexerInv'
    BY DEF LexerInv
<1>6. CASE Stops \/ DumpLeaves \/ EmitLeaves \/ Enters \/ DumpStops \/ EmitStops \/ Runs
    BY <1>5, <1>6 DEF Stops, DumpLeaves, EmitLeaves, Enters, DumpStops, EmitStops, Runs, Endings
<1>7. CASE BeginParse \/ Parse \/ BeginDump \/ BeginEmit \/ Allocate \/ Write \/ WriteAborts \/ CopyOut
    BY <1>5, <1>7 DEF BeginParse, Parse, BeginDump, BeginEmit, Allocate, Write,
                      WriteAborts, CopyOut, Goes
<1> QED  BY <1>1, <1>2, <1>3, <1>4, <1>6, <1>7, Zenon DEF Steps

-------------------------------------------------------------------------------
(* The parser. *)

LEMMA FreshParser == PP!Fresh => PP!Inv /\ PP!Ranked
BY PP!InvFresh, PP!RankedFresh

LEMMA FreshParserNext == PP!Fresh' => PP!Inv' /\ PP!Ranked'
BY FreshParser, PTL

\* The tokens of a number have the bits that atoi, atol or atof returns.
LEMMA TokensOfLexed ==
    ASSUME Literals, LP!TypeOK, BeginParse
    PROVE  PP!Fresh => PP!Fresh' /\ LiteralTokens'
<1>1. PICK list : list = lexed
    OBVIOUS
<1> DEFINE Lexeme == [tag : LP!Tags, text : Seq(STRING)]
<1>0. list \in Seq(Lexeme) /\ \A k \in DOMAIN list : list[k] \in Lexeme
    <2>1. list \in Seq(Lexeme)
        BY <1>1, Zenon DEF LP!TypeOK
    <2> HIDE DEF Lexeme
    <2> QED  BY <2>1
<1>2. tokens' = [k \in DOMAIN list |-> ADT(list[k])]
    BY <1>1, Zenon DEF BeginParse
<1>3. (tokens \in Seq(PP!Token))'
    <2>1. DOMAIN list = 1 .. Len(list) /\ Len(list) \in Nat
        BY <1>0
    <2> DEFINE T == {tokens'[k] : k \in DOMAIN tokens'}
    <2>2. tokens' \in Seq(T)
        BY <1>2, <2>1
    <2> QED  BY <2>2 DEF PP!Token
<1>4. LiteralTokens'
    <2> SUFFICES ASSUME NEW k \in DOMAIN list, tokens'[k].tag \in DOMAIN P!LiteralTags
                 PROVE  tokens'[k].bits \in Immediate
        BY <1>2 DEF LiteralTokens
    <2>1. PICK t \in Lexeme : t = list[k]
        BY <1>0
    <2>2. tokens'[k] = ADT(t)
        BY <1>2, <2>1
    <2>3. t.tag \in LP!Tags /\ t.text \in Seq(STRING)
        OBVIOUS
    <2>4. /\ ADT(t).tag = t.tag
          /\ t.tag \in {"kInt", "kLong", "kDouble"} => ADT(t).bits = LiteralBits(t.tag, t.text)
        BY DEF ADT
    <2>5. DOMAIN P!LiteralTags = {"kInt", "kFloat", "kLong", "kDouble"}
        BY DEF P!LiteralTags
    <2>6. t.tag \in {"kInt", "kLong", "kDouble"}
        <3>1. \A s \in LP!SymbolTags : s[2] # "kFloat"
            <4> DEFINE T == {"kLBrace", "kRBrace", "kLParentheses", "kRParentheses", "kPlus",
                             "kMinus", "kMul", "kDiv", "kEq", "kSemicolon", "kComma"}
            <4>1. \A s \in LP!SymbolTags : \E c : \E t1 \in T : s = <<c, t1>>
                BY Zenon DEF LP!SymbolTags
            <4>2. "kFloat" \notin T
                OBVIOUS
            <4> HIDE DEF T
            <4> QED  BY <4>1, <4>2
        <3>2. t.tag # "kFloat"
            BY <2>3, <3>1 DEF LP!Tags
        <3> QED  BY <2>2, <2>4, <2>5, <3>2
    <2> QED  BY <2>2, <2>3, <2>4, <2>6 DEF Literals
<1>5. PP!Fresh => PP!Fresh'
    <2>1. UNCHANGED <<pos, table, program, frames, value, parsing>>
        BY DEF BeginParse
    <2> QED  BY <1>3, <2>1 DEF PP!Fresh
<1> QED  BY <1>4, <1>5

LEMMA ParserStep == Literals /\ LexerInv /\ ParserInv /\ Next => ParserInv'
<1> SUFFICES ASSUME Literals, LexerInv, ParserInv, Next PROVE ParserInv'
    OBVIOUS
<1>1. Steps
    BY NextSteps
<1>2. ASSUME UNCHANGED parserVars PROVE PP!Inv' /\ PP!Ranked' /\ LiteralTokens'
    <2>1. [PP!Next]_(PP!vars)
        BY <1>2 DEF parserVars, PP!vars
    <2>2. PP!Inv' /\ PP!Ranked'
        BY <2>1, PP!InvStep, PP!RankedStep DEF ParserInv
    <2> QED  BY <1>2, <2>2 DEF ParserInv, LiteralTokens, parserVars
<1>3. (stage' \in {"arguments", "lexing"} => stage \in {"arguments", "lexing"}) /\ UNCHANGED parserVars
      => ParserInv'
    BY <1>2 DEF ParserInv, PP!Fresh, PP!Token, parserVars
<1>4. CASE ReadsOn \/ Opens \/ Stops \/ DumpLeaves \/ EmitLeaves \/ Enters \/ DumpStops \/ EmitStops \/ Runs
    BY <1>3, <1>4 DEF ReadsOn, Opens, Stops, DumpLeaves, EmitLeaves, Enters, DumpStops, EmitStops, Runs,
                      Endings, compilerVars
<1>5. CASE Lex \/ BeginDump \/ BeginEmit \/ Allocate \/ Write \/ WriteAborts \/ CopyOut
    BY <1>3, <1>5 DEF Lex, BeginDump, BeginEmit, Allocate, Write, WriteAborts, CopyOut, Goes
<1>6. CASE BeginParse
    <2>1. stage = "lexing" /\ stage' = "parsing"
        BY <1>6 DEF BeginParse, Goes
    <2>2. PP!Fresh' /\ LiteralTokens'
        BY <1>6, <2>1, TokensOfLexed DEF LexerInv, ParserInv
    <2> QED  BY <2>1, <2>2, FreshParserNext DEF ParserInv
<1>7. CASE Parse
    <2>1. stage = "parsing" /\ stage' = "parsing" /\ PP!Next
        BY <1>7, SameParser DEF Parse
    <2>2. PP!Inv' /\ PP!Ranked'
        BY <2>1, PP!InvStep, PP!RankedStep DEF ParserInv
    <2>3. tokens' = tokens
        BY <2>1, PP!StepMoves DEF ParserInv, PP!Inv
    <2> QED  BY <2>1, <2>2, <2>3 DEF ParserInv, LiteralTokens
<1> QED  BY <1>1, <1>4, <1>5, <1>6, <1>7, Zenon DEF Steps

-------------------------------------------------------------------------------
(* The assembler. *)

\* Its module's assumptions are true of what Compile asks for and writes.
LEMMA AssemblerAssumptions ==
    /\ AP!MaxIntAssumption /\ AP!RequestsAssumption
    /\ AP!UnsetAssumption /\ AP!ValuesAssumption
<1>1. AP!MaxIntAssumption /\ AP!RequestsAssumption
    BY MaxIntAssumption, CodeCapacityAssumption DEF AP!MaxIntAssumption, AP!RequestsAssumption
<1>2. AP!UnsetAssumption
    BY DEF AP!UnsetAssumption, Byte
<1>3. AP!ValuesAssumption
    <2> SUFFICES ASSUME NEW v \in Value PROVE v \in Seq(Byte) /\ v # <<>>
        BY DEF AP!ValuesAssumption
    <2>1. v \in Seq(Byte) /\ Len(v) # 0
        BY DEF Value
    <2> QED  BY <2>1
<1> QED  BY <1>1, <1>2, <1>3

LEMMA AssemblerSteps == AP!Inv /\ [AP!Next]_(AP!vars) => AP!Inv'
BY AssemblerAssumptions, AP!InvStep
   DEF AP!MaxIntAssumption, AP!RequestsAssumption, AP!UnsetAssumption, AP!ValuesAssumption

LEMMA AssemblerStep == AssemblerInv /\ WalkInv /\ Next => AssemblerInv'
<1> SUFFICES ASSUME AssemblerInv, WalkInv, Next PROVE AssemblerInv'
    OBVIOUS
<1>1. Steps
    BY NextSteps
<1>2. ASSUME UNCHANGED assemblerVars PROVE AP!Inv' /\ want' = CodeCapacity /\ writing' = writing
    <2>1. [AP!Next]_(AP!vars)
        BY <1>2 DEF assemblerVars, AP!vars
    <2> QED  BY <1>2, <2>1, AssemblerSteps DEF AssemblerInv, assemblerVars
<1> DEFINE Waiting == {"arguments", "lexing", "parsing", "dumping", "allocating"}
<1>3. /\ UNCHANGED assemblerVars
      /\ stage' \in Waiting => stage \in Waiting
      /\ stage' = "emitting" => stage = "emitting"
      => AssemblerInv'
    BY <1>2 DEF AssemblerInv
<1>4. CASE ReadsOn \/ Opens \/ Stops \/ DumpLeaves \/ EmitLeaves \/ Enters \/ DumpStops \/ EmitStops \/ Runs
    BY <1>3, <1>4 DEF ReadsOn, Opens, Stops, DumpLeaves, EmitLeaves, Enters, DumpStops, EmitStops, Runs,
                      Endings, compilerVars
<1>5. CASE Lex \/ BeginParse \/ Parse \/ BeginDump \/ BeginEmit \/ CopyOut
    BY <1>3, <1>5 DEF Lex, BeginParse, Parse, BeginDump, BeginEmit, CopyOut, Goes
<1>6. CASE Allocate
    <2>1. stage = "allocating" /\ writing = "rounding" /\ (AP!RoundUp \/ AP!Allocate)
        BY <1>6, SameAssembler DEF Allocate, AssemblerInv
    <2>2. AP!Inv'
        BY <2>1, AssemblerSteps DEF AP!Next, AssemblerInv
    <2>3. want' = want /\ writing' \in {"rounding", "open"}
        <3>1. CASE AP!RoundUp
            BY <2>1, <3>1 DEF AP!RoundUp
        <3>2. CASE AP!Allocate
            <4>1. capacity >= want /\ want \in Nat /\ want > 1 /\ capacity \in Int
                <5>1. capacity >= want
                    BY <3>2 DEF AP!Allocate
                <5>2. capacity \in Int /\ want = CodeCapacity
                    BY DEF AssemblerInv, AP!Inv, AP!TypeOK
                <5> QED  BY <5>1, <5>2, CodeCapacityAssumption, MaxIntAssumption
            <4>2. capacity > 1
                BY <4>1
            <4> QED  BY <3>2, <4>2 DEF AP!Allocate
        <3> QED  BY <2>1, <3>1, <3>2
    <2>4. stage' = IF writing' = "rounding" THEN "allocating" ELSE "emitting"
        BY <1>6, <2>1 DEF Allocate
    <2> QED  BY <2>2, <2>3, <2>4 DEF AssemblerInv
<1>7. CASE Write \/ WriteAborts
    <2>1. stage = "emitting" /\ values # <<>> /\ values \in Seq(Chunk)
        BY <1>7 DEF Write, WriteAborts, WalkInv
    <2>2. PICK v \in Chunk : v = Head(values)
        BY <2>1
    <2>3. Bytes(v) \in Value
        BY ChunkBytes
    <2>4. AP!WriteStream(Bytes(v)) \/ AP!AssertFails(Bytes(v))
        BY <1>7, <2>2, SameAssembler DEF Write, WriteAborts
    <2>5. AP!Next
        BY <2>3, <2>4 DEF AP!Next
    <2>6. AP!Inv'
        BY <2>5, AssemblerSteps DEF AssemblerInv
    <2>7. want' = want
        BY <2>4 DEF AP!WriteStream, AP!AssertFails
    <2>8. CASE Write
        <3>1. AP!WriteStream(Bytes(v))
            BY <2>2, <2>8, SameAssembler DEF Write
        <3>2. stage' = "emitting" /\ writing' = "open"
            BY <2>1, <2>8, <3>1 DEF Write, AP!WriteStream
        <3> QED  BY <2>6, <2>7, <3>2 DEF AssemblerInv
    <2>9. CASE WriteAborts
        <3>1. stage' = "aborted"
            BY <2>9 DEF WriteAborts, Goes
        <3> QED  BY <2>6, <2>7, <3>1 DEF AssemblerInv
    <2> QED  BY <1>7, <2>8, <2>9
<1> QED  BY <1>1, <1>4, <1>5, <1>6, <1>7, Zenon DEF Steps

-------------------------------------------------------------------------------
(* Dump and Emit. *)

\* The program itself, as a node above its statements.
LEMMA ProgramNode ==
    /\ ProgramIR(program).ir = "Program" /\ ProgramIR(program).kids = program
BY DEF ProgramIR, Node

LEMMA TreeOfParsed ==
    ASSUME ParserInv
    PROVE  /\ program \in Seq(Tree)
           /\ \A n \in Tree : Shaped(n, Tree)
           /\ \E R, rank : Ranks(R, rank)
BY ParsedTree DEF ParserInv

\* Both traversals go on to nodes of the program.
LEMMA InOrderTree ==
    ASSUME ParserInv, NEW n \in Tree \cup {ProgramIR(program)}, n.ir = "Call" => n.kids # <<>>
    PROVE  InOrder(n) \in Seq(Tree)
<1>1. CASE n = ProgramIR(program)
    <2>1. InOrder(n) = program
        BY <1>1, ProgramNode DEF InOrder
    <2> QED  BY <2>1, TreeOfParsed
<1>2. CASE n \in Tree
    <2>1. Shaped(n, Tree)
        BY <1>2, TreeOfParsed
    <2>2. CASE n.ir \in {"Binary", "Assign"}
        <3>1. PICK l, r \in Tree : n.kids = <<l, r>>
            BY <2>1, <2>2 DEF Shaped
        <3>2. InOrder(n) = <<r, l>>
            BY <2>2, <3>1 DEF InOrder
        <3>3. <<r, l>> \in Seq(Tree)
            OBVIOUS
        <3> QED  BY <3>2, <3>3
    <2>3. CASE n.ir = "Call"
        <3>1. n.kids \in Seq(Tree) /\ n.kids # <<>>
            BY <2>1, <2>3 DEF Shaped
        <3>2. PICK e \in Tree : e = n.kids[1]
            BY <3>1
        <3>3. InOrder(n) = <<e>>
            BY <2>3, <3>2 DEF InOrder
        <3>4. <<e>> \in Seq(Tree)
            OBVIOUS
        <3> QED  BY <3>3, <3>4
    <2>4. CASE n.ir = "Cast"
        <3>1. PICK e \in Tree : n.kids = <<e>>
            BY <2>1, <2>4 DEF Shaped
        <3>2. InOrder(n) = <<e>>
            BY <2>4, <3>1 DEF InOrder
        <3>3. <<e>> \in Seq(Tree)
            OBVIOUS
        <3> QED  BY <3>2, <3>3
    <2>5. CASE n.ir \notin {"Binary", "Assign", "Call", "Cast"}
        <3>1. n.kids = <<>>
            BY <2>1, <2>5 DEF Shaped
        <3>2. InOrder(n) = <<>>
            BY <2>5, <3>1 DEF InOrder
        <3> QED  BY <3>2
    <2> QED  BY <2>2, <2>3, <2>4, <2>5
<1> QED  BY <1>1, <1>2

\* The list of nodes to visit, once those below the first have been put
\* before it.
LEMMA DescendItems ==
    ASSUME ParserInv, work \in Seq(Item), work # <<>>, Descend,
           Here.ir = "Call" => Here.kids # <<>>
    PROVE  /\ work' \in Seq(Item)
           /\ \A k \in DOMAIN work' :
                 \/ ~work'[k].visited
                 \/ work'[k].node = Here
                 \/ \E j \in DOMAIN work : work'[k] = work[j]
<1>1. PICK h \in Item : h = Head(work)
    OBVIOUS
<1>2. Here \in Tree \cup {ProgramIR(program)} /\ Here = h.node
    BY <1>1 DEF Item, Here
<1>3. PICK order \in Seq(Tree) : order = InOrder(Here)
    BY <1>2, InOrderTree
<1> DEFINE below == [k \in DOMAIN order |-> Unvisited(order[k])]
           again == <<[node |-> Here, visited |-> TRUE]>>
<1>4. below \in Seq(Item) /\ \A k \in DOMAIN below : ~below[k].visited
    <2>1. \A n \in Tree : Unvisited(n) \in Item /\ ~Unvisited(n).visited
        BY DEF Unvisited, Item
    <2>2. DOMAIN order = 1 .. Len(order) /\ Len(order) \in Nat
        OBVIOUS
    <2>3. \A k \in DOMAIN order : order[k] \in Tree
        OBVIOUS
    <2> HIDE DEF Item
    <2> QED  BY <2>1, <2>2, <2>3
<1>5. again \in Seq(Item) /\ \A k \in DOMAIN again : again[k].node = Here
    <2>1. [node |-> Here, visited |-> TRUE] \in Item
        BY <1>2 DEF Item
    <2> QED  BY <2>1
<1>6. Tail(work) \in Seq(Item) /\ \A k \in DOMAIN Tail(work) : \E j \in DOMAIN work : Tail(work)[k] = work[j]
    <2> HIDE DEF Item
    <2>1. Tail(work) \in Seq(Item) /\ Len(Tail(work)) = Len(work) - 1 /\ Len(work) \in Nat
        OBVIOUS
    <2>2. ASSUME NEW k \in DOMAIN Tail(work) PROVE k + 1 \in DOMAIN work /\ Tail(work)[k] = work[k + 1]
        BY <2>1
    <2> QED  BY <2>1, <2>2
<1>7. work' = (below \o again) \o Tail(work)
    BY <1>3 DEF Descend
<1> HIDE DEF below, again, Item
<1>8. /\ below \o again \in Seq(Item)
      /\ \A k \in DOMAIN (below \o again) : ~(below \o again)[k].visited \/ (below \o again)[k].node = Here
    BY <1>4, <1>5
<1> QED  BY <1>6, <1>7, <1>8

LEMMA WalkStep == ParserInv /\ WalkInv /\ Next => WalkInv'
<1> SUFFICES ASSUME ParserInv, WalkInv, Next PROVE WalkInv'
    OBVIOUS
<1>1. Steps
    BY NextSteps
<1>2. ASSUME UNCHANGED parserVars PROVE Item' = Item /\ Root' = Root
    BY <1>2 DEF Item, Root, Tree, parserVars
<1> DEFINE Before == {"arguments", "lexing", "parsing"}
           Walking == {"dumping", "allocating", "emitting"}
<1>3. /\ UNCHANGED <<work, values>>
      /\ stage' \in Before => stage \in Before
      /\ stage' \notin Walking
      => WalkInv'
    BY DEF WalkInv
<1>4. CASE ReadsOn \/ Opens \/ Stops \/ DumpStops \/ EmitStops \/ Runs
    BY <1>3, <1>4 DEF ReadsOn, Opens, Stops, DumpStops, EmitStops, Runs, Endings, compilerVars
<1>5. CASE Lex \/ BeginParse \/ Parse \/ WriteAborts \/ CopyOut
    BY <1>3, <1>5 DEF Lex, BeginParse, Parse, WriteAborts, CopyOut, Goes
<1>6. Root \in Seq(Item) /\ \A k \in DOMAIN Root : ~Root[k].visited
    <2>1. Unvisited(ProgramIR(program)) \in Item /\ ~Unvisited(ProgramIR(program)).visited
        BY DEF Unvisited, Item
    <2> QED  BY <2>1 DEF Root
<1>7. CASE BeginDump \/ BeginEmit
    <2>1. /\ work' = Root /\ values' = values /\ stage' \in {"dumping", "allocating"}
          /\ stage \in {"parsing", "dumping"} /\ UNCHANGED parserVars
        BY <1>7 DEF BeginDump, BeginEmit, Goes
    <2>2. work' \in Seq(Item') /\ work' = Root' /\ values' \in Seq(Chunk) /\ values' = <<>>
        BY <1>2, <1>6, <2>1 DEF WalkInv
    <2> QED  BY <2>1, <2>2 DEF WalkInv
<1>8. CASE Allocate
    <2>1. /\ stage = "allocating" /\ stage' \in {"allocating", "emitting"}
          /\ UNCHANGED <<parserVars, work, values>>
        BY <1>8 DEF Allocate
    <2>2. work' = Root /\ work' \in Seq(Item') /\ work' = Root' /\ values' \in Seq(Chunk) /\ values' = <<>>
        BY <1>2, <1>6, <2>1 DEF WalkInv
    <2>3. \A k \in DOMAIN work' : ~work'[k].visited
        BY <1>6, <2>2
    <2> QED  BY <2>1, <2>2, <2>3 DEF WalkInv
<1>9. ASSUME stage \in {"dumping", "emitting"}, work # <<>>
      PROVE  /\ work \in Seq(Item) /\ Head(work) \in Item /\ Here \in Tree \cup {ProgramIR(program)}
             /\ Tail(work) \in Seq(Item)
             /\ \A k \in DOMAIN Tail(work) : \E j \in DOMAIN work : Tail(work)[k] = work[j]
             /\ 1 \in DOMAIN work /\ work[1] = Head(work)
    <2>1. work \in Seq(Item)
        BY <1>9 DEF WalkInv
    <2> HIDE DEF Item
    <2>2. Tail(work) \in Seq(Item) /\ Len(Tail(work)) = Len(work) - 1 /\ Len(work) \in Nat
        BY <1>9, <2>1
    <2>3. ASSUME NEW k \in DOMAIN Tail(work) PROVE k + 1 \in DOMAIN work /\ Tail(work)[k] = work[k + 1]
        BY <1>9, <2>1, <2>2
    <2>4. Head(work) \in Item /\ 1 \in DOMAIN work /\ work[1] = Head(work)
        BY <1>9, <2>1
    <2>5. Here \in Tree \cup {ProgramIR(program)}
        BY <2>4 DEF Item, Here
    <2> QED  BY <2>1, <2>2, <2>3, <2>4, <2>5
<1>10. CASE DumpLeaves
    <2>1. /\ stage = "dumping" /\ stage' = "dumping" /\ work' = Tail(work) /\ values' = values
          /\ values = <<>> /\ work # <<>> /\ UNCHANGED parserVars
        BY <1>10 DEF DumpLeaves
    <2>2. work' \in Seq(Item') /\ values' \in Seq(Chunk) /\ values' = <<>>
        BY <1>2, <1>9, <2>1 DEF WalkInv
    <2> QED  BY <2>1, <2>2 DEF WalkInv
<1>11. CASE EmitLeaves
    <2>1. /\ stage = "emitting" /\ stage' = "emitting" /\ work' = Tail(work) /\ values' = Writes(Here)
          /\ work # <<>> /\ UNCHANGED parserVars /\ Visited
        BY <1>11 DEF EmitLeaves
    <2>2. Here.ir = "Call" => Len(Here.kids) = 1
        BY <1>9, <2>1 DEF WalkInv, Visited, Here
    <2>3. Shaped(Here, Tree) \/ Here.ir = "Program"
        BY <1>9, <2>1, TreeOfParsed, ProgramNode
    <2>4. values' \in Seq(Chunk)
        BY <2>1, <2>2, <2>3, WritesChunks
    <2>5. work' \in Seq(Item')
        BY <1>2, <1>9, <2>1
    <2>6. \A k \in DOMAIN work' : (work'[k].visited /\ work'[k].node.ir = "Call") => Len(work'[k].node.kids) = 1
        BY <1>9, <2>1 DEF WalkInv
    <2> QED  BY <2>1, <2>4, <2>5, <2>6 DEF WalkInv
<1>12. CASE Enters
    <2>1. /\ stage \in {"dumping", "emitting"} /\ stage' = stage /\ Descend /\ values' = values
          /\ work # <<>> /\ UNCHANGED parserVars
        BY <1>12 DEF Enters
    <2>2. Here.ir = "Call" => Here.kids # <<>> /\ (stage = "emitting" => Len(Here.kids) = 1)
        <3>1. CASE stage = "dumping"
            BY <1>12, <3>1 DEF Enters
        <3>2. CASE stage = "emitting"
            <4>1. Here.ir = "Call" => Len(Here.kids) = 1
                BY <1>12, <3>2 DEF Enters
            <4>2. Len(Here.kids) = 1 => Here.kids # <<>>
                OBVIOUS
            <4> QED  BY <4>1, <4>2
        <3> QED  BY <2>1, <3>1, <3>2
    <2>3. /\ work' \in Seq(Item)
          /\ \A k \in DOMAIN work' :
                \/ ~work'[k].visited
                \/ work'[k].node = Here
                \/ \E j \in DOMAIN work : work'[k] = work[j]
        BY <1>9, <2>1, <2>2, DescendItems
    <2>4. work' \in Seq(Item')
        BY <1>2, <2>1, <2>3
    <2>5. stage' = "emitting" =>
            \A k \in DOMAIN work' :
               (work'[k].visited /\ work'[k].node.ir = "Call") => Len(work'[k].node.kids) = 1
        BY <2>1, <2>2, <2>3 DEF WalkInv
    <2> QED  BY <2>1, <2>4, <2>5 DEF WalkInv
<1>13. CASE Write
    <2>1. /\ stage = "emitting" /\ stage' = "emitting" /\ values # <<>> /\ values' = Tail(values)
          /\ UNCHANGED <<parserVars, work>>
        BY <1>13 DEF Write
    <2>2. values' \in Seq(Chunk)
        BY <2>1 DEF WalkInv
    <2> QED  BY <1>2, <2>1, <2>2 DEF WalkInv
<1> QED  BY <1>1, <1>4, <1>5, <1>7, <1>8, <1>10, <1>11, <1>12, <1>13, Zenon DEF Steps

-------------------------------------------------------------------------------
(* The image, and the interpreters. *)

LEMMA ImageStep == ParserInv /\ AssemblerInv /\ ImageInv /\ Next => ImageInv'
<1> SUFFICES ASSUME ParserInv, AssemblerInv, ImageInv, Next PROVE ImageInv'
    OBVIOUS
<1>1. Steps
    BY NextSteps
<1>2. CASE UNCHANGED image
    BY <1>2 DEF ImageInv
<1>3. CASE ReadsOn \/ Opens \/ Stops \/ DumpLeaves \/ EmitLeaves \/ Enters \/ DumpStops \/ EmitStops \/ Runs
    BY <1>2, <1>3 DEF ReadsOn, Opens, Stops, DumpLeaves, EmitLeaves, Enters, DumpStops, EmitStops, Runs,
                      compilerVars
<1>4. CASE Lex \/ BeginParse \/ Parse \/ BeginDump \/ BeginEmit \/ Allocate \/ Write \/ WriteAborts
    BY <1>2, <1>4 DEF Lex, BeginParse, Parse, BeginDump, BeginEmit, Allocate, Write, WriteAborts
<1>5. CASE CopyOut
    <2>1. writing = "open" /\ AP!Inv
        BY <1>5 DEF CopyOut, AssemblerInv
    <2>2. written \in Nat /\ \A k \in 0 .. (written - 1) : buffer[k] \in Byte
        BY <2>1 DEF AP!Inv, AP!TypeOK, AP!Filled
    <2> DEFINE half == written \div 2
               code(k) == buffer[2 * k - 2] + 256 * buffer[2 * k - 1]
    <2>3. half \in Nat /\ 2 * half <= written
        BY <2>2
    <2>4. \A k \in 1 .. half : code(k) \in Halfword
        <3> SUFFICES ASSUME NEW k \in 1 .. half PROVE code(k) \in Halfword
            OBVIOUS
        <3>1. 2 * k - 2 \in 0 .. (written - 1) /\ 2 * k - 1 \in 0 .. (written - 1)
            BY <2>2, <2>3
        <3>2. PICK a, b \in Byte : a = buffer[2 * k - 2] /\ b = buffer[2 * k - 1]
            BY <2>2, <3>1
        <3>3. a + 256 * b \in Halfword
            BY DEF Byte, Halfword
        <3> QED  BY <3>2, <3>3
    <2>5. image' = [code |-> [k \in 1 .. half |-> code(k)], vars |-> SymTableSize]
        BY <1>5 DEF CopyOut
    <2>6. SymTableSize \in Nat
        <3>1. IsFiniteSet(DOMAIN table)
            BY DEF ParserInv, PP!Inv, PP!Base, PP!IsFiniteSet, IsFiniteSet
        <3> QED  BY <3>1, FS_CardinalityType DEF SymTableSize
    <2> HIDE DEF half, code
    <2>7. image'.code \in Seq(Halfword)
        BY <2>3, <2>4, <2>5
    <2> QED  BY <2>5, <2>6, <2>7 DEF ImageInv
<1> QED  BY <1>1, <1>3, <1>4, <1>5, Zenon DEF Steps

\* No step of the portable interpreter leaves its stack, but for the one that
\* ends in "wild".
LEMMA SameByteCode == BI!Next <=> BP!Next
<1> USE DEF BI!Slot, BI!ReadAs, BI!ArithOps, BI!Operators, BI!ConstOps, BI!LoadOps, BI!StoreOps,
            BI!PrintOps, BI!CastOps, BI!Implemented, BI!Pops, BI!Pushes, BI!Operands,
            BI!CodeSize, BI!Half, BI!Fetched, BI!Running, BI!InBounds, BI!Executes,
            BI!Operand, BI!PopPush, BI!Type, BI!OpCode, BI!Decode, BI!ConstOf, BI!LoadOf, BI!StoreOf, BI!PrintOf, BI!CastOf, BI!Width, BI!Term, BI!Lit, BI!App,
            BP!Slot, BP!ReadAs, BP!ArithOps, BP!Operators, BP!ConstOps, BP!LoadOps, BP!StoreOps,
            BP!PrintOps, BP!CastOps, BP!Implemented, BP!Pops, BP!Pushes, BP!Operands,
            BP!CodeSize, BP!Half, BP!Fetched, BP!Running, BP!InBounds, BP!Executes,
            BP!Operand, BP!PopPush, BP!Type, BP!OpCode, BP!Decode, BP!ConstOf, BP!LoadOf, BP!StoreOf, BP!PrintOf, BP!CastOf, BP!Width, BP!Term, BP!Lit, BP!App
<1>1. (BI!Construct <=> BP!Construct) /\ (BI!Return <=> BP!Return)
    BY Zenon DEF BI!Construct, BP!Construct, BI!Return, BP!Return
<1>2. ASSUME NEW t PROVE BI!Arith(t) <=> BP!Arith(t)
    BY Zenon DEF BI!Arith, BP!Arith
<1>3. ASSUME NEW t PROVE (BI!Const(t) <=> BP!Const(t)) /\ (BI!Load(t) <=> BP!Load(t))
    BY Zenon DEF BI!Const, BP!Const, BI!Load, BP!Load
<1>4. ASSUME NEW t PROVE (BI!Store(t) <=> BP!Store(t)) /\ (BI!PrintValue(t) <=> BP!PrintValue(t))
    BY Zenon DEF BI!Store, BP!Store, BI!PrintValue, BP!PrintValue
<1>5. ASSUME NEW f, NEW t PROVE BI!Cast(f, t) <=> BP!Cast(f, t)
    BY Zenon DEF BI!Cast, BP!Cast
<1>6. (BI!FMul <=> BP!FMul) /\ (BI!DivTrap <=> BP!DivTrap)
    BY Zenon DEF BI!FMul, BP!FMul, BI!DivTrap, BP!DivTrap
<1>7. (BI!Panic <=> BP!Panic) /\ (BI!OutOfBounds <=> BP!OutOfBounds)
    BY Zenon DEF BI!Panic, BP!Panic, BI!OutOfBounds, BP!OutOfBounds
<1> QED  BY <1>1, <1>2, <1>3, <1>4, <1>5, <1>6, <1>7, Zenon DEF BI!Next, BP!Next

LEMMA ByteCodeStays ==
    ASSUME top \in 0 .. StackSlots, BI!Next
    PROVE  top' \in 0 .. StackSlots
<1>1. StackSlots \in Nat
    BY CoreVMSlotsAssumption
<1>2. BP!Next
    BY SameByteCode
<1>3. ASSUME NEW d \in 0 .. 3, NEW t, NEW v, BP!PopPush(d, t, v), d <= top, top - d + 1 <= StackSlots
      PROVE  top' \in 0 .. StackSlots
    BY <1>1, <1>3 DEF BP!PopPush
<1>4. ASSUME NEW t \in BP!Type, BP!Arith(t) PROVE top' \in 0 .. StackSlots
    <2>1. PICK op \in BP!ArithOps[t] :
            BP!Executes(op) /\ BP!PopPush(2, t, BP!App(op, <<BP!Operand(1, t), BP!Operand(2, t)>>))
        BY <1>4 DEF BP!Arith
    <2>2. 2 <= top /\ top - 2 + 1 <= StackSlots
        BY <2>1, BP!Costs, CoreVMSlotsAssumption DEF BP!Executes, BP!InBounds
    <2> QED  BY <1>3, <2>1, <2>2
<1>5. ASSUME NEW t \in BP!Type, BP!Const(t) \/ BP!Load(t) PROVE top' \in 0 .. StackSlots
    <2>1. 0 <= top /\ top - 0 + 1 <= StackSlots
        BY <1>5, BP!Costs, CoreVMSlotsAssumption DEF BP!Const, BP!Load, BP!Executes, BP!InBounds
    <2>2. \E v : BP!PopPush(0, t, v)
        BY <1>5 DEF BP!Const, BP!Load
    <2> QED  BY <1>3, <2>1, <2>2
<1>6. ASSUME NEW t \in BP!Type, BP!Store(t) \/ BP!PrintValue(t) PROVE top' \in 0 .. StackSlots
    <2>1. 1 <= top /\ top' = top - 1
        BY <1>6, BP!Costs, CoreVMSlotsAssumption DEF BP!Store, BP!PrintValue, BP!Executes, BP!InBounds
    <2> QED  BY <1>1, <2>1
<1>7. ASSUME NEW f \in BP!Type, NEW t \in BP!Type \ {f}, BP!Cast(f, t) PROVE top' \in 0 .. StackSlots
    <2>1. 1 <= top /\ top - 1 + 1 <= StackSlots
        BY <1>7, BP!Costs, CoreVMSlotsAssumption DEF BP!Cast, BP!Executes, BP!InBounds
    <2>2. \E v : BP!PopPush(1, t, v)
        BY <1>7 DEF BP!Cast
    <2> QED  BY <1>3, <2>1, <2>2
<1>8. CASE BP!FMul
    <2>1. 3 <= top /\ top' = top - 2
        BY <1>8, BP!Costs, CoreVMSlotsAssumption DEF BP!FMul, BP!Executes, BP!InBounds
    <2> QED  BY <1>1, <2>1
<1>9. CASE BP!Construct \/ BP!DivTrap \/ BP!Return \/ BP!Panic \/ BP!OutOfBounds
    BY <1>9 DEF BP!Construct, BP!DivTrap, BP!Return, BP!Panic, BP!OutOfBounds
<1> QED  BY <1>2, <1>4, <1>5, <1>6, <1>7, <1>8, <1>9, Zenon DEF BP!Next

\* No handler of the template interpreter leaves its stack either.
LEMMA AsmStays ==
    ASSUME top \in 0 .. StackSlots, AI!Next
    PROVE  top' \in 0 .. StackSlots
<1>1. StackSlots \in Nat
    BY CoreVMSlotsAssumption
<1>2. CASE AI!Arith
    <2>1. top \in 1 .. StackSlots /\ top' = top - 1
        BY <1>2 DEF AI!Arith, AI!Enters, AI!InBounds
    <2> QED  BY <1>1, <2>1
<1>3. CASE AI!IConst \/ AI!LoadI
    <2>1. top \in 0 .. (StackSlots - 1) /\ top' = top + 1
        BY <1>3 DEF AI!IConst, AI!LoadI, AI!Enters, AI!InBounds, AI!PushOps, AI!Spill
    <2> QED  BY <1>1, <2>1
<1>4. CASE AI!PrintI
    <2>1. top \in 1 .. StackSlots /\ top' = top - 1
        BY <1>4 DEF AI!PrintI, AI!Enters, AI!InBounds
    <2> QED  BY <1>1, <2>1
<1>5. CASE AI!StoreI \/ AI!Done \/ AI!Wild
    BY <1>5 DEF AI!StoreI, AI!Done, AI!Wild
<1> QED  BY <1>2, <1>3, <1>4, <1>5 DEF AI!Next

LEMMA TopStep == TopInv /\ Next => TopInv'
<1> SUFFICES ASSUME TopInv, Next PROVE TopInv'
    OBVIOUS
<1>1. Steps
    BY NextSteps
<1>2. stage \notin {"bytecode", "asm"} /\ top' = top => TopInv'
    BY DEF TopInv
<1>3. CASE ReadsOn \/ Opens \/ (Stops /\ stage = "arguments") \/ DumpLeaves \/ EmitLeaves \/ Enters
           \/ DumpStops \/ EmitStops
    BY <1>2, <1>3 DEF ReadsOn, Opens, Stops, DumpLeaves, EmitLeaves, Enters, DumpStops, EmitStops,
                      others, runVars
<1>4. CASE /\ UNCHANGED others
           /\ Lex \/ BeginParse \/ Parse \/ BeginDump \/ BeginEmit \/ Allocate \/ Write
              \/ WriteAborts \/ CopyOut
    BY <1>2, <1>4 DEF others, runVars, Lex, BeginParse, Parse, BeginDump, BeginEmit, Allocate, Write,
                      WriteAborts, CopyOut
<1>5. CASE Runs
    <2>1. stage' \in {"bytecode", "asm"}
        BY <1>5 DEF Runs
    <2>2. CASE StartByteCode \/ StartAsm
        <3>1. top' = top
            BY <2>2 DEF StartByteCode, StartAsm, Start
        <3> QED  BY <2>1, <3>1 DEF TopInv
    <2>3. CASE RunByteCode
        BY <2>1, <2>3, ByteCodeStays DEF RunByteCode, TopInv
    <2>4. CASE RunAsm
        BY <2>1, <2>4, AsmStays DEF RunAsm, TopInv
    <2> QED  BY <1>5, <2>2, <2>3, <2>4 DEF Runs
<1> QED  BY <1>1, <1>3, <1>4, <1>5, Zenon DEF Steps

-------------------------------------------------------------------------------
(* All of it together. *)

LEMMA CInvInit == Literals /\ Init => CInv
<1> SUFFICES ASSUME Literals, Init PROVE CInv
    OBVIOUS
<1>0. /\ stage = "arguments" /\ argv \in CommandLines /\ arg = 1 /\ filename = ""
      /\ use_asm \in BOOLEAN /\ top = 0
      /\ cur = 0 /\ lexed = <<>> /\ lexing = "running"
      /\ tokens = <<>> /\ pos = 0 /\ table = [n \in {} |-> 0] /\ program = <<>>
      /\ frames = <<>> /\ value = <<>> /\ parsing = "running"
      /\ want = CodeCapacity /\ written = 0 /\ capacity = 1 /\ buffer = <<>> /\ writing = "rounding"
      /\ work = <<>> /\ values = <<>> /\ image.code = <<>> /\ image.vars = 0
    BY DEF Init, CompilerInit
<1>1. StageInv
    <2>1. argv \in Seq(STRING) /\ arg = 1
        BY <1>0, CommandLinesAssumption
    <2>2. Len(argv) \in Nat
        BY <2>1
    <2>3. arg \in 1 .. (Len(argv) + 1)
        BY <2>1, <2>2
    <2> QED  BY <1>0, <2>1, <2>3 DEF StageInv
<1>2. LexerInv
    BY <1>0 DEF LexerInv
<1>3. ParserInv
    <2>0. tokens = <<>>
        BY <1>0
    <2>1. DOMAIN tokens = {}
        BY <2>0
    <2>2. tokens \in Seq(PP!Token)
        BY <2>0
    <2>3. PP!Fresh
        BY <1>0, <2>2 DEF PP!Fresh
    <2> QED  BY <2>1, <2>3, FreshParser DEF ParserInv, LiteralTokens
<1>4. AssemblerInv
    <2>1. AP!Init
        BY <1>0 DEF AP!Init
    <2>2. AP!Inv
        BY <2>1, AssemblerAssumptions, AP!InvInit
           DEF AP!MaxIntAssumption, AP!RequestsAssumption, AP!UnsetAssumption, AP!ValuesAssumption
    <2> QED  BY <1>0, <2>2 DEF AssemblerInv
<1>5. WalkInv
    <2>0. values = <<>>
        BY <1>0
    <2>1. values \in Seq(Chunk)
        BY <2>0
    <2> QED  BY <1>0, <2>1 DEF WalkInv
<1>6. ImageInv
    <2>0. image.code = <<>> /\ image.vars = 0
        BY <1>0
    <2>1. image.code \in Seq(Halfword) /\ image.vars \in Nat
        BY <2>0
    <2> QED  BY <2>1 DEF ImageInv
<1>7. TopInv
    <2>0. top = 0
        BY <1>0
    <2> QED  BY <2>0, CoreVMSlotsAssumption DEF TopInv
<1> QED  BY <1>1, <1>2, <1>3, <1>4, <1>5, <1>6, <1>7 DEF CInv

LEMMA CInvStep == Literals /\ CInv /\ [Next]_vars => CInv'
<1> SUFFICES ASSUME Literals, CInv, [Next]_vars PROVE CInv'
    OBVIOUS
<1>1. CASE Next
    BY <1>1, StageStep, LexerStep, ParserStep, AssemblerStep, WalkStep, ImageStep, TopStep DEF CInv
<1>2. CASE UNCHANGED vars
    <2>1. UNCHANGED <<lexerVars, parserVars, assemblerVars, stage, work, values, image, configVars, top>>
        BY <1>2 DEF vars, compilerVars, runVars
    <2>2. PP!Inv' /\ PP!Ranked'
        <3>1. [PP!Next]_(PP!vars)
            BY <2>1 DEF parserVars, PP!vars
        <3> QED  BY <3>1, PP!InvStep, PP!RankedStep DEF CInv, ParserInv
    <2>3. AP!Inv'
        <3>1. [AP!Next]_(AP!vars)
            BY <2>1 DEF assemblerVars, AP!vars
        <3> QED  BY <3>1, AssemblerSteps DEF CInv, AssemblerInv
    <2>4. StageInv' /\ LexerInv'
        BY <2>1 DEF CInv, StageInv, LexerInv, LP!TypeOK, lexerVars, configVars
    <2>5. ParserInv'
        BY <2>1, <2>2 DEF CInv, ParserInv, LiteralTokens, PP!Fresh, PP!Token, parserVars
    <2>6. AssemblerInv'
        BY <2>1, <2>3 DEF CInv, AssemblerInv, assemblerVars
    <2>7. WalkInv'
        BY <2>1 DEF CInv, WalkInv, Item, Root, Tree, parserVars
    <2>8. ImageInv' /\ TopInv'
        BY <2>1 DEF CInv, ImageInv, TopInv
    <2> QED  BY <2>4, <2>5, <2>6, <2>7, <2>8 DEF CInv
<1> QED  BY <1>1, <1>2

\* The invariant behind the theorems below.
LEMMA CInvAlways == Literals => (Spec => []CInv)
<1> SUFFICES ASSUME Literals PROVE Spec => []CInv
    OBVIOUS
<1>1. Init => CInv
    BY CInvInit
<1>2. CInv /\ [Next]_vars => CInv'
    BY CInvStep
<1> QED  BY <1>1, <1>2, PTL DEF Spec

\* Whatever the file, the parts of the program hand each other what their own
\* modules start from: each is in a state of its module while it runs, and the
\* code that is copied out consists of halfwords, none of them made of a byte
\* that was never written.
THEOREM TypeCorrect == Literals => (Spec => []TypeOK)
<1> SUFFICES ASSUME Literals PROVE Spec => []TypeOK
    OBVIOUS
<1>1. CInv => TypeOK
    <2> SUFFICES ASSUME CInv PROVE TypeOK
        OBVIOUS
    <2>1. stage = "lexing" => L!TypeOK
        BY SameLexer DEF CInv, LexerInv
    <2>2. P!TypeOK
        <3>1. PP!TypeOK
            BY PP!InvType DEF CInv, ParserInv
        <3> QED  BY <3>1, Zenon DEF P!TypeOK, PP!TypeOK, P!TypeNames, PP!TypeNames, P!Type, PP!Type
    <2>3. A!TypeOK
        BY SameAssembler DEF CInv, AssemblerInv, AP!Inv
    <2> QED  BY <2>1, <2>2, <2>3 DEF CInv, StageInv, ImageInv, TopInv, TypeOK
<1>2. Spec => []CInv
    BY CInvAlways
<1> QED  BY <1>1, <1>2, PTL
\* Counting up from 0.
LEMMA CountUp ==
    ASSUME NEW m \in Nat, NEW S, 0 \in S, \A k \in 0 .. m : (k < m /\ k \in S) => k + 1 \in S
    PROVE  0 .. m \subseteq S
<1> DEFINE T == {k \in Nat : k <= m /\ k \notin S}
<1>1. T = {}
    <2> SUFFICES ASSUME T # {} PROVE FALSE
        OBVIOUS
    <2>1. PICK k \in T : \A j \in T : k <= j
        BY LP!LeastElement, LexerAssumption
    <2>2. k # 0
        BY <2>1
    <2>3. k - 1 \in 0 .. m /\ k - 1 < m /\ k - 1 \notin T /\ (k - 1) + 1 = k
        BY <2>1, <2>2
    <2>4. k - 1 \in S
        BY <2>3
    <2> QED  BY <2>1, <2>3, <2>4
<1> QED  BY <1>1

\* Sequences one after the other.
Join(p) ==
    LET all[k \in 0 .. Len(p)] == IF k = 0 THEN <<>> ELSE all[k - 1] \o p[k]
    IN  all[Len(p)]

\* t has what the first k of them come to.
Sums(t, p) == t[0] = <<>> /\ \A k \in 1 .. Len(p) : t[k] = t[k - 1] \o p[k]

LEMMA SumsExist ==
    ASSUME NEW p, NEW m \in Nat
    PROVE  \E f : f = [k \in 0 .. m |-> IF k = 0 THEN <<>> ELSE f[k - 1] \o p[k]]
<1> DEFINE To(f, n) == f = [k \in 0 .. n |-> IF k = 0 THEN <<>> ELSE f[k - 1] \o p[k]]
           S == {n \in Nat : \E f : To(f, n)}
<1>1. 0 \in S
    <2> DEFINE f == [k \in 0 .. 0 |-> <<>>]
    <2>1. To(f, 0)
        OBVIOUS
    <2> QED  BY <2>1
<1>2. ASSUME NEW n \in Nat, NEW f, To(f, n) PROVE \E g : To(g, n + 1)
    <2> DEFINE g == [k \in 0 .. (n + 1) |-> IF k = n + 1 THEN f[n] \o p[n + 1] ELSE f[k]]
    <2>1. ASSUME NEW k \in 0 .. (n + 1) PROVE g[k] = IF k = 0 THEN <<>> ELSE g[k - 1] \o p[k]
        <3>1. CASE k = n + 1
            <4>1. g[k] = f[n] \o p[n + 1] /\ g[k - 1] = f[n] /\ k # 0
                BY <3>1
            <4> QED  BY <3>1, <4>1
        <3>2. CASE k # n + 1
            <4>1. k \in 0 .. n
                BY <3>2
            <4>2. f[k] = IF k = 0 THEN <<>> ELSE f[k - 1] \o p[k]
                BY <1>2, <4>1
            <4>3. g[k] = f[k] /\ (k # 0 => g[k - 1] = f[k - 1])
                BY <3>2, <4>1
            <4> QED  BY <4>2, <4>3
        <3> QED  BY <3>1, <3>2
    <2>2. g = [k \in 0 .. (n + 1) |-> g[k]]
        OBVIOUS
    <2> HIDE DEF g
    <2>3. To(g, n + 1)
        BY <2>1, <2>2, Zenon
    <2> QED  BY <2>3
<1> HIDE DEF To
<1>3. \A k \in 0 .. m : (k < m /\ k \in S) => k + 1 \in S
    BY <1>2
<1> HIDE DEF S
<1>4. m \in S
    BY <1>1, <1>3, CountUp
<1> QED  BY <1>4 DEF S, To

LEMMA JoinSums ==
    ASSUME NEW p, Len(p) \in Nat
    PROVE  \E t : Sums(t, p) /\ Join(p) = t[Len(p)]
<1> DEFINE Is(f) == f = [k \in 0 .. Len(p) |-> IF k = 0 THEN <<>> ELSE f[k - 1] \o p[k]]
<1>1. PICK t : t = CHOOSE f : Is(f)
    OBVIOUS
<1>2. Is(t)
    BY <1>1, SumsExist, Zenon
<1>3. Join(p) = t[Len(p)]
    BY <1>1, Zenon DEF Join
<1>4. Sums(t, p)
    BY <1>2 DEF Sums
<1> QED  BY <1>3, <1>4

LEMMA SumsAgree ==
    ASSUME NEW p, NEW q, Len(p) \in Nat, Len(q) = Len(p), \A k \in 1 .. Len(p) : p[k] = q[k],
           NEW t, NEW u, Sums(t, p), Sums(u, q)
    PROVE  t[Len(p)] = u[Len(p)]
<1>0. PICK m \in Nat : m = Len(p)
    OBVIOUS
<1> DEFINE S == {k \in 0 .. m : t[k] = u[k]}
<1>1. 0 \in S
    BY DEF Sums
<1>2. ASSUME NEW k \in 0 .. m, k < m, k \in S PROVE k + 1 \in S
    <2>1. k + 1 \in 1 .. m /\ (k + 1) - 1 = k /\ k + 1 \in 0 .. m
        BY <1>2
    <2>2. t[k + 1] = t[k] \o p[k + 1] /\ u[k + 1] = u[k] \o q[k + 1]
        BY <1>0, <2>1 DEF Sums
    <2>3. t[k] = u[k] /\ p[k + 1] = q[k + 1]
        BY <1>0, <1>2, <2>1
    <2>4. t[k + 1] = u[k + 1]
        BY <2>2, <2>3
    <2> QED  BY <2>1, <2>4
<1> HIDE DEF S
<1>3. 0 .. m \subseteq S
    BY <1>1, <1>2, CountUp
<1>4. m \in S
    BY <1>3
<1> QED  BY <1>0, <1>4 DEF S

LEMMA JoinIs ==
    ASSUME NEW p, Len(p) \in Nat, NEW t, Sums(t, p)
    PROVE  Join(p) = t[Len(p)]
<1>1. PICK u : Sums(u, p) /\ Join(p) = u[Len(p)]
    BY JoinSums
<1> QED  BY <1>1, SumsAgree

\* Code, and pieces of it.
Code == Seq(Nat)

LEMMA CodeConcat ==
    /\ <<>> \in Code
    /\ \A a, b \in Code : a \o b \in Code /\ Len(a \o b) = Len(a) + Len(b)
    /\ \A a \in Code : <<>> \o a = a /\ a \o <<>> = a /\ Len(a) \in Nat
    /\ \A a, b, c \in Code : (a \o b) \o c = a \o (b \o c)
<1>1. <<>> \in Code
    BY DEF Code
<1>2. ASSUME NEW a \in Code, NEW b \in Code
      PROVE  a \o b \in Code /\ Len(a \o b) = Len(a) + Len(b)
    BY ConcatProperties DEF Code
<1>3. ASSUME NEW a \in Code PROVE <<>> \o a = a /\ a \o <<>> = a /\ Len(a) \in Nat
    BY ConcatEmptySeq DEF Code
<1>4. ASSUME NEW a \in Code, NEW b \in Code, NEW c \in Code
      PROVE  (a \o b) \o c = a \o (b \o c)
    BY ConcatAssociative DEF Code
<1> QED  BY <1>1, <1>2, <1>3, <1>4

\* Two pieces of one length in front determine what is behind them.
LEMMA CutApart ==
    ASSUME NEW a \in Code, NEW b \in Code, NEW c \in Code, NEW d \in Code,
           Len(a) = Len(c), a \o b = c \o d
    PROVE  a = c /\ b = d
<1>1. a = c
    <2>1. Len(a) \in Nat /\ Len(b) \in Nat /\ Len(d) \in Nat
        BY DEF Code
    <2>2. \A k \in 1 .. Len(a) : a[k] = (a \o b)[k] /\ c[k] = (c \o d)[k]
        BY <2>1, ConcatProperties DEF Code
    <2>3. \A k \in 1 .. Len(a) : a[k] = c[k]
        BY <2>2
    <2> QED  BY <2>3, SeqEqual DEF Code
<1>2. b = d
    <2>1. Len(a) \in Nat /\ Len(b) \in Nat /\ Len(d) \in Nat
        BY DEF Code
    <2>2. Len(b) = Len(d)
        <3>1. Len(a \o b) = Len(a) + Len(b) /\ Len(c \o d) = Len(c) + Len(d)
            BY CodeConcat
        <3> QED  BY <2>1, <3>1
    <2>3. \A k \in 1 .. Len(b) : b[k] = (a \o b)[Len(a) + k] /\ d[k] = (c \o d)[Len(c) + k]
        <3> SUFFICES ASSUME NEW k \in 1 .. Len(b)
                     PROVE  b[k] = (a \o b)[Len(a) + k] /\ d[k] = (c \o d)[Len(c) + k]
            OBVIOUS
        <3>1. /\ Len(a) + k \in 1 .. (Len(a) + Len(b)) /\ ~(Len(a) + k <= Len(a))
              /\ (Len(a) + k) - Len(a) = k
            BY <2>1
        <3>2. (a \o b)[Len(a) + k] = b[k]
            <4>1. \A i \in 1 .. Len(a) + Len(b) :
                     (a \o b)[i] = IF i <= Len(a) THEN a[i] ELSE b[i - Len(a)]
                BY ConcatProperties DEF Code
            <4> QED  BY <3>1, <4>1
        <3>3. Len(a) + k = Len(c) + k /\ Len(a) + Len(b) = Len(c) + Len(d)
            BY <2>2
        <3>4. (c \o d)[Len(c) + k] = d[k]
            <4>1. /\ Len(c) + k \in 1 .. (Len(c) + Len(d)) /\ ~(Len(c) + k <= Len(c))
                  /\ (Len(c) + k) - Len(c) = k
                BY <3>1, <3>3
            <4> QED  BY <4>1, ConcatProperties DEF Code
        <3> QED  BY <3>2, <3>4
    <2>4. \A k \in 1 .. Len(b) : b[k] = d[k]
        BY <2>3
    <2> QED  BY <2>2, <2>4, SeqEqual DEF Code
<1> QED  BY <1>1, <1>2

LEMMA JoinCode ==
    ASSUME NEW p \in Seq(Code)
    PROVE  /\ Len(p) \in Nat /\ \A k \in 1 .. Len(p) : p[k] \in Code
           /\ \A t : Sums(t, p) => \A k \in 0 .. Len(p) : t[k] \in Code
           /\ Join(p) \in Code
<1>0. Len(p) \in Nat /\ \A k \in 1 .. Len(p) : p[k] \in Code
    <2> HIDE DEF Code
    <2> QED  OBVIOUS
<1>1. PICK m \in Nat : m = Len(p)
    BY <1>0
<1>2. ASSUME NEW t, Sums(t, p) PROVE \A k \in 0 .. m : t[k] \in Code
    <2> DEFINE S == {k \in 0 .. m : t[k] \in Code}
    <2>1. 0 \in S
        BY <1>2, CodeConcat DEF Sums
    <2>2. ASSUME NEW k \in 0 .. m, k < m, k \in S PROVE k + 1 \in S
        <3>1. k + 1 \in 1 .. m /\ (k + 1) - 1 = k /\ k + 1 \in 0 .. m
            BY <2>2
        <3>2. t[k + 1] = t[k] \o p[k + 1]
            BY <1>1, <1>2, <3>1 DEF Sums
        <3>3. t[k] \in Code /\ p[k + 1] \in Code
            BY <1>0, <1>1, <2>2, <3>1
        <3> QED  BY <3>1, <3>2, <3>3, CodeConcat
    <2> HIDE DEF S
    <2>3. 0 .. m \subseteq S
        BY <2>1, <2>2, CountUp
    <2> QED  BY <2>3 DEF S
<1>3. Join(p) \in Code
    <2>1. PICK t : Sums(t, p) /\ Join(p) = t[m]
        BY <1>0, <1>1, JoinSums
    <2>2. m \in 0 .. m
        OBVIOUS
    <2> QED  BY <1>2, <2>1, <2>2
<1> QED  BY <1>0, <1>1, <1>2, <1>3

LEMMA JoinFew ==
    /\ Join(<<>>) = <<>>
    /\ \A a \in Code : Join(<<a>>) = a
<1>1. Join(<<>>) = <<>>
    <2>1. PICK e : e = <<>> /\ Len(e) = 0
        OBVIOUS
    <2>2. PICK t : Sums(t, e) /\ Join(e) = t[0]
        BY <2>1, JoinSums
    <2> QED  BY <2>1, <2>2 DEF Sums
<1>2. ASSUME NEW a \in Code PROVE Join(<<a>>) = a
    <2>1. Len(<<a>>) = 1 /\ <<a>>[1] = a /\ 1 - 1 = 0 /\ 1 \in 1 .. 1
        OBVIOUS
    <2>2. PICK t : Sums(t, <<a>>) /\ Join(<<a>>) = t[1]
        BY <2>1, JoinSums
    <2>3. t[1] = t[0] \o a /\ t[0] = <<>>
        <3>1. t[1] = t[1 - 1] \o <<a>>[1] /\ t[0] = <<>>
            BY <2>1, <2>2, Zenon DEF Sums
        <3> QED  BY <2>1, <3>1
    <2> QED  BY <2>2, <2>3, CodeConcat
<1> QED  BY <1>1, <1>2

LEMMA JoinConcat ==
    ASSUME NEW p \in Seq(Code), NEW q \in Seq(Code)
    PROVE  p \o q \in Seq(Code) /\ Join(p \o q) = Join(p) \o Join(q)
<1>1. PICK m \in Nat : m = Len(p) /\ \A k \in 1 .. m : p[k] \in Code
    BY JoinCode
<1>2. PICK n \in Nat : n = Len(q) /\ \A k \in 1 .. n : q[k] \in Code
    BY JoinCode
<1>3. PICK t : Sums(t, p) /\ Join(p) = t[m]
    BY <1>1, JoinSums
<1>4. PICK u : Sums(u, q) /\ Join(q) = u[n]
    BY <1>2, JoinSums
<1>5. \A k \in 0 .. m : t[k] \in Code
    BY <1>1, <1>3, JoinCode
<1>6. \A k \in 0 .. n : u[k] \in Code
    BY <1>2, <1>4, JoinCode
<1>7. PICK r : r = p \o q
    OBVIOUS
<1>8. /\ r \in Seq(Code) /\ Len(r) = m + n
      /\ \A k \in 1 .. (m + n) : r[k] = IF k <= m THEN p[k] ELSE q[k - m]
    <2> HIDE DEF Code
    <2> QED  BY <1>1, <1>2, <1>7, ConcatProperties
<1> DEFINE w == [k \in 0 .. (m + n) |-> IF k <= m THEN t[k] ELSE t[m] \o u[k - m]]
<1>9. \A k \in 0 .. n : w[m + k] = t[m] \o u[k]
    <2> SUFFICES ASSUME NEW k \in 0 .. n PROVE w[m + k] = t[m] \o u[k]
        OBVIOUS
    <2>1. CASE k = 0
        <3>1. u[0] = <<>> /\ t[m] \in Code
            BY <1>4, <1>5 DEF Sums
        <3>2. w[m + k] = t[m]
            BY <2>1
        <3> QED  BY <2>1, <3>1, <3>2, CodeConcat
    <2>2. CASE k # 0
        <3>1. m + k \in 0 .. (m + n) /\ ~(m + k <= m) /\ (m + k) - m = k
            BY <2>2
        <3> QED  BY <3>1
    <2> QED  BY <2>1, <2>2
<1>10. \A k \in 0 .. m : w[k] = t[k]
    OBVIOUS
<1> HIDE DEF w
<1>11. Sums(w, r)
    <2>1. w[0] = <<>>
        BY <1>3, <1>10 DEF Sums
    <2>2. ASSUME NEW k \in 1 .. (m + n), k <= m PROVE w[k] = w[k - 1] \o r[k]
        <3>1. k \in 1 .. m /\ k \in 0 .. m /\ k - 1 \in 0 .. m
            BY <2>2
        <3>2. t[k] = t[k - 1] \o p[k]
            BY <1>1, <1>3, <3>1 DEF Sums
        <3> QED  BY <1>8, <1>10, <2>2, <3>1, <3>2
    <2>3. ASSUME NEW k \in 1 .. (m + n), ~(k <= m) PROVE w[k] = w[k - 1] \o r[k]
        <3>1. PICK j \in 1 .. n : k = m + j /\ k - m = j /\ j - 1 \in 0 .. n /\ j \in 0 .. n /\ k - 1 = m + (j - 1)
            <4>1. k - m \in 1 .. n
                BY <2>3
            <4> QED  BY <4>1
        <3>2. u[j] = u[j - 1] \o q[j]
            BY <1>2, <1>4 DEF Sums
        <3>3. w[k] = t[m] \o u[j] /\ w[k - 1] = t[m] \o u[j - 1] /\ r[k] = q[j]
            BY <1>8, <1>9, <2>3, <3>1
        <3>4. t[m] \in Code /\ u[j - 1] \in Code /\ q[j] \in Code
            BY <1>2, <1>5, <1>6, <3>1
        <3>5. (t[m] \o u[j - 1]) \o q[j] = t[m] \o (u[j - 1] \o q[j])
            BY <3>4, CodeConcat, Zenon
        <3> QED  BY <3>2, <3>3, <3>5, Zenon
    <2> QED  BY <1>8, <2>1, <2>2, <2>3 DEF Sums
<1>12. Join(r) = w[m + n]
    <2>1. Len(r) \in Nat
        BY <1>8
    <2> QED  BY <1>8, <1>11, <2>1, JoinIs
<1>13. w[m + n] = t[m] \o u[n]
    <2>1. n \in 0 .. n
        OBVIOUS
    <2> QED  BY <1>9, <2>1
<1> QED  BY <1>3, <1>4, <1>7, <1>8, <1>12, <1>13

\* Pieces of the same lengths: they come to the same length, and to the same
\* code only when each is the same.
LEMMA JoinApart ==
    ASSUME NEW p \in Seq(Code), NEW q \in Seq(Code), Len(p) = Len(q),
           \A k \in 1 .. Len(p) : Len(p[k]) = Len(q[k])
    PROVE  /\ Len(Join(p)) = Len(Join(q))
           /\ Join(p) = Join(q) => \A k \in 1 .. Len(p) : p[k] = q[k]
<1>1. PICK m \in Nat : m = Len(p) /\ \A k \in 1 .. m : p[k] \in Code
    BY JoinCode
<1>2. m = Len(q) /\ \A k \in 1 .. m : q[k] \in Code
    BY <1>1, JoinCode
<1>3. PICK t : Sums(t, p) /\ Join(p) = t[m]
    BY <1>1, JoinSums
<1>4. PICK u : Sums(u, q) /\ Join(q) = u[m]
    BY <1>2, JoinSums
<1>5. \A k \in 0 .. m : t[k] \in Code
    BY <1>1, <1>3, JoinCode
<1>6. \A k \in 0 .. m : u[k] \in Code
    BY <1>2, <1>4, JoinCode
<1>7. ASSUME NEW k \in 1 .. m
      PROVE  /\ k - 1 \in 0 .. m /\ k \in 0 .. m
             /\ t[k] = t[k - 1] \o p[k] /\ u[k] = u[k - 1] \o q[k]
    <2>1. k - 1 \in 0 .. m /\ k \in 0 .. m
        OBVIOUS
    <2>2. t[k] = t[k - 1] \o p[k]
        BY <1>1, <1>3, Zenon DEF Sums
    <2>3. u[k] = u[k - 1] \o q[k]
        BY <1>2, <1>4, Zenon DEF Sums
    <2> QED  BY <2>1, <2>2, <2>3
<1>8. \A k \in 0 .. m : Len(t[k]) = Len(u[k])
    <2> DEFINE S == {k \in 0 .. m : Len(t[k]) = Len(u[k])}
    <2>1. 0 \in S
        BY <1>3, <1>4 DEF Sums
    <2>2. ASSUME NEW k \in 0 .. m, k < m, k \in S PROVE k + 1 \in S
        <3>1. k + 1 \in 1 .. m /\ (k + 1) - 1 = k /\ k + 1 \in 0 .. m
            BY <2>2
        <3>2. t[k + 1] = t[k] \o p[k + 1] /\ u[k + 1] = u[k] \o q[k + 1]
            BY <1>7, <3>1
        <3>3. Len(t[k + 1]) = Len(t[k]) + Len(p[k + 1]) /\ Len(u[k + 1]) = Len(u[k]) + Len(q[k + 1])
            BY <1>1, <1>2, <1>5, <1>6, <3>1, <3>2, CodeConcat
        <3>4. Len(t[k]) = Len(u[k]) /\ Len(p[k + 1]) = Len(q[k + 1])
            BY <1>1, <2>2, <3>1
        <3> QED  BY <3>1, <3>3, <3>4
    <2> HIDE DEF S
    <2>3. 0 .. m \subseteq S
        BY <2>1, <2>2, CountUp
    <2> QED  BY <2>3 DEF S
<1>9. ASSUME Join(p) = Join(q) PROVE \A k \in 1 .. m : p[k] = q[k]
    <2>1. ASSUME NEW k \in 1 .. m, t[k] = u[k] PROVE t[k - 1] = u[k - 1] /\ p[k] = q[k]
        <3>1. /\ t[k - 1] \in Code /\ u[k - 1] \in Code /\ p[k] \in Code /\ q[k] \in Code
              /\ Len(t[k - 1]) = Len(u[k - 1])
            BY <1>1, <1>2, <1>5, <1>6, <1>7, <1>8
        <3>2. t[k - 1] \o p[k] = u[k - 1] \o q[k]
            BY <1>7, <2>1
        <3>3. PICK a, c \in Code : a = t[k - 1] /\ c = u[k - 1]
            BY <3>1
        <3>4. PICK b, d \in Code : b = p[k] /\ d = q[k]
            BY <3>1
        <3>5. Len(a) = Len(c) /\ a \o b = c \o d
            BY <3>1, <3>2, <3>3, <3>4
        <3>6. a = c /\ b = d
            BY <3>5, CutApart
        <3> QED  BY <3>3, <3>4, <3>6
    <2> DEFINE S == {k \in 0 .. m : t[m - k] = u[m - k]}
    <2>2. 0 \in S
        <3>1. m - 0 = m /\ 0 \in 0 .. m /\ t[m] = u[m]
            BY <1>3, <1>4, <1>9
        <3> QED  BY <3>1
    <2>3. ASSUME NEW k \in 0 .. m, k < m, k \in S PROVE k + 1 \in S
        <3>1. m - k \in 1 .. m /\ (m - k) - 1 = m - (k + 1) /\ k + 1 \in 0 .. m
            BY <2>3
        <3> QED  BY <2>1, <2>3, <3>1
    <2> HIDE DEF S
    <2>4. 0 .. m \subseteq S
        BY <2>2, <2>3, CountUp
    <2>5. ASSUME NEW k \in 1 .. m PROVE t[k] = u[k]
        <3>1. m - k \in 0 .. m /\ m - (m - k) = k
            OBVIOUS
        <3> QED  BY <2>4, <3>1 DEF S
    <2> QED  BY <2>1, <2>5
<1>10. Len(Join(p)) = Len(Join(q))
    <2>1. m \in 0 .. m
        OBVIOUS
    <2> QED  BY <1>3, <1>4, <1>8, <2>1
<1> QED  BY <1>1, <1>9, <1>10

-------------------------------------------------------------------------------
(* The code of trees: before what is written for a node itself comes the code *)
(* of the nodes visited before it.                                            *)

\* A rank for each node, above those of the nodes visited before it.
Orderly(R, rank) ==
    /\ R \in Nat /\ rank \in [Tree -> 0 .. R]
    /\ \A n \in Tree :
          /\ InOrder(n) \in Seq(Tree)
          /\ \A k \in 1 .. Len(InOrder(n)) : rank[InOrder(n)[k]] < rank[n]

Pieces(f, n) == [k \in 1 .. Len(InOrder(n)) |-> f[InOrder(n)[k]]]
Under(f, n) == Join(Pieces(f, n))

\* f gives each node its code when own gives what is written for it alone.
Codes(f, own) == f \in [Tree -> Code] /\ \A n \in Tree : f[n] = Under(f, n) \o own[n]

LEMMA OrderlyInduction ==
    ASSUME NEW R, NEW rank, Orderly(R, rank), NEW U,
           \A n \in Tree : (\A k \in 1 .. Len(InOrder(n)) : InOrder(n)[k] \in U) => n \in U
    PROVE  Tree \subseteq U
<1> DEFINE T == {r \in Nat : \E n \in Tree : n \notin U /\ rank[n] = r}
<1>0. rank \in [Tree -> Nat]
    BY DEF Orderly
<1>1. T = {}
    <2> SUFFICES ASSUME T # {} PROVE FALSE
        OBVIOUS
    <2>1. PICK r \in T : \A q \in T : r <= q
        BY LP!LeastElement, LexerAssumption
    <2>2. PICK n \in Tree : n \notin U /\ rank[n] = r
        BY <2>1
    <2>3. PICK k \in 1 .. Len(InOrder(n)) : InOrder(n)[k] \notin U
        BY <2>2
    <2>4. PICK e \in Tree : e = InOrder(n)[k] /\ rank[e] < rank[n]
        <3>1. InOrder(n) \in Seq(Tree) /\ rank[InOrder(n)[k]] < rank[n]
            BY DEF Orderly
        <3>2. InOrder(n)[k] \in Tree
            BY <3>1
        <3> QED  BY <3>1, <3>2
    <2>5. rank[e] \in T /\ rank[e] \in Nat /\ r \in Nat
        BY <1>0, <2>1, <2>3, <2>4
    <2> QED  BY <2>1, <2>2, <2>4, <2>5
<1>2. ASSUME NEW n \in Tree PROVE n \in U
    BY <1>0, <1>1
<1> QED  BY <1>2

LEMMA UnderCode ==
    ASSUME NEW n, Len(InOrder(n)) \in Nat, NEW f,
           \A k \in 1 .. Len(InOrder(n)) : f[InOrder(n)[k]] \in Code
    PROVE  Pieces(f, n) \in Seq(Code) /\ Len(Pieces(f, n)) = Len(InOrder(n)) /\ Under(f, n) \in Code
<1>1. PICK m \in Nat : m = Len(InOrder(n))
    OBVIOUS
<1> DEFINE piece(k) == f[InOrder(n)[k]]
<1>2. Pieces(f, n) = [k \in 1 .. m |-> piece(k)]
    BY <1>1 DEF Pieces
<1>3. \A k \in 1 .. m : piece(k) \in Code
    BY <1>1
<1> HIDE DEF piece
<1>4. Pieces(f, n) \in Seq(Code) /\ Len(Pieces(f, n)) = m
    BY <1>2, <1>3
<1> QED  BY <1>1, <1>4, JoinCode DEF Under

LEMMA UnderAgrees ==
    ASSUME NEW n, NEW f, NEW g, \A k \in 1 .. Len(InOrder(n)) : f[InOrder(n)[k]] = g[InOrder(n)[k]]
    PROVE  Pieces(f, n) = Pieces(g, n) /\ Under(f, n) = Under(g, n)
<1>1. Pieces(f, n) = Pieces(g, n)
    BY DEF Pieces
<1> QED  BY <1>1 DEF Under

LEMMA CodesExist ==
    ASSUME NEW R, NEW rank, Orderly(R, rank), NEW own \in [Tree -> Code]
    PROVE  \E f : Codes(f, own)
<1>0. R \in Nat /\ rank \in [Tree -> 0 .. R] /\ rank \in [Tree -> Nat]
    BY DEF Orderly
<1> DEFINE Low(r) == {n \in Tree : rank[n] <= r}
           Partly(f, r) == f \in [Low(r) -> Code] /\ \A n \in Low(r) : f[n] = Under(f, n) \o own[n]
           S == {r \in 0 .. R : \E f : Partly(f, r)}
<1>1. ASSUME NEW n \in Tree
      PROVE  /\ Len(InOrder(n)) \in Nat
             /\ \A k \in 1 .. Len(InOrder(n)) :
                   /\ InOrder(n)[k] \in Tree /\ rank[InOrder(n)[k]] \in Nat
                   /\ rank[InOrder(n)[k]] < rank[n]
    <2>1. InOrder(n) \in Seq(Tree)
        BY DEF Orderly
    <2>2. Len(InOrder(n)) \in Nat /\ \A k \in 1 .. Len(InOrder(n)) : InOrder(n)[k] \in Tree
        BY <2>1
    <2> QED  BY <1>0, <2>2 DEF Orderly
<1>2. ASSUME NEW r \in Int, NEW f, Partly(f, r) PROVE \E g : Partly(g, r + 1)
    <2> DEFINE new(n) == Under(f, n) \o own[n]
               g == [n \in Low(r + 1) |-> IF n \in Low(r) THEN f[n] ELSE new(n)]
    <2>1. ASSUME NEW n \in Low(r + 1), NEW k \in 1 .. Len(InOrder(n))
          PROVE  /\ InOrder(n)[k] \in Low(r) /\ InOrder(n)[k] \in Low(r + 1)
                 /\ f[InOrder(n)[k]] \in Code /\ g[InOrder(n)[k]] = f[InOrder(n)[k]]
        <3>1. InOrder(n)[k] \in Tree /\ rank[InOrder(n)[k]] \in Nat /\ rank[InOrder(n)[k]] < rank[n]
            BY <1>1
        <3>2. rank[n] <= r + 1 /\ rank[n] \in Nat
            BY <1>0
        <3>3. InOrder(n)[k] \in Low(r) /\ InOrder(n)[k] \in Low(r + 1)
            BY <3>1, <3>2
        <3> HIDE DEF Low, new
        <3> QED  BY <1>2, <3>3
    <2>2. ASSUME NEW n \in Low(r + 1) PROVE new(n) \in Code /\ Under(g, n) = Under(f, n)
        <3>1. Under(f, n) \in Code
            <4>1. n \in Tree
                OBVIOUS
            <4> QED  BY <1>1, <2>1, <4>1, UnderCode
        <3>2. Under(g, n) = Under(f, n)
            BY <2>1, UnderAgrees
        <3> HIDE DEF g
        <3> QED  BY <3>1, <3>2, CodeConcat
    <2>3. ASSUME NEW n \in Low(r + 1) PROVE g[n] \in Code /\ g[n] = Under(g, n) \o own[n]
        <3>1. CASE n \in Low(r)
            <4> HIDE DEF Low, new
            <4>1. g[n] = f[n] /\ f[n] \in Code /\ f[n] = Under(f, n) \o own[n]
                BY <1>2, <3>1
            <4> QED  BY <2>2, <4>1
        <3>2. CASE n \notin Low(r)
            <4>1. g[n] = new(n)
                BY <3>2
            <4> HIDE DEF Low, g
            <4> QED  BY <2>2, <4>1
        <3> QED  BY <3>1, <3>2
    <2>4. g \in [Low(r + 1) -> Code]
        <3>1. g = [n \in Low(r + 1) |-> g[n]]
            OBVIOUS
        <3> HIDE DEF g, Low
        <3> QED  BY <2>3, <3>1
    <2> HIDE DEF g, Low
    <2>5. Partly(g, r + 1)
        BY <2>3, <2>4
    <2> QED  BY <2>5
<1>3. \E f : Partly(f, -1)
    <2>1. Low(-1) = {}
        BY <1>0
    <2> DEFINE f == [n \in {} |-> <<>>]
    <2>2. Partly(f, -1)
        BY <2>1
    <2> QED  BY <2>2
<1> HIDE DEF Partly
<1>4. 0 \in S
    <2>1. \E f : Partly(f, (-1) + 1)
        BY <1>2, <1>3
    <2> QED  BY <1>0, <2>1
<1>5. ASSUME NEW r \in 0 .. R, r < R, r \in S PROVE r + 1 \in S
    <2>1. PICK f : Partly(f, r)
        BY <1>5
    <2>2. PICK g : Partly(g, r + 1)
        BY <1>2, <2>1
    <2>3. r + 1 \in 0 .. R
        BY <1>0, <1>5
    <2> QED  BY <2>2, <2>3
<1> HIDE DEF S
<1>6. R \in S
    <2>1. R \in 0 .. R
        BY <1>0
    <2> QED  BY <1>0, <1>4, <1>5, <2>1, CountUp
<1>7. PICK f : Partly(f, R)
    BY <1>6 DEF S
<1>8. Low(R) = Tree
    BY <1>0
<1> QED  BY <1>7, <1>8, Zenon DEF Partly, Codes

\* The program as a node, and a call's only argument.
Whole == ProgramIR(program)
OneArgument == \A n \in Tree : n.ir = "Call" => Len(n.kids) = 1

LEMMA CompilesOneArgument == Compiles(program, Len(tokens)) => OneArgument
BY DEF Compiles, EmitAccepts, OneArgument, Tree

\* What is visited before a node is its children, in another order.
LEMMA VisitsKids ==
    ASSUME ParserInv, NEW n \in Tree, n.ir = "Call" => Len(n.kids) = 1
    PROVE  /\ InOrder(n) \in Seq(Tree) /\ Len(InOrder(n)) \in Nat
           /\ \A k \in 1 .. Len(InOrder(n)) :
                 InOrder(n)[k] \in Tree /\ \E j \in DOMAIN n.kids : InOrder(n)[k] = n.kids[j]
           /\ \A j \in DOMAIN n.kids : \E k \in 1 .. Len(InOrder(n)) : n.kids[j] = InOrder(n)[k]
<1>0. n.ir = "Call" => n.kids # <<>> /\ Len(n.kids) = 1
    <2>1. \A s : s = <<>> => Len(s) = 0
        OBVIOUS
    <2>2. Len(n.kids) = 1 => n.kids # <<>>
        <3>1. Len(n.kids) = 1 => Len(n.kids) # 0
            OBVIOUS
        <3> QED  BY <2>1, <3>1, Zenon
    <2> QED  BY <2>2, Zenon
<1>1. InOrder(n) \in Seq(Tree)
    BY <1>0, InOrderTree
<1>2. Len(InOrder(n)) \in Nat /\ \A k \in 1 .. Len(InOrder(n)) : InOrder(n)[k] \in Tree
    BY <1>1
<1>3. Shaped(n, Tree)
    BY TreeOfParsed
<1>4. /\ \A k \in 1 .. Len(InOrder(n)) : \E j \in DOMAIN n.kids : InOrder(n)[k] = n.kids[j]
      /\ \A j \in DOMAIN n.kids : \E k \in 1 .. Len(InOrder(n)) : n.kids[j] = InOrder(n)[k]
    <2>1. CASE n.ir \in {"Binary", "Assign"}
        <3>1. PICK l, r \in Tree : n.kids = <<l, r>>
            BY <1>3, <2>1 DEF Shaped
        <3>2. InOrder(n) = <<r, l>>
            BY <2>1, <3>1 DEF InOrder
        <3>3. DOMAIN <<l, r>> = {1, 2} /\ Len(<<r, l>>) = 2 /\ 1 .. 2 = {1, 2}
            OBVIOUS
        <3>4. <<l, r>>[1] = <<r, l>>[2] /\ <<l, r>>[2] = <<r, l>>[1]
            OBVIOUS
        <3> QED  BY <3>1, <3>2, <3>3, <3>4
    <2>2. CASE n.ir = "Call"
        <3>1. n.kids \in Seq(Tree) /\ Len(n.kids) = 1
            BY <1>0, <1>3, <2>2 DEF Shaped
        <3>2. InOrder(n) = <<n.kids[1]>>
            BY <2>2 DEF InOrder
        <3>3. DOMAIN n.kids = {1} /\ Len(<<n.kids[1]>>) = 1 /\ 1 .. 1 = {1} /\ <<n.kids[1]>>[1] = n.kids[1]
            BY <3>1
        <3> QED  BY <3>2, <3>3
    <2>3. CASE n.ir \notin {"Binary", "Assign", "Call"}
        <3>1. InOrder(n) = n.kids
            BY <2>3 DEF InOrder
        <3>2. n.kids \in Seq(Tree)
            BY <1>1, <3>1
        <3>3. DOMAIN n.kids = 1 .. Len(n.kids)
            BY <3>2
        <3> QED  BY <3>1, <3>3
    <2> QED  BY <2>1, <2>2, <2>3
<1> QED  BY <1>1, <1>2, <1>4

LEMMA Visits ==
    ASSUME ParserInv, OneArgument, NEW n \in Tree
    PROVE  /\ InOrder(n) \in Seq(Tree) /\ Len(InOrder(n)) \in Nat
           /\ \A k \in 1 .. Len(InOrder(n)) :
                 InOrder(n)[k] \in Tree /\ \E j \in DOMAIN n.kids : InOrder(n)[k] = n.kids[j]
           /\ \A j \in DOMAIN n.kids : \E k \in 1 .. Len(InOrder(n)) : n.kids[j] = InOrder(n)[k]
<1>1. n.ir = "Call" => Len(n.kids) = 1
    BY DEF OneArgument
<1> QED  BY <1>1, VisitsKids

LEMMA ParsedOrderly ==
    ASSUME ParserInv, OneArgument
    PROVE  \E R, rank : Orderly(R, rank)
<1>1. PICK R, rank : Ranks(R, rank)
    BY TreeOfParsed
<1>2. R \in Nat /\ rank \in [Tree -> 1 .. R]
    BY <1>1 DEF Ranks
<1>3. rank \in [Tree -> 0 .. R]
    <2>1. 1 .. R \subseteq 0 .. R
        BY <1>2
    <2> QED  BY <1>2, <2>1
<1>4. ASSUME NEW n \in Tree
      PROVE  /\ InOrder(n) \in Seq(Tree)
             /\ \A k \in 1 .. Len(InOrder(n)) : rank[InOrder(n)[k]] < rank[n]
    <2>1. \A j \in DOMAIN n.kids : rank[n.kids[j]] < rank[n]
        BY <1>1 DEF Ranks
    <2> QED  BY <2>1, Visits
<1>5. Orderly(R, rank)
    BY <1>2, <1>3, <1>4 DEF Orderly
<1> QED  BY <1>5

\* What holds of the statements, and of what is visited below a node it holds
\* of, holds of every node.
LEMMA AllVisited ==
    ASSUME ParserInv, NEW U, \A k \in 1 .. Len(program) : program[k] \in U,
           \A n \in U \cap Tree : /\ n.ir = "Call" => Len(n.kids) = 1
                                 /\ \A k \in 1 .. Len(InOrder(n)) : InOrder(n)[k] \in U
    PROVE  Tree \subseteq U
<1> DEFINE T == U \cap Tree
           roots == {program[k] : k \in DOMAIN program}
<1>1. \A n \in T : \A k \in DOMAIN n.kids : n.kids[k] \in T
    <2> SUFFICES ASSUME NEW n \in T, NEW j \in DOMAIN n.kids PROVE n.kids[j] \in T
        OBVIOUS
    <2>1. PICK k \in 1 .. Len(InOrder(n)) : n.kids[j] = InOrder(n)[k] /\ InOrder(n)[k] \in Tree
        <3>1. n.ir = "Call" => Len(n.kids) = 1
            OBVIOUS
        <3> QED  BY <3>1, VisitsKids
    <2> QED  BY <2>1
<1>2. roots \in SUBSET T
    <2>1. program \in Seq(Tree)
        BY TreeOfParsed
    <2>2. \A k \in DOMAIN program : program[k] \in Tree /\ k \in 1 .. Len(program)
        BY <2>1
    <2> QED  BY <2>2
<1>3. Len(tokens) \in Nat
    BY DEF ParserInv, PP!Inv, PP!Base
<1> HIDE DEF T
<1>4. \A d \in 0 .. Len(tokens) : PP!Levels(roots, Len(tokens))[d] \subseteq T
    BY <1>1, <1>2, <1>3, PP!LevelsWithin
<1>5. PP!Nodes(program, Len(tokens)) \subseteq T
    BY <1>4 DEF PP!Nodes
<1> QED  BY <1>5, SameNodes DEF Tree, T

LEMMA AllOfTree ==
    ASSUME ParserInv, OneArgument, NEW U, \A k \in 1 .. Len(program) : program[k] \in U,
           \A n \in U \cap Tree : \A k \in 1 .. Len(InOrder(n)) : InOrder(n)[k] \in U
    PROVE  Tree \subseteq U
<1>1. \A n \in U \cap Tree : n.ir = "Call" => Len(n.kids) = 1
    BY DEF OneArgument
<1> QED  BY <1>1, AllVisited

-------------------------------------------------------------------------------
(* Two ways to give the nodes code of their own. *)

LEMMA VisitedCode ==
    ASSUME ParserInv, OneArgument, NEW own \in [Tree -> Code], NEW f, Codes(f, own), NEW n \in Tree
    PROVE  /\ Len(InOrder(n)) \in Nat
           /\ \A k \in 1 .. Len(InOrder(n)) : f[InOrder(n)[k]] \in Code
           /\ Pieces(f, n) \in Seq(Code) /\ Len(Pieces(f, n)) = Len(InOrder(n))
           /\ Under(f, n) \in Code /\ own[n] \in Code /\ f[n] \in Code
           /\ f[n] = Under(f, n) \o own[n]
<1>1. /\ Len(InOrder(n)) \in Nat
      /\ \A k \in 1 .. Len(InOrder(n)) : f[InOrder(n)[k]] \in Code
    BY Visits DEF Codes
<1> QED  BY <1>1, UnderCode DEF Codes

LEMMA VisitedProgram ==
    ASSUME ParserInv, NEW f \in [Tree -> Code]
    PROVE  /\ InOrder(Whole) = program /\ Len(program) \in Nat
           /\ \A k \in 1 .. Len(program) : program[k] \in Tree /\ f[program[k]] \in Code
           /\ Pieces(f, Whole) \in Seq(Code) /\ Len(Pieces(f, Whole)) = Len(program)
           /\ Under(f, Whole) \in Code
<1>1. InOrder(Whole) = program
    BY ProgramNode DEF InOrder, Whole
<1>2. program \in Seq(Tree)
    BY TreeOfParsed
<1>3. Len(program) \in Nat /\ \A k \in 1 .. Len(program) : program[k] \in Tree
    BY <1>2
<1>4. \A k \in 1 .. Len(program) : f[program[k]] \in Code
    BY <1>3
<1> QED  BY <1>1, <1>3, <1>4, UnderCode

LEMMA CodesAgree ==
    ASSUME ParserInv, OneArgument, NEW own \in [Tree -> Code],
           NEW f, Codes(f, own), NEW g, Codes(g, own)
    PROVE  \A n \in Tree : f[n] = g[n]
<1>1. PICK R, rank : Orderly(R, rank)
    BY ParsedOrderly
<1> DEFINE U == {n \in Tree : f[n] = g[n]}
<1>2. ASSUME NEW n \in Tree, \A k \in 1 .. Len(InOrder(n)) : InOrder(n)[k] \in U
      PROVE  n \in U
    <2>1. Under(f, n) = Under(g, n)
        BY <1>2, UnderAgrees
    <2>2. f[n] = g[n]
        BY <2>1 DEF Codes
    <2> QED  BY <2>2
<1> HIDE DEF U
<1>3. Tree \subseteq U
    BY <1>1, <1>2, OrderlyInduction
<1> QED  BY <1>3 DEF U

\* Two codes of one length that differ where a node's own or one below it does.
Apart(f, g, c, d) ==
    \A n \in Tree :
        /\ Len(f[n]) = Len(g[n])
        /\ f[n] = g[n] => /\ c[n] = d[n]
                          /\ \A k \in 1 .. Len(InOrder(n)) : f[InOrder(n)[k]] = g[InOrder(n)[k]]

\* Code of one's own of the same length gives code of the same length.
LEMMA CodesLengths ==
    ASSUME ParserInv, OneArgument, NEW c \in [Tree -> Code], NEW d \in [Tree -> Code],
           \A n \in Tree : Len(c[n]) = Len(d[n]),
           NEW f, Codes(f, c), NEW g, Codes(g, d)
    PROVE  Apart(f, g, c, d)
<1>1. PICK R, rank : Orderly(R, rank)
    BY ParsedOrderly
<1> DEFINE U == {n \in Tree : Len(f[n]) = Len(g[n])}
<1>2. ASSUME NEW n \in Tree, \A k \in 1 .. Len(InOrder(n)) : InOrder(n)[k] \in U
      PROVE  /\ Len(Under(f, n)) = Len(Under(g, n)) /\ n \in U
             /\ f[n] = g[n] => c[n] = d[n] /\ \A k \in 1 .. Len(InOrder(n)) :
                                                  f[InOrder(n)[k]] = g[InOrder(n)[k]]
    <2>1. PICK p \in Seq(Code) : p = Pieces(f, n) /\ Len(p) = Len(InOrder(n)) /\ Under(f, n) = Join(p)
        BY VisitedCode DEF Under
    <2>2. PICK q \in Seq(Code) : q = Pieces(g, n) /\ Len(q) = Len(InOrder(n)) /\ Under(g, n) = Join(q)
        BY VisitedCode DEF Under
    <2>3. \A k \in 1 .. Len(InOrder(n)) : p[k] = f[InOrder(n)[k]] /\ q[k] = g[InOrder(n)[k]]
        BY <2>1, <2>2 DEF Pieces
    <2>4. \A k \in 1 .. Len(p) : Len(p[k]) = Len(q[k])
        <3>1. \A k \in 1 .. Len(InOrder(n)) : Len(f[InOrder(n)[k]]) = Len(g[InOrder(n)[k]])
            BY <1>2
        <3> QED  BY <2>1, <2>3, <3>1, Zenon
    <2>5. /\ Len(Join(p)) = Len(Join(q))
          /\ Join(p) = Join(q) => \A k \in 1 .. Len(p) : p[k] = q[k]
        BY <2>1, <2>2, <2>4, JoinApart
    <2>6. PICK a, b \in Code : a = Under(f, n) /\ b = c[n] /\ f[n] = a \o b
        BY VisitedCode
    <2>7. PICK x, y \in Code : x = Under(g, n) /\ y = d[n] /\ g[n] = x \o y
        BY VisitedCode
    <2>8. Len(a) = Len(x) /\ Len(b) = Len(y)
        BY <2>1, <2>2, <2>5, <2>6, <2>7
    <2>9. n \in U
        BY <2>6, <2>7, <2>8, CodeConcat
    <2>10. ASSUME f[n] = g[n]
           PROVE  c[n] = d[n] /\ \A k \in 1 .. Len(InOrder(n)) : f[InOrder(n)[k]] = g[InOrder(n)[k]]
        <3>1. a \o b = x \o y
            BY <2>6, <2>7, <2>10
        <3>2. a = x /\ b = y
            BY <2>8, <3>1, CutApart
        <3>3. \A k \in 1 .. Len(p) : p[k] = q[k]
            BY <2>1, <2>2, <2>5, <2>6, <2>7, <3>2
        <3>4. \A k \in 1 .. Len(InOrder(n)) : f[InOrder(n)[k]] = g[InOrder(n)[k]]
            BY <2>1, <2>3, <3>3
        <3> QED  BY <2>6, <2>7, <3>2, <3>4
    <2> QED  BY <2>6, <2>7, <2>8, <2>9, <2>10
<1>3. Tree \subseteq U
    <2> HIDE DEF U
    <2> QED  BY <1>1, <1>2, OrderlyInduction
<1>4. ASSUME NEW n \in Tree PROVE \A k \in 1 .. Len(InOrder(n)) : InOrder(n)[k] \in U
    BY <1>3, Visits
<1> QED  BY <1>2, <1>3, <1>4 DEF Apart

\* The whole program's code has that length too, and it is the same only when
\* each node's own is.
LEMMA WholeApart ==
    ASSUME ParserInv, OneArgument, NEW c \in [Tree -> Code], NEW d \in [Tree -> Code],
           \A n \in Tree : Len(c[n]) = Len(d[n]),
           NEW f, Codes(f, c), NEW g, Codes(g, d)
    PROVE  /\ Len(Under(f, Whole)) = Len(Under(g, Whole))
           /\ Under(f, Whole) = Under(g, Whole) <=> \A n \in Tree : c[n] = d[n]
<1>1. PICK p \in Seq(Code) : p = Pieces(f, Whole) /\ Len(p) = Len(program) /\ Under(f, Whole) = Join(p)
    BY VisitedProgram DEF Under, Codes
<1>2. PICK q \in Seq(Code) : q = Pieces(g, Whole) /\ Len(q) = Len(program) /\ Under(g, Whole) = Join(q)
    BY VisitedProgram DEF Under, Codes
<1>3. InOrder(Whole) = program /\ \A k \in 1 .. Len(program) : program[k] \in Tree
    BY VisitedProgram DEF Codes
<1>4. \A k \in 1 .. Len(program) : p[k] = f[program[k]] /\ q[k] = g[program[k]]
    BY <1>1, <1>2, <1>3 DEF Pieces
<1>5. Apart(f, g, c, d)
    BY CodesLengths
<1>6. \A k \in 1 .. Len(p) : Len(p[k]) = Len(q[k])
    BY <1>1, <1>3, <1>4, <1>5 DEF Apart
<1>7. /\ Len(Join(p)) = Len(Join(q))
      /\ Join(p) = Join(q) => \A k \in 1 .. Len(p) : p[k] = q[k]
    BY <1>1, <1>2, <1>6, JoinApart
<1>8. ASSUME Under(f, Whole) = Under(g, Whole) PROVE \A n \in Tree : c[n] = d[n]
    <2> DEFINE U == {n \in Tree : f[n] = g[n]}
    <2>1. \A k \in 1 .. Len(program) : program[k] \in U
        BY <1>1, <1>2, <1>3, <1>4, <1>7, <1>8
    <2>2. \A n \in U \cap Tree : \A k \in 1 .. Len(InOrder(n)) : InOrder(n)[k] \in U
        BY <1>5, Visits DEF Apart
    <2> HIDE DEF U
    <2>3. Tree \subseteq U
        BY <2>1, <2>2, AllOfTree
    <2> QED  BY <1>5, <2>3 DEF U, Apart
<1>9. ASSUME \A n \in Tree : c[n] = d[n] PROVE Under(f, Whole) = Under(g, Whole)
    <2>1. c = d
        BY <1>9
    <2>2. \A n \in Tree : f[n] = g[n]
        BY <2>1, CodesAgree
    <2>3. \A k \in 1 .. Len(InOrder(Whole)) : f[InOrder(Whole)[k]] = g[InOrder(Whole)[k]]
        BY <1>3, <2>2
    <2> QED  BY <2>3, UnderAgrees
<1> QED  BY <1>1, <1>2, <1>7, <1>8, <1>9

-------------------------------------------------------------------------------
(* The code of a node itself, as it is written and as it is meant: they differ *)
(* in the index of a load or store, which is cut off.                          *)

Cut == [n \in Tree |-> Join(Writes(n))]
Full ==
    [n \in Tree |-> IF n.ir \in {"Variable", "Store"} THEN <<Encode(n.op)>> \o n.data
                    ELSE Join(Writes(n))]

LEMMA PairConcat ==
    ASSUME NEW a, NEW b
    PROVE  <<a>> \o <<b>> = <<a, b>>
<1> DEFINE S == {a, b}
<1>1. <<a>> \in Seq(S) /\ <<b>> \in Seq(S) /\ <<a, b>> \in Seq(S)
    OBVIOUS
<1>2. /\ Len(<<a>>) = 1 /\ Len(<<b>>) = 1 /\ Len(<<a, b>>) = 2
      /\ <<a>>[1] = a /\ <<b>>[1] = b /\ <<a, b>>[1] = a /\ <<a, b>>[2] = b
    OBVIOUS
<1> HIDE DEF S
<1>3. /\ <<a>> \o <<b>> \in Seq(S) /\ Len(<<a>> \o <<b>>) = 2
      /\ \A k \in 1 .. 2 : (<<a>> \o <<b>>)[k] = IF k <= 1 THEN <<a>>[k] ELSE <<b>>[k - 1]
    BY <1>1, <1>2, ConcatProperties
<1>4. (<<a>> \o <<b>>)[1] = a /\ (<<a>> \o <<b>>)[2] = b
    BY <1>2, <1>3
<1>5. \A k \in 1 .. 2 : (<<a>> \o <<b>>)[k] = <<a, b>>[k]
    BY <1>2, <1>4
<1> QED  BY <1>1, <1>2, <1>3, <1>5, SeqEqual

LEMMA JoinTwo ==
    ASSUME NEW a \in Code, NEW b \in Code
    PROVE  Join(<<a, b>>) = a \o b
<1>1. <<a>> \in Seq(Code) /\ <<b>> \in Seq(Code)
    <2> HIDE DEF Code
    <2> QED  OBVIOUS
<1>2. <<a>> \o <<b>> = <<a, b>>
    BY PairConcat
<1>3. Join(<<a>> \o <<b>>) = Join(<<a>>) \o Join(<<b>>)
    BY <1>1, JoinConcat
<1> QED  BY <1>2, <1>3, JoinFew

LEMMA HalfwordsCode ==
    ASSUME NEW v \in Seq(Halfword)
    PROVE  v \in Code
<1>1. Len(v) \in Nat /\ v = [k \in 1 .. Len(v) |-> v[k]] /\ \A k \in 1 .. Len(v) : v[k] \in Halfword
    OBVIOUS
<1>2. \A k \in 1 .. Len(v) : v[k] \in Nat
    BY <1>1 DEF Halfword
<1> QED  BY <1>1, <1>2 DEF Code

LEMMA WritesCode ==
    ASSUME NEW w \in Seq(Chunk)
    PROVE  w \in Seq(Code) /\ Join(w) \in Code
<1>1. ASSUME NEW v \in Chunk PROVE v \in Code
    BY HalfwordsCode DEF Chunk
<1> HIDE DEF Chunk, Code
<1>2. w \in Seq(Code)
    <2>1. Len(w) \in Nat /\ \A k \in 1 .. Len(w) : w[k] \in Chunk
        OBVIOUS
    <2>2. w = [k \in 1 .. Len(w) |-> w[k]]
        OBVIOUS
    <2>3. \A k \in 1 .. Len(w) : w[k] \in Code
        BY <1>1, <2>1
    <2> QED  BY <2>1, <2>2, <2>3
<1> QED  BY <1>2, JoinCode

LEMMA HalfwordCode ==
    /\ \A op \in Instruction : <<Encode(op)>> \in Code /\ Encode(op) \in Nat
    /\ Immediate \subseteq Code
    /\ \A h \in Nat : <<h>> \in Code
<1>1. Halfword \subseteq Nat
    BY DEF Halfword
<1>2. ASSUME NEW op \in Instruction PROVE <<Encode(op)>> \in Code /\ Encode(op) \in Nat
    <2>1. PICK h \in Nat : h = Encode(op)
        BY <1>1, EncodesHalfword
    <2> QED  BY <2>1 DEF Code
<1>3. ASSUME NEW v \in Immediate PROVE v \in Code
    BY HalfwordsCode DEF Immediate
<1>4. \A h \in Nat : <<h>> \in Code
    BY DEF Code
<1> QED  BY <1>2, <1>3, <1>4

\* An index that fits is the only one that is not cut off.
LEMMA IndexFits ==
    ASSUME NEW ix \in Nat
    PROVE  Index(ix) \in Nat /\ (Index(ix) = ix <=> ix < 2^IxBits)
<1>1. PICK m \in Nat \ {0} : m = 2^IxBits
    BY IxBitsAssumption
<1>2. ix % m \in Nat /\ (ix % m = ix <=> ix < m)
    OBVIOUS
<1> QED  BY <1>1, <1>2 DEF Index

LEMMA OwnCode ==
    ASSUME ParserInv, OneArgument
    PROVE  /\ Cut \in [Tree -> Code] /\ Full \in [Tree -> Code]
           /\ \A n \in Tree : Len(Cut[n]) = Len(Full[n])
           /\ \A n \in Tree : Cut[n] = Full[n] <=>
                                 (n.ir \in {"Variable", "Store"} => n.data[1] < 2^IxBits)
<1>1. ASSUME NEW n \in Tree
      PROVE  /\ Cut[n] \in Code /\ Full[n] \in Code /\ Len(Cut[n]) = Len(Full[n])
             /\ Cut[n] = Full[n] <=> (n.ir \in {"Variable", "Store"} => n.data[1] < 2^IxBits)
    <2>1. Shaped(n, Tree)
        BY TreeOfParsed
    <2>2. n.ir = "Call" => Len(n.kids) = 1
        BY DEF OneArgument
    <2>3. Cut[n] \in Code
        <3>1. Writes(n) \in Seq(Chunk)
            BY <2>1, <2>2, WritesChunks
        <3> QED  BY <3>1, WritesCode DEF Cut
    <2>4. CASE n.ir \notin {"Variable", "Store"}
        <3>1. Full[n] = Cut[n]
            BY <2>4 DEF Full, Cut
        <3> QED  BY <2>3, <2>4, <3>1
    <2>5. CASE n.ir \in {"Variable", "Store"}
        <3>1. PICK ix \in Nat : n.data = <<ix>>
            BY <2>1, <2>5 DEF Shaped
        <3>2. PICK e \in Nat : e = Encode(n.op) /\ <<e>> \in Code
            BY <2>1, <2>5, HalfwordCode DEF Shaped
        <3>3. Index(ix) \in Nat /\ <<Index(ix)>> \in Code /\ <<ix>> \in Code
            BY IndexFits, HalfwordCode
        <3>4. Writes(n) = <<<<e>>, <<Index(ix)>>>>
            BY <2>5, <3>1, <3>2 DEF Writes
        <3>5. Cut[n] = <<e>> \o <<Index(ix)>>
            BY <3>2, <3>3, <3>4, JoinTwo DEF Cut
        <3>6. Full[n] = <<e>> \o <<ix>>
            BY <2>5, <3>1, <3>2 DEF Full
        <3>7. PICK y \in Nat : y = Index(ix)
            BY <3>3
        <3>8. /\ <<e>> \o <<ix>> = <<e, ix>> /\ <<e>> \o <<y>> = <<e, y>>
              /\ Len(<<e, ix>>) = Len(<<e, y>>) /\ (<<e, ix>> = <<e, y>> <=> ix = y)
            BY PairConcat
        <3>9. <<e>> \o <<ix>> \in Code
            BY <3>2, <3>3, CodeConcat
        <3>10. y = ix <=> ix < 2^IxBits
            BY <3>7, IndexFits
        <3>11. n.data[1] = ix
            BY <3>1
        <3> QED  BY <2>3, <2>5, <3>5, <3>6, <3>7, <3>8, <3>9, <3>10, <3>11
    <2> QED  BY <2>4, <2>5
<1>2. Cut \in [Tree -> Code]
    <2>1. Cut = [n \in Tree |-> Cut[n]]
        BY DEF Cut
    <2> QED  BY <1>1, <2>1
<1>3. Full \in [Tree -> Code]
    <2>1. Full = [n \in Tree |-> Full[n]]
        BY DEF Full
    <2> QED  BY <1>1, <2>1
<1> QED  BY <1>1, <1>2, <1>3

-------------------------------------------------------------------------------
(* Emit gives every node its code. *)

EmitBody(f, n) ==
    CASE n.ir = "Binary" -> f[n.kids[2]] \o f[n.kids[1]] \o <<Encode(n.op)>>
      [] n.ir = "Cast"   -> f[n.kids[1]] \o <<Encode(n.op)>>
      [] n.ir = "Assign" -> f[n.kids[2]] \o f[n.kids[1]]
      [] n.ir = "Call"   -> f[n.kids[1]]
                            \o <<Encode(PrintOf[n.kids[1].type]), Len(n.kids)>>
      [] n.ir \in {"Variable", "Store", "Constant"} -> <<Encode(n.op)>> \o n.data
      [] OTHER -> <<>>

LEMMA NoPieces ==
    ASSUME NEW n, NEW f, InOrder(n) = <<>>
    PROVE  Under(f, n) = <<>>
<1>1. [k \in 1 .. Len(<<>>) |-> f[<<>>[k]]] = <<>>
    OBVIOUS
<1> QED  BY <1>1, JoinFew DEF Under, Pieces

LEMMA OnePiece ==
    ASSUME NEW n, NEW f, NEW a, InOrder(n) = <<a>>, f[a] \in Code
    PROVE  Under(f, n) = f[a]
<1>1. [k \in 1 .. Len(<<a>>) |-> f[<<a>>[k]]] = <<f[a]>>
    OBVIOUS
<1> QED  BY <1>1, JoinFew DEF Under, Pieces

LEMMA TwoPieces ==
    ASSUME NEW n, NEW f, NEW a, NEW b, InOrder(n) = <<a, b>>, f[a] \in Code, f[b] \in Code
    PROVE  Under(f, n) = f[a] \o f[b]
<1>1. [k \in 1 .. Len(<<a, b>>) |-> f[<<a, b>>[k]]] = <<f[a], f[b]>>
    OBVIOUS
<1> QED  BY <1>1, JoinTwo DEF Under, Pieces

LEMMA EmitBodyCode ==
    ASSUME ParserInv, OneArgument, NEW n \in Tree, NEW f,
           \A k \in 1 .. Len(InOrder(n)) : f[InOrder(n)[k]] \in Code
    PROVE  EmitBody(f, n) = Under(f, n) \o Full[n]
<1>1. Shaped(n, Tree)
    BY TreeOfParsed
<1>2. Full[n] \in Code
    BY OwnCode
<1>3. ASSUME NEW a, InOrder(n) = <<a>> PROVE f[a] \in Code /\ Under(f, n) = f[a]
    <2>1. 1 \in 1 .. Len(<<a>>) /\ <<a>>[1] = a
        OBVIOUS
    <2>2. f[a] \in Code
        BY <1>3, <2>1
    <2> QED  BY <1>3, <2>2, OnePiece
<1>4. ASSUME NEW a, NEW b, InOrder(n) = <<a, b>>
      PROVE  f[a] \in Code /\ f[b] \in Code /\ Under(f, n) = f[a] \o f[b]
    <2>1. 1 \in 1 .. Len(<<a, b>>) /\ 2 \in 1 .. Len(<<a, b>>) /\ <<a, b>>[1] = a /\ <<a, b>>[2] = b
        OBVIOUS
    <2>2. f[a] \in Code /\ f[b] \in Code
        BY <1>4, <2>1
    <2> QED  BY <1>4, <2>2, TwoPieces
<1>5. CASE n.ir = "Binary"
    <2>1. PICK l, r \in Tree : n.kids = <<l, r>>
        BY <1>1, <1>5 DEF Shaped
    <2>2. n.kids[1] = l /\ n.kids[2] = r /\ InOrder(n) = <<r, l>>
        BY <1>5, <2>1 DEF InOrder
    <2>3. EmitBody(f, n) = f[r] \o f[l] \o <<Encode(n.op)>>
        BY <1>5, <2>2 DEF EmitBody
    <2>4. Writes(n) = <<<<Encode(n.op)>>>> /\ <<Encode(n.op)>> \in Code
        BY <1>1, <1>5, HalfwordCode DEF Writes, Shaped
    <2>5. Full[n] = <<Encode(n.op)>>
        BY <1>5, <2>4, JoinFew DEF Full
    <2> QED  BY <1>4, <2>2, <2>3, <2>5
<1>6. CASE n.ir = "Cast"
    <2>1. PICK e \in Tree : n.kids = <<e>>
        BY <1>1, <1>6 DEF Shaped
    <2>2. n.kids[1] = e /\ InOrder(n) = <<e>>
        BY <1>6, <2>1 DEF InOrder
    <2>3. EmitBody(f, n) = f[e] \o <<Encode(n.op)>>
        BY <1>6, <2>2 DEF EmitBody
    <2>4. Writes(n) = <<<<Encode(n.op)>>>> /\ <<Encode(n.op)>> \in Code
        BY <1>1, <1>6, HalfwordCode DEF Writes, Shaped
    <2>5. Full[n] = <<Encode(n.op)>>
        BY <1>6, <2>4, JoinFew DEF Full
    <2> QED  BY <1>3, <2>2, <2>3, <2>5
<1>7. CASE n.ir = "Assign"
    <2>1. PICK l, r \in Tree : n.kids = <<l, r>>
        BY <1>1, <1>7 DEF Shaped
    <2>2. n.kids[1] = l /\ n.kids[2] = r /\ InOrder(n) = <<r, l>>
        BY <1>7, <2>1 DEF InOrder
    <2>3. EmitBody(f, n) = f[r] \o f[l]
        BY <1>7, <2>2 DEF EmitBody
    <2>4. Full[n] = <<>>
        BY <1>7, JoinFew DEF Full, Writes
    <2>5. f[r] \o f[l] \in Code
        BY <1>4, <2>2, CodeConcat
    <2>6. Under(f, n) = f[r] \o f[l]
        BY <1>4, <2>2
    <2> QED  BY <2>3, <2>4, <2>5, <2>6, CodeConcat
<1>8. CASE n.ir = "Call"
    <2>1. InOrder(n) = <<n.kids[1]>>
        BY <1>8 DEF InOrder
    <2>2. Len(n.kids) = 1
        BY <1>8 DEF OneArgument
    <2>3. n.kids[1].type \in Type
        BY <1>1, <1>8, <2>2 DEF Shaped
    <2>4. PICK e : e = Encode(PrintOf[n.kids[1].type]) /\ <<e>> \in Code
        BY <2>3, TablesNameInstructions, HalfwordCode
    <2>5. EmitBody(f, n) = f[n.kids[1]] \o <<e, Len(n.kids)>>
        BY <1>8, <2>4 DEF EmitBody
    <2>6. Writes(n) = <<<<e>>, <<Len(n.kids)>>>>
        BY <1>8, <2>4 DEF Writes
    <2>7. <<Len(n.kids)>> \in Code
        BY <2>2, HalfwordCode
    <2>8. Full[n] = <<e, Len(n.kids)>>
        BY <1>8, <2>4, <2>6, <2>7, JoinTwo, PairConcat DEF Full
    <2> QED  BY <1>3, <2>1, <2>5, <2>8
<1>9. CASE n.ir \in {"Variable", "Store", "Constant"}
    <2>1. n.kids = <<>>
        BY <1>1, <1>9 DEF Shaped
    <2>2. InOrder(n) = <<>>
        BY <1>9, <2>1 DEF InOrder
    <2>3. Under(f, n) = <<>>
        BY <2>2, NoPieces
    <2>4. EmitBody(f, n) = <<Encode(n.op)>> \o n.data
        BY <1>9 DEF EmitBody
    <2>5. Full[n] = <<Encode(n.op)>> \o n.data
        <3>1. CASE n.ir = "Constant"
            <4>1. n.data \in Code /\ <<Encode(n.op)>> \in Code
                BY <1>1, <3>1, HalfwordCode DEF Shaped
            <4>2. Writes(n) = <<<<Encode(n.op)>>, n.data>>
                BY <3>1 DEF Writes
            <4> QED  BY <3>1, <4>1, <4>2, JoinTwo DEF Full
        <3>2. CASE n.ir # "Constant"
            BY <1>9, <3>2 DEF Full
        <3> QED  BY <3>1, <3>2
    <2> QED  BY <1>2, <2>3, <2>4, <2>5, CodeConcat
<1>10. CASE n.ir \in {"Definition", "Nop"}
    <2>1. n.kids = <<>>
        BY <1>1, <1>10 DEF Shaped
    <2>2. InOrder(n) = <<>>
        BY <1>10, <2>1 DEF InOrder
    <2>3. Under(f, n) = <<>>
        BY <2>2, NoPieces
    <2>4. EmitBody(f, n) = <<>>
        BY <1>10 DEF EmitBody
    <2>5. Full[n] = <<>>
        BY <1>10, JoinFew DEF Full, Writes
    <2> QED  BY <2>3, <2>4, <2>5, CodeConcat
<1>11. n.ir \in {"Binary", "Cast", "Assign", "Call", "Variable", "Store", "Constant", "Definition", "Nop"}
    BY <1>1 DEF Shaped
<1> QED  BY <1>5, <1>6, <1>7, <1>8, <1>9, <1>10, <1>11

\* Emit, on the trees of a parsed program.
Emits == Emit(program, Len(tokens))

LEMMA EmitCodes ==
    ASSUME ParserInv, OneArgument
    PROVE  Codes(Emits, Full)
<1>1. PICK R, rank : Orderly(R, rank)
    BY ParsedOrderly
<1>2. PICK g : Codes(g, Full)
    BY <1>1, OwnCode, CodesExist
<1>3. g = [n \in Tree |-> EmitBody(g, n)]
    <2>1. ASSUME NEW n \in Tree PROVE g[n] = EmitBody(g, n)
        <3>1. /\ \A k \in 1 .. Len(InOrder(n)) : g[InOrder(n)[k]] \in Code
              /\ g[n] = Under(g, n) \o Full[n]
            BY <1>2, OwnCode, VisitedCode
        <3> QED  BY <3>1, EmitBodyCode
    <2> QED  BY <1>2, <2>1 DEF Codes
<1> DEFINE Is(f) == f = [n \in Tree |-> EmitBody(f, n)]
<1>4. Emits = CHOOSE f : Is(f)
    BY Zenon DEF Emits, Emit, EmitBody, Tree
<1>5. Is(Emits)
    BY <1>3, <1>4, Zenon
<1>6. PICK e : e = Emits
    OBVIOUS
<1>7. DOMAIN e = Tree /\ e = [n \in Tree |-> e[n]] /\ \A n \in Tree : e[n] = EmitBody(e, n)
    BY <1>5, <1>6
<1> HIDE DEF Is
<1> DEFINE U == {n \in Tree : e[n] \in Code}
<1>8. ASSUME NEW n \in Tree, \A k \in 1 .. Len(InOrder(n)) : InOrder(n)[k] \in U
      PROVE  n \in U /\ e[n] = Under(e, n) \o Full[n]
    <2>1. \A k \in 1 .. Len(InOrder(n)) : e[InOrder(n)[k]] \in Code
        BY <1>8
    <2>2. Under(e, n) \in Code
        BY <2>1, Visits, UnderCode
    <2>3. e[n] = Under(e, n) \o Full[n]
        BY <1>7, <2>1, EmitBodyCode
    <2>4. PICK u, w \in Code : u = Under(e, n) /\ w = Full[n]
        BY <2>2, OwnCode
    <2>5. u \o w \in Code
        BY CodeConcat
    <2> QED  BY <2>3, <2>4, <2>5, Zenon
<1>9. Tree \subseteq U
    <2> HIDE DEF U
    <2> QED  BY <1>1, <1>8, OrderlyInduction
<1>10. \A n \in Tree : e[n] \in Code /\ e[n] = Under(e, n) \o Full[n]
    BY <1>8, <1>9, Visits
<1>11. e \in [Tree -> Code]
    BY <1>7, <1>10
<1> QED  BY <1>6, <1>10, <1>11 DEF Codes

\* The statements one after the other.
LEMMA EmittedWhole ==
    ASSUME ParserInv, OneArgument
    PROVE  Emitted = Under(Emits, Whole) \o <<Encode("Done")>>
<1>1. Codes(Emits, Full)
    BY EmitCodes
<1>2. InOrder(Whole) = program /\ Len(program) \in Nat
    BY <1>1, VisitedProgram DEF Codes
<1>3. PICK m \in Nat : m = Len(program)
    BY <1>2
<1>4. PICK p : p = Pieces(Emits, Whole)
    OBVIOUS
<1>5. Len(p) = m /\ \A k \in 1 .. m : p[k] = Emits[program[k]]
    BY <1>1, <1>2, <1>3, <1>4, VisitedProgram DEF Codes, Pieces
<1> DEFINE Is(f) == f = [k \in 0 .. m |-> IF k = 0 THEN <<>> ELSE f[k - 1] \o Emits[program[k]]]
<1>6. PICK t : t = CHOOSE f : Is(f)
    OBVIOUS
<1>7. EmitAll(program, Len(tokens)) = t[m]
    BY <1>3, <1>6, Zenon DEF EmitAll, Emits
<1>8. \E f : Is(f)
    <2>1. PICK f : f = [k \in 0 .. m |-> IF k = 0 THEN <<>> ELSE f[k - 1] \o p[k]]
        BY SumsExist
    <2>2. \A k \in 0 .. m : f[k] = IF k = 0 THEN <<>> ELSE f[k - 1] \o Emits[program[k]]
        <3> SUFFICES ASSUME NEW k \in 0 .. m
                     PROVE  f[k] = IF k = 0 THEN <<>> ELSE f[k - 1] \o Emits[program[k]]
            OBVIOUS
        <3>1. f[k] = IF k = 0 THEN <<>> ELSE f[k - 1] \o p[k]
            BY <2>1
        <3>2. k # 0 => p[k] = Emits[program[k]]
            BY <1>5
        <3> QED  BY <3>1, <3>2
    <2>3. DOMAIN f = 0 .. m /\ f = [k \in 0 .. m |-> f[k]]
        BY <2>1
    <2>4. Is(f)
        BY <2>2, <2>3, Zenon
    <2> QED  BY <2>4
<1>9. Is(t)
    BY <1>6, <1>8, Zenon
<1>10. Sums(t, p)
    BY <1>5, <1>9 DEF Sums
<1>11. Join(p) = t[m]
    BY <1>5, <1>10, JoinIs
<1> QED  BY <1>4, <1>7, <1>11 DEF Emitted, EmitProgram, Under

-------------------------------------------------------------------------------
(* The capacity: what 1 becomes when it is doubled. *)

\* It divides MaxInt + 1, until RoundUp shifts it to 0 and never returns.
Divides(c) == c \in Nat /\ \E q \in Nat : q >= 2 /\ c * q = MaxInt + 1
CapacityInv ==
    Divides(capacity) \/ (writing = "rounding" /\ capacity \in {0, -(MaxInt + 1)})

LEMMA DividesFacts ==
    ASSUME NEW c, Divides(c)
    PROVE  c \in Nat /\ c >= 1 /\ 2 * c <= MaxInt + 1
<1>1. c \in Nat /\ MaxInt \in Nat
    BY MaxIntAssumption DEF Divides
<1>2. PICK q \in Nat : q >= 2 /\ c * q = MaxInt + 1
    BY DEF Divides
<1>3. c # 0
    <2>1. 0 * q = 0 /\ MaxInt + 1 # 0
        BY <1>1
    <2> QED  BY <1>2, <2>1
<1>4. PICK r \in Nat : q = r + 2
    <2>1. q - 2 \in Nat /\ q = (q - 2) + 2
        BY <1>2
    <2> QED  BY <2>1
<1>5. c * (r + 2) = c * r + 2 * c /\ c * r >= 0
    BY <1>1
<1> QED  BY <1>1, <1>2, <1>3, <1>4, <1>5

\* Doubling goes on until an int cannot hold the result, which is then not
\* positive.
LEMMA DoublingDivides ==
    ASSUME NEW c, Divides(c)
    PROVE  IF 2 * c <= MaxInt THEN Divides(A!Doubled(c)) ELSE A!Doubled(c) = -(MaxInt + 1)
<1>1. c \in Nat /\ c >= 1 /\ 2 * c <= MaxInt + 1 /\ MaxInt \in Nat
    BY DividesFacts, MaxIntAssumption
<1>2. CASE ~(2 * c <= MaxInt)
    <2>1. 2 * c = MaxInt + 1 /\ 2 * c > MaxInt
        BY <1>1, <1>2
    <2> QED  BY <1>1, <1>2, <2>1 DEF A!Doubled
<1>3. CASE 2 * c <= MaxInt
    <2>1. A!Doubled(c) = 2 * c
        BY <1>1, <1>3 DEF A!Doubled
    <2>2. PICK q \in Nat : q >= 2 /\ c * q = MaxInt + 1
        BY DEF Divides
    <2>3. q # 2
        <3>1. c * 2 = 2 * c /\ 2 * c # MaxInt + 1
            BY <1>1, <1>3
        <3> QED  BY <2>2, <3>1
    <2>4. q \in 2 .. (MaxInt + 1) /\ c \in 1 .. MaxInt /\ q * c = MaxInt + 1
        <3>1. c \in 1 .. MaxInt
            BY <1>1, <1>3
        <3>2. PICK d \in Nat : c = d + 1
            <4>1. c - 1 \in Nat /\ c = (c - 1) + 1
                BY <1>1
            <4> QED  BY <4>1
        <3>3. (d + 1) * q = d * q + q /\ d * q \in Nat
            BY <2>2
        <3>4. q <= MaxInt + 1
            BY <1>1, <2>2, <3>2, <3>3
        <3>5. q * c = c * q
            BY <1>1
        <3> QED  BY <1>1, <2>2, <3>1, <3>4, <3>5
    <2>5. q % 2 = 0
        BY <2>4, MaxIntAssumption
    <2>6. PICK r \in Nat : q = 2 * r
        <3>1. q \div 2 \in Nat /\ q = 2 * (q \div 2)
            BY <2>5
        <3> QED  BY <3>1
    <2>7. r >= 2
        BY <2>2, <2>3, <2>6
    <2>8. (2 * c) * r = c * (2 * r)
        BY <1>1
    <2>9. 2 * c \in Nat
        BY <1>1
    <2> QED  BY <1>3, <2>1, <2>2, <2>6, <2>7, <2>8, <2>9 DEF Divides
<1> QED  BY <1>2, <1>3

LEMMA CapacityStep == AssemblerInv /\ CapacityInv /\ Next => CapacityInv'
<1> SUFFICES ASSUME AssemblerInv, CapacityInv, Next PROVE CapacityInv'
    OBVIOUS
<1>1. Steps
    BY NextSteps
<1>2. CASE UNCHANGED assemblerVars
    BY <1>2 DEF CapacityInv, assemblerVars
<1>3. CASE ReadsOn \/ Opens \/ Stops \/ DumpLeaves \/ EmitLeaves \/ Enters \/ DumpStops \/ EmitStops \/ Runs
    BY <1>2, <1>3 DEF ReadsOn, Opens, Stops, DumpLeaves, EmitLeaves, Enters, DumpStops, EmitStops, Runs,
                      compilerVars
<1>4. CASE Lex \/ BeginParse \/ Parse \/ BeginDump \/ BeginEmit \/ CopyOut
    BY <1>2, <1>4 DEF Lex, BeginParse, Parse, BeginDump, BeginEmit, CopyOut
<1>5. capacity \in Int /\ MaxInt \in Nat /\ want \in Nat /\ want >= 8
    <2>1. capacity \in Int /\ want = CodeCapacity
        BY DEF AssemblerInv, AP!Inv, AP!TypeOK
    <2> QED  BY <2>1, MaxIntAssumption, CodeCapacityAssumption
<1>6. CASE Allocate
    <2>1. CASE A!RoundUp
        <3>1. writing = "rounding" /\ writing' = "rounding" /\ capacity' = A!Doubled(capacity)
            BY <2>1 DEF A!RoundUp
        <3>2. CASE Divides(capacity)
            <4>1. Divides(A!Doubled(capacity)) \/ A!Doubled(capacity) = -(MaxInt + 1)
                BY <3>2, DoublingDivides
            <4> QED  BY <3>1, <4>1 DEF CapacityInv
        <3>3. CASE capacity \in {0, -(MaxInt + 1)}
            <4>1. A!Doubled(capacity) = 0
                BY <1>5, <3>3 DEF A!Doubled
            <4> QED  BY <3>1, <4>1 DEF CapacityInv
        <3> QED  BY <3>2, <3>3 DEF CapacityInv
    <2>2. CASE A!Allocate
        <3>1. capacity >= want /\ capacity' = capacity
            BY <2>2 DEF A!Allocate
        <3>2. capacity \notin {0, -(MaxInt + 1)}
            BY <1>5, <3>1
        <3> QED  BY <3>1, <3>2 DEF CapacityInv
    <2> QED  BY <1>6, <2>1, <2>2 DEF Allocate
<1>7. CASE Write \/ WriteAborts
    <2>1. stage = "emitting" /\ writing = "open"
        BY <1>7 DEF Write, WriteAborts, AssemblerInv
    <2>2. Divides(capacity)
        BY <2>1 DEF CapacityInv
    <2>3. CASE WriteAborts
        <3>1. capacity' = capacity
            BY <2>3 DEF WriteAborts, A!AssertFails
        <3> QED  BY <2>2, <3>1 DEF CapacityInv
    <2>4. CASE Write
        <3>1. PICK v : A!WriteStream(v)
            BY <2>4 DEF Write
        <3>2. capacity' = A!NewCapacity(v) /\ A!NewCapacity(v) > 0
            BY <3>1 DEF A!WriteStream, A!Fits
        <3>3. A!NewCapacity(v) = capacity \/ A!NewCapacity(v) = A!Doubled(capacity)
            BY DEF A!NewCapacity
        <3>4. A!Doubled(capacity) > 0 => Divides(A!Doubled(capacity))
            BY <1>5, <2>2, DoublingDivides
        <3> QED  BY <2>2, <3>2, <3>3, <3>4 DEF CapacityInv
    <2> QED  BY <1>7, <2>3, <2>4
<1> QED  BY <1>1, <1>3, <1>4, <1>6, <1>7, Zenon DEF Steps
===============================================================================
