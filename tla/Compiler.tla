-------------------------------- MODULE Compiler --------------------------------
(***************************************************************************)
(* Compiler::Compile: the file is read to its end and lexed, the tokens    *)
(* are parsed, the tree is dumped whether or not anyone asked for it, and  *)
(* emitted into an assembler; what was written is copied out.  Every step  *)
(* may end the program.                                                    *)
(*                                                                         *)
(* Lexer, Parser and CVMAssembler are the modules of those parts.  Dump    *)
(* and Emit are recursive functions; here they are a list of the nodes     *)
(* still to be visited, a node standing before its children the first time *)
(* and after them the second.                                              *)
(***************************************************************************)
EXTENDS IRTraversal, FiniteSets

CONSTANTS
    Files,               \* the readable files: name -> characters
    Digit, Letter, BufSize, MaxTokens,      \* of the lexer
    LiteralBits(_, _),   \* atoi, atol, atof: tag and text -> halfwords
    IxBits,              \* width of the index in a load or store
    CodeCapacity,        \* what Compile asks the assembler for
    MaxInt               \* INT_MAX

ASSUME FilesAssumption == \A name \in DOMAIN Files : Files[name] \in Seq(STRING)
ASSUME LexerAssumption ==
    /\ "L" \in Letter
    /\ Digit \cap Letter = {}
    /\ (Digit \cup Letter) \cap {"_", ".", "\"", " ", "\n"} = {}
    /\ BufSize \in Nat \ {0} /\ MaxTokens \in Nat
ASSUME IxBitsAssumption ==
    IxBits \in 1 .. 16 /\ 2^IxBits \in Nat /\ 2 <= 2^IxBits /\ 2^IxBits <= 65536
\* The widest value that is written takes 8 bytes.
ASSUME CodeCapacityAssumption == CodeCapacity \in 8 .. MaxInt
\* MaxInt + 1 is a power of two: its divisors are even.
ASSUME MaxIntAssumption ==
    /\ MaxInt \in Nat \ {0}
    /\ \A d \in 2 .. (MaxInt + 1), e \in 1 .. MaxInt : d * e = MaxInt + 1 => d % 2 = 0

VARIABLES
    input, cur, lexed, lexing,                          \* the lexer, its status last
    tokens, pos, table, program, frames, value, parsing, error,       \* the parser
    want, written, capacity, buffer, writing,           \* the assembler
    stage,     \* what Compile is at, or how the program ended
    work,      \* nodes Dump or Emit has still to visit
    values,    \* what Emit has still to write for the last node
    image      \* _code and _sym_size

lexerVars == <<input, cur, lexed, lexing>>
parserVars == <<tokens, pos, table, program, frames, value, parsing, error>>
assemblerVars == <<want, written, capacity, buffer, writing>>

L == INSTANCE Lexer WITH Inputs <- {}, tokens <- lexed, status <- lexing
P == INSTANCE Parser WITH Inputs <- {}, status <- parsing
Byte == 0 .. 255
A == INSTANCE CVMAssembler WITH
        Requests <- {CodeCapacity}, Values <- {}, Unset <- 256,
        pos <- written, code <- buffer, status <- writing

-------------------------------------------------------------------------------
CompilerInit ==
    /\ input = <<>> /\ cur = 0 /\ lexed = <<>> /\ lexing = "running"
    /\ tokens = <<>> /\ pos = 0 /\ table = [n \in {} |-> 0] /\ program = <<>>
    /\ frames = <<>> /\ value = <<>> /\ parsing = "running" /\ error = ""
    /\ want = CodeCapacity /\ written = 0 /\ capacity = 1 /\ buffer = <<>> /\ writing = "rounding"
    /\ work = <<>> /\ values = <<>> /\ image = [code |-> <<>>, vars |-> 0]

Goes(to) == stage' = to

\* FileInputStream: fopen's result is used unseen.
Open(name) ==
    /\ IF name \in DOMAIN Files
       THEN input' = Files[name] /\ Goes("lexing")
       ELSE UNCHANGED input /\ Goes("wild")
    /\ UNCHANGED <<cur, lexed, lexing, parserVars, assemblerVars, work, values, image>>

Lex ==
    /\ stage = "lexing"
    /\ L!Next
    /\ UNCHANGED <<parserVars, assemblerVars, stage, work, values, image>>

\* The characters of a lexeme as one string.
Text(chars) ==
    LET text[k \in 0 .. Len(chars)] == IF k = 0 THEN "" ELSE text[k - 1] \o chars[k]
    IN  text[Len(chars)]

\* CoreVMADT: a word keeps its text and a number becomes its bits.
ADT(t) ==
    [tag  |-> t.tag,
     text |-> IF t.tag = "kString" THEN Text(t.text) ELSE "",
     bits |-> IF t.tag \in {"kInt", "kLong", "kDouble"}
              THEN LiteralBits(t.tag, t.text) ELSE <<>>]

BeginParse ==
    /\ stage = "lexing" /\ lexing = "done"
    /\ tokens' = [k \in DOMAIN lexed |-> ADT(lexed[k])]
    /\ Goes("parsing")
    /\ UNCHANGED <<lexerVars, pos, table, program, frames, value, parsing, error,
                   assemblerVars, work, values, image>>

Parse ==
    /\ stage = "parsing"
    /\ P!Next
    /\ UNCHANGED <<lexerVars, assemblerVars, stage, work, values, image>>

-------------------------------------------------------------------------------
(* Dump and Emit. *)

Unvisited(n) == [node |-> n, visited |-> FALSE]
Root == <<Unvisited(ProgramIR(program))>>

BeginDump ==
    /\ stage = "parsing" /\ parsing = "done"
    /\ work' = Root
    /\ Goes("dumping")
    /\ UNCHANGED <<lexerVars, parserVars, assemblerVars, values, image>>

Visiting(s) == stage = s /\ work # <<>> /\ values = <<>>
Visited == Head(work).visited
Here == Head(work).node

\* Mutant: left operand first.
InOrder_LeftFirst(n) == IF n.ir = "Call" THEN <<n.kids[1]>> ELSE n.kids

\* The children in the order both traversals visit them: right operand
\* first, and of a call only the first argument.
InOrder(n) ==
    CASE n.ir \in {"Binary", "Assign"} -> <<n.kids[2], n.kids[1]>>
      [] n.ir = "Call" -> <<n.kids[1]>>
      [] OTHER -> n.kids

Descend ==
    work' = [k \in DOMAIN InOrder(Here) |-> Unvisited(InOrder(Here)[k])]
              \o <<[node |-> Here, visited |-> TRUE]>> \o Tail(work)

\* Mutant: a product of floats has a case of its own.
DumpPanics_NotOnProducts(n) ==
    \/ n.ir = "Binary" /\ n.op \in {"FSub", "FDiv"}
    \/ n.ir = "Cast" /\ n.op = "Nop"

\* The operators Dump has no case for.
DumpPanics(n) ==
    \/ n.ir = "Binary" /\ n.op \in {"FSub", "FMul", "FDiv"}
    \/ n.ir = "Cast" /\ n.op = "Nop"

DumpVisit ==
    /\ Visiting("dumping")
    /\ IF ~Visited
       THEN IF Here.ir = "Call" /\ Here.kids = <<>>       \* _args[0] of none
            THEN Goes("wild") /\ UNCHANGED work
            ELSE Descend /\ UNCHANGED stage
       ELSE CASE DumpPanics(Here) -> Goes("panicked") /\ UNCHANGED work
              [] Here.ir = "Call" /\ Here.data # <<"print">> ->
                     Goes("aborted") /\ UNCHANGED work
              [] OTHER -> work' = Tail(work) /\ UNCHANGED stage
    /\ UNCHANGED <<lexerVars, parserVars, assemblerVars, values, image>>

BeginEmit ==
    /\ stage = "dumping" /\ work = <<>>
    /\ work' = Root
    /\ Goes("allocating")
    /\ UNCHANGED <<lexerVars, parserVars, assemblerVars, values, image>>

\* CVMAssembler's constructor.
Allocate ==
    /\ stage = "allocating"
    /\ A!RoundUp \/ A!Allocate
    /\ stage' = IF writing' = "rounding" THEN stage ELSE "emitting"
    /\ UNCHANGED <<lexerVars, parserVars, work, values, image>>

\* Mutant: one bit of the index is lost.
Index_Narrow(ix) == ix % 2^(IxBits - 1)

\* static_cast<u2>.
Index(ix) == ix % 2^IxBits

\* What is written for a node once its children have been: one value for each
\* call of WriteStream, in halfwords.
Writes(n) ==
    CASE n.ir \in {"Binary", "Cast"} -> <<<<Encode(n.op)>>>>
      [] n.ir \in {"Variable", "Store"} -> <<<<Encode(n.op)>>, <<Index(n.data[1])>>>>
      [] n.ir = "Constant" -> <<<<Encode(n.op)>>, n.data>>
      [] n.ir = "Call"     -> <<<<Encode(PrintOf[n.kids[1].type])>>, <<Len(n.kids)>>>>
      [] n.ir = "Program"  -> <<<<Encode("Done")>>>>
      [] OTHER -> <<>>

EmitVisit ==
    /\ Visiting("emitting")
    /\ IF Visited
       THEN work' = Tail(work) /\ values' = Writes(Here) /\ UNCHANGED stage
       ELSE IF Here.ir = "Call" /\ (Here.data # <<"print">> \/ Len(Here.kids) # 1)
            THEN Goes("panicked") /\ UNCHANGED <<work, values>>
            ELSE Descend /\ UNCHANGED <<stage, values>>
    /\ UNCHANGED <<lexerVars, parserVars, assemblerVars, image>>

\* The bytes of halfwords in memory, the lower one first.
Bytes(v) ==
    [k \in 1 .. 2 * Len(v) |->
        IF k % 2 = 1 THEN v[(k + 1) \div 2] % 256 ELSE v[k \div 2] \div 256]

Write ==
    /\ stage = "emitting" /\ values # <<>>
    /\ A!WriteStream(Bytes(Head(values)))
    /\ values' = Tail(values)
    /\ UNCHANGED <<lexerVars, parserVars, stage, work, image>>

WriteAborts ==
    /\ stage = "emitting" /\ values # <<>>
    /\ A!AssertFails(Bytes(Head(values)))
    /\ Goes("aborted")
    /\ UNCHANGED <<lexerVars, parserVars, work, values, image>>

\* Mutant: the locals are counted by the definitions.
SymTableSize_Definitions ==
    Cardinality({k \in DOMAIN program : program[k].ir = "Definition"})

SymTableSize == Cardinality(DOMAIN table)

\* The bytes below GetPos are copied, and read as halfwords from then on.
CopyOut ==
    /\ stage = "emitting" /\ work = <<>> /\ values = <<>>
    /\ image' = [code |-> [k \in 1 .. (written \div 2) |->
                              buffer[2 * k - 2] + 256 * buffer[2 * k - 1]],
                 vars |-> SymTableSize]
    /\ Goes("compiled")
    /\ UNCHANGED <<lexerVars, parserVars, assemblerVars, work, values>>

Compile ==
    \/ Lex \/ BeginParse \/ Parse \/ BeginDump \/ DumpVisit
    \/ BeginEmit \/ Allocate \/ EmitVisit \/ Write \/ WriteAborts \/ CopyOut

compilerVars ==
    <<lexerVars, parserVars, assemblerVars, stage, work, values, image>>
===============================================================================
