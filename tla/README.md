# Core-VM in TLA+

Core-VM compiles a small typed language (declarations, assignments, arithmetic
on `int`, `long`, `float` and `double`, conversions, `print`) to a bytecode and
runs it, either with a portable interpreter or, on ARM64, with a hand-written
template interpreter.  These modules specify the pipeline, model-check it on
small instances with TLC and prove parts of it for all instances with TLAPS.

Paths below are relative to the repository.

## The system

    file -> CoreVMLexer -> tokens -> Parser -> IR --Dump--> text (or panic)
                                               |
                                               +--Emit--> CVMAssembler -> code
                                                                            |
                               ByteCodeInterpreter  or  AsmInterpreter <----+

| part | state it keeps | operations | makes it correct |
| --- | --- | --- | --- |
| `CoreVMLexer` (`src/lexer.cpp`, `loader.h`) | position in the file, tokens | one turn of `DoParse` per token | the tokens are those of the language; it comes to an end |
| `Parser` (`src/parser.cpp`) | position, symbol table, call stack, statements | `Statement`, `Expression`, `Term`, `Primary`, returns from them | names resolve, types agree, the tree is the text, precedence |
| `IR` (`src/ir.cpp`, `ir.h`) | immutable trees | `Emit`, `Dump`, `Verify` | what one gate accepts the next can handle |
| `CVMAssembler` (`assembler.h`) | buffer, capacity, position | constructor, `WriteStream` | what is read back is what was written |
| `ByteCodeInterpreter` | `_pc`, `_top`, stack, locals | one case of `Run`'s switch | stays in its buffers; does what the source says |
| `AsmInterpreter` (`src/cpu/arm64/*.s`) | x0, x3, w7, stack, locals, dispatch table | one handler | the same |
| `Compiler` (`src/compiler.cpp`, `loader.cpp`) | the stage, the tree, code and sizes | `Compile`: open, lex, parse, dump, emit, copy out | the code is that of the whole text; every text that stops, stops for its own reason |
| `main` (`main.cpp`) | the options, an interpreter | argument loop, choice of the interpreter, run | the program does what its text says, on either interpreter; what is opened is the file named |
| `Arm64Assembler` (`templategenerator.cpp`, `.h`) | `CodeBuffer`: mapping, position, snippet | one encoder per instruction, `NewCodeSnippet` | each word decodes to the instruction and operands asked for; earlier code stays |

The parts run one after the other in one thread and hand over values; the only
shared state is the process-wide table of type names.  There is no
concurrency, no I/O during a run but output, and nothing is persisted.  What is
hard here is of another kind: neither interpreter checks a bound or a type,
so everything depends on what the emitter produced many steps earlier; every
scan reads one token or character ahead; three gates over the same tree
accept different programs; the template interpreter moves its stack pointer in
ways its comments do not say, and two of these deviations cancel out; and the
ARM64 encoders split operands into bit fields by hand, each field with its own
limits, scale and sign.
`PROJECT.json` lists every such hazard at its line.

## The modules

| module | models |
| --- | --- |
| `Bytecode` | opcodes, their numbers, halfwords, symbolic values |
| `SourceProgram` | abstract: what running a program promises |
| `ByteCodeInterpreter` | `Run`: one action per group of cases, `DivTrap`, `Panic`, `OutOfBounds` |
| `ByteCodeInterpreterProofs` | its proofs |
| `AsmInterpreter` | the dispatch table and the handlers |
| `AsmInterpreterProofs` | its proofs |
| `IR`, `IRTraversal` | the nodes of a tree; its code (`Emit`), and which nodes the gates let through (`DumpAccepts`, `EmitAccepts`, `VerifyAccepts`) |
| `ByteStream` | abstract: an append-only stream |
| `CVMAssembler` | the growing buffer, on an int that wraps |
| `CVMAssemblerProofs` | its proofs |
| `Lexer` | one action per branch of `DoParse` |
| `LexerProofs` | its proofs |
| `Parser` | recursive descent as a pushdown machine |
| `ParserProofs` | its proofs |
| `Compiler` | `Compile`: `Lexer`, `Parser` and `CVMAssembler` composed, with `Dump` and `Emit` between them |
| `CoreVM` | `main`: the command line, `Compiler`, and either interpreter |
| `CompilerProofs` | proofs about the stages of `Compiler`, and about the code of a tree |
| `CoreVMProofs` | proofs about the command line and the whole program |
| `Arm64Assembler` | the ARM64 encoders over `CodeBuffer` |
| `Arm64` | the architecture's side: what a word of code means |
| `Arm64AssemblerProofs` | proofs about `Arm64Assembler` |
| `CodeImages` | compiled programs with their certificates, for the `MC` modules |
| `MCByteCodeInterpreter`, `MCAsmInterpreter`, `MCCVMAssembler`, `MCLexer`, `MCParser`, `MCCoreVM`, `MCArm64Assembler` | instances for TLC |

Recursive operators are confined to `SourceProgram`, `CodeImages`, `Arm64` and the
`MC` modules, which no module with a theorem reaches; the levels of a tree (`Levels`
in `IR`) and its code (`Emit` in `IRTraversal`) are recursive functions.
An operator named `X_Suffix` directly before `X`, with a comment that begins
"Mutant", is `X` with a plausible bug; no run uses it, and for each property
there is one that the property catches.

### How the models correspond to the code

*Values are symbolic.*  `lhs - rhs` is the term `App("ISub", <<lhs, rhs>>)`,
an immediate is `Lit` of its halfwords, a local never assigned is `Junk(x)`.
Two different operations, operands or orders are thus two different values,
and no arithmetic has to be modelled.  A stack slot remembers the type it was
written at, and reading it at another type gives a reinterpretation
(`ReadAs`), never the value.

*Undefined behaviour* (an access outside a buffer, a branch through an
unfilled entry, freeing an uninitialised pointer) leads to the status `wild`,
in which nothing more happens: the invariants say when that cannot be.
`panic` leads to `panicked`, an assertion to `aborted`, a trapping division to
`trapped`.  A panic or an assertion ends the program, so what the same
statement had already changed is not kept.

*The interpreters* take code images.  An image carries, besides the code and
the number of locals, a certificate that the program does not have: for
`ByteCodeInterpreter` the types on the stack at every instruction (`typing`),
for `AsmInterpreter` the value of x3 (`height`).  `WellTyped` and `Placed`
are the local rules that make a certificate right, one per instruction group;
`Measured` are those for the depths of `typing` alone, which `Drift` compares x3 with.
They look at one instruction at a time and never run the code.  The properties
have the form "if the certificate is right, then", and run `parser` shows that
compiled code has one.

*The parser*: a frame of `frames` is an activation of `Expression`, `Term`, or
of a caller that waits for one; `value` is what the innermost call returned.
A panic's message is kept in `error`.  `_tokens[_pos]` is read past the end
in two places; there the machine goes `wild`.

*The lexer's* `cur` is `_cur`; `RunEnd` is where a scan stops, `BackFrom` where
`Back` leaves it, which differs at the end of a file because there `Next` does
not advance.

*The compiler* has one variable per part's state and one, `stage`, for where
`Compile` is.  A stage runs the `Next` of its part's module until that part is
done.  `Dump` and `Emit` are recursive functions in the code; here `work` lists
the nodes still to be visited, a node before its children the first time and
after them the second, and `values` lists what the last node has still to
write, one entry for each call of `WriteStream`, so that a panic or an
assertion stops them where it does in the code.  `CopyOut` reads the bytes
back from the buffer: that code and tree agree is a property
(`ImageOfProgram`), not a definition.  `Index` is the cast to `u2`; its width
is the constant `IxBits`.

*`main`*: `use_asm` starts as either value, as an uninitialised member may.
Whichever interpreter runs uses the variables `pc`, `top`, `stack`, `locals`
and `out` as its own.  A missing file leads to `wild`, since the null stream is
used unseen.

*The ARM64 encoders*: a word is the set of its bits that are one, so that `|`
is union; encoders that lay out their operands alike share a definition, which
a table gives its opcodes.  `Decode` in `Arm64` is written from the instruction
set and shares no operator with the encoders.  `Accepts` has the assertions.
`Distance` is `bl`'s cast of the distance
to an int, of which sign, field and assertion are taken; what is asserted of the least int is
undefined, and `Accepts` and `Refuse` both allow it (`Unnegatable`).
When `mmap` fails nothing notices (`unmapped`), and a word that goes past the
mapping leads to `wild`.

## The runs

| run | shows | bounds |
| --- | --- | --- |
| `interp` | compiled code refines `SourceProgram` (`RunsSource`): same assignments and prints, same operands, same order, and it stops; `TypeOK`, `Contained`, `OperandsTyped`, `Balanced` on code of any origin | every expression of up to three operands over one variable and one constant of each type, all conversions; damaged code (no `kDone`, cut immediates, unknown halfwords, indexes past the locals); a stack of 6 slots, met exactly and exceeded by one |
| `asm` | int programs that store before they print refine `SourceProgram`; `Drift`: x3 exceeds the operand depth by the stores minus the prints, on every program whose depths are `Measured`; `Contained` | two int variables, a stack of 7 slots that one program leaks its way up to; programs that print first, store too often, use other types or locals past the table |
| `asm_printi` | finding: after a print the argument count is dispatched as an instruction | as `asm` |
| `assembler` | `Filled`, `AssertsOnlyAtLimit`, `Proportionate`, `AppendsOnly` (refines `ByteStream`), `ConstructorReturns` | ints of 6 bits, every request from 1 to 31, values of 2, 4 and 8 bytes |
| `lexer` | `Tokenizes`: the tokens are those of a grammar stated without a scanner (longest lexeme first); `Advances`, `ClosedHalts`; `OverrunsExactly`: the numbers that do not fit their buffer | every file of up to 5 characters over 8 characters, and every symbol between words; a number buffer of 5, which numbers fill exactly and exceed, in the middle of a file and at its end; 6 tokens |
| `lexer_quote` | finding: an opening quote at the very end passes for a closed literal | files of up to 2 characters |
| `parser` | `IndexesDense`, `OverrunsOnlyOpenCall`, `NamesResolve`, `ReadsSource` (the tree read back is the text), `Precedence`, `VerifiedCompiles`, `CompiledWellTyped`, `Halts` | every sequence of up to 4 tokens out of 14, every program of up to three of 21 statements, every pair of operators over three operands, and programs with one token left out |
| `main` | the whole program.  `RunsText`: from its characters to what it prints, a program refines `SourceProgram` with the statements its text stands for, on either interpreter; `ImageOfProgram`: the code is that of the whole tree exactly when no index is cut off; `StopsExactly`: which trees the stages after the parser stop; `BreaksExactly`: for which trees the portable interpreter leaves its buffers or refuses to start; `Terminates` | 103 files: every pair of 9 statements over two variables, longer programs of each type, programs at each limit and one beyond it, and texts that stop at every stage; 220 command lines |
| `main_usage` | finding: with an option before it, the file named is not the one opened | as `main` |
| `arm64` | `EncodesCall`: an encoder's word decodes to the instruction it was called for, exactly for the calls `Faithful` describes; `RefusesUnrepresentable`: the assertions refuse nothing that fits, except for `bl`; `LoadsImmediate`: executing the wide moves leaves the immediate, with one exception; `AppendsOnly` | every encoder, each immediate at both ends of its field, one step inside and outside, misaligned by one, and signs; labels that an int just holds, just does not, or takes for near ones; `SP` in each register operand; sequences of up to three calls with snippets between them; mappings of 16 bytes, too small for the longest of them, and a size that is refused |
| `parser_group` | finding: the check for a closing parenthesis is inverted | as `parser`, shorter |
| `parser_redeclare` | finding: a second declaration gets an index outside the table | as `parser`, shorter |

Why the bounds are enough.  The interpreters have no loop and no jump, so a
run is as long as its code; two operands below the ones an instruction takes
already tell a disturbed stack from an undisturbed one, and certificates make
longer code the business of the proofs.  Six bits of int leave room for four
doublings and for the overflow; 8-byte values do not fit the smallest buffers
and fit the others exactly, short by one and with room.  Five characters hold
a number with two dots, an `L` or a quote with something before and after it.
Four tokens reach every panic of a statement, and the programs of up to three
statements reach uses before and after declarations, of another type, and
twice.

`MaxTokens` (Lexer) and `MaxDepth` (CodeImages) are bounds of the models, not of
the program.  A lexer that reads the end of a file again and again stops
adding tokens at `MaxTokens`; `ClosedHalts` is about files where that never
happens.  `MaxDepth` bounds the search for a certificate.

`main` makes the limits of the program small enough to be met: an index has 2
bits, so the fifth variable is the first that wraps (the 65537th in the
program); the interpreter's stack has 5 slots (128), the template
interpreter's table of locals 3; the assembler is asked for 16 bytes (1 KB)
and an int ends at 255, so that programs grow the buffer once, twice, three
times, and one needs more than an int can count.  Below and above these limits the
code treats all sizes alike.  The lexer's `BufSize` of 5 is enough for every number
there.  `MCCoreVM` states what each text means as a tree, next to the text and
independent of the parser; which interpreters it may be promised for is decided
by the certificates of `CodeImages`, whose rules `interp` and `asm` check.  The
promise is chosen in the initial state and kept in `promised`, which no step of
the program reads.

`arm64` takes each operand at its limits only: a field is copied bit by bit, so
an error in width, scale, sign or place shows at the ends of its range.  An int has 30
bits there (`MaxInt`), since TLC's own have 32: that is wider than every field and every
assertion, so that a label can be near, too far for the branch, and too far for an int.

Deadlock is not checked: every component stops when it is done.

### Fairness

Each component is one thread that takes its next step whenever there is one:
`WF_vars(Next)` for the interpreters, the lexer, the parser and the whole
program, which is one thread from `main` to the end.  For the
assembler only the constructor's loop is fair, since nothing obliges a client
to write.  Liveness is model-checked, not proved.

### Findings

1. A program that only prints a constant has no variables, and the constructor of the
   interpreter asserts that there are some (`bytecodeinterpreter.h:32`).  Run `main` has it
   among the ways a run ends: `BreaksExactly` says `aborted` exactly when there are none.
2. `printi.s` does not step over the argument count; it is dispatched as opcode 1,
   `isub`.  That stray subtraction and the slot that every `storei` leaks cancel
   out as long as a program has stored at least as often as it has printed,
   which run `asm` shows and `Drift` makes exact.
3. A lone opening quote at the end of a file is accepted (`lexer.cpp:297`).
4. Parenthesised expressions: the test for `)` is inverted (`parser.cpp:285`).
5. `AddSymbol` returns an index that `insert` may not have used (`parser.cpp:220`).
6. The file that is compiled is `argv[1]` (`main.cpp:111`) and not the one the arguments
   were read for: `cvm -d a.cvm`, the order of "Usage: cvm(core-vm) [-d] [-b]
   <filename>" (`main.cpp:80`), opens `-d`.  The right name is at hand by then
   (`KeepsLast`, proved).

A comment that the code falls short of, without a run of its own: "The jump range of the BL
instruction is +/-128 MB" (`templategenerator.cpp:15`), of which the assertions of `bl` let
half pass (`templategenerator.cpp:29`).  `RefusesUnrepresentable` names this as the only
thing an encoder refuses although there is a word for it.

More behaviours the modules show and no text of the repository contradicts:

- a file that ends in a word or a number is never read to its end
  (`Advances`, `ClosedHalts`, and for the program `Terminates`);
- `Verify` refuses every float and long operation because its cases fall
  through (`VerifyAccepts`);
- without `-f` either interpreter may run; what is printed is the same for the
  programs both can run (`RunsText`);
- `Misencoded` and `Faithful` in `MCArm64Assembler` list the calls an encoder gets
  wrong: `bl` to a target that is not ahead; pre-indexed stores with a negative
  offset; `ldp_post_index32`, which has the opcode of the pre-indexed form;
  halfword accesses at an odd offset or one step past the field; `SP` where the
  instruction reads zero; and a `mov_imm32` whose low half is zero keeps the
  register's old one.  A label 4 GB or nearly so away passes `bl`'s assertions, which
  see the distance as an int, and is encoded as a branch to somewhere near (`EncodesCall`).
  No part of the program calls these yet.

## The proofs

| theorem | says, for all values of the constants |
| --- | --- |
| `ByteCodeInterpreterProofs` | |
| `TypeCorrect` | `Run` keeps `TypeOK` on any code at all |
| `ContainedAlways` | with a right certificate it never leaves the stack, the locals or the code, never panics, never aborts |
| `OperandsTypedAlways` | ... and reads every slot at the type it was written at |
| `BalancedAlways` | ... and stops at a `kDone` with an empty stack |
| `AsmInterpreterProofs` | |
| `TypeCorrect` | the handlers keep `TypeOK` on any code at all |
| `ContainedAlways` | with a right certificate of x3 they never leave the stack, the locals, the code or the table |
| `DriftAlways` | x3 is off from the operand depth by the stores minus the prints, at every instruction |
| `CVMAssemblerProofs` | |
| `TypeCorrect`, `FilledAlways` | the assembler never exposes a byte it has not written |
| `AssertsOnlyAtLimitAlways` | one doubling is enough |
| `ProportionateAlways` | ... and never too much |
| `AppendsOnlyAlways` | it implements `ByteStream` |
| `LexerProofs` | |
| `TypeCorrect` | the position stays in the file, and tokens are tokens |
| `AdvancesAlways` | every turn consumes a character, but for a last word or number |
| `ParserProofs` | |
| `TypeCorrect` | `TypeOK`, for every sequence of tokens |
| `IndexesDenseAlways` | the table numbers its names without a gap or a double |
| `OverrunsOnlyOpenCallAlways` | the position passes the last token only at an open call |
| `NamesResolveAlways` | every node that names a variable carries an index and a type of the table |
| `PrecedenceAlways` | products bind tighter than sums and both associate to the left |
| `TypesAgreeAlways` | the operands of every node have the types its operation takes |
| `CountsAllAlways` | the children of every node the properties look at are looked at too: as many levels as there are tokens are all the levels |
| `VerifiedCompilesAlways` | a program that `Verify` accepts passes `Dump` and `Emit`, but for calls of other functions and conversions to the same type |
| `CompilerProofs` | |
| `TypeCorrect` | the whole program keeps `TypeOK`: what each part hands over is what the next one takes, and what is run is halfwords |
| `CoreVMProofs` | |
| `KeepsLastAlways` | the name kept of the arguments is the last one passed so far |
| `StopsExactlyAlways` | the stages after the parser stop exactly the trees that `Dump` or `Emit` has no case for and those whose code an int cannot count: no buffer is too small for the others |
| `ImageOfProgramAlways` | the code that is run is that of the whole tree, in `Emit`'s order, exactly when no index is cut off |
| `Arm64AssemblerProofs` | |
| `TypeCorrect` | words are written at word addresses, for all calls and operands |
| `AppendsOnlyAlways` | ... and no call changes what an earlier one emitted |

*Assumptions* are those of the modules: images have the shape of images
(`ImagesAssumption`), there is at least one stack slot, values are non-empty
byte sequences, requests are positive ints, `MaxInt` is positive; files are sequences
of characters and command lines of strings, and tokens have the fields the lexer gives them;
an index has at least one and at most 16 bits, the size asked of the assembler is at least 8
and `MaxInt + 1` is a power of two; for the ARM64 assembler calls have names and integer
operands, a page is a positive multiple of 4 bytes, and `MaxInt` is not negative.  The theorems about the stages of
`Compiler` (`TypeCorrect` of `CompilerProofs`, `StopsExactlyAlways`, `ImageOfProgramAlways`)
also have the hypothesis `Literals`: the constants the parser makes of a literal are
halfwords whatever the text, as the results of `atoi`, `atol` and `atof` are.

*The interpreter.*  None of the three properties is inductive.  Whether the next
instruction finds an operand of its type depends on the types of all the slots
below it, since it may be reached only after what is above has been popped.
The invariant `Agrees` says that, if the certificate is right, `_pc` is an offset
it covers, the stack has exactly the types it gives for that offset, and each
local holds its type or nothing.  `FlowsKeepsStack` shows once that an
instruction whose rule is `Flows` keeps this; the lemmas `TypedArith` ... `TypedDone`
read off which rule an opcode has, from the groups of the switch being
disjoint (`Disjoint`) and each opcode fixing its types (`Injective`); `AgreesStep`
has one step per action.  `VerifiedInBounds` then gives `Contained`.

*The template interpreter.*  `Contained` follows `Agrees` with the height of x3 in
place of the types; the state between a print and the subtraction that its argument
count is dispatched as, where no instruction starts, is part of the invariant
(`AtArgumentCount`).  `Drift` needs more: the instructions before x0 are exactly the
offsets of the typing below it, so that the stores executed are those counted there,
and each step adds one to the set or leaves it alone.

*The assembler.*  `Inv` adds that an allocated buffer is as long as `_capacity` says
and never shorter than requested; with `AssertsOnlyAtLimit` this is inductive.
`WriteAppends` shows the refinement step: growing keeps the first `_pos` bytes
and the value follows them.  `Proportionate` needs `Bounded`: while the constructor
still shifts, the capacity is below twice the request, also when the shift wraps.

*The lexer.*  `RunEnd` is a CHOOSE; `RunEnds` shows that what it chooses exists, as the
least offset that ends the run (`LeastElement`, which well-foundedness of the numbers
gives: an induction by least counterexample, since the induction theorems cannot be
used).  From there on `Advances` is arithmetic: `RunAdvances` and `RunLast` say that a run
is not empty and that its last character is one of its own, which is what decides
whether a file is `Closed`.

*The parser.*  `Base` has what only position and table need, and one more fact: each
name of the table was declared at a place already passed (`Origins`), which makes the
next index new and tells declared names from the names of calls.  For the trees the
invariant is that there is a set of nodes that is `Sound` and that contains all trees
in the program, in the frames and in `value`: each node is one that its constructor
makes from nodes of the set (`Built`), resolves, and binds.  A step adds the nodes it
makes (`NewNodes`, `SoundGrows`) and takes none away.  What a node needs of the calls in
progress is in `Holds`: which kind of call makes which (`CallersOf`, `Stacked`), what a
call may be handed (`Hands`: without groups a `Term` gets no operation and an `Expression`
no sum, which is precedence), and that the last word read is a name of the table
(`LastWord`), which is why an open parenthesis after it can only open a group.  There
is one lemma per action.  `NodesWithin` then shows that the nodes of the trees, level by
level, are in the set, again by least counterexample; `Levels` is a recursive function,
whose existence `LevelsExist` proves the same way.  That so many levels are all of
them is `Ranked`: each node has a rank above those of its children, and the trees not
yet joined, a level for each call in progress and the tokens still to come together
never exceed the number of tokens (`Tower`).  Every constructor of a level is paid for
by a token it read, which `Cost` counts per frame; `RankedStep` has the actions.

*The ARM64 assembler.*  `AppendsOnly` speaks of the words of the mapping; `Inv` adds
that the position does not exceed it, so that these are all the words emitted.  Every
encoder is one `Emit` of words (`EncodersEmit`); `EmitFits` says where they go, `Frame`
what is left to show of a step, and `WritesBehind` that a step writes only between the
old position and the new one.

*The whole program.*  `CInv` has a part for each of the modules `Compiler` composes.  Until
its stage is reached a part waits in its initial state, from then on it has the
invariant its own proofs give, whose assumptions are shown to hold of what the stage
before has handed over: the tokens of the lexer are the parser's, the parser's
trees have ranks, so that `work` lists nodes of them only, and each value that `Emit` writes
is a run of bytes of whole halfwords, so that what `CopyOut` reads back from a `Filled`
buffer are halfwords.

`StopsExactly` and `ImageOfProgram` (in `CoreVMProofs`) are not inductive on top of `CInv` either: `EInv` says
what the walk has done so far.  `CapacityInv`: the capacity divides `MaxInt + 1`, so that
doubling is exact until it leaves the ints, and a value that does not fit then belongs to a
program whose code an int cannot count (`AbortsLate`).  `GatesInv`: there is a set of nodes
that `Dump`, or `Emit`, has entered and has a case for, and what is below them is in the
set or still on the list; with an empty list these are all nodes of the tree
(`ClosedIsTree`).  `LocatedInv`: the halfwords written, the values not yet written and what
the list still comes to are, one after the other, the code of the program (`LocatedEnters`,
`LocatedLeaves`, `LocatedWrites`).  What a list comes to refers to code that gives each
node that of its children and its own (`Codes`); that there is such code, and only one, is
proved along a rank of the tree, by least counterexample again (`CodesExist`,
`CodesAgree`), and `EmitCodes` that `Emitted` is it.  A node's own code is taken twice, as it is
written (`Cut`) and as it is meant (`Full`): they are of equal length, so that the code
of the program is the same only where each node's is (`WholeApart`), which is the
equivalence `ImageOfProgram` states.

*The command line.*  `Reading` has the position in the arguments and `KeepsLast`: a word
that is no source file leaves the last name before it (`SkipsWord`), a name becomes it
(`TakesName`), and no other step goes back to the arguments (`LeavesArguments`).  That `main`
then opens another word is finding 6.

*Model-checked only*: what is stated with
recursive operators, which the prover does not have (`Tokenizes`, whose grammar is
recursive; `ReadsSource` and `CompiledWellTyped`, which read a tree
back or scan its code; `BreaksExactly`; what the
ARM64 encoders mean, whose decoder is recursive; the refinements of `SourceProgram`,
which evaluates expressions); all liveness.

## Not modelled

- `AsmGenerator` and `GenerateBCEntryTable`: the first enters null for nine opcodes,
  from stubs, and nothing calls it; the second makes an assembler and drops it.
  `ldrsh` has a declaration and no definition;
- the ownership of tokens and buffers (`CoreVMADT`'s copies and moves,
  `FileInputStream`): the values are modelled, who frees them is not.
  `ReadStream`, `Reset`, copies and moves of `CVMAssembler` have no caller in `src/`;
- `Serialize`, the text `Dump` writes, `Hexdump`, `-d` and `-b`: output only.
  `IRBuilder` is empty;
- what arithmetic, conversions and `atoi`/`atof` yield: values are symbolic,
  and a literal is told from another by its digits;
- what follows after a number too long for the lexer's buffer, or after a write past the
  mapping of the ARM64 assembler: both end in `wild`;
- on the template interpreter the program is followed for programs of int
  variables that fit its fixed table of locals and store before they print; what
  it does with others is in `AsmInterpreter` (run `asm`).

## What is left

Proof of what needs a language the prover has: the grammar of `Tokenizes` and the readers
of `ReadsSource` and `CompiledWellTyped` as recursive functions, as `Emitted` is, and then
`CompiledWellTyped` along the ranks of `CompilerProofs`, which would give
`ContainedAlways` a certificate for every program and not only for those of a run.
