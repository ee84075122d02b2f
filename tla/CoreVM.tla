--------------------------------- MODULE CoreVM ---------------------------------
(***************************************************************************)
(* main: the arguments are read one by one, the file argv[1] names is      *)
(* compiled, and the code is run by one of the two interpreters, chosen by *)
(* a flag that no constructor initialises.                                 *)
(*                                                                         *)
(* The interpreters are the modules of theirs, over one set of variables,  *)
(* since only one of them runs.  -d and -b only print and are read without *)
(* any effect here.                                                        *)
(***************************************************************************)
EXTENDS Compiler

CONSTANTS
    CommandLines,  \* argv without the program's name: sequences of strings
    SourceNames,   \* the strings that end in ".cvm" and do not begin with "-"
    Arm64,         \* whether the program is built for ARM64
    StackSlots,    \* 8-byte slots in an interpreter's stack
    LocalSlots     \* 8-byte slots in AsmInterpreter's table of locals

ASSUME CoreVMSlotsAssumption == StackSlots \in Nat \ {0} /\ LocalSlots \in Nat \ {0}
ASSUME CommandLinesAssumption == CommandLines \subseteq Seq(STRING)
ASSUME NamesAssumption == SourceNames \cap {"", "-h", "-f"} = {}

VARIABLES
    argv, arg,         \* the arguments, and the number of the next one
    filename,          \* _filename
    use_asm,           \* _use_asm
    pc, top, w7, stack, locals, out, running    \* the interpreter, its status last

configVars == <<argv, arg, filename, use_asm>>
runVars == <<pc, top, w7, stack, locals, out, running>>
vars == <<compilerVars, configVars, runVars>>

BI == INSTANCE ByteCodeInterpreter WITH Images <- {}, img <- image, status <- running
AI == INSTANCE AsmInterpreter WITH
        Images <- {}, img <- image, x0 <- pc, x3 <- top, status <- running

\* How the program ends without a run: "exited" is exit(EXIT_SUCCESS).
Endings == {"exited", "panicked", "aborted", "wild"}

-------------------------------------------------------------------------------
Init ==
    /\ CompilerInit
    /\ stage = "arguments"
    /\ argv \in CommandLines
    /\ arg = 1
    /\ filename = ""
    /\ use_asm \in BOOLEAN               \* what was on the stack
    /\ pc = 0 /\ top = 0 /\ w7 = Garbage /\ stack = <<>> /\ locals = <<>>
    /\ out = <<>> /\ running = "new"

ReadsArgument == stage = "arguments" /\ arg <= Len(argv)

ReadName ==
    /\ ReadsArgument /\ argv[arg] \in SourceNames
    /\ filename' = argv[arg]
    /\ arg' = arg + 1
    /\ UNCHANGED <<compilerVars, argv, use_asm, runVars>>

\* An option that is not known is passed over, and so is any other word.
ReadOption ==
    /\ ReadsArgument /\ argv[arg] \notin SourceNames \cup {"", "-h"}
    /\ use_asm' = (use_asm \/ argv[arg] = "-f")
    /\ arg' = arg + 1
    /\ UNCHANGED <<compilerVars, argv, filename, runVars>>

ReadHelp ==
    /\ ReadsArgument /\ argv[arg] = "-h"
    /\ Goes("exited")
    /\ UNCHANGED <<lexerVars, parserVars, assemblerVars, work, values, image,
                   configVars, runVars>>

BadArguments ==
    /\ stage = "arguments"
    /\ IF arg <= Len(argv) THEN argv[arg] = "" ELSE filename = ""
    /\ Goes("panicked")
    /\ UNCHANGED <<lexerVars, parserVars, assemblerVars, work, values, image,
                   configVars, runVars>>

\* The name that was found is not looked at again.
StartCompile ==
    /\ stage = "arguments" /\ arg > Len(argv) /\ filename # ""
    /\ Open(argv[1])
    /\ UNCHANGED <<configVars, runVars>>

CompileStep == Compile /\ UNCHANGED <<configVars, runVars>>

\* The constructor of an interpreter.
Start(interpreter, status, slots, table0) ==
    /\ stage = "compiled"
    /\ Goes(interpreter)
    /\ running' = status
    /\ stack' = slots
    /\ locals' = table0
    /\ UNCHANGED <<lexerVars, parserVars, assemblerVars, work, values, image,
                   configVars, pc, top, w7, out>>

StartByteCode ==
    /\ ~(Arm64 /\ use_asm)
    /\ Start("bytecode", "new",
             [s \in 0 .. (StackSlots - 1) |-> BI!Slot("none", Garbage)],
             [x \in 0 .. (image.vars - 1) |-> BI!Slot("none", Junk(x))])

StartAsm ==
    /\ Arm64 /\ use_asm
    /\ Start("asm", "running",
             [s \in 0 .. (StackSlots - 1) |-> Garbage],
             [x \in 0 .. (LocalSlots - 1) |-> Junk(x)])

RunByteCode ==
    /\ stage = "bytecode"
    /\ BI!Next
    /\ UNCHANGED <<compilerVars, configVars, w7>>

RunAsm ==
    /\ stage = "asm"
    /\ AI!Next
    /\ UNCHANGED <<compilerVars, configVars>>

Next ==
    \/ ReadName \/ ReadOption \/ ReadHelp \/ BadArguments \/ StartCompile
    \/ CompileStep \/ StartByteCode \/ StartAsm \/ RunByteCode \/ RunAsm

Spec == Init /\ [][Next]_vars

\* One thread.
FairSpec == Spec /\ WF_vars(Next)

-------------------------------------------------------------------------------
\* The program has come to an end, in whatever way.
Halted ==
    \/ stage \in Endings
    \/ stage = "lexing" /\ lexing \in {"panicked", "wild"}
    \/ stage = "parsing" /\ parsing \in {"panicked", "wild"}
    \/ stage \in {"bytecode", "asm"} /\ running \notin {"new", "running"}

\* The parts that are running have the states of their own modules, and the
\* code holds halfwords only: none is made of a byte that was never written.
TypeOK ==
    /\ stage \in {"arguments", "lexing", "parsing", "dumping", "allocating",
                  "emitting", "compiled", "bytecode", "asm"} \cup Endings
    /\ arg \in 1 .. (Len(argv) + 1)
    /\ filename \in SourceNames \cup {""}
    /\ use_asm \in BOOLEAN
    /\ stage = "lexing" => L!TypeOK
    /\ stage = "parsing" => P!TypeOK
    /\ stage = "emitting" => A!TypeOK
    /\ stage = "bytecode" => top \in 0 .. StackSlots
    /\ stage = "asm" => top \in 0 .. StackSlots
    /\ image.code \in Seq(Halfword) /\ image.vars \in Nat

-------------------------------------------------------------------------------
(* What the stages make of any text, as its tree. *)

Emitted == EmitProgram(program, Len(tokens))
Indexes == {n.data[1] : n \in {n \in Nodes(program, Len(tokens)) :
                                      n.ir \in {"Variable", "Store"}}}
Variables == Cardinality(DOMAIN table)

\* The code that is run is the code of the whole tree, with room for each name
\* of the symbol table, exactly when no index is cut off by its 16 bits: from
\* there on a variable is taken for an earlier one.
ImageOfProgram ==
    stage = "compiled" =>
        ((image = [code |-> Emitted, vars |-> Variables])
            <=> \A x \in Indexes : x < 2^IxBits)

\* Dump and Emit have a case for every node, and an int counts the bytes.
Compilable ==
    /\ Compiles(program, Len(tokens))
    /\ 2 * Len(Emitted) < (MaxInt + 1) \div 2

\* The stages after the parser stop exactly the trees that Dump or Emit has no
\* case for and those whose code an int cannot count: a tree that gets past
\* Dump is never left half emitted because its buffer had not grown in time.
StopsExactly ==
    parsing = "done" =>
        /\ stage \in {"compiled", "bytecode", "asm"} => Compilable
        /\ stage \in {"panicked", "aborted", "wild"} => ~Compilable

-------------------------------------------------------------------------------
\* The last of the words before the k-th that ends in .cvm.
NamesBefore(k) == {j \in DOMAIN argv : j < k /\ argv[j] \in SourceNames}
LastBefore(k) ==
    argv[CHOOSE j \in NamesBefore(k) : \A i \in NamesBefore(k) : i <= j]

\* What has been kept of the arguments read so far: the last name, also when
\* options come before it, although StartCompile then opens another word.
KeepsLast ==
    stage = "arguments" =>
        filename = IF NamesBefore(arg) = {} THEN "" ELSE LastBefore(arg)
===============================================================================
