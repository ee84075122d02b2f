---------------------------------- MODULE IR ----------------------------------
(***************************************************************************)
(* The intermediate representation: the trees the parser builds.           *)
(***************************************************************************)
EXTENDS Bytecode

\* Every node has the same fields; those a kind does not use are empty.
Node(ir, op, type, data, kids) ==
    [ir |-> ir, op |-> op, type |-> type, data |-> data, kids |-> kids]

\* A result type that is none of the four: void, the type of a statement.
void_op == "void"

VariableIR(ix, t)    == Node("Variable", LoadOf[t], t, <<ix>>, <<>>)
StoreIR(ix, t)       == Node("Store", StoreOf[t], t, <<ix>>, <<>>)
Constant(t, bits)    == Node("Constant", ConstOf[t], t, bits, <<>>)
CastIR(t, e)         == Node("Cast", CastOf[e.type][t], t, <<>>, <<e>>)
AssignStmtIR(s, e)   == Node("Assign", "Stmt", s.type, <<>>, <<s, e>>)
DefinitionIR(ix, t)  == Node("Definition", "Def", t, <<ix>>, <<>>)
NopIR                == Node("Nop", "Nop", void_op, <<>>, <<>>)
FunctionCallIR(name, args) == Node("Call", "Nop", void_op, <<name>>, args)
ProgramIR(irs)       == Node("Program", "Program", void_op, <<>>, irs)

\* The constructor of a binary node panics when its operands' types differ.
BinaryAccepts(l, r) == l.type = r.type
BinaryIR(c, l, r) ==
    Node("Binary", BinaryOf[l.type][c], l.type, <<>>, <<l, r>>)

-------------------------------------------------------------------------------
\* The nodes of trees, level by level: level 0 holds the roots.
Kids(nodes) == UNION {{n.kids[k] : k \in DOMAIN n.kids} : n \in nodes}
Levels(roots, depth) ==
    LET level[d \in 0 .. depth] == IF d = 0 THEN roots ELSE Kids(level[d - 1])
    IN  level

\* The nodes at most so many levels below the roots of a sequence of trees.
Nodes(irs, depth) ==
    UNION {Levels({irs[k] : k \in DOMAIN irs}, depth)[d] : d \in 0 .. depth}
===============================================================================
