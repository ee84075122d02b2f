------------------------------- MODULE Bytecode -------------------------------
(***************************************************************************)
(* The instruction set shared by the code emitter and by the two           *)
(* interpreters.  Code is a sequence of halfwords (the u2 units every      *)
(* instruction is written in): an opcode number, a local-variable index,   *)
(* an argument count, or one of the 2 or 4 halfwords of an immediate.      *)
(* A halfword does not say which of these it is, exactly as in memory.     *)
(***************************************************************************)
EXTENDS Integers, Sequences

Type == {"int", "long", "float", "double"}

Halfword == {n \in Nat : n < 65536}

\* enum class OpCode, in declaration order: OpCode[n + 1] is number n.
OpCode == <<
    "IAdd", "ISub", "IMul", "IDiv", "IMod",
    "DAdd", "DSub", "DMul", "DDiv",
    "FAdd", "FSub", "FMul", "FDiv",
    "LAdd", "LSub", "LMul", "LDiv", "LMod",
    "IConst", "LConst", "FConst", "DConst",
    "LoadI", "LoadD", "LoadF", "LoadL",
    "StoreI", "StoreD", "StoreF", "StoreL",
    "ICastL", "ICastD", "ICastF",
    "LCastI", "LCastD", "LCastF",
    "FCastI", "FCastD", "FCastL",
    "DCastI", "DCastF", "DCastL",
    "PrintI", "PrintL", "PrintD", "PrintF",
    "Nop", "Program", "Stmt", "Def", "Done" >>

\* static_cast<OpCode>(halfword), and static_cast<u2>(opcode).
Decode(n) == IF n + 1 \in DOMAIN OpCode THEN OpCode[n + 1] ELSE "none"
Number == [op \in {OpCode[k] : k \in DOMAIN OpCode} |->
              CHOOSE n \in 0 .. (Len(OpCode) - 1) : OpCode[n + 1] = op]
Encode(op) == Number[op]

\* The opcode chosen for a result type (util.cpp and the Emit functions).
ConstOf == [int |-> "IConst", long |-> "LConst", float |-> "FConst", double |-> "DConst"]
LoadOf  == [int |-> "LoadI",  long |-> "LoadL",  float |-> "LoadF",  double |-> "LoadD"]
StoreOf == [int |-> "StoreI", long |-> "StoreL", float |-> "StoreF", double |-> "StoreD"]
PrintOf == [int |-> "PrintI", long |-> "PrintL", float |-> "PrintF", double |-> "PrintD"]

\* The opcode of a binary operator applied to operands of one type.
BinaryOf ==
    [int    |-> [add |-> "IAdd", sub |-> "ISub", mul |-> "IMul", div |-> "IDiv"],
     long   |-> [add |-> "LAdd", sub |-> "LSub", mul |-> "LMul", div |-> "LDiv"],
     float  |-> [add |-> "FAdd", sub |-> "FSub", mul |-> "FMul", div |-> "FDiv"],
     double |-> [add |-> "DAdd", sub |-> "DSub", mul |-> "DMul", div |-> "DDiv"]]

\* The opcode of a conversion; a conversion to the same type is kNop.
CastOf ==
    [int    |-> [int |-> "Nop", long |-> "ICastL", float |-> "ICastF", double |-> "ICastD"],
     long   |-> [int |-> "LCastI", long |-> "Nop", float |-> "LCastF", double |-> "LCastD"],
     float  |-> [int |-> "FCastI", long |-> "FCastL", float |-> "Nop", double |-> "FCastD"],
     double |-> [int |-> "DCastI", long |-> "DCastL", float |-> "DCastF", double |-> "Nop"]]

\* Halfwords an immediate of a type takes: 4-byte int and float, 8-byte others.
Width == [int |-> 2, float |-> 2, long |-> 4, double |-> 4]

-------------------------------------------------------------------------------
(***************************************************************************)
(* Values are symbolic terms: a model tells apart which operation was      *)
(* applied to which operands in which order, not what an addition yields.  *)
(* Every term has the same fields, so any two can be compared.             *)
(***************************************************************************)
Term(op, bits, args) == [op |-> op, bits |-> bits, args |-> args]
Lit(bits)     == Term("Lit", bits, <<>>)       \* an immediate
Junk(x)       == Term("Junk", <<x>>, <<>>)     \* local x, never assigned
App(op, args) == Term(op, <<>>, args)
Garbage       == Term("Garbage", <<>>, <<>>)   \* a stack slot never written
===============================================================================
