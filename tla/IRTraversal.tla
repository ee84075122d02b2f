------------------------------ MODULE IRTraversal ------------------------------
(***************************************************************************)
(* The traversals the program makes of its trees: Dump prints them, Verify *)
(* checks their types, Emit writes their code.  Any of the three may panic *)
(* at a node, so each is also a gate that lets some programs through and   *)
(* stops others.  Compile calls Dump, then Emit; only a test calls Verify. *)
(*                                                                         *)
(* A program is given as its statements and a depth that no tree exceeds.  *)
(***************************************************************************)
EXTENDS IR

\* The halfwords each node is written as, with its children: right operand
\* before left.
Emit(irs, depth) ==
    LET emit[n \in Nodes(irs, depth)] ==
            CASE n.ir = "Binary" -> emit[n.kids[2]] \o emit[n.kids[1]] \o <<Encode(n.op)>>
              [] n.ir = "Cast"   -> emit[n.kids[1]] \o <<Encode(n.op)>>
              [] n.ir = "Assign" -> emit[n.kids[2]] \o emit[n.kids[1]]
              [] n.ir = "Call"   -> emit[n.kids[1]]
                                    \o <<Encode(PrintOf[n.kids[1].type]), Len(n.kids)>>
              [] n.ir \in {"Variable", "Store", "Constant"} -> <<Encode(n.op)>> \o n.data
              [] OTHER -> <<>>
    IN  emit

\* The statements one after the other, and an end.
EmitAll(irs, depth) ==
    LET emit == Emit(irs, depth)
        all[k \in 0 .. Len(irs)] == IF k = 0 THEN <<>> ELSE all[k - 1] \o emit[irs[k]]
    IN  all[Len(irs)]
EmitProgram(irs, depth) == EmitAll(irs, depth) \o <<Encode("Done")>>

\* Only print, and only of one argument, has code.
EmitAccepts(n) == n.ir = "Call" => n.data = <<"print">> /\ Len(n.kids) = 1

\* Dump panics on a float product, quotient or difference and on a conversion
\* to the same type, and asserts that a call is one of print.  It dumps the
\* first argument of a call, even when there is none: undefined behaviour,
\* counted as a stop here.
DumpAccepts(n) ==
    /\ n.ir = "Binary" => n.op \notin {"FSub", "FMul", "FDiv"}
    /\ n.ir = "Cast" => n.op # "Nop"
    /\ n.ir = "Call" => n.kids # <<>> /\ n.data = <<"print">>

\* Mutant: a call may have any number of arguments.
VerifyAccepts_AnyArity(n) ==
    /\ n.ir = "Binary" =>
         /\ n.kids[1].type = n.kids[2].type
         /\ n.type \in {"int", "double"}
    /\ n.ir = "Assign" => n.kids[1].type = n.kids[2].type

\* Verify's switch falls through from the float cases into the long ones and
\* from those into default, so it stops every float and every long operator.
VerifyAccepts(n) ==
    /\ n.ir = "Binary" =>
         /\ n.kids[1].type = n.kids[2].type
         /\ n.type \in {"int", "double"}
    /\ n.ir = "Assign" => n.kids[1].type = n.kids[2].type
    /\ n.ir = "Call" => Len(n.kids) = 1

\* What Compile lets through.  Of a call Dump visits the first argument only,
\* which is all a call that Emit accepts has.
Compiles(irs, depth) == \A n \in Nodes(irs, depth) : DumpAccepts(n) /\ EmitAccepts(n)
===============================================================================
