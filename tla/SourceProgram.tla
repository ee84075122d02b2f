----------------------------- MODULE SourceProgram -----------------------------
(***************************************************************************)
(* What running a program promises, whatever runs it: its statements take  *)
(* effect one after the other, in the order they are written; an           *)
(* assignment gives one variable the value of its right-hand side and a    *)
(* print writes one value, both evaluated over the variables as they are   *)
(* then; nothing else happens.  There is no stack, no code and no          *)
(* instruction here.                                                       *)
(***************************************************************************)
EXTENDS Integers, Sequences

CONSTANT Programs     \* sequences of assignments and prints (trees of IR)

VARIABLES
    prog,     \* the program being run
    next,     \* the statement whose turn it is
    env,      \* variable index -> its value
    out,      \* the values printed
    state     \* "running", "done", or "failed": stopped before the end

vars == <<prog, next, env, out, state>>

LOCAL Apply(op, bits, args) == [op |-> op, bits |-> bits, args |-> args]

\* The value of an expression: its operator applied to its operands' values.
RECURSIVE Eval(_, _)
Eval(e, vals) ==
    CASE e.ir = "Constant" -> Apply("Lit", e.data, <<>>)
      [] e.ir = "Variable" -> vals[e.data[1]]
      [] OTHER -> Apply(e.op, <<>>, [k \in DOMAIN e.kids |-> Eval(e.kids[k], vals)])

\* The operators of an expression.
RECURSIVE Operators(_)
Operators(e) == {e.op} \cup UNION {Operators(e.kids[k]) : k \in DOMAIN e.kids}

\* Only a statement that divides integers, or that uses the long arithmetic
\* no interpreter has, may stop the program.
MayFail(s) ==
    Operators(s) \cap {"IDiv", "IMod", "LAdd", "LSub", "LMul", "LDiv", "LMod"} # {}

Unset(x) == Apply("Junk", <<x>>, <<>>)

Init ==
    /\ prog \in Programs
    /\ next = 1
    /\ env = [x \in 0 .. (prog.vars - 1) |-> Unset(x)]
    /\ out = <<>>
    /\ state = "running"

Current == prog.stmts[next]

Assign ==
    /\ Current.ir = "Assign"
    /\ env' = [env EXCEPT ![Current.kids[1].data[1]] = Eval(Current.kids[2], env)]
    /\ UNCHANGED out

PrintValue ==
    /\ Current.ir = "Call"
    /\ out' = Append(out, Eval(Current.kids[1], env))
    /\ UNCHANGED env

Execute ==
    /\ state = "running"
    /\ next <= Len(prog.stmts)
    /\ Assign \/ PrintValue
    /\ next' = next + 1
    /\ UNCHANGED <<prog, state>>

Finish ==
    /\ state = "running"
    /\ next > Len(prog.stmts)
    /\ state' = "done"
    /\ UNCHANGED <<prog, next, env, out>>

Fail ==
    /\ state = "running"
    /\ next <= Len(prog.stmts)
    /\ MayFail(Current)
    /\ state' = "failed"
    /\ UNCHANGED <<prog, next, env, out>>

Next == Execute \/ Finish \/ Fail

\* Every program stops: there is no loop and no jump.
Spec == Init /\ [][Next]_vars /\ WF_vars(Next)
===============================================================================
