------------------------------ MODULE CoreVMProofs ------------------------------
(***************************************************************************)
(* main, for every command line and every file.  What the argument loop    *)
(* keeps: the last name it has passed, whatever comes between the names.   *)
(* What becomes of the file that is opened: which trees get through the    *)
(* stages behind the parser, and what code is run.                         *)
(***************************************************************************)
EXTENDS CompilerProofs

-------------------------------------------------------------------------------
(* The command line. *)

\* The argument loop: where it is, and what it has kept.
Reading ==
    /\ argv \in Seq(STRING)
    /\ stage = "arguments" => arg \in 1 .. (Len(argv) + 1)
    /\ KeepsLast

-------------------------------------------------------------------------------
\* Passing a word that is no source file leaves the names before it.
LEMMA SkipsWord ==
    ASSUME argv \in Seq(STRING), arg \in 1 .. Len(argv), argv[arg] \notin SourceNames
    PROVE  NamesBefore(arg + 1) = NamesBefore(arg)
<1>1. ASSUME NEW j \in NamesBefore(arg + 1) PROVE j \in NamesBefore(arg)
  <2>1. j \in 1 .. Len(argv) /\ j < arg + 1 /\ argv[j] \in SourceNames
    BY <1>1 DEF NamesBefore
  <2>2. j # arg  BY <2>1
  <2> QED  BY <2>1, <2>2 DEF NamesBefore
<1>2. ASSUME NEW j \in NamesBefore(arg) PROVE j \in NamesBefore(arg + 1)
  BY <1>2 DEF NamesBefore
<1> QED  BY <1>1, <1>2

\* A name that is passed is the last one so far.
LEMMA TakesName ==
    ASSUME argv \in Seq(STRING), arg \in 1 .. Len(argv), argv[arg] \in SourceNames
    PROVE  /\ NamesBefore(arg + 1) # {}
           /\ LastBefore(arg + 1) = argv[arg]
<1>1. arg \in NamesBefore(arg + 1)  BY DEF NamesBefore
<1>2. \A j \in NamesBefore(arg + 1) : j \in Nat /\ j <= arg  BY DEF NamesBefore
<1> DEFINE last == CHOOSE j \in NamesBefore(arg + 1) :
                       \A i \in NamesBefore(arg + 1) : i <= j
<1>3. last \in NamesBefore(arg + 1) /\ \A i \in NamesBefore(arg + 1) : i <= last
  BY <1>1, <1>2
<1> HIDE DEF last
<1>4. last = arg  BY <1>1, <1>2, <1>3
<1> QED  BY <1>1, <1>4 DEF LastBefore, last

-------------------------------------------------------------------------------
\* The words of a command line are numbered from 1.
LEMMA WordsHaveLength ==
    ASSUME NEW words \in Seq(STRING)
    PROVE  Len(words) \in Nat /\ DOMAIN words = 1 .. Len(words)
OBVIOUS

\* Nothing has been read or kept at the start.
LEMMA ReadingInit == Init => Reading
<1> SUFFICES ASSUME Init PROVE Reading  OBVIOUS
<1>1. argv \in Seq(STRING) /\ arg = 1 /\ filename = ""
  BY CommandLinesAssumption DEF Init
<1>2. Len(argv) \in Nat /\ DOMAIN argv = 1 .. Len(argv)  BY <1>1, WordsHaveLength
<1>3. NamesBefore(arg) = {}
  <2> SUFFICES ASSUME NEW j \in NamesBefore(arg) PROVE FALSE  OBVIOUS
  <2>1. j \in 1 .. Len(argv) /\ j < 1  BY <1>1, <1>2 DEF NamesBefore
  <2> QED  BY <1>2, <2>1
<1>4. arg \in 1 .. (Len(argv) + 1)
  <2>1. arg = 1  BY <1>1
  <2> QED  BY <1>2, <2>1
<1>5. KeepsLast  BY <1>1, <1>3 DEF KeepsLast
<1> QED  BY <1>1, <1>4, <1>5 DEF Reading

\* The steps that leave the arguments behind, or are taken after them, leave
\* argv alone.
LEMMA LeavesArguments ==
    Next => \/ ReadName \/ ReadOption
            \/ stage' # "arguments" /\ argv' = argv
<1> SUFFICES ASSUME Next, ~ReadName, ~ReadOption
             PROVE  stage' # "arguments" /\ argv' = argv
  OBVIOUS
<1>1. CASE ReadHelp \/ BadArguments
  BY <1>1 DEF ReadHelp, BadArguments, Goes, configVars
<1>2. CASE StartCompile
  BY <1>2 DEF StartCompile, Open, Goes, configVars
<1>3. CASE CompileStep
  BY <1>3 DEF CompileStep, Compile, Lex, BeginParse, Parse, BeginDump, DumpVisit, BeginEmit,
              Allocate, EmitVisit, Write, WriteAborts, CopyOut, Goes, Visiting, configVars
<1>4. CASE StartByteCode \/ StartAsm
  BY <1>4 DEF StartByteCode, StartAsm, Start, Goes, configVars
<1>5. CASE RunByteCode \/ RunAsm
  BY <1>5 DEF RunByteCode, RunAsm, compilerVars, configVars
<1> QED  BY <1>1, <1>2, <1>3, <1>4, <1>5 DEF Next

\* Each word passed keeps Reading.
LEMMA ReadingStep == Reading /\ [Next]_vars => Reading'
<1> SUFFICES ASSUME Reading, [Next]_vars PROVE Reading'  OBVIOUS
<1>1. CASE ReadName
  <2>1. /\ stage = "arguments" /\ arg \in 1 .. Len(argv) /\ argv[arg] \in SourceNames
        /\ argv' = argv /\ arg' = arg + 1 /\ filename' = argv[arg]
    BY <1>1 DEF ReadName, ReadsArgument, Reading
  <2>2. NamesBefore(arg + 1) # {} /\ LastBefore(arg + 1) = argv[arg]
    BY <2>1, TakesName DEF Reading
  <2>3. NamesBefore(arg)' = NamesBefore(arg + 1) /\ LastBefore(arg)' = LastBefore(arg + 1)
    BY <2>1 DEF NamesBefore, LastBefore
  <2>4. KeepsLast'  BY <2>1, <2>2, <2>3 DEF KeepsLast
  <2>5. arg' \in 1 .. (Len(argv') + 1)  BY <2>1
  <2> QED  BY <2>1, <2>4, <2>5 DEF Reading
<1>2. CASE ReadOption
  <2>1. /\ stage = "arguments" /\ arg \in 1 .. Len(argv) /\ argv[arg] \notin SourceNames
        /\ argv' = argv /\ arg' = arg + 1 /\ filename' = filename
    <3>1. /\ stage = "arguments" /\ arg <= Len(argv) /\ argv[arg] \notin SourceNames
          /\ argv' = argv /\ arg' = arg + 1 /\ filename' = filename
      BY <1>2, Zenon DEF ReadOption, ReadsArgument
    <3>2. arg \in 1 .. Len(argv)  BY <3>1 DEF Reading
    <3> QED  BY <3>1, <3>2
  <2>2. NamesBefore(arg + 1) = NamesBefore(arg)
    BY <2>1, SkipsWord DEF Reading
  <2>3. NamesBefore(arg)' = NamesBefore(arg) /\ LastBefore(arg)' = LastBefore(arg)
    BY <2>1, <2>2 DEF NamesBefore, LastBefore
  <2>4. KeepsLast'  BY <2>1, <2>3 DEF Reading, KeepsLast
  <2>5. arg' \in 1 .. (Len(argv') + 1)  BY <2>1
  <2> QED  BY <2>1, <2>4, <2>5 DEF Reading
<1>3. CASE stage' # "arguments" /\ argv' = argv
  BY <1>3 DEF Reading, KeepsLast
<1>4. CASE UNCHANGED vars
  BY <1>4 DEF vars, configVars, compilerVars, Reading, KeepsLast, LastBefore, NamesBefore
<1> QED  BY <1>1, <1>2, <1>3, <1>4, LeavesArguments

\* Until the arguments have been read the name kept is the last of those
\* passed, or none when there was none: main has the name that the usage line
\* asks for when it opens argv[1] in its place.
THEOREM KeepsLastAlways == Spec => []KeepsLast
<1>1. Reading => KeepsLast  BY DEF Reading
<1> QED  BY <1>1, ReadingInit, ReadingStep, PTL DEF Spec

-------------------------------------------------------------------------------
(* What Dump and Emit have let through: the nodes they have entered, each with *)
(* those below it that are not entered yet still on the list.                 *)

Waiting(n) == \E k \in DOMAIN work : work[k] = Unvisited(n)
Again(n) == \E k \in DOMAIN work : work[k] = [node |-> n, visited |-> TRUE]

Entered(K) ==
    /\ Whole \in K \/ Waiting(Whole)
    /\ \A n \in K : \A k \in 1 .. Len(InOrder(n)) :
                       InOrder(n)[k] \in K \/ Waiting(InOrder(n)[k])

\* Nothing is left to enter.
Closed(K) ==
    /\ Whole \in K
    /\ \A n \in K : \A k \in 1 .. Len(InOrder(n)) : InOrder(n)[k] \in K

DumpedOr(n) == DumpAccepts(n) \/ (Again(n) /\ (n.ir = "Call" => n.kids # <<>>))

GatesInv ==
    /\ stage = "dumping" => \E K : Entered(K) /\ \A n \in K : DumpedOr(n)
    /\ stage \in {"allocating", "emitting"} =>
          /\ \E K : Closed(K) /\ \A n \in K : DumpAccepts(n)
          /\ \E K : Entered(K) /\ \A n \in K : EmitAccepts(n)

LEMMA ItemIs ==
    ASSUME NEW x \in Item
    PROVE  /\ x.visited => x = [node |-> x.node, visited |-> TRUE]
           /\ ~x.visited => x = Unvisited(x.node)
           /\ x.node \in Tree \cup {Whole}
BY DEF Item, Unvisited, Whole

\* The list once its first item is gone.
LEMMA ListTail ==
    ASSUME work \in Seq(Item), work # <<>>
    PROVE  /\ Head(work) \in Item
           /\ \A k \in DOMAIN work : work[k] = Head(work) \/ \E j \in DOMAIN Tail(work) : Tail(work)[j] = work[k]
<1>1. PICK w \in Seq(Item) : w = work
    OBVIOUS
<1> HIDE DEF Item
<1>2. Len(w) \in Nat /\ Len(w) > 0 /\ Len(Tail(w)) = Len(w) - 1 /\ DOMAIN w = 1 .. Len(w)
      /\ DOMAIN Tail(w) = 1 .. (Len(w) - 1) /\ Head(w) = w[1] /\ w[1] \in Item
    BY <1>1
<1>3. ASSUME NEW k \in 1 .. Len(w), k # 1 PROVE k - 1 \in 1 .. (Len(w) - 1) /\ Tail(w)[k - 1] = w[k]
    BY <1>2, <1>3
<1> QED  BY <1>1, <1>2, <1>3

\* The list once the nodes below the first have been put before the rest.
LEMMA ListBelow ==
    ASSUME ParserInv, work \in Seq(Item), work # <<>>, ~Visited, Descend, Here \in Tree \cup {Whole},
           Here.ir = "Call" => Here.kids # <<>>
    PROVE  /\ Len(InOrder(Here)) \in Nat
           /\ \A k \in 1 .. Len(InOrder(Here)) : \E j \in DOMAIN work' : work'[j] = Unvisited(InOrder(Here)[k])
           /\ \E j \in DOMAIN work' : work'[j] = [node |-> Here, visited |-> TRUE]
           /\ \A k \in DOMAIN work : work[k] = Unvisited(Here) \/ \E j \in DOMAIN work' : work'[j] = work[k]
<1>1. PICK order \in Seq(Tree) : order = InOrder(Here)
    BY InOrderTree DEF Whole
<1>2. PICK again : again = [node |-> Here, visited |-> TRUE]
    OBVIOUS
<1> DEFINE below == [k \in DOMAIN order |-> Unvisited(order[k])]
           S == {below[k] : k \in DOMAIN order} \cup {again} \cup Item
<1>3. Len(order) \in Nat /\ DOMAIN order = 1 .. Len(order)
    OBVIOUS
<1>4. below \in Seq(S) /\ Len(below) = Len(order)
    BY <1>3
<1>5. \A k \in 1 .. Len(order) : below[k] = Unvisited(order[k])
    BY <1>3
<1>6. PICK rest \in Seq(Item) : rest = Tail(work)
    <2> HIDE DEF Item
    <2>1. Tail(work) \in Seq(Item)
        OBVIOUS
    <2> QED  BY <2>1
<1>7. rest \in Seq(S)
    <2> HIDE DEF Item, below
    <2> QED  BY <1>6
<1>8. <<again>> \in Seq(S) /\ Len(<<again>>) = 1 /\ <<again>>[1] = again
    <2> HIDE DEF below, Item
    <2> QED  OBVIOUS
<1>9. work' = (below \o <<again>>) \o rest
    BY <1>1, <1>2, <1>6 DEF Descend
<1> HIDE DEF below, S
<1>10. PICK m \in Nat : m = Len(order)
    BY <1>3
<1>11. PICK front : front = below \o <<again>>
    OBVIOUS
<1>12. front \in Seq(S) /\ Len(front) = m + 1
       /\ \A k \in 1 .. (m + 1) : front[k] = IF k <= m THEN below[k] ELSE <<again>>[k - m]
    BY <1>4, <1>8, <1>10, <1>11, ConcatProperties
<1>13. PICK l \in Nat : l = Len(rest) /\ DOMAIN rest = 1 .. l
    BY <1>7
<1>14. /\ work' \in Seq(S) /\ Len(work') = (m + 1) + l
       /\ \A k \in 1 .. ((m + 1) + l) : work'[k] = IF k <= m + 1 THEN front[k] ELSE rest[k - (m + 1)]
    <2>1. work' = front \o rest
        BY <1>9, <1>11
    <2>2. /\ front \o rest \in Seq(S) /\ Len(front \o rest) = Len(front) + Len(rest)
          /\ \A k \in 1 .. (Len(front) + Len(rest)) :
                (front \o rest)[k] = IF k <= Len(front) THEN front[k] ELSE rest[k - Len(front)]
        <3>1. front \in Seq(S)
            BY <1>12
        <3> QED  BY <1>7, <3>1, ConcatProperties, Zenon
    <2> QED  BY <1>12, <1>13, <2>1, <2>2
<1>15. DOMAIN work' = 1 .. ((m + 1) + l)
    BY <1>14
<1>16. ASSUME NEW k \in 1 .. m PROVE k \in DOMAIN work' /\ work'[k] = Unvisited(order[k])
    <2>1. k \in 1 .. (m + 1) /\ k \in 1 .. ((m + 1) + l) /\ k <= m + 1 /\ k <= m
        OBVIOUS
    <2> QED  BY <1>5, <1>10, <1>12, <1>14, <1>15, <2>1
<1>17. m + 1 \in DOMAIN work' /\ work'[m + 1] = again
    <2>1. /\ m + 1 \in 1 .. (m + 1) /\ m + 1 \in 1 .. ((m + 1) + l) /\ m + 1 <= m + 1 /\ ~(m + 1 <= m)
          /\ (m + 1) - m = 1
        OBVIOUS
    <2> QED  BY <1>8, <1>12, <1>14, <1>15, <2>1
<1>18. ASSUME NEW j \in 1 .. l PROVE (m + 1) + j \in DOMAIN work' /\ work'[(m + 1) + j] = rest[j]
    <2>1. (m + 1) + j \in 1 .. ((m + 1) + l) /\ ~((m + 1) + j <= m + 1) /\ ((m + 1) + j) - (m + 1) = j
        OBVIOUS
    <2> QED  BY <1>14, <1>15, <2>1
<1>19. Head(work) = Unvisited(Here)
    <2>1. Head(work) \in Item
        BY ListTail
    <2> QED  BY <2>1, ItemIs DEF Visited, Here
<1>20. \A k \in DOMAIN work : work[k] = Unvisited(Here) \/ \E j \in DOMAIN work' : work'[j] = work[k]
    BY <1>6, <1>13, <1>18, <1>19, ListTail
<1> QED  BY <1>1, <1>2, <1>10, <1>16, <1>17, <1>20

LEMMA LeavesWaiting ==
    ASSUME work \in Seq(Item), work # <<>>, Visited, work' = Tail(work)
    PROVE  /\ \A n : Waiting(n) => Waiting(n)'
           /\ \A n : Again(n) => Again(n)' \/ n = Here
<1>1. /\ Head(work) \in Item
      /\ \A k \in DOMAIN work : work[k] = Head(work) \/ \E j \in DOMAIN work' : work'[j] = work[k]
    BY ListTail
<1>2. \A n : Head(work) # Unvisited(n)
    BY DEF Visited, Unvisited
<1>3. \A n : Head(work) = [node |-> n, visited |-> TRUE] => n = Here
    BY DEF Here
<1> QED  BY <1>1, <1>2, <1>3 DEF Waiting, Again

LEMMA EntersWaiting ==
    ASSUME ParserInv, work \in Seq(Item), work # <<>>, ~Visited, Descend, Here \in Tree \cup {Whole},
           Here.ir = "Call" => Here.kids # <<>>
    PROVE  /\ \A n : Waiting(n) => Waiting(n)' \/ n = Here
           /\ \A n : Again(n) => Again(n)'
           /\ \A n : n = Here => Again(n)'
           /\ \A k \in 1 .. Len(InOrder(Here)) : \A n : n = InOrder(Here)[k] => Waiting(n)'
<1>0. \A n, m : Unvisited(n) = Unvisited(m) => n = m
    BY DEF Unvisited
<1>1. \A n, m : Unvisited(n) # [node |-> m, visited |-> TRUE]
    BY DEF Unvisited
<1>2. PICK h : h = Here
    OBVIOUS
<1>3. PICK order : order = InOrder(h)
    OBVIOUS
<1>4. /\ \A k \in 1 .. Len(order) : \E j \in DOMAIN work' : work'[j] = Unvisited(order[k])
      /\ \E j \in DOMAIN work' : work'[j] = [node |-> h, visited |-> TRUE]
      /\ \A k \in DOMAIN work : work[k] = Unvisited(h) \/ \E j \in DOMAIN work' : work'[j] = work[k]
    BY <1>2, <1>3, ListBelow
<1>5. \A n : Waiting(n) => Waiting(n)' \/ n = h
    BY <1>0, <1>4 DEF Waiting
<1>6. \A n : Again(n) => Again(n)'
    BY <1>1, <1>4 DEF Again
<1>7. \E j \in DOMAIN work' : work'[j] = [node |-> h, visited |-> TRUE]
    BY <1>4
<1>8. \A k \in 1 .. Len(order) : \E j \in DOMAIN work' : work'[j] = Unvisited(order[k])
    BY <1>4
<1>9. \A n : n = h => Again(n)'
    BY <1>7 DEF Again
<1>10. \A k \in 1 .. Len(order) : \A n : n = order[k] => Waiting(n)'
    BY <1>8 DEF Waiting
<1> QED  BY <1>2, <1>3, <1>5, <1>6, <1>9, <1>10, Zenon

LEMMA NothingWaits ==
    ASSUME work = <<>>
    PROVE  (\A n : ~Waiting(n) /\ ~Again(n)) /\ \A K : Entered(K) => Closed(K)
<1>1. \A s : s = <<>> => DOMAIN s = {}
    OBVIOUS
<1>2. DOMAIN work = {}
    BY <1>1
<1>3. \A n : ~Waiting(n) /\ ~Again(n)
    BY <1>2 DEF Waiting, Again
<1> QED  BY <1>3 DEF Entered, Closed

\* All that is left is the program.
LEMMA WholeWaits ==
    ASSUME work = Root
    PROVE  Waiting(Whole) /\ Entered({})
<1>1. Waiting(Whole)
    <2>1. \A x : 1 \in DOMAIN <<x>> /\ <<x>>[1] = x
        OBVIOUS
    <2> QED  BY <2>1 DEF Waiting, Root, Whole
<1> QED  BY <1>1 DEF Entered

LEMMA WholeWaitsNext == (work = Root)' => Entered({})'
<1>1. work = Root => Entered({})
    BY WholeWaits
<1> QED  BY <1>1, PTL

LEMMA SameEntered ==
    ASSUME UNCHANGED <<parserVars, work>>
    PROVE  /\ \A K : (Entered(K) => Entered(K)') /\ (Closed(K) => Closed(K)')
           /\ \A n : Again(n) => Again(n)'
<1>1. Whole' = Whole /\ work' = work
    BY DEF Whole, parserVars
<1>2. \A n : (Waiting(n)' <=> Waiting(n)) /\ (Again(n)' <=> Again(n))
    BY <1>1 DEF Waiting, Again
<1> QED  BY <1>1, <1>2 DEF Entered, Closed

LEMMA EnteredLeaves ==
    ASSUME UNCHANGED parserVars, work \in Seq(Item), work # <<>>, Visited, work' = Tail(work),
           NEW K, Entered(K)
    PROVE  Entered(K)'
<1>1. Whole' = Whole
    BY DEF Whole, parserVars
<1>2. \A n : Waiting(n) => Waiting(n)'
    BY LeavesWaiting
<1>3. Waiting(Whole) => Waiting(Whole)'
    BY <1>1, <1>2 DEF Waiting
<1> QED  BY <1>1, <1>2, <1>3 DEF Entered

LEMMA EnteredEnters ==
    ASSUME UNCHANGED parserVars, ParserInv, work \in Seq(Item), work # <<>>, ~Visited, Descend,
           Here \in Tree \cup {Whole}, Here.ir = "Call" => Here.kids # <<>>,
           NEW K, Entered(K)
    PROVE  \A M : M = K \cup {Here} => Entered(M)'
<1>1. Whole' = Whole
    BY DEF Whole, parserVars
<1>2. PICK h \in Tree \cup {Whole} : h = Here
    OBVIOUS
<1>3. PICK M : M = K \cup {h}
    OBVIOUS
<1>4. /\ \A n : Waiting(n) => Waiting(n)' \/ n = h
      /\ \A k \in 1 .. Len(InOrder(h)) : \A n : n = InOrder(h)[k] => Waiting(n)'
    BY <1>2, EntersWaiting
<1>5. ASSUME NEW n \in M, NEW k \in 1 .. Len(InOrder(n)), NEW e, e = InOrder(n)[k]
      PROVE  e \in M \/ Waiting(e)'
    <2>1. CASE n = h
        BY <1>4, <1>5, <2>1
    <2>2. CASE n # h
        <3>1. n \in K
            BY <1>3, <2>2
        <3>2. e \in K \/ Waiting(e)
            <4>1. InOrder(n)[k] \in K \/ Waiting(InOrder(n)[k])
                BY <3>1 DEF Entered
            <4> QED  BY <1>5, <4>1
        <3> QED  BY <1>3, <1>4, <3>2
    <2> QED  BY <2>1, <2>2
<1>6. \A n \in M : \A k \in 1 .. Len(InOrder(n)) : \A e : e = InOrder(n)[k] => e \in M \/ Waiting(e)'
    BY <1>5
<1>7. Whole \in M \/ Waiting(Whole)'
    <2>1. PICK w : w = Whole
        OBVIOUS
    <2>2. w \in K \/ Waiting(w)
        BY <2>1 DEF Entered
    <2>3. w \in M \/ Waiting(w)'
        BY <1>3, <1>4, <2>2
    <2> QED  BY <1>1, <2>1, <2>3 DEF Waiting
<1>8. Entered(M)'
    BY <1>1, <1>6, <1>7 DEF Entered, Waiting
<1> QED  BY <1>2, <1>3, <1>8

\* With every call having one argument, what is entered at the end is the tree.
LEMMA ClosedIsTree ==
    ASSUME ParserInv, NEW K, Closed(K), \A n \in K \cap Tree : n.ir = "Call" => Len(n.kids) = 1
    PROVE  Tree \subseteq K
<1>1. \A k \in 1 .. Len(program) : program[k] \in K
    <2>1. InOrder(Whole) = program
        BY ProgramNode DEF InOrder, Whole
    <2> QED  BY <2>1 DEF Closed
<1>2. \A n \in K \cap Tree : \A k \in 1 .. Len(InOrder(n)) : InOrder(n)[k] \in K
    BY DEF Closed
<1> QED  BY <1>1, <1>2, AllVisited

\* A program that gets past both gates compiles.
LEMMA GatesPassed ==
    ASSUME ParserInv, GatesInv, stage = "emitting", work = <<>>
    PROVE  Compiles(program, Len(tokens))
<1>1. PICK K : Closed(K) /\ \A n \in K : DumpAccepts(n)
    BY DEF GatesInv
<1>2. PICK M : Closed(M) /\ \A n \in M : EmitAccepts(n)
    BY NothingWaits DEF GatesInv
<1>3. Tree \subseteq M
    <2>1. \A n \in M \cap Tree : n.ir = "Call" => Len(n.kids) = 1
        BY <1>2 DEF EmitAccepts
    <2> QED  BY <1>2, <2>1, ClosedIsTree
<1>4. \A n \in Tree : EmitAccepts(n) /\ (n.ir = "Call" => Len(n.kids) = 1)
    BY <1>2, <1>3 DEF EmitAccepts
<1>5. Tree \subseteq K
    BY <1>1, <1>4, ClosedIsTree
<1> QED  BY <1>1, <1>4, <1>5 DEF Compiles, Tree

LEMMA GatesStep == ParserInv /\ WalkInv /\ GatesInv /\ Next => GatesInv'
<1> SUFFICES ASSUME ParserInv, WalkInv, GatesInv, Next PROVE GatesInv'
    OBVIOUS
<1>1. Steps
    BY NextSteps
<1>2. CASE stage' \notin {"dumping", "allocating", "emitting"}
    BY <1>2 DEF GatesInv
<1>3. CASE ReadsOn \/ Opens \/ Stops \/ DumpStops \/ EmitStops \/ Runs
    BY <1>2, <1>3 DEF ReadsOn, Opens, Stops, DumpStops, EmitStops, Runs, Endings
<1>4. CASE Lex \/ BeginParse \/ Parse \/ WriteAborts \/ CopyOut
    <2>1. stage' \notin {"dumping", "allocating", "emitting"}
        BY <1>4 DEF Lex, BeginParse, Parse, WriteAborts, CopyOut, Goes
    <2> QED  BY <1>2, <2>1
<1>5. CASE BeginDump
    <2>1. work' = Root' /\ stage' = "dumping"
        BY <1>5 DEF BeginDump, Goes, Root, parserVars
    <2>2. Entered({})'
        BY <2>1, WholeWaitsNext
    <2> QED  BY <2>1, <2>2 DEF GatesInv
<1>6. CASE BeginEmit
    <2>1. /\ work' = Root' /\ stage' = "allocating" /\ stage = "dumping" /\ work = <<>>
          /\ UNCHANGED parserVars
        BY <1>6 DEF BeginEmit, Goes, Root, parserVars
    <2>2. Entered({})'
        BY <2>1, WholeWaitsNext
    <2>3. PICK K : Closed(K) /\ \A n \in K : DumpAccepts(n)
        BY <2>1, NothingWaits DEF GatesInv, DumpedOr
    <2>4. Closed(K)'
        BY <2>1, <2>3 DEF Closed, Whole, parserVars
    <2> QED  BY <2>1, <2>2, <2>3, <2>4 DEF GatesInv
<1>7. CASE Allocate \/ Write
    <2>1. /\ stage \in {"allocating", "emitting"} /\ stage' \in {"allocating", "emitting"}
          /\ UNCHANGED <<parserVars, work>>
        BY <1>7 DEF Allocate, Write
    <2>2. PICK K : Closed(K)' /\ \A n \in K : DumpAccepts(n)
        BY <2>1, SameEntered DEF GatesInv
    <2>3. PICK M : Entered(M)' /\ \A n \in M : EmitAccepts(n)
        BY <2>1, SameEntered DEF GatesInv
    <2> QED  BY <2>1, <2>2, <2>3 DEF GatesInv
<1>8. ASSUME stage \in {"dumping", "emitting"}, work # <<>>
      PROVE  work \in Seq(Item) /\ Here \in Tree \cup {Whole}
    <2>1. work \in Seq(Item)
        BY <1>8 DEF WalkInv
    <2>2. Head(work) \in Item
        BY <1>8, <2>1, ListTail
    <2> QED  BY <2>1, <2>2, ItemIs DEF Here
<1>9. ASSUME stage = "emitting", stage' = "emitting", UNCHANGED parserVars
      PROVE  \E K : Closed(K)' /\ \A n \in K : DumpAccepts(n)
    <2>1. PICK K : Closed(K) /\ \A n \in K : DumpAccepts(n)
        BY <1>9 DEF GatesInv
    <2>2. Closed(K)'
        BY <1>9, <2>1 DEF Closed, Whole, parserVars
    <2> QED  BY <2>1, <2>2
<1>10. CASE DumpLeaves
    <2>1. /\ stage = "dumping" /\ stage' = "dumping" /\ work # <<>> /\ Visited /\ work' = Tail(work)
          /\ ~DumpPanics(Here) /\ ~(Here.ir = "Call" /\ Here.data # <<"print">>) /\ UNCHANGED parserVars
        BY <1>10 DEF DumpLeaves
    <2>2. PICK K : Entered(K) /\ \A n \in K : DumpedOr(n)
        BY <2>1 DEF GatesInv
    <2>3. Entered(K)'
        BY <1>8, <2>1, <2>2, EnteredLeaves
    <2>4. ASSUME NEW n \in K PROVE DumpedOr(n)'
        <3>1. CASE DumpAccepts(n)
            BY <3>1 DEF DumpedOr
        <3>2. CASE ~DumpAccepts(n)
            <4>1. Again(n) /\ (n.ir = "Call" => n.kids # <<>>)
                BY <2>2, <3>2 DEF DumpedOr
            <4>2. n = Here => DumpAccepts(n)
                BY <2>1, <4>1 DEF DumpPanics, DumpAccepts
            <4>3. Again(n)'
                BY <1>8, <2>1, <3>2, <4>1, <4>2, LeavesWaiting
            <4> QED  BY <4>1, <4>3 DEF DumpedOr
        <3> QED  BY <3>1, <3>2
    <2> QED  BY <2>1, <2>3, <2>4 DEF GatesInv
<1>11. CASE EmitLeaves
    <2>1. /\ stage = "emitting" /\ stage' = "emitting" /\ work # <<>> /\ Visited /\ work' = Tail(work)
          /\ UNCHANGED parserVars
        BY <1>11 DEF EmitLeaves
    <2>2. PICK K : Entered(K) /\ \A n \in K : EmitAccepts(n)
        BY <2>1 DEF GatesInv
    <2>3. Entered(K)'
        BY <1>8, <2>1, <2>2, EnteredLeaves
    <2> QED  BY <1>9, <2>1, <2>2, <2>3 DEF GatesInv
<1>12. CASE Enters
    <2>1. /\ stage \in {"dumping", "emitting"} /\ stage' = stage /\ work # <<>> /\ ~Visited /\ Descend
          /\ UNCHANGED parserVars
        BY <1>12 DEF Enters
    <2>2. PICK h : h = Here
        OBVIOUS
    <2>3. CASE stage = "dumping"
        <3>1. h.ir = "Call" => h.kids # <<>>
            BY <1>12, <2>2, <2>3 DEF Enters
        <3>2. PICK K : Entered(K) /\ \A n \in K : DumpedOr(n)
            BY <2>3 DEF GatesInv
        <3>3. PICK M : M = K \cup {h}
            OBVIOUS
        <3>4. Entered(M)'
            BY <1>8, <2>1, <2>2, <3>1, <3>2, <3>3, EnteredEnters
        <3>5. ASSUME NEW n \in M PROVE DumpedOr(n)'
            BY <1>8, <2>1, <2>2, <3>1, <3>2, <3>3, EntersWaiting DEF DumpedOr
        <3> QED  BY <2>1, <2>3, <3>4, <3>5 DEF GatesInv
    <2>4. CASE stage = "emitting"
        <3>1. h.ir = "Call" => h.data = <<"print">> /\ Len(h.kids) = 1
            BY <1>12, <2>2, <2>4 DEF Enters
        <3>2. h.ir = "Call" => h.kids # <<>>
            <4>1. \A s : s = <<>> => Len(s) # 1
                OBVIOUS
            <4> QED  BY <3>1, <4>1, Zenon
        <3>3. PICK K : Entered(K) /\ \A n \in K : EmitAccepts(n)
            BY <2>4 DEF GatesInv
        <3>4. PICK M : M = K \cup {h}
            OBVIOUS
        <3>5. Entered(M)'
            BY <1>8, <2>1, <2>2, <3>2, <3>3, <3>4, EnteredEnters
        <3>6. ASSUME NEW n \in M PROVE EmitAccepts(n)
            BY <3>1, <3>3, <3>4 DEF EmitAccepts
        <3> QED  BY <1>9, <2>1, <2>4, <3>5, <3>6 DEF GatesInv
    <2> QED  BY <2>1, <2>3, <2>4
<1> QED  BY <1>1, <1>3, <1>4, <1>5, <1>6, <1>7, <1>10, <1>11, <1>12, Zenon DEF Steps

-------------------------------------------------------------------------------
(* What has been written, and what the list has still to come to. *)

LEMMA HeadTailConcat ==
    ASSUME NEW S, NEW s \in Seq(S), s # <<>>
    PROVE  <<Head(s)>> \o Tail(s) = s
<1>1. PICK n \in Nat : n = Len(s) /\ n > 0
    OBVIOUS
<1>2. PICK h \in S : h = Head(s) /\ h = s[1]
    OBVIOUS
<1>3. PICK t \in Seq(S) : t = Tail(s) /\ Len(t) = n - 1 /\ \A k \in 1 .. (n - 1) : t[k] = s[k + 1]
    <2>1. /\ Tail(s) \in Seq(S) /\ Len(Tail(s)) = Len(s) - 1
          /\ \A k \in 1 .. Len(Tail(s)) : Tail(s)[k] = s[k + 1]
        BY HeadTailProperties, Zenon
    <2> QED  BY <1>1, <2>1
<1>4. <<h>> \in Seq(S) /\ Len(<<h>>) = 1 /\ <<h>>[1] = h
    OBVIOUS
<1>5. PICK u : u = <<h>> \o t
    OBVIOUS
<1>6. /\ u \in Seq(S) /\ Len(u) = 1 + (n - 1)
      /\ \A k \in 1 .. (1 + (n - 1)) : u[k] = IF k <= 1 THEN <<h>>[k] ELSE t[k - 1]
    BY <1>3, <1>4, <1>5, ConcatProperties
<1>7. 1 + (n - 1) = n
    OBVIOUS
<1>8. ASSUME NEW k \in 1 .. n PROVE u[k] = s[k]
    <2>1. CASE k = 1
        BY <1>2, <1>4, <1>6, <1>7, <2>1
    <2>2. CASE k # 1
        <3>1. k - 1 \in 1 .. (n - 1) /\ (k - 1) + 1 = k /\ ~(k <= 1)
            BY <2>2
        <3> QED  BY <1>3, <1>6, <1>7, <3>1
    <2> QED  BY <2>1, <2>2
<1>9. u = s
    BY <1>1, <1>6, <1>7, <1>8, SeqEqual
<1> QED  BY <1>2, <1>3, <1>5, <1>9

\* The bytes of a stream as halfwords.
Halves(w) == [k \in 1 .. (Len(w) \div 2) |-> w[2 * k - 1] + 256 * w[2 * k]]
Copied ==
    [k \in 1 .. (written \div 2) |-> buffer[2 * k - 2] + 256 * buffer[2 * k - 1]]

LEMMA HalvesOf ==
    ASSUME NEW w \in Seq(Byte)
    PROVE  /\ Halves(w) \in Code /\ Len(w) \in Nat /\ Len(Halves(w)) = Len(w) \div 2
<1>1. PICK n \in Nat : n = Len(w)
    OBVIOUS
<1>2. \A k \in 1 .. n : w[k] \in Byte
    BY <1>1
<1> DEFINE m == n \div 2
           h(k) == w[2 * k - 1] + 256 * w[2 * k]
<1>3. m \in Nat /\ 2 * m <= n
    OBVIOUS
<1>4. \A k \in 1 .. m : h(k) \in Nat
    <2> SUFFICES ASSUME NEW k \in 1 .. m PROVE h(k) \in Nat
        OBVIOUS
    <2>1. 2 * k - 1 \in 1 .. n /\ 2 * k \in 1 .. n
        BY <1>3
    <2>2. PICK a, b \in Byte : a = w[2 * k - 1] /\ b = w[2 * k]
        BY <1>2, <2>1
    <2>3. a + 256 * b \in Nat
        BY DEF Byte
    <2> QED  BY <2>2, <2>3
<1>5. Halves(w) = [k \in 1 .. m |-> h(k)]
    BY <1>1 DEF Halves
<1> HIDE DEF h, m
<1>6. Halves(w) \in Seq(Nat) /\ Len(Halves(w)) = m
    BY <1>3, <1>4, <1>5
<1> QED  BY <1>1, <1>6 DEF Code, m

\* A value behind a whole number of halfwords adds the halfwords it has.
LEMMA HalvesAppend ==
    ASSUME NEW w \in Seq(Byte), NEW l \in Nat, Len(w) = 2 * l, NEW v \in Seq(Halfword)
    PROVE  Halves(w \o Bytes(v)) = Halves(w) \o v /\ Len(w \o Bytes(v)) = 2 * (l + Len(v))
<1>1. PICK b \in Seq(Byte) : b = Bytes(v) /\ Len(b) = 2 * Len(v)
    BY BytesOf
<1>2. PICK m \in Nat : m = Len(v)
    OBVIOUS
<1>3. \A k \in 1 .. m : b[2 * k - 1] + 256 * b[2 * k] = v[k]
    BY <1>1, <1>2, BytesOf
<1>4. PICK u : u = w \o b
    OBVIOUS
<1>5. /\ u \in Seq(Byte) /\ Len(u) = 2 * l + 2 * m
      /\ \A k \in 1 .. (2 * l + 2 * m) : u[k] = IF k <= 2 * l THEN w[k] ELSE b[k - 2 * l]
    <2>1. /\ w \o b \in Seq(Byte) /\ Len(w \o b) = Len(w) + Len(b)
          /\ \A k \in 1 .. (Len(w) + Len(b)) :
                (w \o b)[k] = IF k <= Len(w) THEN w[k] ELSE b[k - Len(w)]
        BY ConcatProperties, Zenon
    <2> QED  BY <1>1, <1>2, <1>4, <2>1
<1>6. (2 * l) \div 2 = l /\ (2 * l + 2 * m) \div 2 = l + m
    OBVIOUS
<1>7. Halves(w) = [k \in 1 .. l |-> w[2 * k - 1] + 256 * w[2 * k]]
    BY <1>6 DEF Halves
<1>8. Halves(u) = [k \in 1 .. (l + m) |-> u[2 * k - 1] + 256 * u[2 * k]]
    BY <1>5, <1>6 DEF Halves
<1>9. PICK h : h = Halves(w)
    OBVIOUS
<1>10. h \in Code /\ Len(h) = l /\ \A k \in 1 .. l : h[k] = w[2 * k - 1] + 256 * w[2 * k]
    BY <1>6, <1>7, <1>9, HalvesOf
<1>11. PICK g : g = Halves(u)
    OBVIOUS
<1>12. g \in Code /\ Len(g) = l + m /\ \A k \in 1 .. (l + m) : g[k] = u[2 * k - 1] + 256 * u[2 * k]
    BY <1>5, <1>6, <1>8, <1>11, HalvesOf
<1>13. v \in Code
    BY HalfwordsCode
<1>14. PICK x : /\ x = h \o v /\ x \in Code /\ Len(x) = l + m
                /\ \A k \in 1 .. (l + m) : x[k] = IF k <= l THEN h[k] ELSE v[k - l]
    <2>1. /\ h \o v \in Code /\ Len(h \o v) = Len(h) + Len(v)
          /\ \A k \in 1 .. (Len(h) + Len(v)) :
                (h \o v)[k] = IF k <= Len(h) THEN h[k] ELSE v[k - Len(h)]
        <3>1. h \in Seq(Nat) /\ v \in Seq(Nat)
            BY <1>10, <1>13 DEF Code
        <3>2. h \o v \in Seq(Nat)
            BY <3>1, ConcatProperties, Zenon
        <3> QED  BY <3>1, <3>2, ConcatProperties, Zenon DEF Code
    <2>2. PICK x : x = h \o v
        OBVIOUS
    <2>3. x \in Code /\ Len(x) = l + m /\ \A k \in 1 .. (l + m) : x[k] = IF k <= l THEN h[k] ELSE v[k - l]
        BY <1>2, <1>10, <2>1, <2>2
    <2> QED  BY <2>2, <2>3
<1>15. ASSUME NEW k \in 1 .. (l + m), k <= l PROVE g[k] = x[k]
    <2>1. /\ k \in 1 .. l /\ 2 * k - 1 \in 1 .. (2 * l + 2 * m) /\ 2 * k \in 1 .. (2 * l + 2 * m)
          /\ 2 * k - 1 <= 2 * l /\ 2 * k <= 2 * l
        BY <1>15
    <2> QED  BY <1>5, <1>10, <1>12, <1>14, <1>15, <2>1
<1>16. ASSUME NEW k \in 1 .. (l + m), ~(k <= l) PROVE g[k] = x[k]
    <2>1. PICK j \in 1 .. m : k = l + j /\ k - l = j
        <3>1. k - l \in 1 .. m /\ k = l + (k - l)
            BY <1>16
        <3> QED  BY <3>1
    <2>2. /\ 2 * k - 1 \in 1 .. (2 * l + 2 * m) /\ 2 * k \in 1 .. (2 * l + 2 * m)
          /\ ~(2 * k - 1 <= 2 * l) /\ ~(2 * k <= 2 * l)
          /\ (2 * k - 1) - 2 * l = 2 * j - 1 /\ 2 * k - 2 * l = 2 * j
        BY <2>1
    <2>3. u[2 * k - 1] = b[2 * j - 1] /\ u[2 * k] = b[2 * j]
        BY <1>5, <2>2
    <2>4. x[k] = v[j]
        BY <1>14, <1>16, <2>1
    <2> QED  BY <1>3, <1>12, <2>3, <2>4
<1>17. g = h \o v
    <2>1. \A k \in 1 .. Len(g) : g[k] = x[k]
        BY <1>12, <1>15, <1>16
    <2>2. g \in Seq(Nat) /\ x \in Seq(Nat) /\ Len(g) = Len(x)
        BY <1>12, <1>14 DEF Code
    <2>3. g = x
        BY <2>1, <2>2, SeqEqual, Zenon
    <2> QED  BY <1>14, <2>3
<1>18. Len(u) = 2 * (l + m)
    BY <1>5
<1> QED  BY <1>1, <1>2, <1>4, <1>9, <1>11, <1>17, <1>18

\* What CopyOut copies is the stream.
LEMMA CopiedStream ==
    ASSUME AP!Inv, writing = "open"
    PROVE  /\ AP!Written \in Seq(Byte) /\ Len(AP!Written) = written /\ written \in Nat
           /\ Copied = Halves(AP!Written)
<1>1. PICK n \in Nat : n = written
    BY DEF AP!Inv, AP!TypeOK
<1>2. \A k \in 0 .. (n - 1) : buffer[k] \in Byte
    BY <1>1 DEF AP!Inv, AP!Filled
<1>3. AP!Written = [k \in 1 .. n |-> buffer[k - 1]]
    BY <1>1 DEF AP!Written
<1>4. \A k \in 1 .. n : buffer[k - 1] \in Byte
    BY <1>2
<1>5. PICK w : w = AP!Written
    OBVIOUS
<1>6. w \in Seq(Byte) /\ Len(w) = n /\ \A k \in 1 .. n : w[k] = buffer[k - 1]
    BY <1>3, <1>4, <1>5
<1>7. ASSUME NEW k \in 1 .. (n \div 2)
      PROVE  buffer[2 * k - 2] + 256 * buffer[2 * k - 1] = w[2 * k - 1] + 256 * w[2 * k]
    <2>1. 2 * k - 1 \in 1 .. n /\ 2 * k \in 1 .. n /\ (2 * k - 1) - 1 = 2 * k - 2
        OBVIOUS
    <2>2. w[2 * k - 1] = buffer[2 * k - 2] /\ w[2 * k] = buffer[2 * k - 1]
        BY <1>6, <2>1
    <2> QED  BY <2>2
<1>8. Copied = Halves(w)
    BY <1>1, <1>6, <1>7 DEF Copied, Halves
<1> QED  BY <1>1, <1>5, <1>6, <1>8

\* What an item of the list comes to, when f gives each node its code.
Piece(f, item) ==
    (IF item.visited THEN <<>> ELSE Under(f, item.node)) \o Join(Writes(item.node))
Listed(f, w) == [k \in 1 .. Len(w) |-> Piece(f, w[k])]
Total(f) == Under(f, Whole) \o Join(Writes(Whole))

LEMMA WholeWrites ==
    /\ Join(Writes(Whole)) = <<Encode("Done")>> /\ Join(Writes(Whole)) \in Code
<1>1. Writes(Whole) = <<<<Encode("Done")>>>>
    BY ProgramNode DEF Writes, Whole
<1>2. <<Encode("Done")>> \in Code
    BY InstructionNames, HalfwordCode
<1> QED  BY <1>1, <1>2, JoinFew

LEMMA PieceCode ==
    ASSUME ParserInv, OneArgument, NEW f, Codes(f, Cut), NEW item \in Item
    PROVE  /\ Piece(f, item) \in Code /\ Join(Writes(item.node)) \in Code
           /\ item.visited => Piece(f, item) = Join(Writes(item.node))
<1>1. item.node \in Tree \cup {Whole}
    BY ItemIs
<1>2. Cut \in [Tree -> Code]
    BY OwnCode
<1>3. f \in [Tree -> Code]
    BY DEF Codes
<1>4. Under(f, item.node) \in Code
    <2>1. CASE item.node \in Tree
        BY <1>2, <2>1, VisitedCode
    <2>2. CASE item.node = Whole
        BY <1>3, <2>2, VisitedProgram
    <2> QED  BY <1>1, <2>1, <2>2
<1>5. Join(Writes(item.node)) \in Code
    <2>1. CASE item.node \in Tree
        <3>1. Cut[item.node] = Join(Writes(item.node))
            BY <2>1 DEF Cut
        <3> QED  BY <1>2, <2>1, <3>1
    <2>2. CASE item.node = Whole
        BY <2>2, WholeWrites
    <2> QED  BY <1>1, <2>1, <2>2
<1> QED  BY <1>4, <1>5, CodeConcat DEF Piece

LEMMA ListedCode ==
    ASSUME ParserInv, OneArgument, NEW f, Codes(f, Cut), NEW w \in Seq(Item)
    PROVE  /\ Listed(f, w) \in Seq(Code) /\ Join(Listed(f, w)) \in Code
           /\ Len(Listed(f, w)) = Len(w)
<1>1. PICK n \in Nat : n = Len(w)
    <2> HIDE DEF Item
    <2> QED  OBVIOUS
<1>2. \A k \in 1 .. n : w[k] \in Item
    <2> HIDE DEF Item
    <2> QED  BY <1>1
<1>3. \A k \in 1 .. n : Piece(f, w[k]) \in Code
    BY <1>2, PieceCode
<1>4. Listed(f, w) = [k \in 1 .. n |-> Piece(f, w[k])]
    BY <1>1 DEF Listed
<1> HIDE DEF Code
<1>5. Listed(f, w) \in Seq(Code) /\ Len(Listed(f, w)) = n
    BY <1>3, <1>4
<1> QED  BY <1>1, <1>5, JoinCode

LEMMA ListedConcat ==
    ASSUME ParserInv, OneArgument, NEW f, Codes(f, Cut), NEW a \in Seq(Item), NEW b \in Seq(Item)
    PROVE  a \o b \in Seq(Item) /\ Join(Listed(f, a \o b)) = Join(Listed(f, a)) \o Join(Listed(f, b))
<1>1. PICK m, n \in Nat : m = Len(a) /\ n = Len(b)
    <2> HIDE DEF Item
    <2> QED  OBVIOUS
<1>2. PICK c : c = a \o b
    OBVIOUS
<1>3. /\ c \in Seq(Item) /\ Len(c) = m + n
      /\ \A k \in 1 .. (m + n) : c[k] = IF k <= m THEN a[k] ELSE b[k - m]
    <2> HIDE DEF Item
    <2> QED  BY <1>1, <1>2, ConcatProperties
<1>4. PICK p \in Seq(Code) : p = Listed(f, a) /\ Len(p) = m
    BY <1>1, ListedCode
<1>5. PICK q \in Seq(Code) : q = Listed(f, b) /\ Len(q) = n
    BY <1>1, ListedCode
<1>6. PICK r \in Seq(Code) : r = Listed(f, c) /\ Len(r) = m + n
    BY <1>3, ListedCode
<1>7. /\ \A k \in 1 .. m : p[k] = Piece(f, a[k])
      /\ \A k \in 1 .. n : q[k] = Piece(f, b[k])
      /\ \A k \in 1 .. (m + n) : r[k] = Piece(f, c[k])
    BY <1>1, <1>3, <1>4, <1>5, <1>6 DEF Listed
<1> HIDE DEF Code
<1>8. /\ p \o q \in Seq(Code) /\ Len(p \o q) = m + n
      /\ \A k \in 1 .. (m + n) : (p \o q)[k] = IF k <= m THEN p[k] ELSE q[k - m]
    BY <1>4, <1>5, ConcatProperties
<1>9. ASSUME NEW k \in 1 .. (m + n) PROVE r[k] = (p \o q)[k]
    <2>1. CASE k <= m
        <3>1. k \in 1 .. m
            BY <2>1
        <3> QED  BY <1>3, <1>7, <1>8, <2>1, <3>1
    <2>2. CASE ~(k <= m)
        <3>1. k - m \in 1 .. n
            BY <2>2
        <3> QED  BY <1>3, <1>7, <1>8, <2>2, <3>1
    <2> QED  BY <2>1, <2>2
<1>10. r = p \o q
    BY <1>6, <1>8, <1>9, SeqEqual
<1>11. Join(p \o q) = Join(p) \o Join(q)
    BY JoinConcat
<1> QED  BY <1>2, <1>3, <1>4, <1>5, <1>6, <1>10, <1>11

LEMMA ListedOne ==
    ASSUME ParserInv, OneArgument, NEW f, Codes(f, Cut), NEW item \in Item
    PROVE  <<item>> \in Seq(Item) /\ Join(Listed(f, <<item>>)) = Piece(f, item)
<1>1. <<item>> \in Seq(Item)
    <2> HIDE DEF Item
    <2> QED  OBVIOUS
<1>2. [k \in 1 .. Len(<<item>>) |-> Piece(f, <<item>>[k])] = <<Piece(f, item)>>
    OBVIOUS
<1>3. Piece(f, item) \in Code
    BY PieceCode
<1> QED  BY <1>1, <1>2, <1>3, JoinFew DEF Listed

LEMMA ListedHead ==
    ASSUME ParserInv, OneArgument, NEW f, Codes(f, Cut), NEW w \in Seq(Item), w # <<>>
    PROVE  /\ Head(w) \in Item /\ Tail(w) \in Seq(Item)
           /\ Join(Listed(f, w)) = Piece(f, Head(w)) \o Join(Listed(f, Tail(w)))
<1>1. PICK h : h = Head(w)
    OBVIOUS
<1>2. PICK t : t = Tail(w)
    OBVIOUS
<1>3. h \in Item /\ t \in Seq(Item) /\ <<h>> \in Seq(Item) /\ <<h>> \o t = w
    <2> HIDE DEF Item
    <2>1. h \in Item /\ t \in Seq(Item)
        BY <1>1, <1>2
    <2>2. <<h>> \in Seq(Item)
        BY <2>1
    <2>3. <<h>> \o t = w
        BY <1>1, <1>2, HeadTailConcat
    <2> QED  BY <2>1, <2>2, <2>3
<1>4. Join(Listed(f, <<h>> \o t)) = Join(Listed(f, <<h>>)) \o Join(Listed(f, t))
    BY <1>3, ListedConcat
<1>5. Join(Listed(f, <<h>>)) = Piece(f, h)
    BY <1>3, ListedOne
<1> QED  BY <1>1, <1>2, <1>3, <1>4, <1>5

\* What has been written, then what is still to be written for the last node,
\* then what the list comes to: together always the code of the program.
Located ==
    /\ Copied \in Code /\ written = 2 * Len(Copied)
    /\ \A f : Codes(f, Cut) =>
                Copied \o (Join(values) \o Join(Listed(f, work))) = Total(f)

LocatedInv == (stage = "emitting" /\ OneArgument) => Located

LEMMA SameCodes ==
    ASSUME UNCHANGED parserVars
    PROVE  /\ OneArgument' <=> OneArgument
           /\ \A f : (Codes(f, Cut)' <=> Codes(f, Cut)) /\ Total(f)' = Total(f)
<1>1. Tree' = Tree /\ Whole' = Whole
    BY DEF Tree, Whole, parserVars
<1>2. Cut' = Cut
    BY <1>1 DEF Cut
<1>3. OneArgument' <=> OneArgument
    BY <1>1 DEF OneArgument
<1>4. ASSUME NEW f PROVE (Codes(f, Cut)' <=> Codes(f, Cut)) /\ Total(f)' = Total(f)
    BY <1>1, <1>2 DEF Codes, Total
<1> QED  BY <1>3, <1>4

LEMMA LocatedAllocated ==
    ASSUME ParserInv, AssemblerInv, WalkInv, AssemblerInv', Allocate, stage' = "emitting", OneArgument
    PROVE  Located'
<1>1. /\ UNCHANGED <<parserVars, work, values>> /\ stage = "allocating"
    BY DEF Allocate
<1>2. work = Root /\ values = <<>> /\ writing = "rounding" /\ writing' = "open"
    BY <1>1 DEF WalkInv, AssemblerInv
<1>3. written = 0 /\ written' = 0
    <2>1. written = 0
        BY <1>2 DEF AssemblerInv, AP!Inv, AP!Allocated
    <2>2. A!RoundUp \/ A!Allocate
        BY DEF Allocate
    <2> QED  BY <2>1, <2>2 DEF A!RoundUp, A!Allocate
<1>4. Copied' = <<>>
    <2>1. 0 \div 2 = 0
        OBVIOUS
    <2> QED  BY <1>3, <2>1 DEF Copied
<1>5. Len(<<>>) = 0 /\ <<>> \in Code
    BY DEF Code
<1>6. ASSUME NEW f, Codes(f, Cut)
      PROVE  <<>> \o (Join(<<>>) \o Join(Listed(f, Root))) = Total(f)
    <2>1. Unvisited(Whole) \in Item
        BY DEF Unvisited, Item, Whole
    <2>2. Piece(f, Unvisited(Whole)) = Total(f)
        BY DEF Piece, Unvisited, Total
    <2>3. PICK x : x = Unvisited(Whole)
        OBVIOUS
    <2>4. Join(Listed(f, <<x>>)) = Piece(f, x) /\ Piece(f, x) \in Code
        BY <1>6, <2>1, <2>3, ListedOne, PieceCode
    <2>5. Root = <<x>>
        BY <2>3 DEF Root, Whole
    <2>6. PICK t \in Code : t = Join(Listed(f, Root)) /\ t = Total(f)
        BY <2>2, <2>3, <2>4, <2>5
    <2>7. Join(<<>>) = <<>>
        BY JoinFew
    <2>8. <<>> \o (<<>> \o t) = t
        BY CodeConcat
    <2> QED  BY <2>6, <2>7, <2>8, Zenon
<1>7. ASSUME NEW f, Codes(f, Cut)'
      PROVE  (Copied \o (Join(values) \o Join(Listed(f, work))) = Total(f))'
    <2>1. Codes(f, Cut) /\ Total(f)' = Total(f)
        BY <1>1, <1>7, SameCodes
    <2>2. Join(values)' = Join(<<>>)
        BY <1>1, <1>2
    <2>3. Listed(f, work)' = Listed(f, Root)
        <3>1. work' = Root
            BY <1>1, <1>2
        <3>2. Whole' = Whole
            BY <1>1 DEF Whole, parserVars
        <3> QED  BY <3>1 DEF Listed, Piece
    <2> QED  BY <1>4, <1>6, <2>1, <2>2, <2>3
<1> QED  BY <1>3, <1>4, <1>5, <1>7 DEF Located

\* Emit leaves a node: what is written for it is taken off the list.
LEMMA LocatedLeaves ==
    ASSUME ParserInv, WalkInv, OneArgument, Located, EmitLeaves
    PROVE  Located'
<1>1. /\ stage = "emitting" /\ work # <<>> /\ values = <<>> /\ Visited
      /\ work' = Tail(work) /\ values' = Writes(Here)
      /\ UNCHANGED <<parserVars, assemblerVars>>
    BY DEF EmitLeaves
<1>2. work \in Seq(Item)
    BY <1>1 DEF WalkInv
<1>3. Copied' = Copied /\ written' = written
    BY <1>1 DEF Copied, assemblerVars
<1>4. ASSUME NEW f, Codes(f, Cut)'
      PROVE  (Copied \o (Join(values) \o Join(Listed(f, work))) = Total(f))'
    <2>1. Codes(f, Cut) /\ Total(f)' = Total(f)
        BY <1>1, <1>4, SameCodes
    <2>2. /\ Head(work) \in Item /\ Tail(work) \in Seq(Item)
          /\ Join(Listed(f, work)) = Piece(f, Head(work)) \o Join(Listed(f, Tail(work)))
        BY <1>1, <1>2, <2>1, ListedHead
    <2>3. Piece(f, Head(work)) = Join(Writes(Here)) /\ Piece(f, Head(work)) \in Code
        BY <1>1, <2>1, <2>2, PieceCode DEF Visited, Here
    <2>4. Join(values)' = Join(Writes(Here))
        BY <1>1
    <2>5. Listed(f, work)' = Listed(f, Tail(work))
        BY <1>1 DEF Listed, Piece
    <2>6. Join(Listed(f, work)) = Join(values)' \o Join(Listed(f, work)')
        BY <2>2, <2>3, <2>4, <2>5
    <2>7. Join(values) \o Join(Listed(f, work)) = Join(Listed(f, work))
        <3>1. Join(values) = <<>>
            BY <1>1, JoinFew
        <3>2. Join(Listed(f, work)) \in Code
            BY <1>2, <2>1, ListedCode
        <3> QED  BY <3>1, <3>2, CodeConcat
    <2>8. Copied \o (Join(values) \o Join(Listed(f, work))) = Total(f)
        BY <2>1 DEF Located
    <2> QED  BY <1>3, <2>1, <2>6, <2>7, <2>8
<1> QED  BY <1>3, <1>4 DEF Located

\* Emit enters a node: what is below it comes before what is written for it.
LEMMA LocatedEnters ==
    ASSUME ParserInv, WalkInv, OneArgument, Located, Enters, stage = "emitting"
    PROVE  Located'
<1>1. /\ work # <<>> /\ values = <<>> /\ ~Visited /\ Descend /\ values' = values
      /\ UNCHANGED <<parserVars, assemblerVars>>
      /\ Here.ir = "Call" => Len(Here.kids) = 1
    BY DEF Enters
<1>2. work \in Seq(Item)
    BY DEF WalkInv
<1>3. Copied' = Copied /\ written' = written
    BY <1>1 DEF Copied, assemblerVars
<1>4. PICK x \in Item : x = Head(work)
    BY <1>1, <1>2, ListTail
<1>5. PICK rest \in Seq(Item) : rest = Tail(work)
    <2>1. Tail(work) \in Seq(Item)
        <3> HIDE DEF Item
        <3> QED  BY <1>1, <1>2
    <2> QED  BY <2>1
<1>6. PICK h \in Tree \cup {Whole} : h = Here /\ h = x.node
    BY <1>4, ItemIs DEF Here
<1>7. h.ir = "Call" => h.kids # <<>>
    <2>1. \A s : s = <<>> => Len(s) # 1
        OBVIOUS
    <2> QED  BY <1>1, <1>6, <2>1, Zenon
<1>8. PICK order \in Seq(Tree) : order = InOrder(h)
    BY <1>7, InOrderTree DEF Whole
<1>9. PICK m \in Nat : m = Len(order)
    OBVIOUS
<1> DEFINE below == [k \in 1 .. m |-> Unvisited(order[k])]
<1>10. below \in Seq(Item) /\ Len(below) = m /\ \A k \in 1 .. m : below[k] = Unvisited(order[k])
    <2>1. \A k \in 1 .. m : order[k] \in Tree
        BY <1>9
    <2>2. \A k \in 1 .. m : Unvisited(order[k]) \in Item
        BY <2>1 DEF Unvisited, Item
    <2> HIDE DEF Item
    <2> QED  BY <2>2
<1>11. PICK again \in Item : again = [node |-> h, visited |-> TRUE]
    BY DEF Item, Whole
<1>12. work' = (below \o <<again>>) \o rest
    <2>1. DOMAIN order = 1 .. m
        BY <1>9
    <2> QED  BY <1>1, <1>5, <1>6, <1>8, <1>11, <2>1 DEF Descend
<1> HIDE DEF below
<1>13. ASSUME NEW f, Codes(f, Cut) PROVE Join(Listed(f, work')) = Join(Listed(f, work))
    <2>1. Join(Listed(f, below)) = Under(f, h)
        <3>1. Len(InOrder(h)) = m /\ \A k \in 1 .. m : InOrder(h)[k] = order[k] /\ order[k] \in Tree
            BY <1>8, <1>9
        <3>2. ASSUME NEW k \in 1 .. m PROVE Piece(f, below[k]) = f[order[k]]
            <4>1. PICK n \in Tree : n = order[k]
                BY <3>1
            <4>2. Cut \in [Tree -> Code]
                BY OwnCode
            <4>3. f[n] = Under(f, n) \o Cut[n]
                BY <1>13, <4>2, VisitedCode
            <4>4. Cut[n] = Join(Writes(n))
                BY DEF Cut
            <4>5. Piece(f, Unvisited(n)) = Under(f, n) \o Join(Writes(n))
                BY DEF Piece, Unvisited
            <4> QED  BY <1>10, <4>1, <4>3, <4>4, <4>5
        <3>3. Listed(f, below) = [k \in 1 .. m |-> Piece(f, below[k])]
            BY <1>10 DEF Listed
        <3>4. Pieces(f, h) = [k \in 1 .. m |-> f[order[k]]]
            BY <3>1 DEF Pieces
        <3>5. Listed(f, below) = Pieces(f, h)
            BY <3>2, <3>3, <3>4
        <3> QED  BY <3>5 DEF Under
    <2>2. Join(Listed(f, <<again>>)) = Join(Writes(h)) /\ <<again>> \in Seq(Item) /\ Join(Writes(h)) \in Code
        <3>1. again.visited /\ again.node = h
            BY <1>11
        <3> QED  BY <1>13, <3>1, ListedOne, PieceCode
    <2>3. below \o <<again>> \in Seq(Item)
          /\ Join(Listed(f, below \o <<again>>)) = Join(Listed(f, below)) \o Join(Listed(f, <<again>>))
        BY <1>10, <1>13, <2>2, ListedConcat
    <2>4. PICK front \in Seq(Item) : front = below \o <<again>>
        BY <2>3
    <2>5. Join(Listed(f, front \o rest)) = Join(Listed(f, front)) \o Join(Listed(f, rest))
        BY <1>5, <1>13, ListedConcat
    <2>6. Join(Listed(f, work)) = Piece(f, x) \o Join(Listed(f, rest))
        BY <1>1, <1>2, <1>4, <1>5, <1>13, ListedHead
    <2>7. Piece(f, x) = Under(f, h) \o Join(Writes(h))
        <3>1. ~x.visited
            BY <1>1, <1>4 DEF Visited
        <3> QED  BY <1>6, <3>1 DEF Piece
    <2> QED  BY <1>12, <2>1, <2>2, <2>3, <2>4, <2>5, <2>6, <2>7
<1>14. ASSUME NEW f, Codes(f, Cut)'
       PROVE  (Copied \o (Join(values) \o Join(Listed(f, work))) = Total(f))'
    <2>1. Codes(f, Cut) /\ Total(f)' = Total(f)
        BY <1>1, <1>14, SameCodes
    <2>2. Join(values)' = Join(values)
        BY <1>1
    <2>3. Join(Listed(f, work))' = Join(Listed(f, work'))
        BY DEF Listed, Piece
    <2>4. Copied \o (Join(values) \o Join(Listed(f, work))) = Total(f)
        BY <2>1 DEF Located
    <2> QED  BY <1>3, <1>13, <2>1, <2>2, <2>3, <2>4
<1> QED  BY <1>3, <1>14 DEF Located

\* Emit writes a value.
LEMMA LocatedWrites ==
    ASSUME ParserInv, AssemblerInv, AssemblerInv', WalkInv, OneArgument, Located, Write
    PROVE  Located'
<1>1. /\ stage = "emitting" /\ stage' = "emitting" /\ values # <<>> /\ values' = Tail(values)
      /\ UNCHANGED <<parserVars, work>>
    BY DEF Write
<1>2. PICK vs \in Seq(Chunk) : vs = values
    BY DEF WalkInv
<1>3. PICK v \in Chunk : v = Head(vs)
    <2> HIDE DEF Chunk
    <2> QED  BY <1>1, <1>2
<1>4. PICK rest \in Seq(Chunk) : rest = Tail(vs)
    <2> HIDE DEF Chunk
    <2>1. Tail(vs) \in Seq(Chunk)
        BY <1>1, <1>2
    <2> QED  BY <2>1
<1>5. Join(values) = v \o Join(rest) /\ v \in Code /\ Join(rest) \in Code
    <2>1. vs \in Seq(Code) /\ rest \in Seq(Code)
        BY WritesCode
    <2>2. v \in Code
        BY HalfwordsCode DEF Chunk
    <2>3. <<v>> \in Seq(Code)
        <3> HIDE DEF Code
        <3> QED  BY <2>2
    <2>4. <<v>> \o rest = vs
        <3> HIDE DEF Chunk
        <3> QED  BY <1>1, <1>2, <1>3, <1>4, HeadTailConcat
    <2>5. Join(<<v>> \o rest) = Join(<<v>>) \o Join(rest)
        BY <2>1, <2>3, JoinConcat
    <2> QED  BY <1>2, <2>1, <2>2, <2>4, <2>5, JoinFew, JoinCode
<1>6. AP!Inv /\ writing = "open" /\ AP!Inv' /\ writing' = "open"
    BY <1>1 DEF AssemblerInv
<1>7. AP!WriteStream(Bytes(v)) /\ Bytes(v) \in Value
    BY <1>2, <1>3, SameAssembler, ChunkBytes DEF Write
<1>8. AP!Written' = AP!Written \o Bytes(v)
    BY <1>6, <1>7, AssemblerAssumptions, AP!WriteAppends
       DEF AP!MaxIntAssumption, AP!RequestsAssumption, AP!UnsetAssumption, AP!ValuesAssumption
<1>9. PICK w \in Seq(Byte) : w = AP!Written /\ Len(w) = written /\ Copied = Halves(w)
    BY <1>6, CopiedStream
<1>10. Copied' = Halves(AP!Written') /\ written' = Len(AP!Written')
    <2>1. (AP!Inv /\ writing = "open" => Copied = Halves(AP!Written) /\ Len(AP!Written) = written)'
        BY CopiedStream, PTL
    <2> QED  BY <1>6, <2>1 DEF Halves
<1>11. PICK l \in Nat : l = Len(Copied)
    BY DEF Located, Code
<1>12. Halves(w \o Bytes(v)) = Halves(w) \o v /\ Len(w \o Bytes(v)) = 2 * (l + Len(v))
    <2>1. Len(w) = 2 * l
        BY <1>9, <1>11 DEF Located
    <2>2. v \in Seq(Halfword)
        BY DEF Chunk
    <2> QED  BY <2>1, <2>2, HalvesAppend
<1>13. Copied' = Copied \o v /\ written' = 2 * (l + Len(v))
    BY <1>8, <1>9, <1>10, <1>12
<1>14. Copied' \in Code /\ written' = 2 * Len(Copied')
    <2>1. Copied \in Code
        BY DEF Located
    <2>2. Copied \o v \in Code /\ Len(Copied \o v) = l + Len(v)
        BY <1>5, <1>11, <2>1, CodeConcat
    <2> QED  BY <1>13, <2>2
<1>15. ASSUME NEW f, Codes(f, Cut)'
       PROVE  (Copied \o (Join(values) \o Join(Listed(f, work))) = Total(f))'
    <2>1. Codes(f, Cut) /\ Total(f)' = Total(f)
        BY <1>1, <1>15, SameCodes
    <2>2. Join(values)' = Join(rest)
        BY <1>1, <1>2, <1>4
    <2>3. Join(Listed(f, work))' = Join(Listed(f, work))
        BY <1>1 DEF Listed, Piece
    <2>4. Copied \o (Join(values) \o Join(Listed(f, work))) = Total(f)
        BY <2>1 DEF Located
    <2>5. Join(Listed(f, work)) \in Code
        <3>1. work \in Seq(Item)
            BY <1>1 DEF WalkInv
        <3> QED  BY <2>1, <3>1, ListedCode
    <2>6. PICK a \in Code : a = Copied
        BY DEF Located
    <2>7. PICK b \in Code : b = Join(rest)
        BY <1>5
    <2>8. PICK c \in Code : c = Join(Listed(f, work))
        BY <2>5
    <2>9. (a \o v) \o (b \o c) = a \o ((v \o b) \o c)
        <3>1. v \in Code
            BY <1>5
        <3>2. (v \o b) \o c = v \o (b \o c) /\ b \o c \in Code
            BY <3>1, CodeConcat
        <3>3. (a \o v) \o (b \o c) = a \o (v \o (b \o c))
            BY <3>1, <3>2, CodeConcat
        <3> QED  BY <3>2, <3>3
    <2>10. Copied' \o (Join(values)' \o Join(Listed(f, work))') = (a \o v) \o (b \o c)
        BY <1>13, <2>2, <2>3, <2>6, <2>7, <2>8
    <2>11. Copied \o (Join(values) \o Join(Listed(f, work))) = a \o ((v \o b) \o c)
        BY <1>5, <2>6, <2>7, <2>8
    <2> QED  BY <2>1, <2>4, <2>9, <2>10, <2>11
<1> QED  BY <1>14, <1>15 DEF Located

LEMMA LocatedStep ==
    ParserInv /\ AssemblerInv /\ AssemblerInv' /\ WalkInv /\ LocatedInv /\ Next => LocatedInv'
<1> SUFFICES ASSUME ParserInv, AssemblerInv, AssemblerInv', WalkInv, LocatedInv, Next,
                    stage' = "emitting", OneArgument'
             PROVE  Located'
    BY DEF LocatedInv
<1>1. Steps
    BY NextSteps
<1>2. UNCHANGED parserVars => OneArgument
    BY SameCodes
<1>3. CASE ReadsOn \/ Opens \/ Stops \/ DumpLeaves \/ DumpStops \/ EmitStops \/ Runs
    BY <1>3 DEF ReadsOn, Opens, Stops, DumpLeaves, DumpStops, EmitStops, Runs, Endings
<1>4. CASE Lex \/ BeginParse \/ Parse \/ BeginDump \/ BeginEmit \/ WriteAborts \/ CopyOut
    BY <1>4 DEF Lex, BeginParse, Parse, BeginDump, BeginEmit, WriteAborts, CopyOut, Goes
<1>5. CASE Allocate
    <2>1. UNCHANGED parserVars
        BY <1>5 DEF Allocate
    <2> QED  BY <1>2, <1>5, <2>1, LocatedAllocated
<1>6. CASE EmitLeaves
    <2>1. UNCHANGED parserVars /\ stage = "emitting"
        BY <1>6 DEF EmitLeaves
    <2> QED  BY <1>2, <1>6, <2>1, LocatedLeaves DEF LocatedInv
<1>7. CASE Enters
    <2>1. UNCHANGED parserVars /\ stage = "emitting"
        BY <1>7 DEF Enters
    <2> QED  BY <1>2, <1>7, <2>1, LocatedEnters DEF LocatedInv
<1>8. CASE Write
    <2>1. UNCHANGED parserVars /\ stage = "emitting"
        BY <1>8 DEF Write
    <2> QED  BY <1>2, <1>8, <2>1, LocatedWrites DEF LocatedInv
<1> QED  BY <1>1, <1>3, <1>4, <1>5, <1>6, <1>7, <1>8, Zenon DEF Steps

-------------------------------------------------------------------------------
(* Where Compile stops, and what it copies out. *)

\* The code Emit has for the whole program is as long as what is written, and
\* is the same exactly when no index is cut off.
LEMMA TotalEmitted ==
    ASSUME ParserInv, OneArgument, NEW f, Codes(f, Cut)
    PROVE  /\ Total(f) \in Code /\ Len(Total(f)) = Len(Emitted) /\ Len(Emitted) \in Nat
           /\ Total(f) = Emitted <=> \A x \in Indexes : x < 2^IxBits
<1>1. Cut \in [Tree -> Code] /\ Full \in [Tree -> Code] /\ \A n \in Tree : Len(Cut[n]) = Len(Full[n])
    BY OwnCode
<1>2. Codes(Emits, Full)
    BY EmitCodes
<1>3. /\ Len(Under(f, Whole)) = Len(Under(Emits, Whole))
      /\ Under(f, Whole) = Under(Emits, Whole) <=> \A n \in Tree : Cut[n] = Full[n]
    BY <1>1, <1>2, WholeApart
<1>4. PICK a \in Code : a = Under(f, Whole)
    BY VisitedProgram DEF Codes
<1>5. PICK b \in Code : b = Under(Emits, Whole)
    BY <1>2, VisitedProgram DEF Codes
<1>6. PICK c \in Code : c = Join(Writes(Whole)) /\ c = <<Encode("Done")>>
    BY WholeWrites
<1>7. Total(f) = a \o c /\ Emitted = b \o c
    BY <1>4, <1>5, <1>6, EmittedWhole DEF Total
<1>8. Len(a) = Len(b)
    BY <1>3, <1>4, <1>5
<1>9. a \o c \in Code /\ Len(a \o c) = Len(b \o c) /\ Len(b \o c) \in Nat
    BY <1>8, CodeConcat
<1>10. a \o c = b \o c <=> a = b
    BY <1>8, CutApart
<1>11. (\A n \in Tree : Cut[n] = Full[n]) <=> \A x \in Indexes : x < 2^IxBits
    <2>1. \A n \in Tree : Cut[n] = Full[n] <=>
                             (n.ir \in {"Variable", "Store"} => n.data[1] < 2^IxBits)
        BY OwnCode
    <2>2. Indexes = {n.data[1] : n \in {n \in Tree : n.ir \in {"Variable", "Store"}}}
        BY DEF Indexes, Tree
    <2>3. (\A x \in Indexes : x < 2^IxBits)
            <=> \A n \in Tree : n.ir \in {"Variable", "Store"} => n.data[1] < 2^IxBits
        BY <2>2, Zenon
    <2> QED  BY <2>1, <2>3, Zenon
<1> QED  BY <1>3, <1>4, <1>5, <1>7, <1>9, <1>10, <1>11

LEMMA SomeCode ==
    ASSUME ParserInv, OneArgument
    PROVE  \E f : Codes(f, Cut)
BY ParsedOrderly, OwnCode, CodesExist

\* Emit's buffer aborts only for code that an int cannot count.
LEMMA AbortsLate ==
    ASSUME ParserInv, AssemblerInv, WalkInv, CapacityInv, LocatedInv, WriteAborts
    PROVE  ~Compilable
<1> SUFFICES ASSUME Compilable PROVE FALSE
    OBVIOUS
<1>1. OneArgument
    BY CompilesOneArgument DEF Compilable
<1>2. stage = "emitting" /\ values # <<>>
    BY DEF WriteAborts
<1>3. AP!Inv /\ writing = "open" /\ want = CodeCapacity
    BY <1>2 DEF AssemblerInv
<1>4. PICK vs \in Seq(Chunk) : vs = values
    BY DEF WalkInv
<1>5. PICK v \in Chunk : v = Head(vs)
    <2> HIDE DEF Chunk
    <2> QED  BY <1>2, <1>4
<1>6. AP!AssertFails(Bytes(v)) /\ Bytes(v) \in Value
    BY <1>4, <1>5, SameAssembler, ChunkBytes DEF WriteAborts
<1>7. PICK l \in Nat : l = Len(v) /\ Len(Bytes(v)) = 2 * l /\ l <= 4
    <2>1. v \in Seq(Halfword) /\ Len(v) \in 1 .. 4
        BY DEF Chunk
    <2>2. Len(Bytes(v)) = 2 * Len(v)
        BY <2>1, BytesOf
    <2>3. \A k \in 1 .. 4 : k \in Nat /\ k <= 4
        OBVIOUS
    <2>4. Len(v) \in Nat /\ Len(v) <= 4
        BY <2>1, <2>3, Zenon
    <2> QED  BY <2>2, <2>4, Zenon
<1>8. MaxInt \in Nat /\ CodeCapacity \in Nat /\ CodeCapacity >= 8
    BY MaxIntAssumption, CodeCapacityAssumption
<1>9. capacity \in Nat /\ capacity >= 1 /\ 2 * capacity <= MaxInt + 1
    BY <1>3, DividesFacts DEF CapacityInv
<1>10. 2 * capacity = MaxInt + 1
    <2>1. ~AP!Fits(Bytes(v))
        BY <1>6 DEF AP!AssertFails
    <2>2. Len(Bytes(v)) <= want
        BY <1>3, <1>7, <1>8
    <2>3. 2 * capacity <= MaxInt => AP!Fits(Bytes(v))
        BY <1>3, <1>6, <2>2, AssemblerAssumptions, AP!OneDoublingFits
           DEF AP!MaxIntAssumption, AP!RequestsAssumption, AP!UnsetAssumption, AP!ValuesAssumption
    <2> QED  BY <1>8, <1>9, <2>1, <2>3
<1>11. PICK n \in Nat : n = written
    BY <1>3 DEF AP!Inv, AP!TypeOK
<1>12. n + 2 * l >= capacity
    <2>1. ~AP!Fits(Bytes(v))
        BY <1>6 DEF AP!AssertFails
    <2>2. AP!Grows(Bytes(v))
        BY <1>7, <1>9, <1>11, <2>1 DEF AP!Fits, AP!NewCapacity, AP!Grows
    <2> QED  BY <1>7, <1>11, <2>2 DEF AP!Grows
<1>13. Located
    BY <1>1, <1>2 DEF LocatedInv
<1>14. PICK f : Codes(f, Cut)
    BY <1>1, SomeCode
<1>15. PICK rest \in Code : Join(values) = v \o rest /\ v \in Code
    <2>1. vs \in Seq(Code)
        BY WritesCode
    <2>2. v \in Code
        BY HalfwordsCode DEF Chunk
    <2>3. PICK t \in Seq(Chunk) : t = Tail(vs)
        <3> HIDE DEF Chunk
        <3>1. Tail(vs) \in Seq(Chunk)
            BY <1>2, <1>4
        <3> QED  BY <3>1
    <2>4. t \in Seq(Code)
        BY WritesCode
    <2>5. <<v>> \in Seq(Code)
        <3> HIDE DEF Code
        <3> QED  BY <2>2
    <2>6. <<v>> \o t = vs
        <3> HIDE DEF Chunk
        <3> QED  BY <1>2, <1>4, <1>5, <2>3, HeadTailConcat
    <2>7. Join(<<v>> \o t) = Join(<<v>>) \o Join(t)
        BY <2>4, <2>5, JoinConcat
    <2> QED  BY <1>4, <2>2, <2>4, <2>6, <2>7, JoinFew, JoinCode
<1>16. PICK c \in Code : c = Join(Listed(f, work))
    <2>1. work \in Seq(Item)
        BY <1>2 DEF WalkInv
    <2> QED  BY <1>1, <1>14, <2>1, ListedCode
<1>17. PICK a \in Code : a = Copied /\ n = 2 * Len(a)
    BY <1>11, <1>13 DEF Located
<1>18. Total(f) = a \o ((v \o rest) \o c)
    BY <1>13, <1>14, <1>15, <1>16, <1>17 DEF Located
<1>19. Len(Total(f)) = Len(a) + ((l + Len(rest)) + Len(c))
    <2> HIDE DEF Code
    <2>1. PICK x \in Code : x = v \o rest /\ Len(x) = l + Len(rest)
        BY <1>7, <1>15, CodeConcat
    <2>2. PICK y \in Code : y = x \o c /\ Len(y) = Len(x) + Len(c)
        BY CodeConcat
    <2>3. Len(a \o y) = Len(a) + Len(y)
        BY CodeConcat
    <2>4. Total(f) = a \o y
        BY <1>18, <2>1, <2>2
    <2> QED  BY <2>1, <2>2, <2>3, <2>4
<1>20. Len(a) \in Nat /\ Len(rest) \in Nat /\ Len(c) \in Nat
    BY CodeConcat
<1>21. 2 * Len(Total(f)) >= n + 2 * l
    BY <1>17, <1>19, <1>20
<1>22. Len(Total(f)) = Len(Emitted) /\ Len(Emitted) \in Nat
    BY <1>1, <1>14, TotalEmitted
<1>23. (MaxInt + 1) \div 2 = capacity
    BY <1>8, <1>9, <1>10
<1>24. 2 * Len(Emitted) < capacity
    BY <1>23 DEF Compilable
<1> QED  BY <1>9, <1>12, <1>21, <1>22, <1>24

\* What is copied out is what was written, and Compile gets there with a
\* program that it could count.
LEMMA CopiesOut ==
    ASSUME ParserInv, AssemblerInv, WalkInv, CapacityInv, GatesInv, LocatedInv, CopyOut
    PROVE  /\ Compilable
           /\ (image' = [code |-> Emitted, vars |-> Variables]) <=> \A x \in Indexes : x < 2^IxBits
<1>1. /\ stage = "emitting" /\ work = <<>> /\ values = <<>>
      /\ image' = [code |-> Copied, vars |-> Variables]
    BY DEF CopyOut, Copied, Variables, SymTableSize
<1>2. Compiles(program, Len(tokens))
    BY <1>1, GatesPassed
<1>3. OneArgument
    BY <1>2, CompilesOneArgument
<1>4. Located
    BY <1>1, <1>3 DEF LocatedInv
<1>5. PICK f : Codes(f, Cut)
    BY <1>3, SomeCode
<1>6. PICK a \in Code : a = Copied /\ written = 2 * Len(a)
    BY <1>4 DEF Located
<1>7. a = Total(f)
    <2>1. Listed(f, work) = <<>> /\ Join(values) = <<>>
        <3>1. \A s : s = <<>> => [k \in 1 .. Len(s) |-> Piece(f, s[k])] = <<>>
            OBVIOUS
        <3> QED  BY <1>1, <3>1, JoinFew DEF Listed
    <2>2. a \o (<<>> \o <<>>) = Total(f)
        BY <1>4, <1>5, <1>6, <2>1, JoinFew DEF Located
    <2> QED  BY <2>2, CodeConcat
<1>8. /\ Len(a) = Len(Emitted) /\ Len(Emitted) \in Nat
      /\ a = Emitted <=> \A x \in Indexes : x < 2^IxBits
    BY <1>3, <1>5, <1>7, TotalEmitted
<1>9. 2 * Len(Emitted) < (MaxInt + 1) \div 2
    <2>1. AP!Inv /\ writing = "open"
        BY <1>1 DEF AssemblerInv
    <2>2. written < capacity
        BY <2>1 DEF AP!Inv, AP!Filled
    <2>3. capacity \in Nat /\ 2 * capacity <= MaxInt + 1 /\ MaxInt \in Nat
        BY <2>1, DividesFacts, MaxIntAssumption DEF CapacityInv
    <2>4. capacity <= (MaxInt + 1) \div 2
        BY <2>3
    <2>5. (MaxInt + 1) \div 2 \in Nat
        BY <2>3
    <2> QED  BY <1>6, <1>8, <2>2, <2>3, <2>4, <2>5
<1>10. image' = [code |-> Emitted, vars |-> Variables] <=> a = Emitted
    BY <1>1, <1>6
<1> QED  BY <1>2, <1>8, <1>9, <1>10 DEF Compilable

\* What the stages after the parser have made of the tree.
OutcomeInv ==
    /\ stage \in {"arguments", "lexing"} => parsing = "running"
    /\ stage \in {"compiled", "bytecode", "asm"} => Compilable
    /\ (stage \in {"panicked", "aborted", "wild"} /\ parsing = "done") => ~Compilable
    /\ ImageOfProgram

LEMMA SameOutcome ==
    ASSUME UNCHANGED parserVars
    PROVE  /\ Compilable' <=> Compilable
           /\ (\A x \in Indexes : x < 2^IxBits)' <=> (\A x \in Indexes : x < 2^IxBits)
           /\ Emitted' = Emitted /\ Variables' = Variables /\ parsing' = parsing
<1>1. program' = program /\ tokens' = tokens /\ table' = table /\ parsing' = parsing
    BY DEF parserVars
<1>2. Emitted' = Emitted
    BY <1>1 DEF Emitted
<1>3. Variables' = Variables /\ Indexes' = Indexes
    BY <1>1 DEF Variables, Indexes
<1>4. Compilable' <=> Compilable
    BY <1>1, <1>2 DEF Compilable
<1> QED  BY <1>1, <1>2, <1>3, <1>4

\* Dump and Emit stop at a node that one of them has no case for.
LEMMA StopsAtNode ==
    ASSUME ParserInv, WalkInv, DumpStops \/ EmitStops
    PROVE  ~Compilable
<1>1. stage \in {"dumping", "emitting"} /\ work # <<>>
    BY DEF DumpStops, EmitStops
<1>2. work \in Seq(Item)
    BY <1>1 DEF WalkInv
<1>3. Here \in Tree \cup {Whole}
    BY <1>1, <1>2, ListTail, ItemIs DEF Here
<1>4. ~(DumpAccepts(Here) /\ EmitAccepts(Here))
    BY DEF DumpStops, EmitStops, DumpPanics, DumpAccepts, EmitAccepts
<1>5. Here \in Tree
    <2>1. Whole.ir = "Program"
        BY ProgramNode DEF Whole
    <2>2. DumpAccepts(Whole) /\ EmitAccepts(Whole)
        BY <2>1 DEF DumpAccepts, EmitAccepts
    <2> QED  BY <1>3, <1>4, <2>2
<1> QED  BY <1>4, <1>5 DEF Compilable, Compiles, Tree

LEMMA OutcomeStep ==
    ParserInv /\ AssemblerInv /\ WalkInv /\ CapacityInv /\ GatesInv /\ LocatedInv /\ OutcomeInv /\ Next
        => OutcomeInv'
<1> SUFFICES ASSUME ParserInv, AssemblerInv, WalkInv, CapacityInv, GatesInv, LocatedInv, OutcomeInv, Next
             PROVE  OutcomeInv'
    OBVIOUS
<1>1. Steps
    BY NextSteps
<1> DEFINE Done == {"compiled", "bytecode", "asm"}
           Ended == {"panicked", "aborted", "wild"}
<1>2. /\ UNCHANGED parserVars
      /\ stage' \in {"arguments", "lexing"} => stage \in {"arguments", "lexing"}
      /\ stage' \in Done => stage \in Done
      /\ stage' \in Ended => stage \in {"arguments", "lexing"} \/ ~Compilable
      /\ stage' # "compiled"
      => OutcomeInv'
    BY SameOutcome DEF OutcomeInv, ImageOfProgram
<1>3. CASE ReadsOn
    BY <1>2, <1>3 DEF ReadsOn, compilerVars
<1>4. CASE Stops /\ stage = "arguments"
    BY <1>2, <1>4 DEF Stops, Endings
<1>5. CASE Opens \/ DumpLeaves \/ EmitLeaves \/ Enters \/ Runs
    BY <1>2, <1>5 DEF Opens, DumpLeaves, EmitLeaves, Enters, Runs
<1>6. CASE DumpStops \/ EmitStops
    <2>1. stage' \in Endings /\ UNCHANGED parserVars
        BY <1>6 DEF DumpStops, EmitStops, Stops
    <2>2. ~Compilable
        BY <1>6, StopsAtNode
    <2> QED  BY <1>2, <2>1, <2>2 DEF Endings
<1>7. CASE Lex \/ BeginDump \/ BeginEmit \/ Allocate \/ Write
    BY <1>2, <1>7 DEF Lex, BeginDump, BeginEmit, Allocate, Write, Goes
<1>8. CASE WriteAborts
    <2>1. stage' = "aborted" /\ UNCHANGED parserVars
        BY <1>8 DEF WriteAborts, Goes
    <2>2. ~Compilable
        BY <1>8, AbortsLate
    <2> QED  BY <1>2, <2>1, <2>2
<1>9. CASE CopyOut
    <2>1. stage' = "compiled" /\ UNCHANGED parserVars
        BY <1>9 DEF CopyOut, Goes
    <2>2. /\ Compilable
          /\ (image' = [code |-> Emitted, vars |-> Variables]) <=> \A x \in Indexes : x < 2^IxBits
        BY <1>9, CopiesOut
    <2>3. ImageOfProgram'
        BY <2>1, <2>2, SameOutcome DEF ImageOfProgram
    <2> QED  BY <2>1, <2>2, <2>3, SameOutcome DEF OutcomeInv
<1>10. CASE BeginParse \/ Parse
    <2>1. stage' = "parsing"
        BY <1>10 DEF BeginParse, Parse, Goes
    <2> QED  BY <2>1 DEF OutcomeInv, ImageOfProgram
<1> QED  BY <1>1, <1>3, <1>4, <1>5, <1>6, <1>7, <1>8, <1>9, <1>10, Zenon DEF Steps

-------------------------------------------------------------------------------
\* The invariant behind the last two theorems, on top of CInv.
EInv == CapacityInv /\ GatesInv /\ LocatedInv /\ OutcomeInv

LEMMA EInvInit == Literals /\ Init => EInv
<1> SUFFICES ASSUME Literals, Init PROVE EInv
    OBVIOUS
<1>1. stage = "arguments" /\ capacity = 1 /\ parsing = "running"
    BY DEF Init, CompilerInit
<1>2. CapacityInv
    <2>1. MaxInt + 1 \in Nat /\ MaxInt + 1 >= 2 /\ 1 * (MaxInt + 1) = MaxInt + 1 /\ 1 \in Nat
        BY MaxIntAssumption
    <2>2. Divides(1)
        BY <2>1 DEF Divides
    <2> QED  BY <1>1, <2>2 DEF CapacityInv
<1>3. GatesInv /\ LocatedInv /\ OutcomeInv
    BY <1>1 DEF GatesInv, LocatedInv, OutcomeInv, ImageOfProgram
<1> QED  BY <1>2, <1>3 DEF EInv

LEMMA EInvStep == CInv /\ CInv' /\ EInv /\ [Next]_vars => EInv'
<1> SUFFICES ASSUME CInv, CInv', EInv, [Next]_vars PROVE EInv'
    OBVIOUS
<1>1. CASE Next
    BY <1>1, CapacityStep, GatesStep, LocatedStep, OutcomeStep DEF CInv, EInv
<1>2. CASE UNCHANGED vars
    <2>1. UNCHANGED <<parserVars, assemblerVars, stage, work, values, image>>
        BY <1>2 DEF vars, compilerVars
    <2>2. CapacityInv'
        BY <2>1 DEF EInv, CapacityInv, assemblerVars
    <2>3. GatesInv'
        <3>1. /\ \A K : (Entered(K) => Entered(K)') /\ (Closed(K) => Closed(K)')
              /\ \A n : Again(n) => Again(n)'
            BY <2>1, SameEntered
        <3> QED  BY <2>1, <3>1 DEF EInv, GatesInv, DumpedOr
    <2>4. LocatedInv'
        <3>1. /\ OneArgument' <=> OneArgument
              /\ \A f : (Codes(f, Cut)' <=> Codes(f, Cut)) /\ Total(f)' = Total(f)
            BY <2>1, SameCodes
        <3>2. Copied' = Copied /\ written' = written
            BY <2>1 DEF Copied, assemblerVars
        <3>3. Join(values)' = Join(values) /\ \A f : Join(Listed(f, work))' = Join(Listed(f, work))
            BY <2>1 DEF Listed, Piece
        <3> QED  BY <2>1, <3>1, <3>2, <3>3 DEF EInv, LocatedInv, Located
    <2>5. OutcomeInv'
        BY <2>1, SameOutcome DEF EInv, OutcomeInv, ImageOfProgram
    <2> QED  BY <2>2, <2>3, <2>4, <2>5 DEF EInv
<1> QED  BY <1>1, <1>2

LEMMA EInvAlways == Literals => (Spec => []EInv)
<1> SUFFICES ASSUME Literals PROVE Spec => []EInv
    OBVIOUS
<1>1. Init => EInv
    BY EInvInit
<1>2. CInv /\ CInv' /\ EInv /\ [Next]_vars => EInv'
    BY EInvStep
<1>3. Spec => []CInv
    BY CInvAlways
<1> QED  BY <1>1, <1>2, <1>3, PTL DEF Spec

\* Whatever the file, the stages after the parser stop exactly the trees that
\* Dump or Emit has no case for and those whose code an int cannot count: the
\* buffer, however it has grown, is never too small for a program that an int
\* could still count.
THEOREM StopsExactlyAlways == Literals => (Spec => []StopsExactly)
<1> SUFFICES ASSUME Literals PROVE Spec => []StopsExactly
    OBVIOUS
<1>1. EInv => StopsExactly
    BY DEF EInv, OutcomeInv, StopsExactly
<1>2. Spec => []EInv
    BY EInvAlways
<1> QED  BY <1>1, <1>2, PTL

\* Whatever the file, what is copied out of the buffer is the code of the whole
\* tree, in the order Emit gives it, exactly when no index of a load or store
\* is cut off: the walk, the buffer's growth and the copy lose and reorder
\* nothing.
THEOREM ImageOfProgramAlways == Literals => (Spec => []ImageOfProgram)
<1> SUFFICES ASSUME Literals PROVE Spec => []ImageOfProgram
    OBVIOUS
<1>1. EInv => ImageOfProgram
    BY DEF EInv, OutcomeInv
<1>2. Spec => []EInv
    BY EInvAlways
<1> QED  BY <1>1, <1>2, PTL
===============================================================================
