------------------------------ MODULE LexerProofs ------------------------------
(***************************************************************************)
(* Proofs about Lexer, for every file, alphabet, buffer and bound: its     *)
(* state is well formed, and every turn consumes a character, but for the  *)
(* last one of a file that ends in a word or a number.                     *)
(***************************************************************************)
EXTENDS Lexer, WellFoundedInduction, SequenceTheorems, TLAPS

-------------------------------------------------------------------------------
(* The end of a run of characters. *)

\* A set of numbers that is not empty has a least one.
LEMMA LeastElement ==
    ASSUME NEW T \in SUBSET Nat, T # {}
    PROVE  \E x \in T : \A y \in T : x <= y
<1>1. PICK x \in T : \A y \in T : ~(<<y, x>> \in OpToRel(<, Nat))
    BY NatLessThanWellFounded, WFMin, Zenon
<1>2. \A y \in T : ~(y < x)
    BY <1>1 DEF OpToRel
<1> QED  BY <1>2

\* Offsets of a file, and the characters there.
Position == 0 .. Len(input)
IsFile == input \in Seq(STRING)

\* RunEnd is what its definition chooses: the offset exists for every file,
\* offset and set of characters.
LEMMA RunEnds ==
    ASSUME IsFile, NEW k \in Position, NEW S
    PROVE  /\ RunEnd(k, S) \in k .. Len(input)
           /\ \A j \in k .. (RunEnd(k, S) - 1) : At(j) \in S
           /\ HasNext(RunEnd(k, S)) => At(RunEnd(k, S)) \notin S
<1> DEFINE T == {e \in k .. Len(input) : HasNext(e) => At(e) \notin S}
<1>1. Len(input) \in Nat /\ k \in Nat /\ k <= Len(input)
    BY DEF IsFile, Position
<1>2. T \in SUBSET Nat
    BY <1>1
<1>3. Len(input) \in T
    BY <1>1 DEF HasNext
<1> HIDE DEF T
<1>4. PICK e \in T : \A y \in T : e <= y
    BY <1>2, <1>3, LeastElement
<1>5. /\ e \in k .. Len(input)
      /\ HasNext(e) => At(e) \notin S
    BY <1>4 DEF T
<1>6. \A j \in k .. (e - 1) : At(j) \in S
    <2> SUFFICES ASSUME NEW j \in k .. (e - 1), At(j) \notin S PROVE FALSE
        OBVIOUS
    <2>1. j \in T
        BY <1>1, <1>5 DEF T
    <2> QED  BY <2>1, <1>4, <1>5, <1>1
<1> QED  BY <1>5, <1>6 DEF RunEnd

\* A run that starts with one of its characters is not empty.
LEMMA RunAdvances ==
    ASSUME IsFile, NEW k \in Position, HasNext(k), NEW S, At(k) \in S
    PROVE  RunEnd(k, S) > k
<1>1. RunEnd(k, S) \in k .. Len(input) /\ k \in Nat /\ Len(input) \in Nat
    BY RunEnds DEF IsFile, Position
<1>2. RunEnd(k, S) # k
    BY RunEnds
<1> QED  BY <1>1, <1>2

\* ... and its last character is one of them.
LEMMA RunLast ==
    ASSUME IsFile, NEW k \in Position, NEW S, RunEnd(k, S) > k
    PROVE  At(RunEnd(k, S) - 1) \in S
<1>1. RunEnd(k, S) \in k .. Len(input) /\ k \in Nat /\ Len(input) \in Nat
    BY RunEnds DEF IsFile, Position
<1>2. RunEnd(k, S) - 1 \in k .. (RunEnd(k, S) - 1)
    BY <1>1
<1> QED  BY <1>2, RunEnds

-------------------------------------------------------------------------------
(* A number that starts at cur. *)

\* Where its digits end is beyond its start and within the file, and the
\* character before that is a digit or the dot.
LEMMA NumberEnds ==
    ASSUME IsFile, cur \in Position, HasNext(cur), At(cur) \in Digit
    PROVE  /\ Whole \in (cur + 1) .. Len(input)
           /\ NumberEnd \in (cur + 1) .. Len(input)
           /\ At(Whole - 1) \in Digit
           /\ At(NumberEnd - 1) \in Digit \cup {"."}
<1>1. Whole \in cur .. Len(input) /\ Whole > cur /\ At(Whole - 1) \in Digit
    BY RunEnds, RunAdvances, RunLast DEF Whole
<1>2. cur \in Nat /\ Len(input) \in Nat
    BY DEF Position, IsFile
<1>3. Whole \in (cur + 1) .. Len(input)
    BY <1>1, <1>2
<1>4. CASE ~HasDot(Whole)
    BY <1>1, <1>3, <1>4 DEF NumberEnd
<1>5. CASE HasDot(Whole)
    <2>1. Whole + 1 \in Position /\ At(Whole) = "."
        BY <1>2, <1>3, <1>5 DEF HasDot, HasNext, Position
    <2>2. Fraction \in (Whole + 1) .. Len(input)
        BY <2>1, RunEnds DEF Fraction
    <2>3. CASE Fraction = Whole + 1
        <3>1. Fraction - 1 = Whole
            BY <2>3, <1>2, <1>3
        <3> QED  BY <3>1, <1>1, <1>2, <1>3, <1>5, <2>1, <2>2 DEF NumberEnd
    <2>4. CASE Fraction # Whole + 1
        <3>1. Fraction > Whole + 1
            BY <2>2, <2>4, <1>2, <1>3
        <3>2. At(Fraction - 1) \in Digit
            BY <2>1, <3>1, RunLast DEF Fraction
        <3> QED  BY <3>2, <1>1, <1>2, <1>3, <1>5, <2>2 DEF NumberEnd
    <2> QED  BY <2>3, <2>4
<1> QED  BY <1>4, <1>5

\* Where Back leaves a scan is within the file, and not before the last
\* character the scan took.
LEMMA BackFromBounds ==
    ASSUME IsFile, NEW e \in 1 .. Len(input)
    PROVE  /\ BackFrom(e) \in Position
           /\ BackFrom(e) = e \/ (BackFrom(e) = Len(input) - 1 /\ e = Len(input))
BY DEF IsFile, BackFrom, HasNext, Position

-------------------------------------------------------------------------------
(* Types. *)

LEMMA SliceType ==
    ASSUME IsFile, NEW a \in Nat, NEW b \in Int, b <= Len(input)
    PROVE  Slice(a, b) \in Seq(STRING)
<1>1. \A i \in (a + 1) .. b : input[i] \in STRING
    BY DEF IsFile
<1> QED  BY <1>1 DEF Slice, IsFile

LEMMA PushKeepsType ==
    ASSUME TypeOK, NEW tag \in Tags, NEW text \in Seq(STRING),
           Push(tag, text), cur' \in Position
    PROVE  TypeOK'
<1> DEFINE Tok == [tag : Tags, text : Seq(STRING)]
<1>1. tokens \in Seq(Tok) /\ Len(tokens) < MaxTokens
    BY DEF Push, TypeOK
<1>2. Token(tag, text) \in Tok
    BY DEF Token
<1>3. tokens' = Append(tokens, Token(tag, text))
    BY DEF Push
<1> HIDE DEF Tok
<1>4. tokens' \in Seq(Tok) /\ Len(tokens') = Len(tokens) + 1
    BY <1>1, <1>2, <1>3
<1>5. Len(tokens') <= MaxTokens
    BY <1>1, <1>4, BoundAssumption
<1> QED  BY <1>4, <1>5 DEF Push, TypeOK, Position, Tok

LEMMA StopKeepsType ==
    ASSUME TypeOK, NEW reason \in {"done", "panicked", "wild"}, Stop(reason)
    PROVE  TypeOK'
BY DEF TypeOK, Stop

-------------------------------------------------------------------------------
(* The actions. *)

\* The offsets an action leaves behind it, and what it pushes.
LEMMA NumberStep ==
    ASSUME TypeOK, Number
    PROVE  TypeOK' /\ (cur' > cur \/ (cur' = Len(input) - 1 /\ ~Closed))
<1>1. IsFile /\ cur \in Position /\ HasNext(cur) /\ At(cur) \in Digit
    BY DEF TypeOK, Number, Turn, IsFile, Position
<1>2. /\ NumberEnd \in (cur + 1) .. Len(input)
      /\ At(NumberEnd - 1) \in Digit \cup {"."}
    BY <1>1, NumberEnds
<1>3. cur \in Nat /\ Len(input) \in Nat /\ cur' = BackFrom(NumberEnd)
    BY <1>1 DEF Position, IsFile, Number
<1>4. NumberEnd \in 1 .. Len(input)
    BY <1>2, <1>3
<1>5. /\ cur' \in Position
      /\ cur' = NumberEnd \/ (cur' = Len(input) - 1 /\ NumberEnd = Len(input))
    BY <1>1, <1>3, <1>4, BackFromBounds
<1>6. ASSUME NumberEnd = Len(input) PROVE ~Closed
    <2>1. input # <<>> /\ At(NumberEnd - 1) = input[Len(input)]
        BY <1>3, <1>4, <1>6 DEF At
    <2> QED  BY <1>2, <2>1 DEF Closed, WordChar
<1>7. Slice(cur, NumberEnd) \in Seq(STRING)
    BY <1>1, <1>2, <1>3, SliceType
<1>8. TypeOK'
    <2>1. PICK tag \in Tags : Push(tag, Slice(cur, NumberEnd))
        BY DEF Number, Tags
    <2> QED  BY <1>5, <1>7, <2>1, PushKeepsType
<1> QED  BY <1>2, <1>3, <1>5, <1>6, <1>8

LEMMA LongStep ==
    ASSUME TypeOK, Long
    PROVE  TypeOK' /\ cur' > cur
<1>1. IsFile /\ cur \in Position /\ HasNext(cur) /\ At(cur) \in Digit
    BY DEF TypeOK, Long, Turn, IsFile, Position
<1>2. Whole \in (cur + 1) .. Len(input) /\ HasNext(Whole)
    BY <1>1, NumberEnds DEF Long, IsLong
<1>3. cur \in Nat /\ Len(input) \in Nat /\ cur' = BackFrom(Whole + 1)
    BY <1>1 DEF Position, IsFile, Long
<1>4. Whole + 1 \in 1 .. Len(input)
    BY <1>2, <1>3 DEF HasNext
<1>5. cur' \in Position /\ (cur' = Whole + 1 \/ cur' = Whole)
    BY <1>1, <1>2, <1>3, <1>4, BackFromBounds
<1>6. Slice(cur, Whole) \in Seq(STRING)
    BY <1>1, <1>2, <1>3, SliceType
<1>7. TypeOK'
    BY <1>5, <1>6, PushKeepsType DEF Long, Tags
<1> QED  BY <1>2, <1>3, <1>5, <1>7

LEMMA WordStep ==
    ASSUME TypeOK, Word
    PROVE  TypeOK' /\ (cur' > cur \/ (cur' = Len(input) - 1 /\ ~Closed))
<1> DEFINE e == RunEnd(cur, WordChar)
<1>1. IsFile /\ cur \in Position /\ HasNext(cur) /\ At(cur) \in WordChar
    BY DEF TypeOK, Word, Turn, IsFile, Position, WordChar
<1>2. e \in cur .. Len(input) /\ e > cur /\ At(e - 1) \in WordChar
    BY <1>1, RunEnds, RunAdvances, RunLast
<1>3. cur \in Nat /\ Len(input) \in Nat /\ cur' = BackFrom(e)
    <2>1. cur' = BackFrom(e)
        BY DEF Word
    <2> QED  BY <1>1, <2>1 DEF Position, IsFile
<1>4. Push("kString", Slice(cur, BackFrom(e)))
    BY DEF Word
<1> HIDE DEF e
<1>5. e \in 1 .. Len(input)
    BY <1>2, <1>3
<1>6. /\ cur' \in Position
      /\ cur' = e \/ (cur' = Len(input) - 1 /\ e = Len(input))
    BY <1>1, <1>3, <1>5, BackFromBounds
<1>7. ASSUME e = Len(input) PROVE ~Closed
    <2>1. input # <<>> /\ At(e - 1) = input[Len(input)]
        BY <1>3, <1>5, <1>7 DEF At
    <2> QED  BY <1>2, <2>1 DEF Closed
<1>8. BackFrom(e) \in Int /\ BackFrom(e) <= Len(input)
    BY <1>1, <1>3, <1>5, <1>6
<1>9. Slice(cur, BackFrom(e)) \in Seq(STRING)
    BY <1>1, <1>3, <1>8, SliceType
<1>10. TypeOK'
    BY <1>4, <1>6, <1>9, PushKeepsType DEF Tags
<1> QED  BY <1>2, <1>3, <1>6, <1>7, <1>10

LEMMA SymbolStep ==
    ASSUME TypeOK, Symbol
    PROVE  TypeOK' /\ cur' > cur
<1>1. PICK s \in SymbolTags : At(cur) = s[1] /\ Push(s[2], <<s[1]>>)
    BY DEF Symbol
<1>2. cur \in Nat /\ cur + 1 \in Position /\ cur' = cur + 1
    BY DEF TypeOK, Symbol, Turn, HasNext, Position
<1>3. s[2] \in Tags
    BY DEF Tags
<1>4. s[1] \in STRING
    BY <1>1, <1>2 DEF TypeOK, At, Position
<1>5. <<s[1]>> \in Seq(STRING)
    BY <1>4
<1>6. TypeOK'
    BY <1>1, <1>2, <1>3, <1>5, PushKeepsType
<1> QED  BY <1>2, <1>6

LEMMA BlankStep ==
    ASSUME TypeOK, Blank
    PROVE  TypeOK' /\ cur' > cur
<1>1. IsFile /\ cur \in 0 .. Len(input) /\ cur < Len(input)
    BY DEF TypeOK, IsFile, Blank, Turn, HasNext
<1>2. cur' = cur + 1 /\ UNCHANGED <<input, tokens, status>>
    BY DEF Blank
<1>3. cur' > cur /\ cur' \in 0 .. Len(input)
    BY <1>1, <1>2 DEF IsFile
<1> QED  BY <1>2, <1>3 DEF TypeOK

LEMMA StringLiteralStep ==
    ASSUME TypeOK, StringLiteral
    PROVE  TypeOK' /\ cur' > cur
<1>1. PICK end \in (cur + 1) .. Len(input) :
            Push("kStringVar", Slice(cur + 1, end)) /\ cur' = end
    BY DEF StringLiteral
<1>2. IsFile /\ cur \in Nat /\ Len(input) \in Nat
    BY DEF TypeOK, IsFile
<1>3. Slice(cur + 1, end) \in Seq(STRING) /\ cur' \in Position /\ cur' > cur
    BY <1>1, <1>2, SliceType DEF Position
<1> QED  BY <1>1, <1>3, PushKeepsType DEF Tags

\* The actions that end the loop.
Stops == Unclosed \/ BadNumber \/ Overrun \/ BadChar \/ Finish

LEMMA StopsStep ==
    ASSUME TypeOK, Stops
    PROVE  TypeOK' /\ status' # "running"
<1>1. PICK reason \in {"done", "panicked", "wild"} : Stop(reason)
    BY DEF Stops, Unclosed, BadNumber, Overrun, BadChar, Finish
<1> QED  BY <1>1, StopKeepsType DEF Stop

\* Every step keeps the types, and one that does not stop consumes a character.
LEMMA StepAdvances ==
    ASSUME TypeOK, Next
    PROVE  /\ TypeOK'
           /\ status' = "running" =>
                (cur' > cur \/ (cur' = Len(input) - 1 /\ ~Closed))
<1>1. CASE Number         BY <1>1, NumberStep
<1>2. CASE Long           BY <1>2, LongStep
<1>3. CASE Word           BY <1>3, WordStep
<1>4. CASE Symbol         BY <1>4, SymbolStep
<1>5. CASE Blank          BY <1>5, BlankStep
<1>6. CASE StringLiteral  BY <1>6, StringLiteralStep
<1>7. CASE Stops          BY <1>7, StopsStep
<1> QED  BY <1>1, <1>2, <1>3, <1>4, <1>5, <1>6, <1>7 DEF Next, Stops

-------------------------------------------------------------------------------
(* The theorems. *)

\* The lexer's position never leaves the file and its tokens are tokens,
\* whatever the file and wherever its scans end.
THEOREM TypeCorrect == Spec => []TypeOK
<1>1. Init => TypeOK
    BY InputsAssumption, BoundAssumption DEF Init, TypeOK
<1>2. TypeOK /\ [Next]_vars => TypeOK'
    <2>1. TypeOK /\ UNCHANGED vars => TypeOK'
        BY DEF TypeOK, vars
    <2> QED  BY <2>1, StepAdvances
<1> QED  BY <1>1, <1>2, PTL DEF Spec

\* Every turn of the loop in DoParse consumes a character, unless it read a
\* word or a number up to the end of the file: Back then puts its last
\* character back, which is read again.
THEOREM AdvancesAlways == Spec => Advances
<1>1. TypeOK /\ [Next]_vars =>
        [status' = "running" => (cur' > cur \/ (cur' = Len(input) - 1 /\ ~Closed))]_vars
    BY StepAdvances
<1> QED  BY <1>1, TypeCorrect, PTL DEF Spec, Advances
===============================================================================
