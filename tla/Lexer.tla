--------------------------------- MODULE Lexer ---------------------------------
(***************************************************************************)
(* CoreVMLexer::DoParse over a FileInputStream: one action per turn of its *)
(* loop.  Every scan reads one character too many and puts it back; at the *)
(* end of the file Next does not advance but Back still steps back, so a   *)
(* word or a number that ends the file is read again, and again.           *)
(*                                                                         *)
(* cur is _cur, the number of characters consumed.  The value of a token   *)
(* is the text it is made from: digits, or the characters copied.          *)
(***************************************************************************)
EXTENDS Integers, Sequences

CONSTANTS
    Inputs,       \* files: sequences of characters
    Digit,        \* isdigit
    Letter,       \* isalpha; "L" is one
    BufSize,      \* sizeof buf, where the text of a number is copied
    MaxTokens     \* bound of the model: the token list may grow for ever

ASSUME CharAssumption ==
    /\ "L" \in Letter
    /\ Digit \cap Letter = {}
    /\ (Digit \cup Letter) \cap {"_", ".", "\"", " ", "\n"} = {}
ASSUME InputsAssumption == Inputs \subseteq Seq(STRING)
ASSUME BoundAssumption == BufSize \in Nat \ {0} /\ MaxTokens \in Nat

VARIABLES input, cur, tokens, status

vars == <<input, cur, tokens, status>>

WordChar == Letter \cup Digit \cup {"_"}

\* The characters that are a token by themselves.
SymbolTags ==
    {<<"[", "kLBrace">>, <<"]", "kRBrace">>,
     <<"(", "kLParentheses">>, <<")", "kRParentheses">>,
     <<"+", "kPlus">>, <<"-", "kMinus">>, <<"*", "kMul">>, <<"/", "kDiv">>,
     <<"=", "kEq">>, <<";", "kSemicolon">>, <<",", "kComma">>}

Token(tag, text) == [tag |-> tag, text |-> text]

-------------------------------------------------------------------------------
HasNext(k) == k < Len(input)
At(k) == input[k + 1]                            \* the character at offset k
Slice(from, to) == SubSeq(input, from + 1, to)   \* those at from .. to - 1

\* The first offset from k on whose character is not in S.
RunEnd(k, S) ==
    CHOOSE e \in k .. Len(input) :
        /\ \A j \in k .. (e - 1) : At(j) \in S
        /\ HasNext(e) => At(e) \notin S

\* Mutant: Back is forgotten, and the character after the run is lost.
BackFrom_Lost(e) == IF HasNext(e) THEN e + 1 ELSE e - 1

\* Where Back leaves a scan whose run of characters ended at e: the
\* character after the run was read, unless there was none.
BackFrom(e) == IF HasNext(e) THEN e ELSE e - 1

(* A number that starts at cur. *)
Whole == RunEnd(cur, Digit)
\* A dot counts only when another character follows it.
HasDot(k) == HasNext(k + 1) /\ At(k) = "."
Fraction == RunEnd(Whole + 1, Digit)
\* Where the digits end, a dot and a fraction included.
NumberEnd == IF HasDot(Whole) THEN Fraction ELSE Whole
TwoDots == HasDot(Whole) /\ HasDot(Fraction)
IsLong == ~HasDot(Whole) /\ HasNext(Whole) /\ At(Whole) = "L"
\* Mutant: the terminating zero is not counted.
FitsBuf_NoZero == (IF HasNext(NumberEnd) THEN NumberEnd + 1 ELSE NumberEnd) - cur <= BufSize

\* The characters copied and a terminating zero fit in buf.
FitsBuf == (IF HasNext(NumberEnd) THEN NumberEnd + 1 ELSE NumberEnd) - cur < BufSize

Turn == status = "running" /\ HasNext(cur)

Push(tag, text) ==
    /\ Len(tokens) < MaxTokens
    /\ tokens' = Append(tokens, Token(tag, text))
    /\ UNCHANGED <<input, status>>

Stop(reason) ==
    /\ status' = reason
    /\ UNCHANGED <<input, cur, tokens>>

-------------------------------------------------------------------------------
Init ==
    /\ input \in Inputs
    /\ cur = 0
    /\ tokens = <<>>
    /\ status = "running"

Number ==
    /\ Turn /\ At(cur) \in Digit
    /\ ~TwoDots /\ FitsBuf /\ ~IsLong
    /\ Push(IF HasDot(Whole) THEN "kDouble" ELSE "kInt", Slice(cur, NumberEnd))
    /\ cur' = BackFrom(NumberEnd)

\* Mutant: no Back after the L and one character more.
Long_NoBack ==
    /\ Turn /\ At(cur) \in Digit
    /\ FitsBuf /\ IsLong
    /\ Push("kLong", Slice(cur, Whole))
    /\ cur' = Whole + 2

\* The L is skipped, and one character more before Back.
Long ==
    /\ Turn /\ At(cur) \in Digit
    /\ FitsBuf /\ IsLong
    /\ Push("kLong", Slice(cur, Whole))
    /\ cur' = BackFrom(Whole + 1)

Word ==
    /\ Turn /\ At(cur) \in Letter \cup {"_"}
    /\ LET end == BackFrom(RunEnd(cur, WordChar))
       IN  Push("kString", Slice(cur, end)) /\ cur' = end

\* Mutant: the character is put back, as after a scan.
Symbol_PutsBack ==
    /\ Turn
    /\ \E s \in SymbolTags : At(cur) = s[1] /\ Push(s[2], <<s[1]>>)
    /\ cur' = cur

Symbol ==
    /\ Turn
    /\ \E s \in SymbolTags : At(cur) = s[1] /\ Push(s[2], <<s[1]>>)
    /\ cur' = cur + 1

Blank ==
    /\ Turn /\ At(cur) \in {" ", "\n"}
    /\ cur' = cur + 1
    /\ UNCHANGED <<input, tokens, status>>

\* The text keeps the closing quote.  When the quote is the last character
\* of the file, Skip(-1) finds the opening quote and takes it for that.
StringLiteral ==
    /\ Turn /\ At(cur) = "\""
    /\ \E end \in (cur + 1) .. Len(input) :
           /\ At(end - 1) = "\""
           /\ \A j \in (cur + 1) .. (end - 2) : At(j) # "\""
           /\ end > cur + 1 \/ ~HasNext(cur + 1)
           /\ Push("kStringVar", Slice(cur + 1, end))
           /\ cur' = end

Unclosed ==
    /\ Turn /\ At(cur) = "\""
    /\ HasNext(cur + 1)
    /\ \A j \in (cur + 1) .. (Len(input) - 1) : At(j) # "\""
    /\ Stop("panicked")

BadNumber == Turn /\ At(cur) \in Digit /\ TwoDots /\ Stop("panicked")

\* memcpy past the end of buf.
Overrun == Turn /\ At(cur) \in Digit /\ ~TwoDots /\ ~FitsBuf /\ Stop("wild")

\* Mutant: the character is reported, put back and the loop goes on.
BadChar_GoesOn ==
    /\ Turn
    /\ At(cur) \notin WordChar \cup {" ", "\n", "\""} \cup {s[1] : s \in SymbolTags}
    /\ UNCHANGED vars

BadChar ==
    /\ Turn
    /\ At(cur) \notin WordChar \cup {" ", "\n", "\""} \cup {s[1] : s \in SymbolTags}
    /\ Stop("panicked")

Finish == status = "running" /\ ~HasNext(cur) /\ Stop("done")

Next ==
    \/ Number \/ Long \/ Word \/ Symbol \/ Blank \/ StringLiteral
    \/ Unclosed \/ BadNumber \/ Overrun \/ BadChar \/ Finish

Spec == Init /\ [][Next]_vars

\* One thread: the loop takes its next turn.
FairSpec == Spec /\ WF_vars(Next)

-------------------------------------------------------------------------------
Tags == {"kInt", "kLong", "kDouble", "kString", "kStringVar"} \cup {s[2] : s \in SymbolTags}

TypeOK ==
    /\ input \in Seq(STRING)
    /\ cur \in 0 .. Len(input)
    /\ tokens \in Seq([tag : Tags, text : Seq(STRING)]) /\ Len(tokens) <= MaxTokens
    /\ status \in {"running", "done", "panicked", "wild"}

\* The last character leaves nothing to read again.
Closed == input = <<>> \/ input[Len(input)] \notin WordChar \cup {"."}

\* Every turn consumes a character, but for the last character of a file
\* that ends in a word or a number: that one is put back for ever.
Advances ==
    [][status' = "running" => (cur' > cur \/ (cur' = Len(input) - 1 /\ ~Closed))]_vars

\* A file that does not end in a word or a number is read to its end, or
\* refused.
ClosedHalts == Closed ~> (status # "running")
===============================================================================
