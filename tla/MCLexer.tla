-------------------------------- MODULE MCLexer --------------------------------
(***************************************************************************)
(* Every file of up to MaxLen characters over a small alphabet, and the    *)
(* tokens of the language stated without a scanner, to compare with.       *)
(***************************************************************************)
EXTENDS Lexer, SequencesExt

CONSTANT MaxLen

MCDigit == {"7"}
MCLetter == {"a", "L"}
Alphabet == {"7", "a", "L", ".", "\"", "+", " ", "#"}

MCInputs ==
    UNION {[1 .. n -> Alphabet] : n \in 0 .. MaxLen}
    \cup {<<s[1], "_", "7", "_", "\n", s[1]>> : s \in SymbolTags}

-------------------------------------------------------------------------------
All(s, S) == \A k \in DOMAIN s : s[k] \in S
IsInt(s) == s # <<>> /\ All(s, Digit)
IsDouble(s) == \E k \in DOMAIN s :
    s[k] = "." /\ IsInt(SubSeq(s, 1, k - 1)) /\ All(SubSeq(s, k + 1, Len(s)), Digit)
IsWord(s) == s # <<>> /\ s[1] \notin Digit /\ All(s, WordChar)
IsString(s) ==
    /\ Len(s) >= 2 /\ s[1] = "\"" /\ Last(s) = "\""
    /\ "\"" \notin Range(SubSeq(s, 2, Len(s) - 1))

\* The token a lexeme stands for, as a set: empty when s is no lexeme.
Lexeme(s) ==
    LET kinds == {<<IsInt(s), Token("kInt", s)>>,
                  <<IsDouble(s), Token("kDouble", s)>>,
                  <<Last(s) = "L" /\ IsInt(Front(s)), Token("kLong", Front(s))>>,
                  <<IsWord(s), Token("kString", s)>>,
                  <<IsString(s), Token("kStringVar", Tail(s))>>}
                 \cup {<<s = <<p[1]>>, Token(p[2], s)>> : p \in SymbolTags}
    IN  {k[2] : k \in {k \in kinds : k[1]}}

\* The file is a sequence of lexemes and blanks, each lexeme the longest one
\* there; refused when there is none.
Refused == Token("refused", <<>>)
RECURSIVE Lex(_)
Lex(s) ==
    IF s = <<>> THEN <<>>
    ELSE IF s[1] \in {" ", "\n"} THEN Lex(Tail(s))
    ELSE LET ns == {n \in 1 .. Len(s) : Lexeme(SubSeq(s, 1, n)) # {}}
         IN  IF ns = {} THEN <<Refused>>
             ELSE LET n == CHOOSE n \in ns : \A m \in ns : m <= n
                  IN  <<CHOOSE t \in Lexeme(SubSeq(s, 1, n)) : TRUE>>
                      \o Lex(SubSeq(s, n + 1, Len(s)))

Paired == Len(SelectSeq(input, LAMBDA c : c = "\"")) % 2 = 0

\* A file that does not end in a word, a number or an opening quote has the
\* tokens of the grammar, all of them and no others, or is refused when it
\* has none.
Tokenizes ==
    LET toks == Lex(input)
    IN  (Closed /\ (Paired \/ Last(input) # "\"") /\ status \in {"done", "panicked"}) =>
            IF Refused \in Range(toks) THEN status = "panicked"
            ELSE status = "done" /\ tokens = toks

\* How many bytes the number that starts at offset k needs, by the grammar: its
\* characters, the one read after them if there is one, and a zero.
Needed(k) ==
    LET rest == SubSeq(input, k + 1, Len(input))
        end  == Max({n \in DOMAIN rest : LET s == SubSeq(rest, 1, n) IN IsInt(s) \/ IsDouble(s)})
    IN  end + (IF end < Len(rest) THEN 1 ELSE 0) + 1

\* The buffer that a number is copied to is left exactly for a number that has
\* no room there together with what is put behind it: one that ends the file
\* may be a character longer, and a number with two dots is refused before it
\* is copied, whatever its length.
OverrunsExactly ==
    [][(cur < Len(input) /\ input[cur + 1] \in Digit) =>
          CASE status' = "wild"    -> Needed(cur) > BufSize
            [] status' = "running" -> Needed(cur) <= BufSize
            [] OTHER               -> status' = "panicked"]_vars

\* "Invalid string literal" (lexer.cpp:299): a file that is read to its end
\* has every string literal closed.
LiteralsClosed == status = "done" => Paired
===============================================================================
