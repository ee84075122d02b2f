CONSTANTS
    MaxLen = 5
    MaxTokens = 6
    BufSize = 5
    Digit <- MCDigit
    Letter <- MCLetter
    Inputs <- MCInputs
SPECIFICATION FairSpec
INVARIANTS TypeOK Tokenizes
PROPERTIES Advances OverrunsExactly ClosedHalts
CHECK_DEADLOCK FALSE
