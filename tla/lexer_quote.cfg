CONSTANTS
    MaxLen = 2
    MaxTokens = 6
    BufSize = 5
    Digit <- MCDigit
    Letter <- MCLetter
    Inputs <- MCInputs
SPECIFICATION Spec
INVARIANT LiteralsClosed
CHECK_DEADLOCK FALSE
