CONSTANTS
    Files <- MCFiles
    SourceNames <- MCSourceNames
    CommandLines <- MCCommandLines
    Digit <- MCDigit
    Letter <- MCLetter
    LiteralBits <- MCLiteralBits
    BufSize = 5
    MaxTokens = 60
    IxBits = 2
    CodeCapacity = 16
    MaxInt = 255
    Arm64 = TRUE
    StackSlots = 5
    LocalSlots = 3
    MaxDepth = 5
SPECIFICATION MCSpec
PROPERTY OpensFilename
CHECK_DEADLOCK FALSE
