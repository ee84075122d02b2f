CONSTANTS
    Images <- MCImages
    StackSlots = 6
    MaxDepth = 6
SPECIFICATION FairSpec
INVARIANTS TypeOK OperandsTyped Contained Balanced
PROPERTY RunsSource
CHECK_DEADLOCK FALSE
