CONSTANTS
    Images <- AllImages
    StackSlots = 7
    LocalSlots = 3
    MaxDepth = 7
SPECIFICATION FairSpec
INVARIANTS TypeOK Contained Drift
PROPERTY RunsSource
CHECK_DEADLOCK FALSE
