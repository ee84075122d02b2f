CONSTANTS
    Images <- IntImages
    StackSlots = 7
    LocalSlots = 3
    MaxDepth = 7
SPECIFICATION Spec
INVARIANTS JumpsToInstruction
CHECK_DEADLOCK FALSE
