CONSTANTS
    MaxLen = 2
    MaxStatements = 2
    MaxDepth = 6
    Inputs <- MCInputs
SPECIFICATION Spec
INVARIANT DefinitionsIndexed
CHECK_DEADLOCK FALSE
