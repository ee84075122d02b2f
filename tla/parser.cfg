CONSTANTS
    MaxLen = 4
    MaxStatements = 3
    MaxDepth = 6
    Inputs <- MCInputs
SPECIFICATION FairSpec
INVARIANTS TypeOK IndexesDense OverrunsOnlyOpenCall NamesResolve
    ReadsSource Precedence VerifiedCompiles CompiledWellTyped
PROPERTY Halts
CHECK_DEADLOCK FALSE
