CONSTANTS
    Programs <- MCPrograms
    Sizes <- MCSizes
    Page = 16
    MaxInt = 536870911
SPECIFICATION Spec
INVARIANTS TypeOK
PROPERTIES AppendsOnly EncodesCall RefusesUnrepresentable LoadsImmediate
CHECK_DEADLOCK FALSE
