CONSTANTS
    Requests <- MCRequests
    Values <- MCValues
    Byte <- MCByte
    Unset <- MCUnset
    MaxInt <- MCMaxInt
SPECIFICATION FairSpec
INVARIANTS TypeOK Filled AssertsOnlyAtLimit Proportionate
PROPERTIES AppendsOnly ConstructorReturns
CHECK_DEADLOCK FALSE
