CONSTANTS
    Ids <- MCIds
    MaxFree = 4
    MaxRequest = 9
    Symbols <- MCSymbols
    Sources <- MCSources
    VarNames = {"a", "b"}
    Values <- MCValues
    Half = 8
SPECIFICATION MCSpec
INVARIANTS
    ComputesAllocation
    CompilesAsWritten
    ExpandsAsMeant
    RandIntInRange
PROPERTY Terminates
CHECK_DEADLOCK FALSE
