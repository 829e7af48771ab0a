CONSTANTS
    BYTE_VALUES = 2
    TWO_BYTE = TRUE
    CELLS = 3
    Contents <- Bits
    MaxLen = 2
    ReadLens <- OneOrTwo
SPECIFICATION HangingSpec
INVARIANTS
    TypeOK
    WrittenInOrder
    UncutReadIsMemory
    FailsForAReason
    ReleasedBeforeStop
PROPERTIES
    CallsEnd
    CancelEnds
