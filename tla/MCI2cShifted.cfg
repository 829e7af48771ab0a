CONSTANTS
    BYTE_VALUES = 3
    TWO_BYTE = FALSE
    CELLS = 3
    Contents <- Bits
    MaxLen = 2
    ReadLens <- OneOrTwo
SPECIFICATION Spec
INVARIANT
    ReadIsMemory
