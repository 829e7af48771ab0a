SPECIFICATION DriversFairSpec
CONSTANTS
    CHUNK = 2
    HidLen = 5
    LineLen = 2
    MaxLen = 5
    Transfers = 3
    Troubles = {"none", "gives up", "faults"}
    Rates <- RatesOfHeader
    Chars = {"a", "LF"}
    MaxTyped = 3
    Patience = {TRUE, FALSE}
    WordCounts = {1, 2, 3}
    Counts16 = {2, 256}
    Counts32 = {1, 65537}
    MaxCalls = 5
    BYTE = 2
    MS = 2
    T1_INTERVAL = 2
    Period = 8
    Mults = {1, 2, 4}
    Millis = {1, 2}
    Cap = 4
    LedMasks = {0, 133}
    SegmentSets <- Digits
    Pressable = {1, 4}
    MaxOps = 3
INVARIANTS MovedWhole ChipAsTold TimeAsTold
PROPERTIES StableInView CallsEnd
CHECK_DEADLOCK FALSE
