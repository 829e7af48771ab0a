SPECIFICATION FairSpec
CONSTANTS
    Firmwares = {"bulkloop", "debugdevice"}
    LoopSent = 8
    Requests = 2
    Bursts = {1, 4}
    Lens <- Crossing
    Readers = {"A"}
    DEPTH = 4
    DELAY = 2
    MaxLen = 2
    SlaveSent = 6
    Resets = 1
    SHELL_MAX_LINE_LEN = 4
    SHELL_MAX_ARGS = 1
    Keys = {"u", "x", " ", "BS", "CR"}
    LineLimit = 3
    MaxTyped = 4
INVARIANTS TypeOK PacketsIntact EchoIsLine
PROPERTIES ForwardSpec CrossesWhole Arrives
CHECK_DEADLOCK FALSE
