SPECIFICATION MainFairSpec
CONSTANTS
    Buttons = {0, 4}
    MS = 2
    T1_INTERVAL = 1
    Settle = TRUE
    RING_BUFFER_SIZE = 4
    FRAME = 2
    EP2_BUFFERS = 2
    PacketLens <- WholeOrNot
    MaxSent = 5
INVARIANTS TypeOK ReportFresh DisplayCurrent
PROPERTIES ReportKept BothServed
