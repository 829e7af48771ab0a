CONSTANTS
    RING_BUFFER_SIZE = 8
    FRAME = 3
    EP2_BUFFERS = 2
    PacketLens <- Reports
    MaxSent = 30
SPECIFICATION FairSpec
INVARIANTS
    TypeOK
    BuffersConserved
    AvailableIsStored
    RingHoldsTheStream
    DisplayCurrent
PROPERTIES
    FramesInOrder
    DisplayFairSpec
CHECK_DEADLOCK FALSE
