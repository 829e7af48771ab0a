CONSTANTS
    RING_BUFFER_SIZE = 128
    FRAME = 9
    EP2_BUFFERS = 2
    PacketLens <- HighSpeedReports
    MaxSent = 144
SPECIFICATION Spec
INVARIANT
    AvailableIsStored
CHECK_DEADLOCK FALSE
