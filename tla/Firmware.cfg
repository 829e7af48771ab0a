SPECIFICATION FairSpec
INVARIANTS
    TypeOK
    SetupNotLost
    SpeedKnown
    SuspendNotMissed
PROPERTIES
    TransferSpec
    TransfersEnd
