CONSTANTS
    WordMax = 4095
    Environments <- MCEnvironments
    Pictures <- MCPictures
    Offset <- MCOffset
    PacketMax = 24
    Chunk = 24
SPECIFICATION Spec
CHECK_DEADLOCK FALSE
INVARIANTS TypeOK SameAgreement ClockBound PicturesIntact
