CONSTANTS
    Frames = 4
    Capacity = 2
    UplinkCap = 1
SPECIFICATION Spec
INVARIANTS TypeOK UnmatchedWasEvicted InStepUnlessSplit
PROPERTY ReaderEnds
