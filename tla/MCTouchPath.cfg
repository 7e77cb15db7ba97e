CONSTANTS
    Pointers = {p1, p2, p3}
    NoPointer = NoPointer
    MaxSamples = 8
    LinkCap = 4
SPECIFICATION Spec
INVARIANTS TypeOK NeverStuck FollowsFinger
PROPERTY NeverRewinds
SYMMETRY Symmetry
