CONSTANT MaxWindows = 3
SPECIFICATION Spec
INVARIANTS TypeOK NeverStranded SlotNeverDead DecoderFollowsWindow
PROPERTY WindowReached
