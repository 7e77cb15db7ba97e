CONSTANTS
    Threads = {t1, t2}
    UpCap = 2
    HelloPolls = 1
SPECIFICATION Spec
INVARIANTS TypeOK OneSession StaysPinned
PROPERTIES StopEnds Reconnects
