CONSTANTS
    MaxInFlight = 2
    ChannelCap = 2
    MaxBacklog = 2
    LinkCap = 2
    Faults <- EncodeFaults
SPECIFICATION Spec
INVARIANT ResyncAlwaysOwed
