CONSTANTS
    MaxInFlight = 2
    ChannelCap = 2
    MaxBacklog = 2
    LinkCap = 1
    Faults <- AllFaults
SPECIFICATION Spec
INVARIANTS TypeOK InFlightExact PrimedByKeyframe ConfigPrecedesKeyframe SkipsUpToKeyframe ResyncOwed
PROPERTY KeepsPromise
