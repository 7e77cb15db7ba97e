CONSTANTS
    MaxInFlight = 1
    ChannelCap = 2
    MaxBacklog = 1
    LinkCap = 1
    Faults <- NoHandlerFaults
SPECIFICATION Spec
PROPERTIES PacerReopens StopTerminates
