CONSTANTS
    LinkCap = 1
    UplinkCap = 1
    MaxInFlight = 1
    Slots = 1
    StatsCap = 3
    Faults <- AllFaults
SPECIFICATION Spec
INVARIANTS TypeOK DecoderNeverMisused NoFrameOverGap OneRequestPerEpisode
PROPERTIES ReadsAgain EpisodeEnds
