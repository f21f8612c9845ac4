SPECIFICATION HostSpec
CONSTANTS
    MaxU64 = 2
    EpochMargin = 0
    PreferredLead = 2
    InitialEpoch = 0
    OfferedSets <- MCSets
    OfferedBlocks <- MCBlocks
    PreparationWindow = 1
    MaxEvents = 1
    InitialRound = 0
    EpochEndRound = 2
    MaxRound = 1
INVARIANTS
    TransitionsAreSound
    EpochStartsOver
PROPERTIES
    ReconfigEnds
