SPECIFICATION Spec
CONSTANTS
    MaxU64 = 3
    EpochMargin = 1
    PreferredLead = 1
    Validators = {"v1", "v2"}
    Power <- MCPower
    MaxBufferedRounds = 1
    MaxRound = 1
    Blocks <- MCBlocks
    VoteMsgs <- MCVotes
    AggregationMayFail = TRUE
    InitialRound = 1
    Messages <- MCMessages
    MaxQueue = 2
    MaxProposals = 1
INVARIANTS
    PacemakerFollowsMessages
    ReportsAreTrue
PROPERTIES
    FlagMatchesEngine
    StoppedIsFrozen
