SPECIFICATION Spec
CONSTANTS
    MaxU64 = 3
    EpochMargin = 1
    PreferredLead = 1
    Validators = {"v1", "v2", "v3"}
    Power <- MCPower
    MaxBufferedRounds = 1
    MaxRound = 3
    Blocks <- MCBlocks
    VoteMsgs <- MCVotes
    AggregationMayFail = TRUE
INVARIANT
    TimeoutsAdvance
