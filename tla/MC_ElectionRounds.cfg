SPECIFICATION ElectionSpec
CONSTANTS
    Proposers <- MCProposers
    Stranger = "x"
    MaxJudged = 2
    MaxPower = 2
    InitialRounds = {0, 1}
    Defaults = {15, 99}
    LastRound = 7
INVARIANTS
    RoundRobinIsFair
    WeightedIsProportional
    PanicsOnlyWithoutPower
    ReputationWithinRecord
CHECK_DEADLOCK FALSE
