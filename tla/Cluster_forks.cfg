SPECIFICATION Spec
CONSTANTS
    MaxU64 = 5
    EpochMargin = 1
    PreferredLead = 1
    Validators = {"v1", "v2"}
    Power <- MCPower
    MaxBufferedRounds = 1
    ValidatorList <- MCList
    MaxRound = 4
INVARIANT
    NoForks
