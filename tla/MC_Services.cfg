SPECIFICATION ServicesSpec
CONSTANTS
    Authors = {"a1"}
    Unknown = {"x"}
    MaxRound = 1
    Epochs = {1, 2}
    MaxOrdered = 3
    StartRound = 0
    Offered <- MCOffered
    MaxPending = 1
    ValidateImmediately = TRUE
    MaxMessages = 2
    Registered = {"Vote"}
INVARIANTS
    OrderedOnceWhileStored
    PipelineCountsVisits
PROPERTIES
    SlotsAreStable
