SPECIFICATION FairSpec
CONSTANTS
    FirstRound = 1
    MaxRound = 4
    Targets = {4}
    MaxBatch = 2
    SyncEpochs = {1}
    Epochs = {1}
    MaxPending = 2
    MaxAnswer = 3
    MaxFaults = 1
INVARIANTS
    DeliveredIsChain
    RequestsFitBatch
    NeverStuck
PROPERTIES
    EventuallyCatchesUp
