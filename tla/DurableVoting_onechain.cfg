SPECIFICATION Spec
CONSTANTS
    MaxU64 = 4
    EpochMargin = 1
    PreferredLead = 1
    Epoch = 3
    Proposals <- MCProposals
    QcRounds = {1, 2, 4}
    OfferedTcs = {}
INVARIANT
    OneChainWithinPreferred
