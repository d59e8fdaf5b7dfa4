SPECIFICATION MCSpec
CONSTANTS
    Models <- MCModels
    Revisions = {}
    MaxRevisions = 0
    MaxModelCalls = 0
    Signs <- MCSigns
    Proposals <- MCProposals
    Points <- MCPoints
    MinShare = 66
    MaxCalls = 3
    MaxDeaths = 0
INVARIANT
    RangesEarned
CHECK_DEADLOCK FALSE
