SPECIFICATION FairSpec
CONSTANTS
    MaxChecks = 2
    MaxWrites = 1
    MaxMoves = 1
    MaxCrashes = 1
INVARIANTS
    PromotionInv
    CommittedWasChecked
PROPERTIES
    CandidatesDeliver
    RunsSettle
