SPECIFICATION FairSpec
CONSTANTS
    MaxRetries = 1
    MaxCrashes = 2
INVARIANTS
    EditingInv
    EditingIsClaimable
PROPERTIES
    EditorsDeliver
    EditingEnds
