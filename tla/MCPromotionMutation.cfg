SPECIFICATION FairSpec
CONSTANTS
    MaxChecks = 1
    MaxWrites = 1
    MaxMoves = 0
    MaxCrashes = 0
PROPERTY MutationIsContained
