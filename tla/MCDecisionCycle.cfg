SPECIFICATION FairSpec
CONSTANTS
    Cycles = {1, 2}
    MaxAttempts = 2
    MaxCrashes = 1
    MaxFaults = 1
    MaxSetbacks = 1
    MaxWakes = 1
INVARIANTS
    DecisionInv
    RecoveryNeverRefuses
PROPERTIES CyclesDeliver CyclesSettle
CHECK_DEADLOCK FALSE
