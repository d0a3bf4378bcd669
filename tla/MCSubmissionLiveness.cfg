SPECIFICATION FairSpec
CONSTANTS
    Experiments = {baseline, successor}
    Baseline = baseline
    Runs <- TwoRuns
    Ids = {i1, i2}
    NoRun = NoRun
    NoId = NoId
    Nobody = Nobody
    MaxParallel = 1
    ReuseIds = FALSE
    Endings = {"failed"}
    MaxOthers = 0
    MaxFaults = 2
PROPERTIES
    EndsAreRecorded
    ResultsReachDecision
    ReservedIsTakenUp
    LockIsReturned
