SPECIFICATION FairSpec
CONSTANTS
    Experiments = {baseline, successor}
    Baseline = baseline
    Runs <- TwoRuns
    Ids = {i1, i2}
    NoRun = NoRun
    NoId = NoId
    Nobody = Nobody
    MaxParallel = 1
    ReuseIds = TRUE
    Endings = {"failed"}
    MaxOthers = 0
    MaxFaults = 0
PROPERTIES
    EndsAreRecorded
