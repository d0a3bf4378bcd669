SPECIFICATION Spec
CONSTANTS
    Experiments = {baseline, s1, s2}
    Baseline = baseline
    Runs <- ThreeRuns
    Ids = {i1, i2}
    NoRun = NoRun
    NoId = NoId
    Nobody = Nobody
    MaxParallel = 1
    ReuseIds = TRUE
    Endings = {"success","killed"}
    MaxOthers = 1
    MaxFaults = 1
SYMMETRY Interchangeable
INVARIANTS
    SubmissionInv
    BoundToOwnTask
    TruthfulResults
    AddedAtMostOnce
    ParallelTasksBounded
PROPERTIES
    IntentsDelivered
