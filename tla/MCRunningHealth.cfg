SPECIFICATION FairSpec
CONSTANTS
    e0 = e0
    e1 = e1
    e2 = e2
    f = f
    Managed = {e0, e1, e2}
    Origin = e0
    First = e1
    Foreign = {f}
    Reuses <- FirstIsReused
    MaxRepairs = 1
    MaxDiagnoses = 2
    MaxFaults = 1
    Patterned = {e1}
INVARIANTS HealthInv AttemptsAreHeld
PROPERTIES KillsDeliver ResumesFit FollowedUp KillRequestsSettle SuspicionsAreJudged
CHECK_DEADLOCK FALSE
