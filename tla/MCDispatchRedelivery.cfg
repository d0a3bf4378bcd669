SPECIFICATION Spec
CONSTANTS
    Events = {e1, e2}
    Runs = {r1, r2}
    Interventions <- OneIntervention
    NoRun = NoRun
    MaxRetries = 1
    ClaimLimit = 2
    MaxOutages = 0
INVARIANT DeliveredAtMostOnce
CHECK_DEADLOCK FALSE
