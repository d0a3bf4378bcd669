SPECIFICATION FairSpec
CONSTANTS
    Events = {e1}
    Runs = {r1, r2}
    Interventions <- OneIntervention
    NoRun = NoRun
    MaxRetries = 1
    ClaimLimit = 1
    MaxOutages = 1
PROPERTIES
    RunsEnd
    ReservationsEnd
    FirstClaimsEnd
CHECK_DEADLOCK FALSE
