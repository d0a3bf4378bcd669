SPECIFICATION Spec
CONSTANTS
    Events = {e1, e2}
    Runs = {r1, r2, r3}
    Interventions <- OneIntervention
    NoRun = NoRun
    MaxRetries = 1
    ClaimLimit = 2
    MaxOutages = 1
SYMMETRY Interchangeable
INVARIANTS
    DispatchInv
    NoBlindRetry
    OneAgentPerEvent
    RecoveryNeverBlocked
    ExecutionIsRecorded
    OutcomeCanBeRecorded
    OnlyFailedGatesRedeliver
PROPERTY DeliversEvents
CHECK_DEADLOCK FALSE
