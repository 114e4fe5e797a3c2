\* The gate and containment: each kind of alert, plans, decisions, flags flipped in mid-run.
SPECIFICATION Spec
CONSTANTS
    MaxSeverity = 2
    InitialSettings <- MCResponding
    Flippable = {"response_actions_enabled", "response_planner_enabled", "kill_switch"}
    AlertShapes <- MCAlerts
    Decisions <- MCDecisions
    NoDecision = NoDecision
    OwnWords <- MCOwnWords
    ByWords <- MCByWords
    ModelConfidences = {94, 95}
    Plans <- MCPlans
    MaxActions = 2
    MaxToolCalls = 1
    RecursionLimit = 7
    MaxBatch = 0
    MaxRuns = 1
    MaxFlips = 1
    MaxRaises = 1
    MaxResumes = 2
    UngatedSurface = FALSE
INVARIANTS TypeOK AutoCloseJustified
PROPERTIES ContainmentApproved ExecutedWasOnTicket ImplementsPromise
CHECK_DEADLOCK FALSE
