\* Re-triage of a suspended thread: the approver's ticket is not the plan that runs.
SPECIFICATION Spec
CONSTANTS
    MaxSeverity = 2
    InitialSettings <- MCResponding
    Flippable = {}
    AlertShapes <- MCOneAlert
    Decisions <- MCApprove
    NoDecision = NoDecision
    OwnWords <- MCOwnWords
    ByWords <- MCByWords
    ModelConfidences = {95}
    Plans <- MCPlanEach
    MaxActions = 2
    MaxToolCalls = 1
    RecursionLimit = 7
    MaxBatch = 0
    MaxRuns = 2
    MaxFlips = 1
    MaxRaises = 0
    MaxResumes = 1
    UngatedSurface = FALSE
PROPERTIES ExecutedWasOnTicket
CHECK_DEADLOCK FALSE
