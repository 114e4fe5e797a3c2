\* The investigation loop, its budget and the gate, over two runs of one thread.
SPECIFICATION FairSpec
CONSTANTS
    MaxSeverity = 2
    InitialSettings <- MCInvestigating
    Flippable = {"investigator_enabled"}
    AlertShapes <- MCUserAlert
    Decisions <- MCApprove
    NoDecision = NoDecision
    OwnWords <- MCOwnWords
    ByWords <- MCByWords
    ModelConfidences = {95}
    Plans <- MCNoPlans
    MaxActions = 2
    MaxToolCalls = 3
    RecursionLimit = 11
    MaxBatch = 2
    MaxRuns = 2
    MaxFlips = 1
    MaxRaises = 1
    MaxResumes = 0
    UngatedSurface = FALSE
INVARIANTS AutoCloseJustified BudgetRespected CutOffIsFlagged InvestigatedNeverCloses WithinRecursionLimit
PROPERTIES RunEnds
CHECK_DEADLOCK FALSE
