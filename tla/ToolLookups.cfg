\* Two concurrent calls: faults, retries, expiring tokens, a cache.
SPECIFICATION FairSpec
CONSTANTS
    c1 = c1
    c2 = c2
    Callers = {c1, c2}
    NoCaller = NoCaller
    Situations <- MCSituations
    MaxRetries = 1
    Timeout = 1
    BackoffUnit = 1
    Life = 3
    Margin = 1
    TTL = 1
    EmptyAnswers = FALSE
    MaxCalls = 2
INVARIANTS TypeOK CleanWasObserved ContainmentSentOnce
PROPERTIES ReputationFresh CallEnds
CHECK_DEADLOCK FALSE
