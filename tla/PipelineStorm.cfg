\* An alert storm without faults and two analysts over REST: what is suppressed, counted and decided.
SPECIFICATION Spec
CONSTANTS
    a1 = a1
    a2 = a2
    a3 = a3
    f1 = f1
    f2 = f2
    d1 = d1
    d2 = d2
    Alerts = {a1, a2, a3}
    NoAlert = NoAlert
    Fingerprints = {f1}
    fingerprint <- MCStorm
    Producers = {"webhook"}
    Deciders = {d1, d2}
    NoDecider = NoDecider
    Surface <- MCApi
    QueueSize = 3
    MaxAttempts = 2
    DedupeEnabled = TRUE
    DedupeWindow = 1
    SlackInterval = 2
    SlackEnabled = TRUE
    MaxNow = 2
    MaxFaults = 0
    MaxCrashes = 0
INVARIANTS DuplicateOfTriaged OccurrencesMatch AwaitingIsDecidable
PROPERTIES FollowsLifecycle
SYMMETRY MCAlike
CHECK_DEADLOCK FALSE
