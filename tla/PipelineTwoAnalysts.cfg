\* Two analysts decide the same alert at the same time.
SPECIFICATION Spec
CONSTANTS
    a1 = a1
    a2 = a2
    a3 = a3
    f1 = f1
    f2 = f2
    d1 = d1
    d2 = d2
    Alerts = {a1}
    NoAlert = NoAlert
    Fingerprints = {f1}
    fingerprint <- MCOne
    Producers = {"webhook"}
    Deciders = {d1, d2}
    NoDecider = NoDecider
    Surface <- MCApi
    QueueSize = 3
    MaxAttempts = 2
    DedupeEnabled = TRUE
    DedupeWindow = 1
    SlackInterval = 0
    SlackEnabled = TRUE
    MaxNow = 0
    MaxFaults = 0
    MaxCrashes = 0
INVARIANTS ExecutedOnce
CHECK_DEADLOCK FALSE
