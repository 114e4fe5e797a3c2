\* One fault, retries, a queue that never fills, a Slack analyst racing the worker: every alert settles.
SPECIFICATION FairSpec
CONSTANTS
    a1 = a1
    a2 = a2
    a3 = a3
    f1 = f1
    f2 = f2
    d1 = d1
    d2 = d2
    Alerts = {a1, a2}
    NoAlert = NoAlert
    Fingerprints = {f1, f2}
    fingerprint <- MCSame
    Producers = {"webhook", "poller"}
    Deciders = {d1}
    NoDecider = NoDecider
    Surface <- MCSlack
    QueueSize = 2
    MaxAttempts = 2
    DedupeEnabled = TRUE
    DedupeWindow = 1
    SlackInterval = 0
    SlackEnabled = TRUE
    MaxNow = 2
    MaxFaults = 1
    MaxCrashes = 0
INVARIANTS NoOrphan
PROPERTIES DecisionKept SecondClickHarmless Settles
CHECK_DEADLOCK FALSE
