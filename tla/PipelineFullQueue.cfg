\* The worker requeues into a full queue that only it drains.
SPECIFICATION FairSpec
CONSTANTS
    a1 = a1
    a2 = a2
    a3 = a3
    f1 = f1
    f2 = f2
    d1 = d1
    d2 = d2
    Alerts = {a1, a2}
    NoAlert = NoAlert
    Fingerprints = {f1, f2}
    fingerprint <- MCDistinct
    Producers = {"webhook"}
    Deciders = {}
    NoDecider = NoDecider
    Surface <- MCApi
    QueueSize = 1
    MaxAttempts = 2
    DedupeEnabled = FALSE
    DedupeWindow = 1
    SlackInterval = 0
    SlackEnabled = TRUE
    MaxNow = 0
    MaxFaults = 1
    MaxCrashes = 0
PROPERTIES Settles
CHECK_DEADLOCK FALSE
