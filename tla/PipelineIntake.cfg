\* Two producers, an MCP analyst, faults, retries past the dedupe window and a restart: where an alert can be.
SPECIFICATION Spec
CONSTANTS
    a1 = a1
    a2 = a2
    a3 = a3
    f1 = f1
    f2 = f2
    d1 = d1
    d2 = d2
    Alerts = {a1, a2}
    NoAlert = NoAlert
    Fingerprints = {f1, f2}
    fingerprint <- MCSame
    Producers = {"webhook", "poller"}
    Deciders = {d1}
    NoDecider = NoDecider
    Surface <- MCMcp
    QueueSize = 1
    MaxAttempts = 2
    DedupeEnabled = TRUE
    DedupeWindow = 0
    SlackInterval = 0
    SlackEnabled = TRUE
    MaxNow = 1
    MaxFaults = 1
    MaxCrashes = 1
INVARIANTS TypeOK SingleOwner OneTicket
SYMMETRY MCAlike
CHECK_DEADLOCK FALSE
