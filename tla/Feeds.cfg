\* Polling, hunting and looking assets up.
SPECIFICATION FairSpec
CONSTANTS
    p1 = p1
    p2 = p2
    hp = hp
    e1 = e1
    e2 = e2
    h1 = h1
    h2 = h2
    r1 = r1
    r2 = r2
    s1 = s1
    s2 = s2
    s3 = s3
    s4 = s4
    v1 = v1
    v2 = v2
    v3 = v3
    look = look
    purge = purge
    peek = peek
    odd = odd
    Processes = {p1, p2, hp}
    AlertIds = {e1, e2, h1, h2}
    QueueSize <- MCQueueSize
    Pollers = {p1, p2}
    Events = {e1, e2}
    alertId <- MCAlertId
    Interval = 1
    Overlap = 2
    Threshold = 2
    SearchTime = 1
    MaxLag = 1
    Servers = {s1, s2, s3, s4}
    Stdio = {s1, s2, s4}
    offers <- MCOffers
    Names = {look, purge, peek, odd}
    mutating = {purge, odd}
    reading = {look, purge, peek}
    unwrappable = {odd}
    MaxTools = 1
    Readers = {r1, r2}
    Versions = {v1, v2, v3}
    Valid = {v1, v2}
    mtimeOf <- MCMtimeOf
    hunter = hp
    reader = r1
    HuntIds = {h1, h2}
    Hypotheses = 2
    Budget = 2
    Cap = 1
    MaxBatch = 2
    MaxFindings = 2
    Workers = {p1, p2}
    Alerts = {e1, e2, h1}
    fingerprintOf <- MCFingerprintOf
    Window = 1
    MaxOccurrences = 2
    NoRow = NoRow
    Scenes <- MCScenes
INVARIANTS TypeOK QueuedIsRegistered NoneMissed NeverTwice StallReportedOnce LookupFresh  HuntBounded
PROPERTIES PollsRecur HuntEnds KeepsPromise
CHECK_DEADLOCK FALSE
