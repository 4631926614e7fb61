SPECIFICATION AdsbSpec
CONSTANTS
    s1 = s1
    s2 = s2
    s3 = s3
    a1 = a1
    a2 = a2
    a3 = a3
    p = p
    q = q
    n = n
    Ground = Ground
    UidKey = {"REG", "FLIGHT"}
    Lower = 1
    Upper = 3
    None = None
    Null = Null
    Sources = {s1, s2}
    Aircraft = {a1, a2}
    Covers <- MCBadCovers
    Reports <- MCBadReports
    Slots = 2
    QueueSize = 1
    BatchSize = 2
    CacheLimit = 2
INVARIANT SeenIsSent
CHECK_DEADLOCK FALSE
