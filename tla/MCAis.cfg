SPECIFICATION AisFairSpec
CONSTANTS
    s1 = s1
    s2 = s2
    s3 = s3
    v1 = v1
    v2 = v2
    n1 = n1
    n2 = n2
    None = None
    Sources = {s1, s2, s3}
    Boxed = {s1, s2}
    Name <- MCName
    Vessels = {v1, v2}
    Covers <- MCCovers
    Interval <- MCInterval
    Base = 1
    Most = 3
    QueueSize = 1
    Long = 2
INVARIANT AisTypeOK LiveIsShown
PROPERTY Throttled VesselsGoOn
