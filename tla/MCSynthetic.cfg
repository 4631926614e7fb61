SPECIFICATION SynFairSpec
CONSTANTS
    None = None
    FeatureCounts <- MCFeatureCounts
    PerUpdates <- MCPerUpdates
    QueueSize = 2
INVARIANT SynTypeOK OnceInATick Balanced
PROPERTY RoundsGoOn
CHECK_DEADLOCK FALSE
