SPECIFICATION OneAtATimeSpec
CONSTANTS
    Enablements = {e1, e2}
    Registered = {e1, e2}
    Versions = {v1, v2}
    Sources = {s1}
    PutFlags = {TRUE, FALSE}
    Configs <- MCConfigs
    Sourceless <- MCSourceless
    Calls = {c1, c2}
    Plugins = {p1,p2}
    Tasks = {t1,t2}
    Links = {l1, l2}
    None = None
SYMMETRY Symmetry
INVARIANT ControlTypeOK NoGhost FlagsAgree EditsInForce
PROPERTY RestoreExact
