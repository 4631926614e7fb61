SPECIFICATION EditsSpec
CONSTANTS
    Enablements = {e1}
    Registered = {e1}
    Versions = {v1, v2}
    Sources = {s1}
    PutFlags = {}
    Configs <- MCConfigs
    Sourceless <- MCSourceless
    Calls = {c1, c2}
    Plugins = {p1, p2, p3}
    Tasks = {t1, t2, t3}
    Links = {l1, l2}
    None = None
SYMMETRY Symmetry
INVARIANT EditsInForce
