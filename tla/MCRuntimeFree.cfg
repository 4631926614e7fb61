SPECIFICATION Spec
CONSTANTS
    Enablements = {e1, e2}
    Registered = {e1, e2}
    Configs = {f1}
    Sourceless = {f1}
    Calls = {c1, c2}
    Plugins = {p1, p2, p3, p4}
    Tasks = {t1, t2, t3}
    Links = {l1, l2}
    None = None
SYMMETRY Symmetry
INVARIANT TypeOK QueueFollowsConnection OneTask PoppedOnce RegisteredWorks
