SPECIFICATION Spec
CONSTANTS
    Enablements = {e1}
    Registered = {e1}
    Configs = {f1}
    Sourceless = {}
    Calls = {c1, c2}
    Plugins = {p1, p2, p3}
    Tasks = {t1, t2, t3}
    Links = {l1, l2}
    None = None
INVARIANT StopCancelsTasks
