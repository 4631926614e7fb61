SPECIFICATION DisciplinedSpec
CONSTANTS
    Enablements = {e1, e2, e3}
    Registered = {e1, e2}
    Configs = {f1, f2}
    Sourceless = {f1}
    Calls = {c1, c2}
    Plugins = {p1, p2, p3, p4}
    Tasks = {t1, t2, t3, t4}
    Links = {l1, l2}
    None = None
SYMMETRY Symmetry
INVARIANT NoOrphan OneWorker CurrentQueue OneSender
PROPERTY ImplementsLifecycle ConnectRecovers
