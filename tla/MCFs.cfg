CONSTANTS
    p1 = p1
    p2 = p2
    Proc = {p1, p2}
    NoProc = NoProc
    NINODES = 3
    NINODE = 3
    Name = {"a", "b"}
    Workload <- MCWorkload
SPECIFICATION Spec
SYMMETRY Symmetry
CHECK_DEADLOCK FALSE
INVARIANTS
    TypeOK
    CacheSound
    LinksExact
    NoneFreedInUse
    OnlyIputDeadlocks
