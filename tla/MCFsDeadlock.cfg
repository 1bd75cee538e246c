CONSTANTS
    p1 = p1
    p2 = p2
    Proc = {p1, p2}
    NoProc = NoProc
    NINODES = 3
    NINODE = 3
    Name = {"a", "b"}
    Workload <- MCConcreate
SPECIFICATION Spec
SYMMETRY Symmetry
INVARIANT
    NoDeadlock
CHECK_DEADLOCK FALSE
