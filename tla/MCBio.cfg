SPECIFICATION FairSpec
CONSTANTS
    Proc = {p1, p2}
    NoProc = none
    Block = {k1, k2, k3}
    NoBlock = noblock
    Value = {x, y}
    NBUF = 2
    Flaky = {k1}
CHECK_DEADLOCK FALSE
INVARIANTS
    CachedOnce
    KeepsBlock
    SleepsForReason
PROPERTIES
    IsBlockStore
    IoReturns
