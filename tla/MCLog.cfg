CONSTANTS
    Proc = {p1, p2}
    Block = {b1, b2}
    Value = {v1, v2}
    NoValue = NoValue
    NoBlock = NoBlock
    MAXOPBLOCKS = 2
    LOGSIZE = 4
    Size = 4
SPECIFICATION FairSpec
INVARIANTS
    SpaceReserved
    QuiescentDurable
PROPERTIES
    CrashAtomic
    SleeperWoken
    CommitEnds
