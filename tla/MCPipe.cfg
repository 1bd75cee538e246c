SPECIFICATION FairSpec
CONSTANTS
    Proc = {p1, p2}
    NoProc = none
    Value = {a, b}
    PIPESIZE = 2
    UintRange = 6
    MaxCount = 2
    Killable = {p1}
CHECK_DEADLOCK FALSE
INVARIANTS
    TypeOK
    NoUseAfterFree
    SleepsForReason
PROPERTIES
    IsFifo
    HangUp
