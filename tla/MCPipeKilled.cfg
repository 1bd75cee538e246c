SPECIFICATION Spec
CONSTANTS
    Proc = {p1, p2}
    NoProc = none
    Value = {a}
    PIPESIZE = 2
    UintRange = 4
    MaxCount = 3
    Killable = {p1, p2}
CHECK_DEADLOCK FALSE
INVARIANTS
    KilledAwake
