CONSTANTS
    Slot = {1, 2, 3}
    First = 1
    NoSlot = 0
    MaxTicks = 3
SPECIFICATION Spec
INVARIANTS
    StopTimeReported
