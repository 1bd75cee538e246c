CONSTANTS
    Proc = {p1, p2, p3}
    Block = {b1, b2, b3}
    Value = {v1}
    NoValue = NoValue
    NoBlock = NoBlock
    MAXOPBLOCKS = 1
    LOGSIZE = 3
    Size = 3
SPECIFICATION Spec
SYMMETRY Symmetry
INVARIANTS
    AdmittedOpsFit
