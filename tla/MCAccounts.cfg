SPECIFICATION Spec
CONSTANTS
    Requests = {x1, x2}
    Users = {u1, u2}
    Families = {f1}
    Threshold = 1
    Window = 2
    Life = 2
    MaxRecords = 4
SYMMETRY Symmetry
INVARIANTS
    AdminRemains
    SessionsSafe
    LockoutEnds
CHECK_DEADLOCK FALSE
