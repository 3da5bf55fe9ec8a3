SPECIFICATION Spec
CONSTANTS
    u = u
    v = v
    User <- UserV
    Local = {"ip4"}
    MaxConns = 2
    MaxTime = 7
    MaxFlows = 1
CONSTRAINT InTime
SYMMETRY Symmetry
INVARIANTS RightUser
CHECK_DEADLOCK FALSE
