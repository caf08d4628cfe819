SPECIFICATION Spec
CHECK_DEADLOCK FALSE
CONSTANTS
    Actor = {u1, u2}
    Installation = {i1}
    Call = {c1, c2, c3, c4}
    Key = {k1, k2, k3, k4}
    None = None
SYMMETRY Symmetry
INVARIANTS
    CallsConverge
    
    OrphansAreExplained
