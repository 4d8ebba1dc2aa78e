CONSTANTS
    Windows = {w1, w2}
    Panes = {p1, p2, p3}
    Nowhere = Nowhere
    Capacity = 3
SPECIFICATION Spec
SYMMETRY Symmetry
INVARIANTS
    AllTracked
CHECK_DEADLOCK FALSE
