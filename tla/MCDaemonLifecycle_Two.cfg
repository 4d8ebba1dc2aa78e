CONSTANTS
    d1 = d1
    d2 = d2
    d3 = d3
    old = old
    new = new
    Daemons = {d1, d2, d3}
    Clients = {old, new}
    Build <- BuildOf
    NoFile = NoFile

SPECIFICATION Spec
CHECK_DEADLOCK FALSE

INVARIANT
    OneServes
