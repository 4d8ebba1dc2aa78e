CONSTANTS
    Tasks = {t1, t2}
    Projects = {p1, p2}
    Home = home
    NoProject = none
    NotKnown = unknown
    Dirs = {p1, p2, none}
    Bad = {}
    MaxEdits = 2
SPECIFICATION Spec
SYMMETRY Symmetry
INVARIANT
    FreshPolicy
CHECK_DEADLOCK FALSE
