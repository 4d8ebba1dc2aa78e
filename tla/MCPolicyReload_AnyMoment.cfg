CONSTANTS
    Tasks = {t1}
    Projects = {p1}
    Home = home
    NoProject = none
    NotKnown = unknown
    Dirs = {p1}
    Bad = {}
    MaxEdits = 3
SPECIFICATION Spec
INVARIANT
    FreshAlways
CHECK_DEADLOCK FALSE
