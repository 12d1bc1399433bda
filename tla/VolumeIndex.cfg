SPECIFICATION Spec
CONSTANTS
    Names = {a, b}
    MaxDepth = 2
    MaxFiles = 2
    MaxChanges = 3
    MaxBuilds = 2
    Habits = {"hides"}
    Mishaps = {}
INVARIANTS TypeOK   LiveHasTail
SYMMETRY Symmetry
CHECK_DEADLOCK FALSE
