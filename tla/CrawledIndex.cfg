SPECIFICATION Spec
CONSTANTS
    Names = {r, s, a, b}
    RootNames = {r, s}
    BusyNames = {r}
    MaxDepth = 3
    MaxWatchers = 1
    Slots = 1
    MaxHeld = 1
    MaxChanges = 2
    MaxCrawls = 2
    MaxRestarts = 1
    Circumstances = {}
INVARIANTS TypeOK 
SYMMETRY Symmetry
CHECK_DEADLOCK FALSE
