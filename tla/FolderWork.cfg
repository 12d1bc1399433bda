SPECIFICATION Spec
CONSTANTS
    Names = {a, b, c}
    MaxHeld = 3
    MaxPlan = 2
    MaxItems = 2
    MaxActs = 4
    Circumstances = {}
INVARIANTS TypeOK NothingLost RecordsAreTrue Accounted
SYMMETRY Symmetry
CHECK_DEADLOCK FALSE
