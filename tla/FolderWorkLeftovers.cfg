SPECIFICATION Spec
CONSTANTS
    Names = {a, b, c}
    MaxHeld = 2
    MaxPlan = 2
    MaxItems = 2
    MaxActs = 4
    Circumstances = {"leftovers purged"}
INVARIANTS UnrestoredIsKept
SYMMETRY Symmetry
CHECK_DEADLOCK FALSE
