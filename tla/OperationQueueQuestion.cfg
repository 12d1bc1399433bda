SPECIFICATION Spec
CONSTANTS
    HeldSizes = {0, 2}
    EntryLimits = {2}
    HeldLimits = {1, 3}
    Jobs = {1, 2}
    MaxRecords = 2
    MaxSteps = 2
INVARIANTS QuestionCanBeAnswered
CHECK_DEADLOCK FALSE
