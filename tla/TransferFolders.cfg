SPECIFICATION Spec
CONSTANTS
    Folders = {"one", "two"}
    Names = {"a"}
    MaxItems = 2
    MaxMeddling = 1
    MaxSteps = 1
    MaxFolders = 1
    Mishaps = {}
INVARIANTS EditsKept
CHECK_DEADLOCK FALSE
