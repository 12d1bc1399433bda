SPECIFICATION Spec
CONSTANTS
    Folders = {"one", "two"}
    Names = {"a"}
    MaxItems = 2
    MaxMeddling = 1
    MaxSteps = 3
    MaxFolders = 1
    Mishaps = {}
INVARIANTS TypeOK NothingLost RecordKnowsStaging UndoRestores RedoRepeats
CHECK_DEADLOCK FALSE
