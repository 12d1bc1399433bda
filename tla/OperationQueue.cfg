SPECIFICATION FairSpec
CONSTANTS
    HeldSizes = {0, 2}
    EntryLimits = {2}
    HeldLimits = {1, 3}
    Jobs = {1, 2}
    MaxRecords = 3
    MaxSteps = 2
INVARIANTS TypeOK HistoryInOrder WithinBudget RecordsAccountedFor BusyCoversWork UndoOfWhatWasThere StoppedNeverRuns
PROPERTIES ImplementsUndoLine AcceptedEnds CloseEnds
CHECK_DEADLOCK FALSE
