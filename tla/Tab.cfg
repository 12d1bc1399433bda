SPECIFICATION FairSpec
CONSTANTS
    Folders = {a, b}
    Nowhere = Nowhere
    Entries = {x, y}
    Gone = Gone
    Queries = {q}
    Refused = {bad}
    NoText = NoText
    Callers = {window, operations}
    Window = window
    Slots = 2
    MaxEvents = 2
INVARIANTS TypeOK RestIsNotLoading RestShowsWhatWasAsked
PROPERTIES MergeIsWhole SettlesDown
CHECK_DEADLOCK FALSE
