SPECIFICATION Spec
CONSTANTS
    Drives = {c}
    PercentSteps = 0
    MaxConns = 2
    MaxUnread = 1
    Policies = {off, on}
    OffPolicy = off
    Versions = {same}
    AppVersion = same
    Callers = {ui}
    CanElevate = TRUE
    WaitMayExpire = FALSE
    MaxWorkers = 2
    MaxProcesses = 1
    Crashes = TRUE
INVARIANTS TypeOK SoleWorker  PolicyOfThisSession NothingClaimedWithoutHelper MirrorAgrees
CHECK_DEADLOCK FALSE
