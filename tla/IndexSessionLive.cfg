SPECIFICATION FairSpec
CONSTANTS
    Drives = {}
    PercentSteps = 0
    MaxConns = 2
    MaxUnread = 2
    Policies = {off}
    OffPolicy = off
    Versions = {same, old}
    AppVersion = same
    Callers = {ui}
    CanElevate = TRUE
    WaitMayExpire = FALSE
    MaxWorkers = 2
    MaxProcesses = 2
    Crashes = TRUE
PROPERTIES StartIsAnswered CallsReturn LossIsNoticed
CHECK_DEADLOCK FALSE
