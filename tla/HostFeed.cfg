SPECIFICATION Spec
CONSTANTS
    Drives = {c, d}
    PercentSteps = 1
    MaxConns = 2
    MaxUnread = 2
    Policies = {off}
    OffPolicy = off
    Versions = {same}
    AppVersion = same
PROPERTIES ImplementsFeed
CHECK_DEADLOCK FALSE
