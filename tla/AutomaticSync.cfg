SPECIFICATION FairSpec
CONSTANTS
    Projects = 2
    Interval = 3
    InitialDelay = 1
    BusyRetry = 1
    SoonDelay = 1
    FirstBackoff = 2
    MaxBackoff = 3
    MaxRetry = 4
    NoRetry = NoRetry
    MaxManual = 2
    MaxRefused = 1
INVARIANTS
    NeverStalled
    CloseIsSafe
PROPERTIES
    BackoffHonoured
    KeepsSyncing
CHECK_DEADLOCK FALSE
