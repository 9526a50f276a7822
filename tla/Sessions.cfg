SPECIFICATION FairSpec
CONSTANTS
    Thread = {t1, t2}
    NoThread = NoThread
    Request = {1, 2}
    Operator = {o1, o2}
    AccessLife = 0
    RefreshLife = 4
    Grace = 1
    ResetLife = 2
    Attempts = 3
    MaxTime = 3
    MaxTok = 4
    MaxLogin = 2
    Budget <- MCBudget
INVARIANTS
    RotationSound
    OneLossForgiven
    AccountOperationsHold
PROPERTIES
    CallsEnd
CHECK_DEADLOCK FALSE
