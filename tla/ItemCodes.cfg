SPECIFICATION CodesSpec
CONSTANTS
    Device = {d1, d2}
    Risk = {i1, i2, i3}
    Home <- MCHome
    Code = {1, 2, 3}
    Budget <- MCBudget
    d1 = d1
    d2 = d2
    i1 = i1
    i2 = i2
    i3 = i3
INVARIANTS
    IndexSound
    
    CreatesAccepted
CHECK_DEADLOCK FALSE
