SPECIFICATION Spec
CONSTANTS
    Rec = {item, child}
    Edit = {e1, e2, e3}
    Val <- MCVal
    NoVal = NoVal
    User = {c1, c2}
    NoUser = NoUser
    ChangeId <- MCChangeId
    Parent <- ChildParent
    NoRec = NoRec
    ManagerDelete = {}
    Owned = {}
    Unversioned = {}
    Client = {c1, c2}
    Home <- MCHome
    MaxId = 4
    Scope <- SafetyScope
    MaxFaults = 1
    ResolveDuringPass = FALSE
    item = item
    child = child
    c1 = c1
    c2 = c2
INVARIANTS
    OutboxSound
    
    
    SyncedDeletesHold

    
SYMMETRY EditSymmetry
