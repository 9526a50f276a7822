SPECIFICATION Spec
CONSTANTS
    Rec = {item}
    Edit = {e1, e2, e3}
    Val <- MCVal
    NoVal = NoVal
    User = {c1}
    NoUser = NoUser
    ChangeId <- MCChangeId
    Parent <- NoParent
    NoRec = NoRec
    ManagerDelete = {}
    Owned = {}
    Unversioned = {}
    Client = {c1}
    Home <- MCHome
    MaxId = 4
    Scope <- DeleteScope
    MaxFaults = 1
    ResolveDuringPass = FALSE
    item = item
    child = child
    c1 = c1
    c2 = c2
INVARIANTS
    AllDeletesHold
SYMMETRY EditSymmetry
