SPECIFICATION Spec
CONSTANTS
    Rec <- MCRec
    Val = {a}
    NoVal = NoVal
    User = {u1, u2}
    NoUser = NoUser
    ChangeId = {1, 2, 3}
    Parent <- MCParent
    NoRec = NoRec
    ManagerDelete = {item}
    Owned = {assess}
    Sendable <- MCSendable
    MaxBatch = 2
    MaxSeq = 3
    RestBorn = {ticket}
    LiveUpdate = {ticket}
    LiveDelete = {ticket}
    MaxPruned = 1
    Device = {d}
    item = item
    assess = assess
    ticket = ticket
    a = a
INVARIANTS
    ExactlyOnce
    PullsSound
    
    ChildHasParent
    
 
SYMMETRY Users
