SPECIFICATION FairSpec
CONSTANTS
    User = {me, u2, root}
    Super = {root}
    ServerId = {s1, s2, s3}
    NoId = NoId
    LocalId = {l1, l2}
    Record = {r1}
    Guarded = {r1}
    me = me
    Budget <- MCBudget
INVARIANTS
    
    AdminRemains
    AnonymousApart

    
CHECK_DEADLOCK FALSE
