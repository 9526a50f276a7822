SPECIFICATION Spec
CONSTANTS
    p1 = p1
    p2 = p2
    r1 = r1
    r2 = r2
    r3 = r3
    a1 = a1
    a2 = a2
    t1 = t1
    t2 = t2
    Project = {p1, p2}
    Scored = {r1, r2, r3}
    Action = {a1, a2}
    Ticket = {t1, t2}
    NoRec = NoRec
    Start <- MCStart
    Budget <- MCBudget
INVARIANTS
    FormsSound
    
    ActionClaims

    
