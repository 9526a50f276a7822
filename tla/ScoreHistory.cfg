SPECIFICATION HistorySpec
CONSTANTS
    r1 = r1
    r2 = r2
    o1 = o1
    p1 = p1
    p2 = p2
    Project = {p1, p2}
    Item = {r1, r2, o1}
    KindOf <- MCKindOf
    StartScore <- MCStartScore
    Views <- MCViews
    Scores = {1, 2}
    AutoKind = {"risk"}
    Days = 2
    Window = 1
    MaxTime = 2
    MaxBatches = 2
    MaxEvents = 1
INVARIANTS
    TimerSound
PROPERTIES
    AnswersForProject
    NewSnapshotListed
SYMMETRY MCSymmetry
CHECK_DEADLOCK FALSE
