SPECIFICATION Spec
CONSTANTS
    i1 = i1
    i2 = i2
    ann = ann
    t1 = t1
    t2 = t2
    Item = {i1, i2}
    Owner = {ann}
    Text = {t1, t2}
    Start <- MCStart
    LocalEdits <- MCLocalEdits
    OtherEdits <- MCOtherEdits
    Queries <- MCQueries
    MaxSaves = 2
    MaxWrites = 3

    
PROPERTIES
    DecidedAsShown
    MergeTouchesChosen
CHECK_DEADLOCK FALSE
