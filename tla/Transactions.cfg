SPECIFICATION Spec
CONSTANTS
    Rec = {r1, r2}
    Txn = {t1, t2}
    NoTxn = NoTxn
    Kinds = {"upsert", "delete", "rest_update", "rest_delete"}
    MaxBatch = 2
    MaxVer = 2
    PageSize = 1
INVARIANTS
    PagedPullSound
PROPERTIES
    CommitsInOrder
    WritesAreAtomic
SYMMETRY Symmetry
