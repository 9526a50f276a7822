---------------------------- MODULE MCOfflineSync ----------------------------
(***************************************************************************)
(* Instances of OfflineSync: two devices that edit an item the first one   *)
(* creates; the first device alone with the item and an assessment or      *)
(* action of it, which share batches.                                      *)
(***************************************************************************)
EXTENDS OfflineSync, TLC

CONSTANTS item, child, c1, c2

MCVal == {S \cup {} : S \in SUBSET Edit}
MCChangeId == Client \X (1..MaxId)
NoParent == [r \in Rec |-> NoRec]
ChildParent == [r \in Rec |-> IF r = child THEN item ELSE NoRec]
MCHome == [r \in Rec |-> c1]

\* An instance with the change_ids, late requests and deletes it may use and
\* the size of its batches.
Of(devices, records, ids, lates, deletes, batch) ==
    [devices |-> devices, records |-> records, ids |-> ids, late |-> lates,
     deletes |-> deletes, batch |-> batch]

\* Two devices in conflict about the item, one of which may delete it; one
\* device whose batches hold the item and its child; one whose outbox is
\* longer than a batch.
SafetyScope ==
    {Of({c1, c2}, {item}, 2, 1, 0, 2), Of({c1, c2}, {item}, 2, 0, 1, 2),
     Of({c1}, {item, child}, 4, 1, 1, 2), Of({c1}, {item, child}, 4, 1, 0, 1)}
EditScope ==
    {Of({c1, c2}, {item}, 2, 0, 0, 2), Of({c1}, {item, child}, 2, 0, 0, 1)}
DeleteScope == {Of({c1}, {item}, 4, 0, 1, 1)}

EditSymmetry == Permutations(Edit)
=============================================================================
