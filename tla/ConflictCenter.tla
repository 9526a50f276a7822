---------------------------- MODULE ConflictCenter ----------------------------
(***************************************************************************)
(* One device, its window and the server while the Conflict Center is open *)
(* (ui_v2/components/conflict_center_dialog.py,                            *)
(* conflict_field_merge_dialog.py, services/synchronization_service.py,    *)
(* services/conflict_merge.py). The dialog shows what the outbox held when *)
(* it was opened; it blocks the editors, but not the synchronization       *)
(* worker, which pushes and pulls behind it, nor the other clients.        *)
(*                                                                         *)
(* OfflineSync has what may go wrong between the requests of one pass:     *)
(* here the exchange of a change and a pull are one step each, and the     *)
(* content of a record is its fields.                                      *)
(***************************************************************************)
EXTENDS ScoredValues

CONSTANTS
    Item,         \* risks and opportunities of one project
    Start,        \* Start[x]: the value both sides have at first
    LocalEdits,   \* LocalEdits[x]: what the user types into x, functions on
                  \* some of the fields
    OtherEdits,   \* OtherEdits[x]: what requests of other clients change
    Queries,      \* filters the figures are compared for
    MaxSaves,     \* bound on the local writes
    MaxWrites     \* bound on the server's writes

ASSUME CenterAssumption ==
    /\ \A x \in Item : IsValue(Start[x]) /\ Start[x] = Recalculated(Start[x])
    /\ \A x \in Item : \A e \in LocalEdits[x] \cup OtherEdits[x] :
          DOMAIN e \subseteq Field /\ \A f \in DOMAIN e : e[f] \in ValuesOf(f)
    /\ \A q \in Queries : IsQuery(q)
    /\ Owner \cap {"any", "unassigned"} = {}
    /\ MaxSaves \in Nat /\ MaxWrites \in Nat

VARIABLES
    srv,      \* srv[x]: [val, ver, gone, seq] on the server
    row,      \* row[x]: [val, ver, gone] cached on the device
    entry,    \* entry[x]: what the outbox holds for x
    mark,     \* the pull watermark
    shown,    \* the rows of the open Conflict Center
    saves     \* number of local writes

vars == <<srv, row, entry, mark, shown, saves>>

LastSeq == Max({srv[x].seq : x \in Item} \cup {0})

\* state: "none", "pending" or "conflict". chosen: of a merge, the fields
\* taken from the device; the code does not keep it.
NoEntry(x) ==
    [state |-> "none", op |-> "upsert", mine |-> Start[x], base |-> 0,
     copy |-> [val |-> Start[x], ver |-> 0, gone |-> FALSE],
     merged |-> FALSE, chosen |-> {}]

Pending(x, op, mine, base) ==
    [NoEntry(x) EXCEPT !.state = "pending", !.op = op, !.mine = mine,
                       !.base = base]

\* The server row as a client receives it.
Copy(x) == [val |-> srv[x].val, ver |-> srv[x].ver, gone |-> srv[x].gone]

\* What the dialog displays of a conflict.
Details(x) == [item |-> x, op |-> entry[x].op, mine |-> entry[x].mine,
               copy |-> entry[x].copy]

Conflicts == {x \in Item : entry[x].state = "conflict"}

IsOpen == shown # {}

-----------------------------------------------------------------------------
(* The window's editor, which the dialog blocks                            *)

\* The conflict's entry keeps the server's side and gets the new local one.
Queue(x, op, mine, base) ==
    IF entry[x].state = "conflict"
    THEN [entry EXCEPT ![x].op = op, ![x].mine = mine]
    ELSE [entry EXCEPT ![x] = Pending(x, op, mine, base)]

\* A second change keeps the base of the one it replaces.
QueuedBase(x) ==
    IF entry[x].state = "pending" THEN entry[x].base ELSE row[x].ver

\* The editor overrides the base with the version it shows.
Save(x, e) ==
    LET v == Entity(Edited(row[x].val, e))
    IN  /\ ~IsOpen /\ saves < MaxSaves
        /\ ~row[x].gone
        /\ v # row[x].val
        /\ entry' = Queue(x, "upsert", v, row[x].ver)
        /\ row' = [row EXCEPT ![x].val = v]
        /\ saves' = saves + 1
        /\ UNCHANGED <<srv, mark, shown>>

Delete(x) ==
    /\ ~IsOpen /\ saves < MaxSaves
    /\ ~row[x].gone
    /\ entry' = Queue(x, "delete", row[x].val, QueuedBase(x))
    /\ row' = [row EXCEPT ![x].gone = TRUE]
    /\ saves' = saves + 1
    /\ UNCHANGED <<srv, mark, shown>>

-----------------------------------------------------------------------------
(* The server                                                              *)

Write(x, v, gone) ==
    [srv EXCEPT ![x] = [val |-> v, ver |-> srv[x].ver + 1, gone |-> gone,
                        seq |-> LastSeq + 1]]

Deleted(v) == [v EXCEPT !["status"] = "deleted"]

\* update_item for another client.
RemoteSave(x, e) ==
    LET v == Recalculated(Edited(srv[x].val, e))
    IN  /\ LastSeq < MaxWrites
        /\ ~srv[x].gone
        /\ v # srv[x].val
        /\ srv' = Write(x, v, FALSE)
        /\ UNCHANGED <<row, entry, mark, shown, saves>>

RemoteDelete(x) ==
    /\ LastSeq < MaxWrites
    /\ ~srv[x].gone
    /\ srv' = Write(x, Deleted(srv[x].val), TRUE)
    /\ UNCHANGED <<row, entry, mark, shown, saves>>

-----------------------------------------------------------------------------
(* The synchronization worker                                              *)

\* A change on the current version is applied; the answer carries the row,
\* which replaces the cached one. An update leaves is_deleted as it is.
PushAccepted(x) ==
    LET w == IF entry[x].op = "delete"
             THEN Write(x, Deleted(srv[x].val), TRUE)
             ELSE Write(x, Recalculated(entry[x].mine), srv[x].gone)
    IN  /\ entry[x].state = "pending"
        /\ entry[x].base = srv[x].ver
        /\ LastSeq < MaxWrites
        /\ srv' = w
        /\ row' = [row EXCEPT ![x] = [val |-> w[x].val, ver |-> w[x].ver,
                                      gone |-> w[x].gone]]
        /\ entry' = [entry EXCEPT ![x] = NoEntry(x)]
        /\ UNCHANGED <<mark, shown, saves>>

\* Any other change is refused and waits for a decision, with the server's
\* row beside it.
PushConflict(x) ==
    /\ entry[x].state = "pending"
    /\ entry[x].base # srv[x].ver
    /\ entry' = [entry EXCEPT ![x].state = "conflict", ![x].copy = Copy(x),
                              ![x].merged = FALSE, ![x].chosen = {}]
    /\ UNCHANGED <<srv, row, mark, shown, saves>>

\* Rows changed since the watermark replace the cached ones; the row of a
\* conflict becomes the copy its entry keeps, that of a pending change is
\* dropped.
Pull ==
    LET changed == {x \in Item : srv[x].seq > mark}
    IN  /\ mark < LastSeq
        /\ row' = [x \in Item |->
                      IF x \in changed /\ entry[x].state = "none"
                      THEN Copy(x) ELSE row[x]]
        /\ entry' = [x \in Item |->
                        IF x \in changed \cap Conflicts
                        THEN [entry[x] EXCEPT !.copy = Copy(x)] ELSE entry[x]]
        /\ mark' = LastSeq
        /\ UNCHANGED <<srv, shown, saves>>

-----------------------------------------------------------------------------
(* The Conflict Center                                                     *)

\* _open_conflict_center: conflict_details at that moment.
OpenCenter ==
    /\ ~IsOpen
    /\ Conflicts # {}
    /\ shown' = {Details(x) : x \in Conflicts}
    /\ UNCHANGED <<srv, row, entry, mark, saves>>

\* Later, or the dialog is closed.
CloseCenter ==
    /\ IsOpen
    /\ shown' = {}
    /\ UNCHANGED <<srv, row, entry, mark, saves>>

\* Mutant: the version on display is not compared.
StillShown(c) == entry[c.item].state = "conflict"

\* _require_conflict and _require_unchanged_server_copy: otherwise the
\* dialog reports an error and nothing changes.
Unchanged(c) ==
    /\ entry[c.item].state = "conflict"
    /\ entry[c.item].copy.ver = c.copy.ver

\* A resolved row leaves the table; the last one closes the dialog.
Settled(c) == shown' = shown \ {c}

\* The decision is taken on what is stored now, under the identifier of c.
KeepMine(c) ==
    LET x == c.item
        base == Max({entry[x].copy.ver, row[x].ver})
    IN  /\ c \in shown /\ Unchanged(c)
        /\ entry' = [entry EXCEPT ![x] =
                        Pending(x, entry[x].op, entry[x].mine, base)]
        /\ Settled(c)
        /\ UNCHANGED <<srv, row, mark, saves>>

UseServer(c) ==
    LET x == c.item
    IN  /\ c \in shown /\ Unchanged(c)
        /\ row' = [row EXCEPT ![x] = entry[x].copy]
        /\ entry' = [entry EXCEPT ![x] = NoEntry(x)]
        /\ mark' = 0
        /\ Settled(c)
        /\ UNCHANGED <<srv, saves>>

\* The merge dialog offers a side for each field that differs on display and
\* queues only with at least one "mine": the sets of fields that can be
\* chosen.
MergeChoices(c) == (SUBSET Mergeable(c)) \ {{}}

\* The service merges the stored conflict if its own list of differing
\* fields is the one the choices were made for.
MergeFields(c, chosen) ==
    LET x == c.item
        now == Details(x)
        v == Merged(now, chosen)
    IN  /\ c \in shown /\ Unchanged(c)
        /\ Mergeable(now) = Mergeable(c)
        /\ row[x].ver <= now.copy.ver
        /\ row' = [row EXCEPT ![x] = [val |-> v, ver |-> now.copy.ver,
                                      gone |-> FALSE]]
        /\ entry' = [entry EXCEPT ![x] =
                        [Pending(x, "upsert", v, now.copy.ver)
                            EXCEPT !.merged = TRUE, !.chosen = chosen]]
        /\ mark' = 0
        /\ Settled(c)
        /\ UNCHANGED <<srv, saves>>

-----------------------------------------------------------------------------
Init ==
    /\ srv = [x \in Item |-> [val |-> Start[x], ver |-> 1, gone |-> FALSE,
                              seq |-> 0]]
    /\ row = [x \in Item |-> [val |-> Start[x], ver |-> 1, gone |-> FALSE]]
    /\ entry = [x \in Item |-> NoEntry(x)]
    /\ mark = 0
    /\ shown = {}
    /\ saves = 0

Next ==
    \/ \E x \in Item :
          \/ \E e \in LocalEdits[x] : Save(x, e)
          \/ Delete(x)
          \/ \E e \in OtherEdits[x] : RemoteSave(x, e)
          \/ RemoteDelete(x)
          \/ PushAccepted(x)
          \/ PushConflict(x)
    \/ Pull
    \/ OpenCenter
    \/ CloseCenter
    \/ \E c \in shown :
          \/ KeepMine(c)
          \/ UseServer(c)
          \/ \E chosen \in MergeChoices(c) : MergeFields(c, chosen)

Spec == Init /\ [][Next]_vars

-----------------------------------------------------------------------------
(* Properties                                                              *)

\* The types of the two databases, the outbox and the dialog: a row of the
\* dialog is always about an item that is still in conflict.
TypeOK ==
    /\ \A x \in Item :
          /\ IsRow(srv[x]) /\ IsRow(row[x]) /\ srv[x].seq \in 0..MaxWrites
          /\ entry[x].state \in {"none", "pending", "conflict"}
          /\ entry[x].op \in {"upsert", "delete"}
          /\ IsValue(entry[x].mine)
          /\ entry[x].chosen \subseteq Field
    /\ mark \in 0..LastSeq
    /\ \A c \in shown : c.item \in Conflicts
    /\ saves \in 0..MaxSaves

\* A row that leaves the open dialog with a decision was decided on the two
\* copies the user was looking at, whatever the worker stored meanwhile:
\* either the local copy on display is queued on the server version on
\* display (or on the newer one the device itself shows), or the server copy
\* on display is what the device now has, or every field of the queued
\* record comes from one of the two
\* (resolve_conflict, expected_server_version).
DecidedAsShown ==
    [][\A c \in shown \ shown' :
        LET x == c.item
            e == entry'[x]
            stored == row'[x]
        IN  shown' # {} \/ entry' # entry =>
              \/ /\ e.state = "pending" /\ e.op = c.op /\ e.mine = c.mine
                 /\ e.base = Max({c.copy.ver, row[x].ver})
              \/ e.state = "none" /\ stored = c.copy
              \/ /\ e.state = "pending" /\ e.base = c.copy.ver
                 /\ stored.val = e.mine
                 /\ \A f \in Field : f # "impact" =>
                       e.mine[f] \in {c.mine[f], c.copy.val[f]}]_vars

\* The server accepts a merge only as the user composed it: a field for
\* which the server's side was kept is not altered by the push that
\* delivers the merge, even when the server's copy has changed since
\* (merged_record, _merge). The impact follows the dimensions.
MergeTouchesChosen ==
    [][\A x \in Item :
        (entry[x].merged /\ srv'[x] # srv[x] /\ entry'[x] # entry[x]) =>
           \A f \in Field :
              \/ f \in entry[x].chosen
              \/ f = "impact" /\ entry[x].chosen \cap Dimension # {}
              \/ srv'[x].val[f] = srv[x].val[f]]_vars

InStep == mark = LastSeq /\ \A x \in Item : entry[x].state = "none"

\* Queries on which the two sides differ by design of the code (README).
Comparable(q) == q.status # "deleted" /\ ScoreBounds(q).high > 0

\* When nothing is queued and the device has pulled everything, its rows are
\* the server's, and what it computes itself from them - impact and score,
\* the filtered table, the report and the matrix - is what the server
\* computes in SQL ("The server's report summary, computed from the local
\* copy.", services/offline_first_facade.py:70).
FiguresAgree ==
    InStep =>
        /\ \A x \in Item : row[x] = Copy(x)
        /\ \A q \in Queries : Comparable(q) =>
              /\ ClientTable(row, q) =
                     {x \in Item : ServerMatches(srv[x], Params(q))}
              /\ ClientReport(row, q) = ServerReport(srv, q)
        /\ ClientMatrix(row) = ServerMatrix(srv)

\* The same with well-formed tables and a dialog that lists only conflicts.
FiguresSound == TypeOK /\ FiguresAgree

=============================================================================
