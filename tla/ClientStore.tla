----------------------------- MODULE ClientStore -----------------------------
(***************************************************************************)
(* The local database of one device, as operators on a record              *)
(*   local  the cached row of each record,                                 *)
(*   box    the outbox table, a set of entries,                            *)
(*   wm     last_server_sequence, the pull watermark.                      *)
(* Each operator is one write_transaction, or a part of one: SQLite's      *)
(* BEGIN IMMEDIATE makes a transaction of the window's thread and one of   *)
(* the sync worker exclude each other                                      *)
(* (client/riskapp_client/adapters/local_storage: sync_outbox_queue.py,    *)
(* server_state.py; services/*.py).                                        *)
(*                                                                         *)
(* The content of a record is the set of edits it incorporates, so that a  *)
(* content that does not contain an edit of another one has overwritten    *)
(* it. A row without content is a row that does not exist. A device        *)
(* numbers its change_ids as it hands them out, so that the order of the   *)
(* numbers is the order of created_at.                                     *)
(***************************************************************************)
EXTENDS SyncEngine, FiniteSets

CONSTANTS
    Edit,         \* the edits users make
    Unversioned   \* records whose editor passes no base_version (tickets,
                  \* assessments)

ASSUME ClientAssumption ==
    /\ Val = SUBSET Edit
    /\ Unversioned \subseteq Rec

EntryStatus == {"pending", "retry", "blocked"}

LocalRow == [ver: Nat, val: Val, del: BOOLEAN]

NoLocal == [ver |-> 0, val |-> {}, del |-> FALSE]

\* base = 0 is a NULL base_version. tried: last_attempt_at is set. srv: the
\* server row saved with a conflict.
OutboxEntry == [id: ChangeId, rec: Rec, op: Ops, base: Nat, val: Val,
                status: EntryStatus, kind: Kind, tried: BOOLEAN,
                srv: LocalRow]

Store == [local: [Rec -> LocalRow], box: SUBSET OutboxEntry, wm: Nat]

InitStore == [local |-> [r \in Rec |-> NoLocal], box |-> {}, wm |-> 0]

\* A server row as the client keeps it.
AsLocal(row) ==
    IF row.ver = 0 THEN NoLocal
    ELSE [ver |-> row.ver, val |-> row.val, del |-> row.del]

-----------------------------------------------------------------------------
(* The outbox                                                              *)

SetLocal(S, r, row) == [S EXCEPT !.local = [S.local EXCEPT ![r] = row]]

HasId(S, id) == \E e \in S.box : e.id = id

EntriesOf(S, r) == {e \in S.box : e.rec = r}

HasOpen(S, r) == EntriesOf(S, r) # {}

\* ORDER BY created_at LIMIT 1
Oldest(entries) ==
    CHOOSE e \in entries : \A f \in entries : e.id[2] <= f.id[2]

DropEntries(S, r) == [S EXCEPT !.box = {e \in S.box : e.rec # r}]

DropId(S, id) == [S EXCEPT !.box = {e \in S.box : e.id # id}]

\* UPDATE outbox ... WHERE: f is applied to the entries that satisfy p.
UpdateEntries(S, p(_), f(_)) ==
    [S EXCEPT !.box = {IF p(e) THEN f(e) ELSE e : e \in S.box}]

\* A sent create whose answer was lost may already be version 1 remotely.
CreateMayExist(e) == e.op = "upsert" /\ (e.base # 0 \/ e.tried)

IsConflict(e) == e.status = "blocked" /\ e.kind = "conflict"

\* One entry per record: an entry blocked by a conflict is refreshed in
\* place, any other is replaced by a new one under a new identifier that
\* keeps the base of the first unacknowledged edit.
ReplaceEntry(S, id, r, op, base, val, force) ==
    LET open == EntriesOf(S, r)
        keep == ~force /\ open # {}
        old == Oldest(open)
        newBase == IF ~keep THEN base
                   ELSE IF old.base = 0 /\ CreateMayExist(old) THEN 1
                   ELSE old.base
    IN  IF keep /\ IsConflict(old)
        THEN UpdateEntries(S, LAMBDA e : e.id = old.id,
                           LAMBDA e : [e EXCEPT !.op = op, !.val = val])
        ELSE [S EXCEPT !.box = DropEntries(S, r).box \cup
                 {[id |-> id, rec |-> r, op |-> op, base |-> newBase,
                   val |-> val, status |-> "pending", kind |-> "none",
                   tried |-> FALSE, srv |-> NoLocal]}]

OverrideBase(S, r, base) ==
    UpdateEntries(S, LAMBDA e : e.rec = r /\ e.status \in {"pending", "retry"},
                  LAMBDA e : [e EXCEPT !.base = base])

-----------------------------------------------------------------------------
(* The window's writes                                                     *)

CreateLocal(S, id, r, val) ==
    ReplaceEntry(SetLocal(S, r, [ver |-> 0, val |-> val, del |-> FALSE]),
                 id, r, "upsert", 0, val, FALSE)

\* Saving an editor that was loaded at version base. The row keeps its
\* version; risks, opportunities and actions also queue the editor's base.
SaveLocal(S, id, r, base, val) ==
    LET ver == S.local[r].ver
        T == ReplaceEntry(SetLocal(S, r, [ver |-> ver, val |-> val,
                                          del |-> FALSE]),
                          id, r, "upsert", ver, val, FALSE)
    IN  IF r \in Unversioned THEN T ELSE OverrideBase(T, r, base)

\* Mutant: the delete is not queued when the record has been synchronized.
DeleteLocalUnqueued(S, id, r) ==
    DropEntries(SetLocal(S, r, [S.local[r] EXCEPT !.del = TRUE]), r)

\* Deleting a record the server cannot know drops its entry.
DeleteLocal(S, id, r) ==
    LET ver == S.local[r].ver
        T == SetLocal(S, r, [S.local[r] EXCEPT !.del = TRUE])
    IN  IF ver >= 1
        THEN ReplaceEntry(T, id, r, "delete", ver, {}, FALSE)
        ELSE IF HasOpen(S, r) /\ CreateMayExist(Oldest(EntriesOf(S, r)))
        THEN ReplaceEntry(T, id, r, "delete", 1, {}, TRUE)
        ELSE DropEntries(T, r)

-----------------------------------------------------------------------------
(* The sync worker's writes                                                *)

\* The entries to send: the pending ones and the retries that have come due,
\* which are those of the records in due: time is not modelled.
Ready(S, due) ==
    {e \in S.box : \/ e.status = "pending"
                   \/ e.status = "retry" /\ e.rec \in due}

\* get_pending_changes: the first limit of them, in order of created_at.
PendingChanges(S, due, limit) ==
    LET ready == Ready(S, due)
        n == IF limit <= Cardinality(ready) THEN limit ELSE Cardinality(ready)
    IN  {s \in [1..n -> ready] :
            /\ \A j, k \in 1..n : j < k => s[j].id[2] < s[k].id[2]
            /\ \A e \in ready : \/ \E k \in 1..n : s[k] = e
                                \/ \A k \in 1..n : s[k].id[2] < e.id[2]}

\* The change an entry sends. A client's upsert carries no is_deleted.
AsChange(e) ==
    [id |-> e.id,
     pay |-> [rec |-> e.rec, op |-> e.op, base |-> e.base, val |-> e.val,
              flag |-> "absent", valid |-> TRUE]]

MarkAttempted(S, ids) ==
    UpdateEntries(S, LAMBDA e : e.id \in ids,
                  LAMBDA e : [e EXCEPT !.tried = TRUE])

Defer(S, ids) ==
    UpdateEntries(S, LAMBDA e : e.id \in ids,
                  LAMBDA e : [e EXCEPT !.status = "retry",
                                       !.kind = "transient", !.tried = TRUE])

Block(S, id, kind, row) ==
    UpdateEntries(S, LAMBDA e : e.id = id,
                  LAMBDA e : [e EXCEPT !.status = "blocked", !.kind = kind,
                                       !.tried = TRUE, !.srv = AsLocal(row)])

\* Mutant: a server row overwrites a record with unsent changes.
ApplyRowOverQueued(S, r, row) == SetLocal(S, r, AsLocal(row))

\* A server row replaces the cached one unless the record has an open entry;
\* the entry of a conflict then keeps it as the server's side.
ApplyRow(S, r, row) ==
    IF HasOpen(S, r)
    THEN UpdateEntries(S, LAMBDA e : e.rec = r /\ IsConflict(e),
                       LAMBDA e : [e EXCEPT !.srv = AsLocal(row)])
    ELSE SetLocal(S, r, AsLocal(row))

\* The version an accepted result produced: a replay's current row may be
\* someone else's later write.
AckVersion(res) == IF res.rver # 0 THEN res.rver ELSE res.ver

Larger(m, n) == IF m >= n THEN m ELSE n

\* The entry was replaced while its request was on the way: the newer edit
\* moves onto the version the older one produced.
AdvanceReplacement(S, res) ==
    LET waiting == {e \in EntriesOf(S, res.rec) :
                       e.status \in {"pending", "retry"}}
        v == AckVersion(res)
        old == S.local[res.rec]
        T == SetLocal(S, res.rec, [old EXCEPT !.ver = Larger(old.ver, v)])
    IN  IF waiting = {} THEN S
        ELSE UpdateEntries(T, LAMBDA e : e.id = Oldest(waiting).id,
                           LAMBDA e : [e EXCEPT !.base = Larger(e.base, v)])

\* Mutant: an acknowledgement removes whatever is queued for the record.
AcknowledgeOneByRecord(S, res) ==
    ApplyRow(DropEntries(S, res.rec), res.rec, res.row)

\* Mutant: an acknowledged entry stays in the outbox.
AcknowledgeOneKeepingEntry(S, res) == ApplyRow(S, res.rec, res.row)

AcknowledgeOne(S, res) ==
    IF ~HasId(S, res.id) THEN AdvanceReplacement(S, res)
    ELSE ApplyRow(DropId(S, res.id), res.rec, res.row)

\* A transaction that handles one record after the other: T[r] is what it
\* makes of record r, whose row and entries no other iteration touches.
PerRecord(S, T) ==
    [S EXCEPT !.local = [r \in Rec |-> T[r].local[r]],
              !.box = UNION {EntriesOf(T[r], r) : r \in Rec}]

\* acknowledge_accepted_results: the accepted results with server state, one
\* for a record at most.
HasState(res) == res.status = "accepted" /\ res.ver > 0

Acknowledge(S, results) ==
    PerRecord(S, [r \in Rec |->
        LET acks == {k \in DOMAIN results :
                        HasState(results[k]) /\ results[k].rec = r}
        IN  IF acks = {} THEN S
            ELSE AcknowledgeOne(S, results[CHOOSE k \in acks : TRUE])])

\* The rest of a push response, each result in a transaction of its own:
\* accepted results without server state, then conflicts, then errors.
Unsettled(results) == {k \in DOMAIN results : ~HasState(results[k])}

Rank(res) == CASE res.status = "accepted" -> 1
               [] res.status = "conflict" -> 2
               [] res.status = "error" -> 3

IsNext(results, todo, k) ==
    \A j \in todo :
        \/ Rank(results[k]) < Rank(results[j])
        \/ Rank(results[k]) = Rank(results[j]) /\ k <= j

Settle(S, res) ==
    CASE res.status = "accepted" -> DropId(S, res.id)
      [] res.status = "conflict" -> Block(S, res.id, "conflict", res.row)
      [] res.status = "error" ->
            IF res.kind = "transient" THEN Defer(S, {res.id})
            ELSE Block(S, res.id, res.kind, NoRow)

\* apply_pull_* for every row pulled and the watermark, in one transaction.
ApplyPull(S, rows, snapshot) ==
    [PerRecord(S, [r \in Rec |->
        IF rows[r] = NoRow THEN S ELSE ApplyRow(S, r, rows[r])])
        EXCEPT !.wm = snapshot]

ReleaseAuthentication(S) ==
    UpdateEntries(S, LAMBDA e : e.status = "blocked"
                                /\ e.kind = "authentication",
                  LAMBDA e : [e EXCEPT !.status = "pending"])

-----------------------------------------------------------------------------
(* Resolving a conflict                                                    *)

\* keep_mine needs a saved server version.
CanKeepMine(S, e) == IsConflict(e) /\ e.srv.ver >= 1

KeepMine(S, e, id) ==
    ReplaceEntry(S, id, e.rec, e.op, Larger(e.srv.ver, S.local[e.rec].ver),
                 e.val, TRUE)

\* use_server rewinds the watermark so that the next pull fetches a newer
\* copy than the saved one.
CanUseServer(S, e) == IsConflict(e) /\ e.srv.ver >= 1

UseServer(S, e) ==
    [ApplyRow(DropId(S, e.id), e.rec, e.srv) EXCEPT !.wm = 0]

\* merge starts from a saved copy that is not older than the cached row.
CanMerge(S, e) ==
    /\ IsConflict(e)
    /\ e.op = "upsert"
    /\ e.srv.ver >= 1
    /\ ~e.srv.del
    /\ S.local[e.rec].ver <= e.srv.ver

Merge(S, e, id) ==
    LET val == e.val \cup e.srv.val
        T == UseServer(S, e)
    IN  ReplaceEntry(SetLocal(T, e.rec, [T.local[e.rec] EXCEPT !.val = val]),
                     id, e.rec, "upsert", e.srv.ver, val, TRUE)

=============================================================================
