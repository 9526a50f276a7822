----------------------------- MODULE OfflineSync -----------------------------
(***************************************************************************)
(* Devices that edit one project offline and synchronize it over a network *)
(* that loses requests and answers. On each device the window's thread     *)
(* edits records while at most one background pass pushes a batch, applies *)
(* the answer and pulls (client/riskapp_client/services/                   *)
(* synchronization_service.py, ui_v2/mixins).                              *)
(*                                                                         *)
(* The steps of a pass are the transactions and the requests of            *)
(* sync_project; the window may act between any two of them. The server    *)
(* handles a push at once: SyncServer shows that it may.                   *)
(***************************************************************************)
EXTENDS ClientStore

CONSTANTS
    Client,            \* devices, each signed in as a user of its own
    Home,              \* Home[r]: the device that creates record r
    MaxId,             \* bound on the change_ids of one device
    Scope,             \* the instances a behaviour may be: the devices that
                       \* take part, the records they edit, and bounds on
                       \* the change_ids of a device, on the requests that
                       \* arrive after their sender gave up, on the
                       \* deletes users confirm and on the changes of one
                       \* batch
    MaxFaults,         \* bound on lost requests, refusals and crashes
    ResolveDuringPass  \* is a conflict resolved while a pass runs?

ASSUME OfflineAssumption ==
    /\ Home \in [Rec -> Client]
    /\ MaxId \in Nat /\ MaxFaults \in Nat
    /\ ResolveDuringPass \in BOOLEAN
    /\ Scope \subseteq [devices: SUBSET Client, records: SUBSET Rec,
                        ids: 1..MaxId, late: Nat, deletes: Nat,
                        batch: Nat \ {0}]
    /\ User = Client
    /\ ChangeId = Client \X (1..MaxId)

VARIABLES
    srv,       \* the server's tables
    cl,        \* per device: its local database
    pass,      \* per device: the synchronization in progress
    editor,    \* per device: the record in the editor, or Closed
    late,      \* requests on the way whose sender has given up
    used,      \* per device: change_ids handed out
    free,      \* edits nobody has made yet
    faults,    \* faults that have happened
    delayed,   \* requests that have been delayed
    scope,     \* the instance this behaviour is
    gone,      \* history: edits a user knowingly discarded
    unseen,    \* history: edits that are missing from a form opened, or left
               \* open, over content that has them
    dead       \* history: <<c, r, synced>>, the records a device's user
               \* deleted and whether the server had confirmed the record

history == <<gone, unseen, dead>>
vars == <<srv, cl, pass, editor, late, used, free, faults, delayed, scope,
          history>>

Closed == [rec |-> NoRec, base |-> 0, val |-> {}]

Editor == [rec: Rec, base: Nat, val: Val] \cup {Closed}

NoRows == [r \in Rec |-> NoRow]

NoPass == [pc |-> "idle", batch |-> <<>>, results |-> <<>>, todo |-> {},
           rows |-> NoRows, snap |-> 0]

Pass == [pc: {"idle", "selected", "failed", "denied", "answered", "acked",
              "settled", "downloaded", "done"},
         batch: Seq(Change), results: Seq(Result), todo: SUBSET Nat,
         rows: [Rec -> Row], snap: Nat]

\* The tables of server and devices, passes and editors are well formed; an
\* outbox entry has one of the states its table knows.
TypeOK ==
    /\ srv \in Work
    /\ cl \in [Client -> Store]
    /\ pass \in [Client -> Pass]
    /\ editor \in [Client -> Editor]
    /\ late \subseteq [user: User, batch: Seq(Change)]
    /\ used \in [Client -> 0..MaxId]
    /\ free \subseteq Edit
    /\ faults \in 0..MaxFaults
    /\ delayed \in 0..scope.late
    /\ scope \in Scope
    /\ gone \subseteq Edit
    /\ unseen \subseteq Edit
    /\ dead \subseteq Client \X Rec \X BOOLEAN

Init ==
    /\ srv = InitWork
    /\ cl = [c \in Client |-> InitStore]
    /\ pass = [c \in Client |-> NoPass]
    /\ editor = [c \in Client |-> Closed]
    /\ late = {}
    /\ used = [c \in Client |-> 0]
    /\ free = Edit
    /\ faults = 0
    /\ delayed = 0
    /\ scope \in Scope
    /\ gone = {}
    /\ unseen = {}
    /\ dead = {}

-----------------------------------------------------------------------------
(* The server                                                              *)

\* One change of the request, acc being what those before it have done. w:
\* the tables when the request began. fails: every change that is new meets
\* an unexpected exception.
PushOne(w, u, acc, ch, fails) ==
    LET o == Process(w.rcpt, acc.work, u, TRUE, acc.done, ch, fails)
    IN  [work |-> o.work,
         done |-> Append(acc.done, [change |-> ch, result |-> o.result])]

\* push_changes as one step: the changes in request order on one working
\* copy.
PushChanges(w, u, batch, fails) ==
    LET run[n \in 0..Len(batch)] ==
            IF n = 0 THEN [work |-> w, done |-> <<>>]
            ELSE PushOne(w, u, run[n - 1], batch[n], fails)
    IN  run[Len(batch)]

Results(done) == [k \in DOMAIN done |-> done[k].result]

-----------------------------------------------------------------------------
(* The window                                                              *)

NewId(c) == <<c, used[c] + 1>>

\* A step of device c's window: its new database and editor, and whether it
\* hands out a change_id.
Window(c, store, ed, ids) ==
    /\ used[c] + ids <= scope.ids
    /\ cl' = [cl EXCEPT ![c] = store]
    /\ editor' = [editor EXCEPT ![c] = ed]
    /\ used' = [used EXCEPT ![c] = @ + ids]
    /\ UNCHANGED <<srv, pass, late, faults, delayed, scope>>

\* The editor stays on a new record, at version 0.
Create(c, r, e) ==
    /\ Home[r] = c
    /\ cl[c].local[r] = NoLocal
    /\ Parent[r] # NoRec => cl[c].local[Parent[r]] # NoLocal
    /\ e \in free
    /\ Window(c, CreateLocal(cl[c], NewId(c), r, {e}),
              [rec |-> r, base |-> 0, val |-> {e}], 1)
    /\ free' = free \ {e}
    /\ UNCHANGED history

\* The content the server has for r.
Content(r) == IF srv.row[r].ver = 0 THEN {} ELSE srv.row[r].val

OlderBase(c, r) == \E e \in EntriesOf(cl[c], r) : e.base < cl[c].local[r].ver

\* The form is filled from the row and claims the row's version, also when
\* the row holds a save that is queued against an older one.
Open(c, r) ==
    /\ editor[c] = Closed
    /\ cl[c].local[r] # NoLocal
    /\ ~cl[c].local[r].del
    /\ Window(c, cl[c], [rec |-> r, base |-> cl[c].local[r].ver,
                         val |-> cl[c].local[r].val], 0)
    /\ unseen' = IF OlderBase(c, r)
                 THEN unseen \cup (Content(r) \ cl[c].local[r].val)
                 ELSE unseen
    /\ UNCHANGED <<free, gone, dead>>

Close(c) ==
    /\ editor[c] # Closed
    /\ Window(c, cl[c], Closed, 0)
    /\ UNCHANGED <<free, history>>

\* Save sends the whole form: what the editor loaded and the new edit.
Save(c, e) ==
    /\ editor[c] # Closed
    /\ e \in free
    /\ LET ed == editor[c]
           val == ed.val \cup {e}
       IN  Window(c, SaveLocal(cl[c], NewId(c), ed.rec, ed.base, val),
                  [ed EXCEPT !.val = val], 1)
    /\ free' = free \ {e}
    /\ UNCHANGED history

Tombstone(c, r) == <<c, r, cl[c].local[r].ver > 0>>

\* Delete, with the editor clean.
Delete(c) ==
    /\ editor[c] # Closed
    /\ Cardinality(dead) < scope.deletes
    /\ LET r == editor[c].rec
       IN  /\ Window(c, DeleteLocal(cl[c], NewId(c), r), Closed, 1)
           /\ gone' = gone \cup cl[c].local[r].val
           /\ dead' = dead \cup {Tombstone(c, r)}
    /\ UNCHANGED <<free, unseen>>

\* Delete, with unsaved text in the editor: starting a new record commits
\* the old one first, which restores the record.
DeleteDirty(c, e) ==
    /\ editor[c] # Closed
    /\ Cardinality(dead) < scope.deletes
    /\ e \in free
    /\ LET ed == editor[c]
           S == DeleteLocal(cl[c], NewId(c), ed.rec)
       IN  /\ Window(c, SaveLocal(S, <<c, used[c] + 2>>, ed.rec, ed.base,
                                  ed.val \cup {e}), Closed, 2)
           /\ gone' = gone \cup cl[c].local[ed.rec].val
    /\ free' = free \ {e}
    /\ UNCHANGED <<unseen, dead>>

\* A session adopted after a login releases what a 401 had blocked.
Login(c) ==
    /\ ReleaseAuthentication(cl[c]) # cl[c]
    /\ Window(c, ReleaseAuthentication(cl[c]), editor[c], 0)
    /\ UNCHANGED <<free, history>>

\* The Conflict Center (resolve_conflict). The user sees both sides of the
\* conflict before choosing; a form that shows the record is left as it is.
Choose(c, e) ==
    /\ pass[c].pc = "idle" \/ ResolveDuringPass
    /\ e \in cl[c].box

ResolveKeepMine(c, e) ==
    /\ Choose(c, e)
    /\ CanKeepMine(cl[c], e)
    /\ Window(c, KeepMine(cl[c], e, NewId(c)), editor[c], 1)
    /\ gone' = gone \cup (e.srv.val \ e.val)
    /\ UNCHANGED <<free, unseen, dead>>

ResolveUseServer(c, e) ==
    /\ Choose(c, e)
    /\ CanUseServer(cl[c], e)
    /\ Window(c, UseServer(cl[c], e), editor[c], 0)
    /\ gone' = gone \cup (e.val \ e.srv.val)
    /\ dead' = {t \in dead : t[1] # c \/ t[2] # e.rec}
    /\ UNCHANGED <<free, unseen>>

ResolveMerge(c, e) ==
    /\ Choose(c, e)
    /\ CanMerge(cl[c], e)
    /\ Window(c, Merge(cl[c], e, NewId(c)), editor[c], 1)
    /\ unseen' = IF editor[c].rec = e.rec
                 THEN unseen \cup ((e.val \cup e.srv.val) \ editor[c].val)
                 ELSE unseen
    /\ UNCHANGED <<free, gone, dead>>

-----------------------------------------------------------------------------
(* The background pass                                                     *)

Worker(c, store, p) ==
    /\ cl' = [cl EXCEPT ![c] = store]
    /\ pass' = [pass EXCEPT ![c] = p]
    /\ UNCHANGED <<used, free, scope, history>>

Fault(n) ==
    /\ faults + n <= MaxFaults
    /\ faults' = faults + n

\* sync_project reads its batch; with nothing to send it goes on to pull.
Select(c, due) ==
    /\ pass[c].pc = "idle"
    /\ \E todo \in PendingChanges(cl[c], due, scope.batch) :
          Worker(c, cl[c],
                 [NoPass EXCEPT !.pc = IF todo = <<>> THEN "settled"
                                       ELSE "selected",
                                !.batch = [k \in DOMAIN todo |->
                                              AsChange(todo[k])]])
    /\ UNCHANGED <<srv, editor, late, faults, delayed>>

BatchIds(c) == {pass[c].batch[k].id : k \in DOMAIN pass[c].batch}

\* Commit the send boundary, then send. The request is answered.
Push(c, fails) ==
    /\ pass[c].pc = "selected"
    /\ Fault(IF fails THEN 1 ELSE 0)
    /\ LET o == PushChanges(srv, c, pass[c].batch, fails)
       IN  /\ srv' = o.work
           /\ Worker(c, MarkAttempted(cl[c], BatchIds(c)),
                     [pass[c] EXCEPT !.pc = "answered",
                                     !.results = Results(o.done)])
    /\ UNCHANGED <<editor, late, delayed>>

\* The request, or its answer, is lost; or the server refuses it with 401.
PushFails(c, outcome) ==
    /\ pass[c].pc = "selected"
    /\ Fault(1)
    /\ srv' = IF outcome = "answer_lost"
              THEN PushChanges(srv, c, pass[c].batch, FALSE).work ELSE srv
    /\ IF outcome = "late"
       THEN /\ delayed < scope.late
            /\ delayed' = delayed + 1
            /\ late' = late \cup {[user |-> c, batch |-> pass[c].batch]}
       ELSE UNCHANGED <<late, delayed>>
    /\ Worker(c, MarkAttempted(cl[c], BatchIds(c)),
              [pass[c] EXCEPT !.pc = IF outcome = "denied" THEN "denied"
                                     ELSE "failed"])
    /\ UNCHANGED editor

\* A request whose sender timed out reaches the server after all.
LateDelivery(m) ==
    /\ m \in late
    /\ srv' = PushChanges(srv, m.user, m.batch, FALSE).work
    /\ late' = late \ {m}
    /\ UNCHANGED <<cl, pass, editor, used, free, faults, delayed, scope,
                   history>>

\* _fail_batch parks the entries that are still queued and ends the pass.
FailBatch(c) ==
    /\ pass[c].pc \in {"failed", "denied"}
    /\ LET ids == BatchIds(c)
           S == IF pass[c].pc = "failed" THEN Defer(cl[c], ids)
                ELSE UpdateEntries(cl[c], LAMBDA e : e.id \in ids,
                         LAMBDA e : [e EXCEPT !.status = "blocked",
                                              !.kind = "authentication",
                                              !.tried = TRUE])
       IN  Worker(c, S, NoPass)
    /\ UNCHANGED <<srv, editor, late, faults, delayed>>

\* The accepted results in one transaction, the others one by one.
AfterAnswer(todo) == IF todo = {} THEN "settled" ELSE "acked"

AcknowledgeResults(c) ==
    /\ pass[c].pc = "answered"
    /\ LET todo == Unsettled(pass[c].results)
       IN  Worker(c, Acknowledge(cl[c], pass[c].results),
                  [pass[c] EXCEPT !.pc = AfterAnswer(todo), !.todo = todo])
    /\ UNCHANGED <<srv, editor, late, faults, delayed>>

SettleResult(c, k) ==
    /\ pass[c].pc = "acked"
    /\ k \in pass[c].todo
    /\ IsNext(pass[c].results, pass[c].todo, k)
    /\ LET todo == pass[c].todo \ {k}
       IN  Worker(c, Settle(cl[c], pass[c].results[k]),
                  [pass[c] EXCEPT !.pc = AfterAnswer(todo), !.todo = todo])
    /\ UNCHANGED <<srv, editor, late, faults, delayed>>

\* Read the watermark and fetch what changed after it.
Download(c) ==
    /\ pass[c].pc = "settled"
    /\ LET got == PullSet(srv, cl[c].wm, srv.seq)
       IN  Worker(c, cl[c], [pass[c] EXCEPT !.pc = "downloaded",
                                 !.rows = [r \in Rec |-> IF r \in got THEN srv.row[r]
                                                     ELSE NoRow],
                                 !.snap = srv.seq])
    /\ UNCHANGED <<srv, editor, late, faults, delayed>>

\* The pull fails or is cancelled: what was acknowledged stays so, and
\* nothing of the pull is kept.
PullFails(c) ==
    /\ pass[c].pc \in {"settled", "downloaded"}
    /\ Fault(1)
    /\ Worker(c, cl[c], [pass[c] EXCEPT !.pc = "done", !.rows = NoRows,
                                        !.snap = 0])
    /\ UNCHANGED <<srv, editor, late, delayed>>

ApplyDownload(c) ==
    /\ pass[c].pc = "downloaded"
    /\ Worker(c, ApplyPull(cl[c], pass[c].rows, pass[c].snap),
              [pass[c] EXCEPT !.pc = "done", !.rows = NoRows, !.snap = 0])
    /\ UNCHANGED <<srv, editor, late, faults, delayed>>

\* _follow_own_saves: the version that the save of an editor at base b for
\* record r produced, or b.
Followed(c, r, b) ==
    LET p == pass[c]
        acks == {k \in DOMAIN p.results :
                    /\ p.results[k].status = "accepted"
                    /\ AckVersion(p.results[k]) > 0
                    /\ p.results[k].rec = r
                    /\ p.batch[k].pay.base = b}
    IN  IF acks = {} THEN b
        ELSE AckVersion(p.results[CHOOSE k \in acks : \A j \in acks : k <= j])

\* The window receives the result and moves its editor.
Finish(c) ==
    /\ pass[c].pc = "done"
    /\ LET ed == editor[c]
       IN  editor' = IF ed = Closed THEN editor
                     ELSE [editor EXCEPT ![c].base =
                              Followed(c, ed.rec, ed.base)]
    /\ Worker(c, cl[c], NoPass)
    /\ UNCHANGED <<srv, late, faults, delayed>>

\* The process ends and starts again: the database is what remains.
Crash(c) ==
    /\ Fault(1)
    /\ pass[c] # NoPass \/ editor[c] # Closed
    /\ Worker(c, cl[c], NoPass)
    /\ editor' = [editor EXCEPT ![c] = Closed]
    /\ UNCHANGED <<srv, late, delayed>>

-----------------------------------------------------------------------------

Edits(c) ==
    \/ \E r \in scope.records, e \in Edit : Create(c, r, e)
    \/ \E r \in Rec : Open(c, r)
    \/ Close(c)
    \/ \E e \in Edit : Save(c, e)
    \/ Delete(c)
    \/ \E e \in Edit : DeleteDirty(c, e)
    \/ \E e \in cl[c].box :
          ResolveKeepMine(c, e) \/ ResolveUseServer(c, e) \/ ResolveMerge(c, e)

PassStep(c) ==
    \/ \E due \in SUBSET scope.records : Select(c, due)
    \/ \E fails \in BOOLEAN : Push(c, fails)
    \/ FailBatch(c)
    \/ AcknowledgeResults(c)
    \/ \E k \in pass[c].todo : SettleResult(c, k)
    \/ Download(c)
    \/ ApplyDownload(c)
    \/ Finish(c)

Faults(c) ==
    \/ \E outcome \in {"lost", "answer_lost", "late", "denied"} :
          PushFails(c, outcome)
    \/ PullFails(c)
    \/ Crash(c)

Next ==
    \/ \E c \in scope.devices :
          Edits(c) \/ PassStep(c) \/ Faults(c) \/ Login(c)
    \/ \E m \in late : LateDelivery(m)

Spec == Init /\ [][Next]_vars

\* The scheduler keeps starting passes and a pass runs to its end. A retry's
\* due time is fixed when it is parked, so passes keep coming after it.
Fairness ==
    \A c \in Client : WF_vars(PassStep(c)) /\ SF_vars(Select(c, Rec))

FairSpec == Spec /\ Fairness

-----------------------------------------------------------------------------
(* Properties                                                              *)

\* ARCHITECTURE.md: "Each record has at most one queued change". The window
\* and the pass replace, requeue and remove entries independently.
OneEntryPerRecord ==
    \A c \in Client : \A x, y \in cl[c].box : x.rec = y.rec => x = y

\* Edits whose loss a user brought about: discarded knowingly, or missing
\* from a form that claimed a version which has them (README, section 3).
Excused == gone \cup unseen

\* No edit disappears: each one is on the server, waits in some outbox, or
\* was discarded by a user who saw it, through any sequence of saves, lost
\* answers, conflicts, crashes and pulls.
EditsAccountedFor ==
    \A e \in Edit \ (free \cup Excused) :
        \/ \E r \in Rec : srv.row[r].ver > 0 /\ e \in srv.row[r].val
        \/ \E c \in Client : \E x \in cl[c].box : e \in x.val

\* "the version check produces another conflict, never a silent overwrite":
\* an accepted write keeps every edit it was not told to discard.
NoSilentOverwrite ==
    [][\A r \in Rec : srv.row[r].ver > 0 =>
          srv.row[r].val \subseteq srv'.row[r].val \cup Excused]_vars

\* What a user sees of a server row, and of a cached one.
OnServer(r) == IF srv.row[r].ver = 0 \/ srv.row[r].del THEN {}
               ELSE srv.row[r].val

Shown(c, r) == IF cl[c].local[r].del THEN {} ELSE cl[c].local[r].val

\* A device with nothing queued and no pass under way.
Quiet(c) == pass[c].pc = "idle" /\ cl[c].box = {}

\* "Rewinding the watermark makes the next pull fetch the project again, so a
\* server edit newer than the saved copy cannot be skipped" (ARCHITECTURE.md):
\* a quiet device whose watermark is the server's sequence shows what the
\* server holds, but for records deleted before the server confirmed them,
\* which are the subject of AllDeletesHold.
Converged ==
    \A c \in Client, r \in Rec :
        Quiet(c) /\ cl[c].wm = srv.seq /\ <<c, r, FALSE>> \notin dead =>
            Shown(c, r) = OnServer(r)

\* What a device shows of a record it has queued is what it will send: the
\* row and its entry change together, and neither an acknowledgement of an
\* older save nor a pull overwrites an unsent one.
QueuedIsShown ==
    \A c \in Client : \A x \in cl[c].box :
        Shown(c, x.rec) = IF x.op = "delete" THEN {} ELSE x.val

\* The outbox through any sequence of saves, deletes, answers, pulls and
\* resolutions: well formed, with one entry for a record, and that entry is
\* what the user sees (_replace_outbox_entry, _apply_pull_entities).
OutboxSound == TypeOK /\ OneEntryPerRecord /\ QueuedIsShown

\* Users make finitely many edits and the network loses finitely many
\* messages: from some point on no device has anything left to send
\* (get_pending_changes).
EventuallySettled ==
    \A c \in Client : <>[](Ready(cl[c], Rec) = {})

\* And each device then shows the server's records, but for those with a
\* blocked entry (_apply_pull).
EventuallyConverged ==
    \A c \in Client, r \in Rec :
        <>[](HasOpen(cl[c], r) \/ Shown(c, r) = OnServer(r))

\* After the last edit and the last fault every device sends what it can and
\* catches up with the server (sync_project).
EventuallyInSync == EventuallySettled /\ EventuallyConverged

\* A delete is not lost: once every device is quiet, a record that a user
\* deleted, and did not give back by taking the server's copy, is not alive
\* on the server.
DeletesHold(confirmed) ==
    \A t \in dead :
        /\ t[3] \in confirmed
        /\ \A c \in Client : Quiet(c)
        /\ late = {}
        => OnServer(t[2]) = {}

\* A delete of a record the server had confirmed reaches the server, whatever
\* conflicts, crashes and lost answers come between.
SyncedDeletesHold == DeletesHold({TRUE})

\* The same for a record still at version 0: "A create deleted or edited while
\* the request is in flight must assume version one may now exist on the
\* server" (synchronization_service.py:555-557).
AllDeletesHold == DeletesHold(BOOLEAN)

\* A device that edits alone meets no conflict: "The server accepting this
\* editor's own save is not such an update" (projects_sync_mixin.py:126-127,
\* _follow_own_saves). No run checks it (README).
NoOwnConflict ==
    \A c \in Client : \A x \in cl[c].box : ~IsConflict(x)

=============================================================================
