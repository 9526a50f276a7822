----------------------------- MODULE ScoreHistory -----------------------------
(***************************************************************************)
(* Snapshots of scores and the Top history tab: the server's batches       *)
(* (api/routers/snapshots.py), the background jobs that create and load    *)
(* them (ui_v2/workers/background_jobs.py) and the tab that shows them and *)
(* takes snapshots on a timer (ui_v2/mixins/top_history_mixin.py). A job   *)
(* runs while the user goes on: its answer may come after a change of      *)
(* project, or never.                                                      *)
(*                                                                         *)
(* An item is captured with its score; 0 is an item that is not there.     *)
(***************************************************************************)
EXTENDS FiniteSetsExt, Integers, Sequences

CONSTANTS
    Project,      \* projects on the server
    Item,         \* the items a project can have
    KindOf,       \* KindOf[i]: "risk" or "opportunity"
    Scores,       \* scores of live items
    StartScore,   \* StartScore[i]: the score of i at first
    AutoKind,     \* the kinds an automatic snapshot captures
    Days,         \* auto_snapshot_days
    Views,        \* settings of the tab: [kind, limit, period]
    Window,       \* length of a period other than "All"
    MaxTime,      \* bound on the clock
    MaxBatches,   \* bound on the snapshots
    MaxEvents     \* bound on the changes of items, connection and settings

Kind == {"risk", "opportunity"}

ASSUME HistoryAssumption ==
    /\ KindOf \in [Item -> Kind]
    /\ Scores \subseteq Nat \ {0}
    /\ StartScore \in [Item -> Scores \cup {0}]
    /\ AutoKind \subseteq Kind
    /\ Days \in Nat \ {0}
    /\ Views \subseteq [kind: Kind, limit: Nat, period: STRING]
    /\ Window \in Nat /\ MaxTime \in Nat
    /\ MaxBatches \in Nat /\ MaxEvents \in Nat

VARIABLES
    clock,
    score,     \* score[p][i] on the server
    events,    \* number of changes of items, connection and settings
    batches,   \* the snapshots on the server, oldest first
    current,   \* the selected project
    online,
    view,      \* controls of the tab: kind, limit, period and its range
    run,       \* the job of the background runner
    table,     \* what the table shows: project and rows of each batch
    last,      \* _last_auto_snapshot_by_project, -1 for none
    taken      \* automatic snapshots this window knows of; not in the code

server == <<score, batches>>
window == <<current, online, view>>
hvars == <<clock, events, server, window, run, table, last, taken>>

NoRun == [type |-> "none"]

NoTable == [project |-> "none", rows |-> {}]

-----------------------------------------------------------------------------
(* The server                                                              *)

\* Synchronization, of this and of other devices, changes the items.
EditItem(p, i, s) ==
    /\ events < MaxEvents
    /\ s # score[p][i]
    /\ score' = [score EXCEPT ![p][i] = s]
    /\ events' = events + 1
    /\ UNCHANGED <<clock, batches, window, run, table, last, taken>>

\* The rows one query of create_snapshot reads: live items of a kind.
Captured(p, kind) ==
    {[item |-> i, score |-> score[p][i]] :
        i \in {j \in Item : KindOf[j] = kind /\ score[p][j] # 0}}

\* The rows of a batch that top_history ranks.
RowsOf(n, kind) == {r \in batches[n].rows : KindOf[r.item] = kind}

\* Mutant: the end of the range, or the present, is excluded.
ListedBefore(p, request) ==
    {n \in DOMAIN batches :
        /\ batches[n].project = p
        /\ RowsOf(n, request.kind) # {}
        /\ request.from # -1 => batches[n].at >= request.from
        /\ batches[n].at < IF request.to = -1 THEN clock ELSE request.to}

\* The batches of a project with rows of the kind, in the range.
Listed(p, request) ==
    {n \in DOMAIN batches :
        /\ batches[n].project = p
        /\ RowsOf(n, request.kind) # {}
        /\ request.from # -1 => batches[n].at >= request.from
        /\ request.to # -1 => batches[n].at <= request.to}

\* row_number() by descending score: any limit rows no other row exceeds.
TopsOf(n, request) ==
    LET rows == RowsOf(n, request.kind)
    IN  {T \in SUBSET rows :
            /\ Cardinality(T) = Min({request.limit, Cardinality(rows)})
            /\ \A r \in T, s \in rows \ T : r.score >= s.score}

\* The answers top_history may give: for each listed batch one of its tops.
Answers(p, request) ==
    {{[batch |-> n, top |-> f[n]] : n \in DOMAIN f} :
        f \in {g \in [Listed(p, request) -> UNION {TopsOf(n, request) :
                                             n \in Listed(p, request)}] :
                   \A n \in DOMAIN g : g[n] \in TopsOf(n, request)}}

-----------------------------------------------------------------------------
(* Jobs. The runner has one at a time; payload as of the start.            *)

Request == [kind |-> view.kind, limit |-> view.limit,
            from |-> view.from, to |-> view.to]

Start(type, kinds, auto) ==
    [type |-> type, project |-> current, request |-> Request,
     kinds |-> kinds, auto |-> auto, started |-> clock, at |-> -1,
     rows |-> {}, batch |-> 0, answer |-> {}, state |-> "running"]

Busy == run # NoRun

\* _refresh_top_history: offline the table is cleared; another running job
\* leaves it as it is, whatever project it shows.
RefreshTop(cur) ==
    IF ~online
    THEN table' = NoTable /\ UNCHANGED run
    ELSE /\ run' = IF Busy THEN run
                   ELSE [Start("history", {}, FALSE) EXCEPT !.project = cur]
         /\ UNCHANGED table

\* A query of create_snapshot; under READ COMMITTED each kind is read at its
\* own moment. captured_at is the time before the first one.
CaptureKind(k) ==
    /\ run.type = "snapshot" /\ run.state = "running" /\ k \in run.kinds
    /\ k = "opportunity" => "risk" \notin run.kinds
    /\ run' = [run EXCEPT !.rows = @ \cup Captured(run.project, k),
                          !.kinds = @ \ {k},
                          !.at = IF @ = -1 THEN clock ELSE @]
    /\ UNCHANGED <<clock, events, server, window, table, last, taken>>

\* The commit; a batch without rows leaves no trace.
CommitSnapshot ==
    /\ run.type = "snapshot" /\ run.state = "running" /\ run.kinds = {}
    /\ Len(batches) < MaxBatches
    /\ batches' = Append(batches, [project |-> run.project, at |-> run.at,
                                   rows |-> run.rows])
    /\ run' = [run EXCEPT !.state = "created", !.batch = Len(batches) + 1]
    /\ UNCHANGED <<clock, events, score, window, table, last, taken>>

\* _run_history, alone or after a snapshot.
LoadHistory ==
    /\ \/ run.type = "history" /\ run.state = "running"
       \/ run.type = "snapshot" /\ run.state = "created"
    /\ \E answer \in Answers(run.project, run.request) :
          run' = [run EXCEPT !.answer = answer, !.state = "done"]
    /\ UNCHANGED <<clock, events, server, window, table, last, taken>>

\* The request fails or its answer is lost. A history that cannot be loaded
\* does not undo a snapshot.
JobFails ==
    /\ run.type \in {"history", "snapshot"}
    /\ run.state \in {"running", "created"}
    /\ \/ run.state = "created" /\ run' = [run EXCEPT !.state = "partial"]
       \/ run' = [run EXCEPT !.state = "failed"]
    /\ UNCHANGED <<clock, events, server, window, table, last, taken>>

\* Mutant: an answer is rendered whatever project is selected.
Rendered == [project |-> run.project, rows |-> run.answer]

\* _history_succeeded: an answer for another project is dropped.
AfterAnswer ==
    IF run.state = "done" /\ run.project = current
    THEN [project |-> run.project, rows |-> run.answer] ELSE table

\* Mutant: the time is kept for the project that is selected now.
RememberForCurrent == [last EXCEPT ![current] = run.started]

\* The time an automatic snapshot was started is kept for its project.
Remembered == [last EXCEPT ![run.project] = run.started]

\* The callback of a job in the window's thread.
Deliver ==
    /\ run.type \in {"history", "snapshot"}
    /\ run.state \in {"done", "partial", "failed"}
    /\ run' = [type |-> "ending"]
    /\ table' = AfterAnswer
    /\ IF run.auto /\ run.state # "failed"
       THEN /\ last' = Remembered
            /\ taken' = taken \cup {[project |-> run.project,
                                     at |-> run.started]}
       ELSE UNCHANGED <<last, taken>>
    /\ UNCHANGED <<clock, events, server, window>>

\* A synchronization occupies the runner; its callback leaves the tab alone.
StartSync ==
    /\ ~Busy /\ online
    /\ run' = [type |-> "sync"]
    /\ UNCHANGED <<clock, events, server, window, table, last, taken>>

\* _handle_thread_finished: only now may the next job start.
FinishRun ==
    /\ run.type \in {"sync", "ending"}
    /\ run' = NoRun
    /\ UNCHANGED <<clock, events, server, window, table, last, taken>>

-----------------------------------------------------------------------------
(* The tab                                                                 *)

SelectProject(p) ==
    /\ p # current
    /\ current' = p
    /\ RefreshTop(p)
    /\ UNCHANGED <<clock, events, server, online, view, last, taken>>

\* A setting and the range its period has now.
InView(v) ==
    [kind |-> v.kind, limit |-> v.limit, period |-> v.period,
     from |-> IF v.period = "All" THEN -1 ELSE Max({0, clock - Window}),
     to |-> IF v.period = "All" THEN -1 ELSE clock]

\* The button is disabled while a job runs.
RefreshHistory ==
    /\ ~Busy
    /\ RefreshTop(current)
    /\ UNCHANGED <<clock, events, server, window, last, taken>>

\* _on_top_period_changed: the range is computed here, not when it is used.
ChangeView(v) ==
    /\ v # [kind |-> view.kind, limit |-> view.limit, period |-> view.period]
    /\ events < MaxEvents
    /\ view' = InView(v)
    /\ events' = events + 1
    /\ UNCHANGED <<clock, server, current, online, run, table, last, taken>>

SnapshotNow ==
    /\ ~Busy /\ online
    /\ run' = Start("snapshot", Kind, FALSE)
    /\ UNCHANGED <<clock, events, server, window, table, last, taken>>

\* The hourly timer, for a manager: a busy runner refuses silently.
MaybeAutoSnapshot ==
    /\ online /\ ~Busy
    /\ last[current] # -1 => clock - last[current] >= Days
    /\ run' = Start("snapshot", AutoKind, TRUE)
    /\ UNCHANGED <<clock, events, server, window, table, last, taken>>

Connection ==
    /\ events < MaxEvents
    /\ online' = ~online
    /\ events' = events + 1
    /\ UNCHANGED <<clock, server, current, view, run, table, last, taken>>

ClockTick ==
    /\ clock < MaxTime
    /\ clock' = clock + 1
    /\ UNCHANGED <<events, server, window, run, table, last, taken>>

-----------------------------------------------------------------------------
HistoryInit ==
    /\ clock = 0
    /\ score = [p \in Project |-> StartScore]
    /\ events = 0
    /\ batches = <<>>
    /\ current \in Project
    /\ online = TRUE
    /\ view \in {InView(v) : v \in {w \in Views : w.period = "All"}}
    /\ run = NoRun
    /\ table = NoTable
    /\ last = [p \in Project |-> -1]
    /\ taken = {}

HistoryNext ==
    \/ \E p \in Project, i \in Item, s \in Scores \cup {0} : EditItem(p, i, s)
    \/ \E k \in Kind : CaptureKind(k)
    \/ CommitSnapshot
    \/ LoadHistory
    \/ JobFails
    \/ Deliver
    \/ StartSync
    \/ FinishRun
    \/ \E p \in Project : SelectProject(p)
    \/ RefreshHistory
    \/ \E v \in Views : ChangeView(v)
    \/ SnapshotNow
    \/ MaybeAutoSnapshot
    \/ Connection
    \/ ClockTick

HistorySpec == HistoryInit /\ [][HistoryNext]_hvars

-----------------------------------------------------------------------------
(* Properties                                                              *)

\* The types of the server's batches and of the window's state.
HistoryTypeOK ==
    /\ clock \in 0..MaxTime /\ events \in 0..MaxEvents
    /\ score \in [Project -> [Item -> Scores \cup {0}]]
    /\ \A n \in DOMAIN batches :
          /\ batches[n].project \in Project
          /\ batches[n].rows \subseteq [item: Item, score: Scores]
    /\ current \in Project /\ online \in BOOLEAN
    /\ view.kind \in Kind
    /\ run.type \in {"none", "sync", "history", "snapshot", "ending"}
    /\ table.project \in Project \cup {"none"}
    /\ last \in [Project -> -1..MaxTime]
    /\ taken \subseteq [project: Project, at: 0..MaxTime]

\* The table is only ever filled with batches of the project that is
\* selected at that moment, although the job may have been started for
\* another one (_history_succeeded, _snapshot_succeeded).
AnswersForProject ==
    [][table' # table =>
        /\ table'.project \in {current, "none"}
        /\ \A line \in table'.rows : batches[line.batch].project = current]_hvars

\* A snapshot the window reports as taken is in the table it then shows, if
\* the job could load the history, the project is still selected, the
\* snapshot has rows of the kind on display and the tab does not limit the
\* period: the history is loaded after the commit (_run_snapshot).
NewSnapshotListed ==
    [][(/\ run.type = "snapshot" /\ run' # run /\ run.state = "done"
        /\ run.project = current
        /\ run.request.to = -1
        /\ RowsOf(run.batch, run.request.kind) # {}) =>
       \E line \in table'.rows : line.batch = run.batch]_hvars

\* Automatic snapshots of one project that the window knows of are at least
\* auto_snapshot_days apart, whatever project is selected when the timer
\* fires or an answer arrives ("Take a snapshot automatically if enabled and
\* the interval has elapsed.", top_history_mixin.py:68).
AutoSpaced ==
    \A t, u \in taken :
        t.project = u.project /\ t.at < u.at => u.at - t.at >= Days

\* The same with well-formed batches and tab.
TimerSound == HistoryTypeOK /\ AutoSpaced

=============================================================================
