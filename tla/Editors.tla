------------------------------ MODULE Editors ------------------------------
(***************************************************************************)
(* The editors of the main window beside a background pass: the form of    *)
(* the scored tabs, which commits unsaved text by itself, and the forms of *)
(* the Actions, Assessments and Help Desk tabs, which do not (the mixins   *)
(* of ui_v2, entity_store.py and the services they call). What matters is  *)
(* which record a form shows, which server version its content comes from, *)
(* which version a save will claim, and where typed text ends up.          *)
(*                                                                         *)
(* A row or a form has the version it is recorded under (ver, base) and    *)
(* the version its content was derived from (seen). A text is a number.    *)
(***************************************************************************)
EXTENDS Integers, FiniteSets

CONSTANTS
    Project,
    Scored, Action, Ticket,   \* records of each kind
    NoRec,
    Start,     \* project of each record that exists at the start
    Budget     \* bounds: what a behaviour may spend

Record == Scored \cup Action \cup Ticket
Form == {"scored", "action", "ticket", "assessment"}
NoText == 0
None == -1   \* no base version, or nothing queued

ASSUME EditorsAssumption ==
    /\ NoRec \notin Record \cup Project
    /\ Scored \cap Action = {} /\ (Scored \cup Action) \cap Ticket = {}
    /\ DOMAIN Start \subseteq Record
    /\ \A r \in DOMAIN Start : Start[r] \in Project
    /\ Budget \subseteq
         [tabs : SUBSET Form, texts : Nat, remote : Nat, errors : BOOLEAN]

VARIABLES
    srv,       \* version of each record on the server
    removed,   \* records another device has deleted there
    row,       \* the local tables
    queue,     \* base_version of the queued change of each record
    sel,       \* current_project_id
    form,      \* the forms
    dirty,     \* _editor_dirty
    cache,     \* _risk_cache, _action_by_id, _all_tickets
    combo,     \* the target chosen in the Actions tab
    assessed,  \* texts saved in the user's assessment of each record
    pass,      \* "idle", or "run" with the acknowledgements so far
    budget,
    texts,     \* texts typed so far
    origin,    \* history: the record and project each text was typed for
    pick,      \* history: the target the user chose or loaded
    refused,   \* history: changes its value when a commit is refused
    raised     \* history: actions with an unsent save replaced by a newer claim

window == <<form, dirty, cache, combo, sel>>
data == <<row, queue, assessed>>
history == <<budget, texts, origin, pick, refused, raised>>
server == <<srv, removed>>
vars == <<server, window, data, pass, history>>

-----------------------------------------------------------------------------

Gone == [ver |-> None, seen |-> 0, listed |-> FALSE]
Blank == [id |-> NoRec, base |-> None, seen |-> 0, text |-> NoText,
          ok |-> TRUE]

TabOf(r) ==
    IF r \in Scored THEN "scored" ELSE IF r \in Action THEN "action" ELSE "ticket"

\* list_risks, list_opportunities, list_actions, list_helpdesk_tickets
ListedRows(rows, p) == {r \in Record : rows[r].live /\ rows[r].proj = p}

\* _refresh_entity, _refresh_actions and _refresh_helpdesk: the tables of S
\* are read again, and nothing in a form changes.
Refreshed(S, rows, p) ==
    [r \in Record |->
        IF r \notin S THEN cache[r]
        ELSE IF r \in ListedRows(rows, p)
        THEN [ver |-> rows[r].ver, seen |-> rows[r].seen, listed |-> TRUE]
        ELSE Gone]

\* _refresh_target_combo
ComboAfter(rows, p) ==
    IF combo \in ListedRows(rows, p) THEN combo ELSE NoRec

\* _replace_outbox_entry: another change of a record keeps the base of the
\* unsent one, and the first is based on the row.
QueuedBase(r) == IF queue[r] = None THEN row[r].ver ELSE queue[r]

\* The base a save claims: override_base_version with the editor's, if any.
BaseOf(f) == IF f.base = None THEN QueuedBase(f.id) ELSE f.base

\* update of a service: the whole form replaces the row and one queued change.
Saved(rows, f) ==
    [rows EXCEPT ![f.id].live = TRUE, ![f.id].seen = f.seen,
                 ![f.id].texts = (@ \cup {f.text}) \ {NoText}]
Clean(f) == [f EXCEPT !.text = NoText, !.ok = TRUE]

\* What _commit_entity_editor_changes finds to do.
Uncommitted == dirty /\ form["scored"].id # NoRec
Commits == Uncommitted /\ form["scored"].ok

RowAfter(rows) == IF Commits THEN Saved(rows, form["scored"]) ELSE rows
QueueAfter(q) ==
    IF Commits THEN [q EXCEPT ![form["scored"].id] = BaseOf(form["scored"])]
    ELSE q

\* Mutant: the flag is cleared though the commit was refused.
CommitCleared ==
    /\ dirty' = FALSE
    /\ refused' = (refused # (Uncommitted /\ ~Commits))

\* _commit_editor_changes on the flag: a refusal leaves it.
Committed ==
    /\ dirty' = (dirty /\ ~Commits)
    /\ refused' = (refused # (Uncommitted /\ ~Commits))

\* _sync_assessment_state and _refresh_assessments: the form is filled again.
Assess(r) == [Blank EXCEPT !.id = r]

-----------------------------------------------------------------------------
(* The user                                                                *)

\* An input of a form changes; ok says whether a save would be accepted (a
\* title, a status the role allows, a database that answers).
Type(f, ok) ==
    /\ f \in budget.tabs /\ sel \in Project
    /\ f = "assessment" => form[f].id # NoRec
    /\ ~ok => budget.errors
    /\ IF form[f].text = NoText
       THEN /\ texts < budget.texts
            /\ texts' = texts + 1
            /\ form' = [form EXCEPT ![f].text = texts', ![f].ok = ok]
            /\ origin' = [origin EXCEPT ![texts'] =
                             [rec |-> form[f].id, proj |-> sel]]
       ELSE /\ ok # form[f].ok
            /\ form' = [form EXCEPT ![f].ok = ok]
            /\ UNCHANGED <<texts, origin>>
    /\ dirty' = (dirty \/ f = "scored")
    /\ UNCHANGED <<server, data, cache, combo, sel, pass, budget, pick, refused,
                   raised>>

\* _on_risk_clicked: the form is filled from the cache as it was before the
\* commit, the base version comes from the cache after it.
ClickScored(r) ==
    LET commits == Commits /\ form["scored"].id # r
        rows == IF commits THEN RowAfter(row) ELSE row
        after == IF commits THEN Refreshed(Scored \cup Action, rows, sel)
                 ELSE cache
    IN  /\ budget.tabs \cap {"scored", "assessment"} # {}
        /\ cache[r].listed
        /\ row' = rows
        /\ queue' = IF commits THEN QueueAfter(queue) ELSE queue
        /\ cache' = after
        /\ combo' = IF commits THEN ComboAfter(rows, sel) ELSE combo
        /\ form' = [form EXCEPT
               !["scored"] = [Blank EXCEPT !.id = r, !.base = after[r].ver,
                                           !.seen = cache[r].seen],
               !["assessment"] = Assess(r)]
        /\ dirty' = FALSE
        /\ refused' = (refused # (Uncommitted /\ ~Commits /\ form["scored"].id # r))
        /\ UNCHANGED <<server, assessed, sel, pass, budget, texts, origin, pick,
                       raised>>

\* eventFilter: a click outside the table and the form commits.
ClickOutside ==
    /\ Uncommitted
    /\ row' = RowAfter(row)
    /\ queue' = QueueAfter(queue)
    /\ Committed
    /\ form' = IF Commits THEN [form EXCEPT !["scored"] = Clean(@)] ELSE form
    /\ cache' = IF Commits THEN Refreshed(Scored \cup Action, row', sel)
                ELSE cache
    /\ combo' = IF Commits THEN ComboAfter(row', sel) ELSE combo
    /\ UNCHANGED <<server, assessed, sel, pass, budget, texts, origin, pick,
                   raised>>

\* _start_new_risk
StartNew ==
    /\ form["scored"] # Blank
    /\ row' = RowAfter(row)
    /\ queue' = QueueAfter(queue)
    /\ cache' = IF Commits THEN Refreshed(Scored \cup Action, row', sel)
                ELSE cache
    /\ combo' = IF Commits THEN ComboAfter(row', sel) ELSE combo
    /\ form' = [form EXCEPT !["scored"] = Blank, !["assessment"] = Blank]
    /\ dirty' = FALSE
    /\ refused' = (refused # (Uncommitted /\ ~Commits))
    /\ UNCHANGED <<server, assessed, sel, pass, budget, texts, origin, pick,
                   raised>>

\* _delete_risk: the row is deleted, then a new form is started, which
\* commits what was typed into the deleted one.
DeleteScored ==
    LET r == form["scored"].id
        deleted == [row EXCEPT ![r].live = FALSE]
        sent == IF row[r].ver = 0 THEN None ELSE QueuedBase(r)
    IN  /\ r # NoRec
        /\ row' = RowAfter(deleted)
        /\ queue' = QueueAfter([queue EXCEPT ![r] = sent])
        /\ cache' = Refreshed(Scored \cup Action, row', sel)
        /\ combo' = ComboAfter(row', sel)
        /\ form' = [form EXCEPT !["scored"] = Blank, !["assessment"] = Blank]
        /\ dirty' = FALSE
        /\ refused' = (refused # (Uncommitted /\ ~Commits))
        /\ UNCHANGED <<server, assessed, sel, pass, budget, texts, origin, pick,
                       raised>>

\* Save writes to the record in the form, or to a new one.
Targets(f, S) ==
    IF form[f].id # NoRec THEN {form[f].id}
    ELSE LET unused == {r \in S : row[r].proj \notin Project}
         IN  IF unused = {} THEN {} ELSE {CHOOSE r \in unused : TRUE}

\* update and create of a service.
RowSaved(f, r) ==
    IF form[f].id # NoRec THEN Saved(row, form[f])
    ELSE [row EXCEPT ![r] = [proj |-> sel, live |-> TRUE, ver |-> 0, seen |-> 0,
                             texts |-> {form[f].text}, target |-> NoRec]]
BaseSaved(f) == IF form[f].id = NoRec THEN 0 ELSE BaseOf(form[f])

\* The form stays on the record, with the base it was loaded at.
FormSaved(f, r) ==
    IF form[f].id # NoRec THEN Clean(form[f])
    ELSE [Blank EXCEPT !.id = r, !.base = 0]

\* _save_risk
SaveScored(r) ==
    /\ sel \in Project
    /\ form["scored"].text # NoText /\ form["scored"].ok
    /\ r \in Targets("scored", Scored)
    /\ row' = RowSaved("scored", r)
    /\ queue' = [queue EXCEPT ![r] = BaseSaved("scored")]
    /\ form' = [form EXCEPT !["scored"] = FormSaved("scored", r),
                            !["assessment"] = Assess(r)]
    /\ cache' = Refreshed(Scored \cup Action, row', sel)
    /\ combo' = ComboAfter(row', sel)
    /\ dirty' = FALSE
    /\ UNCHANGED <<server, assessed, sel, pass, history>>

\* Mutant: the base version is the row's, not that of the values loaded.
ClickActionFresh(a) ==
    /\ "action" \in budget.tabs /\ cache[a].listed
    /\ form' = [form EXCEPT !["action"] =
                   [Blank EXCEPT !.id = a, !.base = row[a].ver,
                                 !.seen = cache[a].seen]]
    /\ UNCHANGED <<server, data, dirty, cache, combo, sel, pass, history>>

\* _on_action_clicked: nothing is committed.
ClickAction(a) ==
    /\ "action" \in budget.tabs /\ cache[a].listed
    /\ form' = [form EXCEPT !["action"] =
                   [Blank EXCEPT !.id = a, !.base = cache[a].ver,
                                 !.seen = cache[a].seen]]
    /\ combo' = IF row[a].target \in ListedRows(row, sel) THEN row[a].target
                ELSE NoRec
    /\ pick' = row[a].target
    /\ UNCHANGED <<server, data, dirty, cache, sel, pass, budget, texts, origin,
                   refused, raised>>

\* The user chooses the target of the action, among the records listed.
PickTarget(r) ==
    /\ "action" \in budget.tabs /\ cache[r].listed
    /\ combo' = r /\ pick' = r
    /\ UNCHANGED <<server, data, form, dirty, cache, sel, pass, budget, texts,
                   origin, refused, raised>>

\* _start_new_action and _start_new_helpdesk_ticket: nothing is committed.
StartBlank(f) ==
    /\ f \in budget.tabs \cap {"action", "ticket"}
    /\ form[f] # Blank
    /\ form' = [form EXCEPT ![f] = Blank]
    /\ UNCHANGED <<server, data, dirty, cache, combo, sel, pass, history>>

\* _save_action: refused without a target.
SaveAction(a) ==
    /\ sel \in Project /\ combo # NoRec
    /\ form["action"].text # NoText /\ form["action"].ok
    /\ a \in Targets("action", Action)
    /\ row' = [RowSaved("action", a) EXCEPT ![a].target = combo]
    /\ queue' = [queue EXCEPT ![a] = BaseSaved("action")]
    /\ form' = [form EXCEPT !["action"] = FormSaved("action", a)]
    /\ cache' = Refreshed(Action, row', sel)
    /\ raised' = IF queue[a] # None /\ queue[a] < queue'[a] THEN raised \cup {a}
                 ELSE raised
    /\ UNCHANGED <<server, assessed, dirty, combo, sel, pass, budget, texts, origin,
                   pick, refused>>

\* _on_helpdesk_ticket_clicked
ClickTicket(t) ==
    /\ "ticket" \in budget.tabs /\ cache[t].listed
    /\ form' = [form EXCEPT !["ticket"] =
                   [Blank EXCEPT !.id = t, !.seen = cache[t].seen]]
    /\ UNCHANGED <<server, data, dirty, cache, combo, sel, pass, history>>

\* _save_helpdesk_ticket: tickets claim no version of their own.
SaveTicket(t) ==
    /\ sel \in Project
    /\ form["ticket"].text # NoText /\ form["ticket"].ok
    /\ t \in Targets("ticket", Ticket)
    /\ row' = RowSaved("ticket", t)
    /\ queue' = [queue EXCEPT ![t] = BaseSaved("ticket")]
    /\ form' = [form EXCEPT !["ticket"] =
                   [FormSaved("ticket", t) EXCEPT !.base = None]]
    /\ cache' = Refreshed(Ticket, row', sel)
    /\ UNCHANGED <<server, assessed, dirty, combo, sel, pass, history>>

\* _delete_helpdesk_ticket: unsaved text goes with the ticket.
DeleteTicket ==
    LET t == form["ticket"].id
    IN  /\ t # NoRec
        /\ row' = [row EXCEPT ![t].live = FALSE]
        /\ queue' = [queue EXCEPT ![t] = IF row[t].ver = 0 THEN None
                                         ELSE QueuedBase(t)]
        /\ form' = [form EXCEPT !["ticket"] = Blank]
        /\ cache' = Refreshed(Ticket, row', sel)
        /\ UNCHANGED <<server, assessed, dirty, combo, sel, pass, history>>

\* _save_assessment
SaveAssessment ==
    LET f == form["assessment"]
    IN  /\ f.text # NoText /\ f.ok
        /\ assessed' = [assessed EXCEPT ![f.id] = @ \cup {f.text}]
        /\ form' = [form EXCEPT !["assessment"] = Assess(f.id)]
        /\ UNCHANGED <<server, row, queue, dirty, cache, combo, sel, pass, history>>

\* Mutant: the scored form keeps its text for the next project.
SelectProjectKeeping(p) ==
    /\ p # sel
    /\ sel' = p
    /\ row' = RowAfter(row)
    /\ queue' = QueueAfter(queue)
    /\ Committed
    /\ form' = [form EXCEPT
           !["scored"] = [(IF Commits THEN Clean(@) ELSE @) EXCEPT !.id = NoRec],
           !["action"] = Blank, !["assessment"] = Blank]
    /\ cache' = Refreshed(Record, row', p)
    /\ combo' = ComboAfter(row', p)
    /\ UNCHANGED <<server, assessed, pass, budget, texts, origin, pick,
                   raised>>

\* _on_project_selected: the text is committed under the old project; the
\* ticket in its form stays.
SelectProject(p) ==
    /\ p # sel
    /\ sel' = p
    /\ row' = RowAfter(row)
    /\ queue' = QueueAfter(queue)
    /\ Committed
    /\ form' = [form EXCEPT !["scored"] = Blank, !["action"] = Blank,
                            !["assessment"] = Blank]
    /\ cache' = Refreshed(Record, row', p)
    /\ combo' = ComboAfter(row', p)
    /\ UNCHANGED <<server, assessed, pass, budget, texts, origin, pick,
                   raised>>

-----------------------------------------------------------------------------
(* The pass                                                                *)

\* Another device changes or deletes a record that the server has.
RemoteEdit(r, deletes) ==
    /\ 0 < srv[r] /\ srv[r] <= budget.remote /\ TabOf(r) \in budget.tabs
    /\ r \notin removed
    /\ srv' = [srv EXCEPT ![r] = @ + 1]
    /\ removed' = IF deletes THEN removed \cup {r} ELSE removed
    /\ UNCHANGED <<window, data, pass, history>>

\* _automatic_sync_requested waits for a clean form; _sync_now does not.
StartPass(auto) ==
    /\ pass = <<>>
    /\ auto => ~dirty
    /\ sel \in Project
    /\ pass' = <<{}>>
    /\ UNCHANGED <<server, window, data, history>>

\* A queued change is pushed: accepted if it is based on the server's version.
Push(r) ==
    /\ pass # <<>>
    /\ queue[r] # None /\ queue[r] = srv[r]
    /\ srv' = [srv EXCEPT ![r] = @ + 1]
    /\ row' = [row EXCEPT ![r].ver = srv'[r], ![r].seen = srv'[r]]
    /\ queue' = [queue EXCEPT ![r] = None]
    /\ pass' = <<pass[1] \cup {[rec |-> r, base |-> queue[r], ver |-> srv'[r]]}>>
    /\ removed' = removed \ {r}
    /\ UNCHANGED <<window, assessed, history>>

\* A row with nothing queued takes the server's version.
Pull(r) ==
    /\ pass # <<>>
    /\ queue[r] = None /\ row[r].ver < srv[r]
    /\ row' = [row EXCEPT ![r].ver = srv[r], ![r].seen = srv[r],
                          ![r].live = r \notin removed]
    /\ UNCHANGED <<server, window, queue, assessed, pass, history>>

\* _follow_own_saves for one form.
Followed(f) ==
    LET own == {k \in pass[1] : k.rec = form[f].id /\ k.base = form[f].base}
    IN  IF f \notin {"scored", "action"} \/ own = {} THEN form[f]
        ELSE LET k == CHOOSE k \in own : TRUE
             IN  [form[f] EXCEPT !.base = k.ver,
                     !.seen = IF @ >= k.base THEN k.ver ELSE @]

\* Mutant: the callback fills the scored form again.
DeliverReloading ==
    /\ pass # <<>>
    /\ pass' = <<>>
    /\ form' = [form EXCEPT !["scored"] = Clean(Followed("scored")),
                            !["assessment"] = Assess(@.id)]
    /\ cache' = Refreshed(Record, row, sel)
    /\ combo' = ComboAfter(row, sel)
    /\ UNCHANGED <<server, data, dirty, sel, history>>

\* _sync_succeeded and _automatic_sync_succeeded: _refresh_all_views reads
\* every table again, and fills the assessment form.
Deliver ==
    /\ pass # <<>>
    /\ pass' = <<>>
    /\ form' = [f \in Form |-> IF f = "assessment" THEN Assess(form[f].id)
                               ELSE Followed(f)]
    /\ cache' = Refreshed(Record, row, sel)
    /\ combo' = ComboAfter(row, sel)
    /\ UNCHANGED <<server, data, dirty, sel, history>>

-----------------------------------------------------------------------------

Init ==
    /\ srv = [r \in Record |-> IF r \in DOMAIN Start THEN 1 ELSE 0]
    /\ removed = {}
    /\ row = [r \in Record |->
                [proj |-> IF r \in DOMAIN Start THEN Start[r] ELSE NoRec,
                 live |-> r \in DOMAIN Start,
                 ver |-> srv[r], seen |-> srv[r], texts |-> {}, target |-> NoRec]]
    /\ queue = [r \in Record |-> None]
    /\ sel = NoRec
    /\ form = [f \in Form |-> Blank]
    /\ dirty = FALSE
    /\ cache = [r \in Record |-> Gone]
    /\ combo = NoRec
    /\ assessed = [r \in Scored |-> {}]
    /\ pass = <<>>
    /\ budget \in Budget
    /\ texts = 0
    /\ origin = [t \in 1..budget.texts |-> [rec |-> NoRec, proj |-> NoRec]]
    /\ pick = NoRec
    /\ refused = FALSE
    /\ raised = {}

UserStep ==
    \/ \E f \in Form, ok \in BOOLEAN : Type(f, ok)
    \/ \E r \in Scored : ClickScored(r) \/ SaveScored(r) \/ PickTarget(r)
    \/ \E a \in Action : ClickAction(a) \/ SaveAction(a)
    \/ \E t \in Ticket : ClickTicket(t) \/ SaveTicket(t)
    \/ \E f \in Form : StartBlank(f)
    \/ \E p \in Project : SelectProject(p)
    \/ ClickOutside \/ StartNew \/ DeleteScored \/ DeleteTicket
    \/ SaveAssessment

Next ==
    \/ UserStep
    \/ \E r \in Record : Push(r) \/ Pull(r) \/ \E d \in BOOLEAN : RemoteEdit(r, d)
    \/ \E auto \in BOOLEAN : StartPass(auto)
    \/ Deliver

Spec == Init /\ [][Next]_vars

-----------------------------------------------------------------------------
(* Properties                                                              *)

\* Forms hold records of their own kind that some project has; queue and rows
\* hold versions.
TypeOK ==
    /\ sel \in Project \cup {NoRec}
    /\ form["scored"].id \in Scored \cup {NoRec}
    /\ form["assessment"].id \in Scored \cup {NoRec}
    /\ form["action"].id \in Action \cup {NoRec}
    /\ form["ticket"].id \in Ticket \cup {NoRec}
    /\ \A f \in Form : form[f].id # NoRec => row[form[f].id].proj \in Project
    /\ \A r \in Record :
        queue[r] \in Int /\ queue[r] >= None /\ row[r].ver \in Nat
    /\ combo \in Scored \cup {NoRec}

\* Text in the scored form is flagged, so that a click elsewhere commits it
\* and no automatic pass starts over it (_editor_dirty), through refused
\* commits, saves, deletions and changes of the project.
TypedIsFlagged == form["scored"].text # NoText => dirty

\* Whatever is typed for a record is saved in that record, and a new record
\* in the project it was typed in, however saves, automatic commits,
\* selections and refreshes interleave. A new ticket is exempt: its form
\* follows the user to the next project.
SavedWhereTyped ==
    /\ \A r \in Record : \A t \in row[r].texts :
        \/ origin[t].rec = r
        \/ /\ origin[t].rec = NoRec
           /\ r \in Ticket \/ origin[t].proj = row[r].proj
    /\ \A r \in Scored : \A t \in assessed[r] : origin[t].rec = r

\* Text typed for an existing risk leaves its form only into that risk,
\* unless the commit was refused, the risk's own row was clicked again or
\* the risk was deleted (_commit_entity_editor_changes).
TypedIsKept ==
    [][LET f == form["scored"]
       IN  f.text # NoText /\ f.id # NoRec /\ form'["scored"].text # f.text =>
            \/ f.text \in row'[f.id].texts
            \/ form'["scored"].id = f.id
            \/ refused' # refused
            \/ ~row'[f.id].live]_vars

\* "Start a silent all-project sync when the UI is safe to refresh"
\* (projects_sync_mixin.py): no callback of a pass takes text from the
\* scored, action or ticket form.
SyncKeepsText ==
    [][pass' # pass =>
        \A f \in Form \ {"assessment"} : form'[f].text = form[f].text]_vars

\* No text a user typed is lost without a reason the user can see: neither to
\* the user's own clicks nor to the callback of a pass.
TextKept == TypedIsKept /\ SyncKeepsText

\* "A removed parent must not silently become another record"
\* (actions_mixin.py): the target is the one the user chose, or none.
TargetAsPicked == combo \in {NoRec, pick}

\* What the forms show through refused commits, refreshes and changes of the
\* project: records of their kind, unsaved text with its flag, and the target
\* that was picked.
FormsSound == TypeOK /\ TypedIsFlagged /\ TargetAsPicked

\* A queued save claims no version newer than the one its content was
\* derived from.
ClaimsWhatItSaw(S) == \A r \in S : queue[r] # None /\ row[r].live =>
                         queue[r] <= row[r].seen

\* "editing after another device's update conflicts instead of overwriting
\* it" (_follow_own_saves): the saves of the action form, whose fields and
\* version are loaded together, claim only versions the user has seen, until
\* a save replaces an unsent one and claims more than it did.
ActionClaims == ClaimsWhatItSaw(Action \ raised)

\* "Squashing another local edit must retain the version on which the first
\* unacknowledged edit was based" (_replace_outbox_entry). No run checks it:
\* override_base_version does not retain it (README).
ClaimsNeverRise == raised = {}

\* The same of the risk and opportunity forms. No run checks it: a save
\* reloads the version and not the fields (README).
ScoredClaims == ClaimsWhatItSaw(Scored)

=============================================================================
