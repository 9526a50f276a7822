-------------------------- MODULE ProjectLifecycle --------------------------
(***************************************************************************)
(* The projects of one device: created with or without an account, offline *)
(* or online, published by a background pass that creates the project on   *)
(* the server and then moves the local rows to its new identifier, while   *)
(* the window goes on with the identifier it has (project_store.py,        *)
(* offline_first_facade.py, synchronization_service.py,                    *)
(* projects_sync_mixin.py). Membership is the server.                      *)
(***************************************************************************)
EXTENDS Membership

CONSTANTS
    LocalId,    \* identifiers that start with "local-"
    Record,     \* what the user creates in projects
    Guarded,    \* records whose table references projects by a foreign key
    me          \* the account of the device

ASSUME LifecycleAssumption ==
    /\ LocalId \cap ServerId = {} /\ NoId \notin LocalId
    /\ Guarded \subseteq Record
    /\ me \in User \ Super

VARIABLES
    cached,    \* table projects
    anon,      \* local projects with an empty created_by
    row,       \* project_id of each record, NoId before it is created
    queued,    \* project_id of its outbox entry
    session,   \* "anon", "offline" with an account, or "online"
    shown,     \* projects in the sidebar
    sel,       \* current_project_id
    pass,      \* the background pass
    origin,    \* history: the local project a server project was made from
    faults

device == <<cached, anon, row, queued, session, shown, sel>>
vars == <<memberVars, device, pass, origin, faults>>

Id == LocalId \cup ServerId
NoPass == [pc |-> "idle", id |-> NoId, old |-> NoId, auto |-> FALSE]
FreshServerId == {s \in ServerId : origin[s] = NoId}
FreshLocalId == {l \in LocalId : l \notin cached /\ l \notin anon
                    /\ \A s \in ServerId : origin[s] # l}

\* New identifiers are interchangeable: one of them is taken.
Some(S) == IF S = {} THEN {} ELSE {CHOOSE x \in S : TRUE}

\* An identifier is left for every publication to come.
Spare ==
    Cardinality(FreshServerId) + faults >
        Cardinality(LocalId \ anon) + budget.faults

-----------------------------------------------------------------------------
(* The project table                                                       *)

\* _has_local_data
HasLocalData(p) == \E r \in Record : row[r] = p \/ queued[r] = p

\* sync_projects: what the server no longer lists goes if it is empty.
SyncedProjects(listed) ==
    {p \in cached : p \in LocalId \/ p \in listed \/ HasLocalData(p)}
        \cup listed

\* Mutant: every cached project is visible.
VisibleCachedAll(mode) == cached

\* _visible_cached_projects
VisibleCached(mode) == {p \in cached : (p \in anon) = (mode = "anon")}

\* Mutant: only projects of the server are listed.
WithSyncableRemote(listed, table) == listed

\* _with_syncable_local_projects
WithSyncable(listed, table) == listed \cup ((table \cap LocalId) \ anon)

\* migrate_project_id: every reference moves.
Moved(f, old, new) == [r \in Record |-> IF f[r] = old THEN new ELSE f[r]]

-----------------------------------------------------------------------------
(* The window                                                              *)

\* _load_projects: the wanted project is selected, else the first one.
Loads(list, wanted) ==
    /\ shown' = list
    /\ IF list = {} THEN sel' = wanted
       ELSE IF wanted \in list THEN sel' = wanted ELSE sel' \in list

\* list_projects of the facade. An unreachable server leaves the cache, and
\* an offline session with nothing to show starts with a local project.
LoadProjects(mode, wanted, reached) ==
    IF mode = "online" /\ reached
    THEN LET table == SyncedProjects(Listed(me))
         IN  /\ cached' = table
             /\ Loads(WithSyncable(Listed(me), table), wanted)
             /\ UNCHANGED anon
    ELSE IF VisibleCached(mode) # {} \/ mode = "online"
    THEN Loads(VisibleCached(mode), wanted) /\ UNCHANGED <<cached, anon>>
    ELSE \E l \in Some(FreshLocalId) :
            /\ cached' = cached \cup {l}
            /\ anon' = IF mode = "anon" THEN anon \cup {l} ELSE anon
            /\ Loads({l}, wanted)

\* build_main_window: the program starts with the session the user chose.
Start(mode) ==
    /\ session = "closed"
    /\ session' = mode
    /\ \E reached \in BOOLEAN : LoadProjects(mode, NoId, reached)
    /\ UNCHANGED <<memberVars, row, queued, pass, origin, faults>>

\* The window closes when no worker runs; the program may also just end.
Close ==
    /\ session # "closed"
    /\ pass = NoPass
    /\ session' = "closed" /\ shown' = {} /\ sel' = NoId
    /\ UNCHANGED <<memberVars, cached, anon, row, queued, pass, origin, faults>>

Crash ==
    /\ pass # NoPass
    /\ faults < budget.faults
    /\ faults' = faults + 1
    /\ session' = "closed" /\ shown' = {} /\ sel' = NoId
    /\ pass' = NoPass
    /\ UNCHANGED <<memberVars, cached, anon, row, queued, origin>>

SelectProject(p) ==
    /\ p \in shown \ {sel}
    /\ sel' = p
    /\ UNCHANGED <<memberVars, cached, anon, row, queued, session, shown, pass,
                   origin, faults>>

\* create_project: on the server, or in the table when there is no session.
CreateProject ==
    /\ session # "closed"
    /\ Cardinality(cached) <= budget.made
    /\ IF session = "online"
       THEN \E s \in Some(FreshServerId) :
               /\ Spare
               /\ project' = Created(s, me)
               /\ origin' = [origin EXCEPT ![s] = s]
               /\ cached' = SyncedProjects(Listed(me) \cup {s})
               /\ Loads(WithSyncable(Listed(me) \cup {s}, cached'), s)
               /\ UNCHANGED anon
       ELSE \E l \in Some(FreshLocalId) :
               /\ cached' = cached \cup {l}
               /\ anon' = IF session = "anon" THEN anon \cup {l} ELSE anon
               /\ Loads(VisibleCached(session) \cup {l}, l)
               /\ UNCHANGED <<project, origin>>
    /\ UNCHANGED <<change, changes, budget, excused, row, queued, session, pass, faults>>

\* A save of a new record: row and outbox entry in one transaction, which a
\* foreign key to a missing project rolls back.
CreateRecord(r) ==
    /\ sel # NoId
    /\ row[r] = NoId
    /\ Cardinality({q \in Record : row[q] # NoId}) < budget.recs
    /\ r \in Guarded => sel \in cached
    /\ row' = [row EXCEPT ![r] = sel]
    /\ queued' = [queued EXCEPT ![r] = sel]
    /\ UNCHANGED <<memberVars, cached, anon, session, shown, sel, pass, origin,
                   faults>>

-----------------------------------------------------------------------------
(* The background pass                                                     *)

\* list_sync_projects, then one project of its list; or the selected project
\* when the user asks (the button is disabled for a local-only project).
StartPass(p, auto) ==
    /\ pass = NoPass
    /\ session \in {"offline", "online"}
    /\ IF auto
       THEN /\ cached' = SyncedProjects(Listed(me))
            /\ p \in WithSyncable(Listed(me), cached')
       ELSE p = sel /\ p \notin anon /\ UNCHANGED cached
    /\ pass' = [pc |-> IF p \in LocalId THEN "publish" ELSE "push",
                id |-> p, old |-> NoId, auto |-> auto]
    /\ UNCHANGED <<memberVars, anon, row, queued, session, shown, sel, origin,
                   faults>>

\* _promote_local_project up to the answer of create_project. A project that
\* is not in the table, or was made without an account, is not published.
Publish ==
    /\ pass.pc = "publish"
    /\ IF pass.id \notin cached \/ pass.id \in anon
       THEN /\ pass' = [pass EXCEPT !.pc = "done"]
            /\ UNCHANGED <<project, origin>>
       ELSE \E s \in Some(FreshServerId) :
               /\ project' = Created(s, me)
               /\ origin' = [origin EXCEPT ![s] = pass.id]
               /\ pass' = [pass EXCEPT !.pc = "migrate", !.id = s,
                                       !.old = pass.id]
    /\ UNCHANGED <<change, changes, budget, excused, device, faults>>

\* A request of the pass fails, before the server acted or after. A manual
\* pass that cannot publish ends as a failed job, of which the window learns
\* nothing else.
RequestFails ==
    /\ pass.pc \in {"publish", "migrate", "push"}
    /\ faults < budget.faults
    /\ faults' = faults + 1
    /\ pass' = IF pass.pc # "push" /\ ~pass.auto THEN NoPass
               ELSE [pass EXCEPT !.pc = "done",
                                 !.old = IF pass.pc = "migrate" THEN NoId ELSE @]
    /\ UNCHANGED <<memberVars, device, origin>>

\* Mutant: the old project stays in the table beside the new one.
MigrateKeeping ==
    /\ pass.pc = "migrate"
    /\ cached' = cached \cup {pass.id}
    /\ row' = Moved(row, pass.old, pass.id)
    /\ queued' = Moved(queued, pass.old, pass.id)
    /\ pass' = [pass EXCEPT !.pc = "push"]
    /\ UNCHANGED <<memberVars, anon, session, shown, sel, origin, faults>>

\* The rest of _promote_local_project, one local transaction.
Migrate ==
    /\ pass.pc = "migrate"
    /\ cached' = (cached \ {pass.old}) \cup {pass.id}
    /\ row' = Moved(row, pass.old, pass.id)
    /\ queued' = Moved(queued, pass.old, pass.id)
    /\ pass' = [pass EXCEPT !.pc = "push"]
    /\ UNCHANGED <<memberVars, anon, session, shown, sel, origin, faults>>

\* The queued records of the project are sent; a user who may not write is
\* refused and they stay queued.
Push ==
    /\ pass.pc = "push"
    /\ pass' = [pass EXCEPT !.pc = "done"]
    /\ queued' = IF project[pass.id].live /\ AtLeast(pass.id, me, "member")
                 THEN Moved(queued, pass.id, NoId) ELSE queued
    /\ UNCHANGED <<memberVars, cached, anon, row, session, shown, sel, origin,
                   faults>>

\* The window hears of the end: a recovered session is adopted, and a
\* published project takes the place of the local one (_sync_succeeded,
\* _automatic_sync_succeeded).
Deliver ==
    LET wanted == IF pass.old # NoId /\ (~pass.auto \/ sel = pass.old)
                  THEN pass.id ELSE sel
    IN  /\ pass.pc = "done"
        /\ session' = "online"
        /\ pass' = NoPass
        /\ IF pass.old # NoId
           THEN /\ cached' = SyncedProjects(Listed(me))
                /\ Loads(WithSyncable(Listed(me), cached'), wanted)
           ELSE UNCHANGED <<cached, shown, sel>>
        /\ UNCHANGED <<memberVars, anon, row, queued, origin, faults>>

\* The same when the list cannot be read again after a publication: the pass
\* renames the project in its list, the button renames the selected item,
\* whichever that is by now.
DeliverUnlisted ==
    /\ pass.pc = "done" /\ pass.old # NoId
    /\ faults < budget.faults
    /\ faults' = faults + 1
    /\ session' = "online"
    /\ pass' = NoPass
    /\ IF pass.auto
       THEN Loads((shown \ {pass.old}) \cup {pass.id},
                  IF sel = pass.old THEN pass.id ELSE sel)
       ELSE shown' = (shown \ {sel}) \cup {pass.id} /\ sel' = pass.id
    /\ UNCHANGED <<memberVars, cached, anon, row, queued, origin>>

-----------------------------------------------------------------------------

Init ==
    /\ MembersInit
    /\ cached = {} /\ anon = {}
    /\ row = [r \in Record |-> NoId]
    /\ queued = [r \in Record |-> NoId]
    /\ session = "closed" /\ shown = {} /\ sel = NoId
    /\ pass = NoPass
    /\ origin = [s \in ServerId |-> NoId]
    /\ faults = 0

PassStep == Publish \/ Migrate \/ Push \/ Deliver

Next ==
    \/ \E mode \in {"anon", "offline", "online"} : Start(mode)
    \/ \E p \in Id : SelectProject(p) \/ \E auto \in BOOLEAN : StartPass(p, auto)
    \/ \E r \in Record : CreateRecord(r)
    \/ Close \/ Crash \/ CreateProject \/ PassStep \/ RequestFails
    \/ DeliverUnlisted
    \/ MembersNext /\ UNCHANGED <<device, pass, origin, faults>>

Spec == Init /\ [][Next]_vars

\* The scheduler visits every project again and again while the program runs.
Fairness ==
    /\ WF_vars(PassStep)
    /\ \A p \in Id : SF_vars(StartPass(p, TRUE))

FairSpec == Spec /\ Fairness

-----------------------------------------------------------------------------
(* Properties                                                              *)

\* Tables and pass are well formed: members exist only of live projects, and
\* records are pushed only under an id the server gave out.
TypeOK ==
    /\ \A s \in ServerId, u \in User :
        project[s].role[u] \in Role \cup {"none"}
        /\ (project[s].role[u] # "none" => project[s].live)
    /\ cached \subseteq Id /\ anon \subseteq LocalId /\ shown \subseteq Id
    /\ sel \in Id \cup {NoId}
    /\ \A r \in Record : {row[r], queued[r]} \subseteq Id \cup {NoId}
    /\ session \in {"closed", "anon", "offline", "online"}
    /\ pass.pc \in {"idle", "publish", "migrate", "push", "done"}
    /\ pass.pc = "push" => pass.id \in ServerId

\* "This prevents data loss after promotion or during transient issues"
\* (project_store.py, sync_projects): an unsent record is in a project of the
\* table, and its outbox entry in the same one, whatever is published,
\* revoked, deleted on the server or migrated under an open window.
NoStrandedWork ==
    \A r \in Record : queued[r] # NoId =>
        queued[r] = row[r] /\ row[r] \in cached

\* A project is published once, and once more at most for every pass that
\* ended between the creation on the server and the local migration.
PublishedOnce ==
    \A l \in LocalId :
        Cardinality({s \in ServerId : origin[s] = l}) <= 1 + faults

\* What a user has created on a device survives publication, revocation and
\* a crash in between: in one place, and no more often than that (sync_projects,
\* _promote_local_project).
WorkSafe == TypeOK /\ NoStrandedWork /\ PublishedOnce

\* "Anonymous sessions see only anonymous projects; accounts see the rest"
\* (offline_first_facade.py): through restarts, bootstrap projects and
\* publication, and no anonymous project reaches the server.
AnonymousApart ==
    /\ session # "closed" =>
        \A p \in shown \cup {sel} : p \in LocalId =>
            (p \in anon) = (session = "anon")
    /\ \A s \in ServerId : origin[s] \notin anon

\* The user may not write to the project, or no pass visits it.
Hopeless(p) ==
    \/ session \in {"closed", "anon"}
    \/ p \in anon
    \/ p \in ServerId /\ ~(project[p].live /\ AtLeast(p, me, "member"))

\* Everything a user with an account creates is sent in the end, if the
\* user keeps the right to write and the program keeps running
\* (list_sync_projects, _with_syncable_local_projects).
EventuallySent ==
    \A r \in Record :
        []<>(queued[r] = NoId \/ Hopeless(queued[r]))

=============================================================================
