----------------------------- MODULE Membership -----------------------------
(***************************************************************************)
(* Projects and their members on the server (api/routers/projects.py,      *)
(* core/permissions.py, delete_project of api/routers/admin.py). A change  *)
(* of the members checks its conditions with some statements and writes    *)
(* with a later one: between them, on PostgreSQL, other requests commit.   *)
(***************************************************************************)
EXTENDS Naturals, FiniteSets

CONSTANTS
    User,
    Super,      \* users with is_superuser
    ServerId,   \* identifiers the server may give to projects
    NoId,
    Budget      \* bounds: what a behaviour may spend

ASSUME MembershipAssumption ==
    /\ IsFiniteSet(User) /\ IsFiniteSet(ServerId)
    /\ Super \subseteq User /\ NoId \notin ServerId
    /\ Budget \subseteq [changes : Nat, faults : Nat, recs : Nat, made : Nat]

VARIABLES
    project,   \* tables projects and project_members
    change,    \* the change of members each user has checked and not written
    changes,   \* how many were begun, deletions of projects included
    budget,    \* the member of Budget this behaviour has
    excused    \* history: projects whose last admin may have gone, because a
               \* superuser acted or two changes overlapped

memberVars == <<project, change, changes, budget, excused>>

-----------------------------------------------------------------------------

ROLE_RANK == [none |-> 0, viewer |-> 1, member |-> 2, manager |-> 3,
              admin |-> 4]
Role == DOMAIN ROLE_RANK \ {"none"}

Absent == [live |-> FALSE, role |-> [u \in User |-> "none"]]
NoChange == [on |-> NoId, target |-> NoId, role |-> "none", existed |-> FALSE]

\* get_member_role: superusers are admins wherever they are not members.
MemberRole(s, u) ==
    IF project[s].role[u] # "none" THEN project[s].role[u]
    ELSE IF u \in Super THEN "admin" ELSE "none"

\* require_min_role
AtLeast(s, u, min) == ROLE_RANK[MemberRole(s, u)] >= ROLE_RANK[min]

Admins(s) == {u \in User : project[s].role[u] = "admin"}

\* Mutant: one remaining admin may go.
NotLastAdminLax(s, actor) == actor \in Super \/ Cardinality(Admins(s)) >= 1

\* _ensure_not_last_admin
NotLastAdmin(s, actor) == actor \in Super \/ Cardinality(Admins(s)) > 1

\* list_projects of a user who is no superuser.
Listed(u) == {s \in ServerId : project[s].live /\ project[s].role[u] # "none"}

MembersInit ==
    /\ project = [s \in ServerId |-> Absent]
    /\ change = [u \in User |-> NoChange]
    /\ changes = 0
    /\ budget \in Budget
    /\ excused = {}

\* create_project: the project and its creator's membership in one commit.
Created(s, u) ==
    [project EXCEPT ![s] =
        [live |-> TRUE,
         role |-> [v \in User |-> IF v = u THEN "admin" ELSE "none"]]]

\* add_member, or remove_member when the role is "none", up to its last read.
CheckChange(u, s, target, role) ==
    LET old == project[s].role[target]
    IN  /\ change[u] = NoChange
        /\ changes < budget.changes
        /\ project[s].live
        /\ AtLeast(s, u, "admin")
        /\ role = "none" => old # "none"
        /\ target \in Super => u \in Super
        /\ old = "admin" /\ role # "admin" => NotLastAdmin(s, u)
        /\ change' = [change EXCEPT ![u] =
                         [on |-> s, target |-> target, role |-> role,
                          existed |-> old # "none"]]
        /\ changes' = changes + 1
        /\ UNCHANGED <<project, budget, excused>>

\* The row is written by its key: a row that vanished or appeared since the
\* check makes the statement fail.
CommitChange(u) ==
    LET c == change[u]
        current == c.existed = (project[c.on].role[c.target] # "none")
    IN  /\ c # NoChange
        /\ change' = [change EXCEPT ![u] = NoChange]
        /\ project' = IF project[c.on].live /\ current
                      THEN [project EXCEPT ![c.on].role[c.target] = c.role]
                      ELSE project
        /\ excused' = IF u \in Super \/ \E v \in User \ {u} : change[v].on = c.on
                      THEN excused \cup {c.on} ELSE excused
        /\ UNCHANGED <<changes, budget>>

\* delete_project: only for superusers, everything with it.
DeleteProject(u, s) ==
    /\ u \in Super
    /\ project[s].live
    /\ changes < budget.changes
    /\ changes' = changes + 1
    /\ project' = [project EXCEPT ![s] = Absent]
    /\ UNCHANGED <<change, budget, excused>>

MembersNext ==
    \/ \E u \in User, s \in ServerId :
          \/ \E target \in User, role \in {"none", "viewer", "admin"} :
                CheckChange(u, s, target, role)
          \/ DeleteProject(u, s)
    \/ \E u \in User : CommitChange(u)

-----------------------------------------------------------------------------

\* "Cannot downgrade or remove the last admin of the project"
\* (projects.py:39): a project keeps an admin through any sequence of changes
\* that do not overlap and are not a superuser's.
AdminRemains ==
    \A s \in ServerId :
        project[s].live /\ Admins(s) = {} => s \in excused

=============================================================================
