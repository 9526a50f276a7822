----------------------- MODULE ProjectLifecycle_proofs -----------------------
(***************************************************************************)
(* Proofs about ProjectLifecycle and Membership for every set of users,    *)
(* projects and records and every budget: the server keeps an admin in     *)
(* each project, the device keeps the user's work together through         *)
(* publication, and anonymous projects stay apart.                         *)
(***************************************************************************)
EXTENDS ProjectLifecycle, TLAPS, FiniteSetTheorems

AnyRole == Role \cup {"none"}
Changed == [on: ServerId, target: User, role: AnyRole, existed: BOOLEAN]

MembersType ==
    /\ project \in [ServerId -> [live: BOOLEAN, role: [User -> AnyRole]]]
    /\ change \in [User -> Changed \cup {NoChange}]
    /\ changes \in Nat
    /\ budget \in Budget
    /\ excused \subseteq ServerId
    /\ \A s \in ServerId, u \in User :
          project[s].role[u] # "none" => project[s].live

DeviceType ==
    /\ cached \subseteq Id /\ anon \subseteq LocalId /\ shown \subseteq Id
    /\ sel \in Id \cup {NoId}
    /\ row \in [Record -> Id \cup {NoId}]
    /\ queued \in [Record -> Id \cup {NoId}]
    /\ session \in {"closed", "anon", "offline", "online"}
    /\ pass \in [pc: {"idle", "publish", "migrate", "push", "done"},
                 id: Id \cup {NoId}, old: LocalId \cup {NoId}, auto: BOOLEAN]
    /\ origin \in [ServerId -> Id \cup {NoId}]
    /\ faults \in Nat

\* Where the pass is and what it has in hand.
PassPlaced ==
    /\ pass.pc = "publish" => pass.id \in LocalId /\ pass.old = NoId
    /\ pass.pc \in {"migrate", "push"} \/ pass.old # NoId =>
          pass.id \in ServerId
    /\ pass.pc = "migrate" => pass.old # NoId
    /\ pass.pc # "idle" => session \in {"offline", "online"}

\* An identifier that is in use was given out, and is not given out again.
GivenOut ==
    /\ \A s \in ServerId : project[s].live => origin[s] # NoId
    /\ \A u \in User : change[u] # NoChange => origin[change[u].on] # NoId

\* A checked change that takes an admin away leaves another one, as long as
\* no change that overlaps with it has been written.
ChangesSafe ==
    \A u \in User \ Super :
        LET c == change[u]
        IN  /\ c # NoChange
            /\ c.on \notin excused
            /\ c.role # "admin"
            /\ project[c.on].role[c.target] = "admin"
            => \E w \in User \ {c.target} : project[c.on].role[w] = "admin"

\* What was made of local project l on the server.
MadeOf(l) == {s \in ServerId : origin[s] = l}

\* A project in the table was published only by passes that failed, but for
\* the publication under way.
PublishedBefore ==
    \A l \in LocalId :
        Cardinality(MadeOf(l)) <=
            IF l \in cached /\ ~(pass.pc = "migrate" /\ pass.old = l)
            THEN faults ELSE 1 + faults

\* Records whose table references projects are kept together.
GuardedWork ==
    \A r \in Guarded : queued[r] # NoId =>
        queued[r] = row[r] /\ row[r] \in cached

MembersInv == MembersType /\ GivenOut /\ ChangesSafe /\ AdminRemains

DeviceInv ==
    DeviceType /\ PassPlaced /\ PublishedBefore /\ GuardedWork /\ AnonymousApart

IInv == MembersInv /\ DeviceInv

-----------------------------------------------------------------------------
(* The server                                                              *)

\* The constants' assumptions in the form the proofs use.
LEMMA Constants ==
    /\ IsFiniteSet(User) /\ IsFiniteSet(ServerId)
    /\ NoId \notin ServerId /\ NoId \notin LocalId
    /\ LocalId \cap ServerId = {}
    /\ me \in User /\ me \notin Super
    /\ Guarded \subseteq Record
    /\ AnyRole = {"none", "viewer", "member", "manager", "admin"}
BY MembershipAssumption, LifecycleAssumption DEF AnyRole, Role, ROLE_RANK

\* A change that was checked names a project, none names NoId.
LEMMA ChangeFacts ==
    ASSUME MembersType, NEW u \in User
    PROVE  /\ change[u] # NoChange => change[u] \in Changed
           /\ change[u] # NoChange <=> change[u].on # NoId
           /\ change[u].on \in ServerId => change[u] # NoChange
BY Constants DEF MembersType, Changed, NoChange

\* Steps of the device that create nothing on the server leave it alone.
LEMMA MembersStay ==
    ASSUME MembersInv, UNCHANGED memberVars, origin' = origin
    PROVE  MembersInv'
BY DEF MembersInv, memberVars, MembersType, GivenOut, ChangesSafe,
       AdminRemains, Admins

\* More than one admin: whoever goes, another one stays.
LEMMA AnotherAdmin ==
    ASSUME NEW s \in ServerId, NEW target \in User, Cardinality(Admins(s)) > 1
    PROVE  \E w \in User \ {target} : project[s].role[w] = "admin"
<1> SUFFICES ASSUME Admins(s) \subseteq {target} PROVE FALSE
  BY DEF Admins
<1>1. IsFiniteSet({target}) /\ Cardinality({target}) = 1
  BY FS_Singleton
<1>2. IsFiniteSet(Admins(s)) /\ Cardinality(Admins(s)) <= 1
  BY <1>1, FS_Subset
<1>3. Cardinality(Admins(s)) \in Nat
  BY <1>2, FS_CardinalityType
<1> QED BY <1>2, <1>3

\* create_project: a new identifier, with its creator as admin.
LEMMA CreatedSound ==
    ASSUME MembersInv, NEW s \in ServerId, origin[s] = NoId,
           NEW x \in Id, origin \in [ServerId -> Id \cup {NoId}],
           project' = Created(s, me), origin' = [origin EXCEPT ![s] = x],
           UNCHANGED <<change, changes, budget, excused>>
    PROVE  MembersInv'
<1> DEFINE new == [v \in User |-> IF v = me THEN "admin" ELSE "none"]
<1>1. /\ project'[s] = [live |-> TRUE, role |-> new]
      /\ \A t \in ServerId \ {s} : project'[t] = project[t]
      /\ project' \in [ServerId -> [live: BOOLEAN, role: [User -> AnyRole]]]
  BY Constants DEF MembersInv, MembersType, Created
<1>2. x # NoId /\ \A t \in ServerId : origin[t] # NoId => origin'[t] # NoId
  BY Constants DEF Id
<1>3. MembersType'
  <2>1. project'[s].live
    BY <1>1
  <2>2. ASSUME NEW t \in ServerId, NEW v \in User, project'[t].role[v] # "none"
        PROVE  project'[t].live
    BY <1>1, <2>1, <2>2 DEF MembersInv, MembersType
  <2> QED BY <1>1, <2>2 DEF MembersInv, MembersType
<1>4. GivenOut'
  <2>1. \A t \in ServerId : project'[t].live => origin'[t] # NoId
    BY <1>1, <1>2 DEF MembersInv, GivenOut
  <2>2. \A u \in User : change[u] # NoChange => origin'[change[u].on] # NoId
    BY <1>2, ChangeFacts DEF MembersInv, GivenOut, Changed
  <2> QED BY <2>1, <2>2 DEF GivenOut
<1>5. ChangesSafe'
  <2> SUFFICES ASSUME NEW u \in User \ Super, change[u] # NoChange,
                      change[u].on \notin excused,
                      change[u].role # "admin",
                      project'[change[u].on].role[change[u].target] = "admin"
               PROVE  \E w \in User \ {change[u].target} :
                          project'[change[u].on].role[w] = "admin"
    BY DEF ChangesSafe
  <2>1. change[u].on \in ServerId /\ change[u].on # s
    BY ChangeFacts DEF MembersInv, GivenOut, Changed
  <2> QED BY <1>1, <2>1 DEF MembersInv, ChangesSafe
<1>6. AdminRemains'
  <2>1. project'[s].role[me] = "admin"
    BY <1>1, Constants
  <2> QED BY <1>1, <2>1, Constants DEF MembersInv, AdminRemains, Admins
<1> QED BY <1>3, <1>4, <1>5, <1>6 DEF MembersInv

\* add_member and remove_member up to their last read.
LEMMA CheckChangeSound ==
    ASSUME MembersInv, NEW u \in User, NEW s \in ServerId,
           NEW target \in User, NEW role \in {"none", "viewer", "admin"},
           CheckChange(u, s, target, role), origin' = origin
    PROVE  MembersInv'
<1> DEFINE c == [on |-> s, target |-> target, role |-> role,
                 existed |-> project[s].role[target] # "none"]
<1>1. /\ changes' = changes + 1 /\ project[s].live
      /\ change' = [change EXCEPT ![u] = c]
      /\ UNCHANGED <<project, budget, excused>>
  BY DEF CheckChange
<1>2. project[s].role[target] = "admin" /\ role # "admin" /\ u \notin Super =>
          Cardinality(Admins(s)) > 1
  BY DEF CheckChange, NotLastAdmin
<1>3. c \in Changed /\ c.on = s /\ c.target = target /\ c.role = role
  <2>1. (project[s].role[target] # "none") \in BOOLEAN
    OBVIOUS
  <2>2. role \in AnyRole
    BY Constants
  <2> QED BY <2>1, <2>2, Zenon DEF Changed
<1> HIDE DEF c
<1>4. MembersType'
  BY <1>1, <1>3 DEF MembersInv, MembersType
<1>5. change'[u] = c /\ \A v \in User \ {u} : change'[v] = change[v]
  BY <1>1 DEF MembersInv, MembersType
<1>6. GivenOut'
  BY <1>1, <1>3, <1>5 DEF MembersInv, GivenOut
<1>7. ChangesSafe'
  <2> SUFFICES ASSUME NEW v \in User \ Super, change'[v] # NoChange,
                      change'[v].on \notin excused,
                      change'[v].role # "admin",
                      project[change'[v].on].role[change'[v].target] = "admin"
               PROVE  \E w \in User \ {change'[v].target} :
                          project[change'[v].on].role[w] = "admin"
    BY <1>1 DEF ChangesSafe
  <2>1. CASE v = u
    BY <1>2, <1>3, <1>5, <2>1, AnotherAdmin
  <2>2. CASE v # u
    BY <1>5, <2>2 DEF MembersInv, ChangesSafe
  <2> QED BY <2>1, <2>2
<1>8. AdminRemains'
  BY <1>1 DEF MembersInv, AdminRemains, Admins
<1> QED BY <1>4, <1>6, <1>7, <1>8 DEF MembersInv

\* The statement that writes a change of the members.
LEMMA CommitChangeSound ==
    ASSUME MembersInv, NEW u \in User, CommitChange(u), origin' = origin
    PROVE  MembersInv'
<1> DEFINE c == change[u]
           s == c.on
           overlaps == \E v \in User \ {u} : change[v].on = s
<1>1. /\ c # NoChange
      /\ change' = [change EXCEPT ![u] = NoChange]
      /\ \/ project' = project
         \/ /\ project[s].live
            /\ project' = [project EXCEPT ![s].role[c.target] = c.role]
      /\ excused' = IF u \in Super \/ overlaps THEN excused \cup {s}
                    ELSE excused
      /\ UNCHANGED <<changes, budget>>
  BY DEF CommitChange
<1>2. c \in Changed /\ s \in ServerId /\ c.target \in User /\ c.role \in AnyRole
  BY <1>1, ChangeFacts DEF MembersInv, Changed
<1>3. change'[u] = NoChange /\ \A v \in User \ {u} : change'[v] = change[v]
  BY <1>1 DEF MembersInv, MembersType
<1>4. /\ project' \in [ServerId -> [live: BOOLEAN, role: [User -> AnyRole]]]
      /\ \A t \in ServerId : project'[t].live = project[t].live
      /\ \A t \in ServerId \ {s} : project'[t] = project[t]
      /\ \A v \in User \ {c.target} :
            project'[s].role[v] = project[s].role[v]
      /\ project' # project => /\ project'[s].role[c.target] = c.role
                               /\ project[s].live
  <2>1. project \in [ServerId -> [live: BOOLEAN, role: [User -> AnyRole]]]
    BY DEF MembersInv, MembersType
  <2>2. CASE project' = project
    BY <2>1, <2>2
  <2>3. CASE project' = [project EXCEPT ![s].role[c.target] = c.role]
             /\ project[s].live
    BY <1>2, <2>1, <2>3
  <2> QED BY <1>1, <2>2, <2>3
<1> HIDE DEF c
<1>5. MembersType'
  <2>1. change' \in [User -> Changed \cup {NoChange}]
    BY <1>1 DEF MembersInv, MembersType
  <2>2. excused' \subseteq ServerId
    BY <1>1, <1>2 DEF MembersInv, MembersType
  <2>3. ASSUME NEW t \in ServerId, NEW v \in User, project'[t].role[v] # "none"
        PROVE  project'[t].live
    <3>1. CASE project' = project
      BY <2>3, <3>1 DEF MembersInv, MembersType
    <3>2. CASE project' # project
      <4>1. CASE t # s
        BY <1>4, <2>3, <4>1 DEF MembersInv, MembersType
      <4>2. CASE t = s
        <5>1. project[s].live
          BY <1>4, <3>2
        <5> QED BY <1>4, <4>2, <5>1
      <4> QED BY <4>1, <4>2
    <3> QED BY <3>1, <3>2
  <2> QED BY <1>1, <1>4, <2>1, <2>2, <2>3 DEF MembersInv, MembersType
<1>6. GivenOut'
  <2>1. \A t \in ServerId : project'[t].live => origin[t] # NoId
    BY <1>4 DEF MembersInv, GivenOut
  <2>2. \A v \in User : change'[v] # NoChange => origin[change'[v].on] # NoId
    BY <1>3 DEF MembersInv, GivenOut
  <2> QED BY <2>1, <2>2 DEF GivenOut
<1>7. ChangesSafe'
  <2> SUFFICES ASSUME NEW v \in User \ Super, change'[v] # NoChange,
                      change'[v].on \notin excused',
                      change'[v].role # "admin",
                      project'[change'[v].on].role[change'[v].target] = "admin"
               PROVE  \E w \in User \ {change'[v].target} :
                          project'[change'[v].on].role[w] = "admin"
    BY DEF ChangesSafe
  <2>1. v # u /\ change'[v] = change[v]
    BY <1>3
  <2>2. change[v].on \in ServerId
    BY <2>1, ChangeFacts DEF MembersInv, Changed
  <2>3. change[v].on # s
    BY <1>1, <2>1
  <2>4. change[v].on \notin excused /\ project'[change[v].on] = project[change[v].on]
    BY <1>1, <1>4, <2>1, <2>2, <2>3
  <2> QED BY <2>1, <2>4 DEF MembersInv, ChangesSafe
<1>8. AdminRemains'
  <2> SUFFICES ASSUME NEW t \in ServerId, project'[t].live, t \notin excused'
               PROVE  \E w \in User : project'[t].role[w] = "admin"
    BY DEF AdminRemains, Admins
  <2>1. t \notin excused /\ project[t].live
    BY <1>1, <1>4
  <2>2. PICK w \in User : project[t].role[w] = "admin"
    BY <2>1 DEF MembersInv, AdminRemains, Admins
  <2>3. CASE t # s
    BY <1>4, <2>2, <2>3
  <2>4. CASE t = s
    <3>1. u \notin Super
      BY <1>1, <2>4
    <3>2. CASE w # c.target
      BY <1>4, <2>2, <2>4, <3>2
    <3>3. CASE w = c.target /\ c.role # "admin"
      <4>1. \E x \in User \ {c.target} : project[s].role[x] = "admin"
        BY <1>1, <2>1, <2>2, <2>4, <3>1, <3>3 DEF MembersInv, ChangesSafe, c
      <4> QED BY <1>4, <2>4, <4>1
    <3>4. CASE w = c.target /\ c.role = "admin"
      BY <1>2, <1>4, <2>2, <2>4, <3>4
    <3> QED BY <3>2, <3>3, <3>4
  <2> QED BY <2>3, <2>4
<1> QED BY <1>5, <1>6, <1>7, <1>8 DEF MembersInv

\* delete_project takes the members with the project.
LEMMA DeleteProjectSound ==
    ASSUME MembersInv, NEW u \in User, NEW s \in ServerId,
           DeleteProject(u, s), origin' = origin
    PROVE  MembersInv'
<1>1. /\ changes' = changes + 1
      /\ project' = [project EXCEPT ![s] = Absent]
      /\ UNCHANGED <<change, budget, excused>>
  BY DEF DeleteProject
<1>2. Absent \in [live: BOOLEAN, role: [User -> AnyRole]]
  BY DEF Absent, AnyRole
<1>3. /\ project' \in [ServerId -> [live: BOOLEAN, role: [User -> AnyRole]]]
      /\ ~project'[s].live /\ \A v \in User : project'[s].role[v] = "none"
      /\ \A t \in ServerId \ {s} : project'[t] = project[t]
  BY <1>1, <1>2 DEF MembersInv, MembersType, Absent
<1>4. MembersType'
  BY <1>1, <1>3 DEF MembersInv, MembersType
<1>5. GivenOut'
  BY <1>1, <1>3 DEF MembersInv, GivenOut
<1>6. AdminRemains'
  BY <1>1, <1>3 DEF MembersInv, AdminRemains, Admins
<1>7. ChangesSafe'
  <2> SUFFICES ASSUME NEW v \in User \ Super, change[v] # NoChange,
                      change[v].on \notin excused,
                      change[v].role # "admin",
                      project'[change[v].on].role[change[v].target] = "admin"
               PROVE  \E w \in User \ {change[v].target} :
                          project'[change[v].on].role[w] = "admin"
    BY <1>1 DEF ChangesSafe
  <2>1. change[v].on \in ServerId /\ change[v].target \in User
    BY ChangeFacts DEF MembersInv, Changed
  <2>2. change[v].on # s
    BY <1>3, <2>1
  <2> QED BY <1>3, <2>1, <2>2 DEF MembersInv, ChangesSafe
<1> QED BY <1>4, <1>5, <1>6, <1>7 DEF MembersInv

\* Whatever the members' handlers do.
LEMMA MembersNextSound ==
    ASSUME MembersInv, MembersNext, origin' = origin
    PROVE  MembersInv'
BY CheckChangeSound, CommitChangeSound, DeleteProjectSound DEF MembersNext

-----------------------------------------------------------------------------
(* The tables of the device                                                *)

\* Identifiers that are taken are free.
LEMMA FreeIds ==
    /\ \A s \in Some(FreshServerId) : s \in ServerId /\ origin[s] = NoId
    /\ \A l \in Some(FreshLocalId) :
          /\ l \in LocalId /\ l \notin cached /\ l \notin anon
          /\ MadeOf(l) = {}
<1>1. ASSUME NEW S, NEW x \in Some(S) PROVE x \in S
  <2>1. S # {} /\ x = CHOOSE y \in S : TRUE
    BY <1>1 DEF Some
  <2> QED BY <2>1
<1> QED BY <1>1 DEF FreshServerId, FreshLocalId, MadeOf

\* The sidebar shows the list; the selection is in it or as wanted.
LEMMA LoadsFacts ==
    ASSUME NEW list, NEW wanted, Loads(list, wanted)
    PROVE  shown' = list /\ (sel' \in list \/ sel' = wanted)
BY DEF Loads

\* sync_projects keeps local projects and those with local data.
LEMMA SyncedFacts ==
    ASSUME DeviceType, NEW listed \in SUBSET ServerId
    PROVE  LET table == SyncedProjects(listed)
           IN  /\ table \subseteq Id
               /\ \A l \in LocalId : l \in table <=> l \in cached
               /\ \A r \in Record : row[r] \in cached => row[r] \in table
               /\ WithSyncable(listed, table) \subseteq Id
               /\ \A p \in WithSyncable(listed, table) :
                     p \in LocalId => p \notin anon
BY Constants DEF DeviceType, SyncedProjects, HasLocalData, WithSyncable, Id

\* The server lists its own projects.
LEMMA ListedFacts == Listed(me) \in SUBSET ServerId
BY DEF Listed

\* The project table may grow by projects that were never published.
LEMMA PublishedKept ==
    ASSUME DeviceType, PublishedBefore, origin' = origin,
           faults' \in Nat, faults <= faults',
           \A l \in LocalId : l \in cached' => l \in cached \/ MadeOf(l) = {},
           \/ faults + 1 <= faults'
           \/ pass.pc = "migrate" =>
                 \/ pass'.pc = "migrate" /\ pass'.old = pass.old
                 \/ pass.old \notin cached'
    PROVE  PublishedBefore'
<1> SUFFICES ASSUME NEW l \in LocalId
             PROVE  Cardinality(MadeOf(l)) <=
                        IF l \in cached' /\ ~(pass'.pc = "migrate"
                                             /\ pass'.old = l)
                        THEN faults' ELSE 1 + faults'
  BY DEF PublishedBefore, MadeOf
<1>1. faults \in Nat
  BY DEF DeviceType
<1>2. IsFiniteSet(MadeOf(l)) /\ Cardinality(MadeOf(l)) \in Nat
  BY Constants, FS_Subset, FS_CardinalityType DEF MadeOf
<1>3. Cardinality(MadeOf(l)) <=
          IF l \in cached /\ ~(pass.pc = "migrate" /\ pass.old = l)
          THEN faults ELSE 1 + faults
  BY DEF PublishedBefore
<1>4. Cardinality(MadeOf(l)) <= 1 + faults
  BY <1>1, <1>2, <1>3
<1>5. CASE faults + 1 <= faults'
  BY <1>1, <1>2, <1>4, <1>5
<1>6. CASE /\ l \in cached' /\ ~(pass'.pc = "migrate" /\ pass'.old = l)
           /\ ~(faults + 1 <= faults')
  <2>1. CASE MadeOf(l) = {}
    BY <1>1, <1>2, <1>6, <2>1, FS_EmptySet
  <2>2. CASE MadeOf(l) # {}
    <3>1. l \in cached /\ ~(pass.pc = "migrate" /\ pass.old = l)
      BY <1>6, <2>2
    <3> QED BY <1>1, <1>2, <1>3, <1>6, <3>1
  <2> QED BY <2>1, <2>2
<1>7. CASE ~(l \in cached' /\ ~(pass'.pc = "migrate" /\ pass'.old = l))
  BY <1>1, <1>2, <1>4, <1>7
<1> QED BY <1>5, <1>6, <1>7

\* What list_projects of the facade leaves in the tables and the window.
LEMMA LoadProjectsFacts ==
    ASSUME DeviceType, NEW mode \in {"anon", "offline", "online"},
           NEW wanted, NEW reached \in BOOLEAN,
           LoadProjects(mode, wanted, reached)
    PROVE  /\ cached' \subseteq Id /\ shown' \subseteq Id
           /\ sel' \in shown' \/ sel' = wanted
           /\ \A r \in Record : row[r] \in cached => row[r] \in cached'
           /\ \A l \in LocalId :
                 l \in cached' => l \in cached \/ MadeOf(l) = {}
           /\ anon' \subseteq LocalId
           /\ \A l \in anon' : l \in anon \/ MadeOf(l) = {}
           /\ \A p \in shown' : p \in LocalId => (p \in anon' <=> mode = "anon")
<1>1. CASE mode = "online" /\ reached
  <2> DEFINE table == SyncedProjects(Listed(me))
  <2>1. /\ cached' = table /\ anon' = anon
        /\ Loads(WithSyncable(Listed(me), table), wanted)
    BY <1>1 DEF LoadProjects
  <2>2. /\ shown' = WithSyncable(Listed(me), table)
        /\ sel' \in shown' \/ sel' = wanted
    BY <2>1, LoadsFacts
  <2>3. /\ table \subseteq Id
        /\ \A l \in LocalId : l \in table <=> l \in cached
        /\ \A r \in Record : row[r] \in cached => row[r] \in table
        /\ WithSyncable(Listed(me), table) \subseteq Id
        /\ \A p \in WithSyncable(Listed(me), table) :
              p \in LocalId => p \notin anon
    BY SyncedFacts, ListedFacts
  <2> HIDE DEF table
  <2> QED BY <1>1, <2>1, <2>2, <2>3 DEF DeviceType
<1>2. CASE /\ ~(mode = "online" /\ reached)
           /\ VisibleCached(mode) # {} \/ mode = "online"
  <2>1. cached' = cached /\ anon' = anon /\ Loads(VisibleCached(mode), wanted)
    BY <1>2 DEF LoadProjects
  <2>2. shown' = VisibleCached(mode) /\ (sel' \in shown' \/ sel' = wanted)
    BY <2>1, LoadsFacts
  <2>3. VisibleCached(mode) \subseteq cached
        /\ \A p \in VisibleCached(mode) : p \in anon <=> mode = "anon"
    BY DEF VisibleCached
  <2> QED BY <2>1, <2>2, <2>3 DEF DeviceType
<1>3. CASE ~(VisibleCached(mode) # {} \/ mode = "online")
  <2>1. PICK l \in Some(FreshLocalId) :
            /\ cached' = cached \cup {l}
            /\ anon' = IF mode = "anon" THEN anon \cup {l} ELSE anon
            /\ Loads({l}, wanted)
    BY <1>3 DEF LoadProjects
  <2>2. shown' = {l} /\ (sel' \in shown' \/ sel' = wanted)
    BY <2>1, LoadsFacts
  <2>3. l \in LocalId /\ l \notin anon /\ MadeOf(l) = {}
    BY FreeIds
  <2> QED BY <2>1, <2>2, <2>3 DEF DeviceType, Id
<1> QED BY <1>1, <1>2, <1>3

-----------------------------------------------------------------------------
(* Steps of the device                                                     *)

\* What an unchanged record of a guarded table needs.
LEMMA WorkKept ==
    ASSUME GuardedWork, row' = row, queued' = queued,
           \A r \in Record : row[r] \in cached => row[r] \in cached'
    PROVE  GuardedWork'
BY Constants DEF GuardedWork

\* Steps of the server alone.
LEMMA DeviceStays ==
    ASSUME DeviceInv, UNCHANGED <<device, pass, origin, faults>>
    PROVE  DeviceInv'
BY DEF DeviceInv, device, DeviceType, PassPlaced, PublishedBefore, MadeOf,
       GuardedWork, AnonymousApart

\* The program starts.
LEMMA StartSound ==
    ASSUME DeviceInv, NEW mode \in {"anon", "offline", "online"}, Start(mode)
    PROVE  DeviceInv'
<1>1. /\ session = "closed" /\ session' = mode
      /\ UNCHANGED <<row, queued, pass, origin, faults>>
      /\ \E reached \in BOOLEAN : LoadProjects(mode, NoId, reached)
  BY DEF Start
<1>2. DeviceType /\ PassPlaced /\ pass.pc = "idle"
  BY <1>1 DEF DeviceInv, PassPlaced, DeviceType
<1>3. /\ cached' \subseteq Id /\ shown' \subseteq Id
      /\ sel' \in shown' \/ sel' = NoId
      /\ \A r \in Record : row[r] \in cached => row[r] \in cached'
      /\ \A l \in LocalId : l \in cached' => l \in cached \/ MadeOf(l) = {}
      /\ anon' \subseteq LocalId
      /\ \A l \in anon' : l \in anon \/ MadeOf(l) = {}
      /\ \A p \in shown' : p \in LocalId => (p \in anon' <=> mode = "anon")
  BY <1>1, <1>2, LoadProjectsFacts
<1>4. DeviceType'
  BY <1>1, <1>2, <1>3 DEF DeviceType
<1>5. PassPlaced'
  BY <1>1, <1>2 DEF PassPlaced
<1>6. PublishedBefore'
  BY <1>1, <1>2, <1>3, PublishedKept DEF DeviceInv, DeviceType
<1>7. GuardedWork'
  BY <1>1, <1>3, WorkKept DEF DeviceInv
<1>8. AnonymousApart'
  <2>1. \A p \in shown' \cup {sel'} : p \in LocalId =>
            (p \in anon' <=> mode = "anon")
    BY <1>3, Constants
  <2>2. \A s \in ServerId : origin[s] \notin anon'
    BY <1>3 DEF DeviceInv, AnonymousApart, MadeOf
  <2> QED BY <1>1, <2>1, <2>2 DEF AnonymousApart
<1> QED BY <1>4, <1>5, <1>6, <1>7, <1>8 DEF DeviceInv

\* The program ends, or is ended during a pass.
LEMMA CloseSound ==
    ASSUME DeviceInv, Close \/ Crash
    PROVE  DeviceInv'
<1>1. /\ session' = "closed" /\ shown' = {} /\ sel' = NoId
      /\ pass' = NoPass
      /\ UNCHANGED <<cached, anon, row, queued, origin>>
      /\ \/ pass = NoPass /\ faults' = faults
         \/ faults' = faults + 1
  BY DEF Close, Crash
<1>2. DeviceType /\ faults \in Nat
  BY DEF DeviceInv, DeviceType
<1>3. NoPass \in [pc: {"idle", "publish", "migrate", "push", "done"},
                  id: Id \cup {NoId}, old: LocalId \cup {NoId}, auto: BOOLEAN]
      /\ NoPass.pc = "idle" /\ NoPass.old = NoId
  BY DEF NoPass
<1>4. DeviceType'
  BY <1>1, <1>2, <1>3 DEF DeviceType
<1>5. PassPlaced'
  BY <1>1, <1>3 DEF PassPlaced
<1>6. PublishedBefore'
  BY <1>1, <1>2, <1>3, PublishedKept DEF DeviceInv
<1>7. GuardedWork' /\ AnonymousApart'
  BY <1>1 DEF DeviceInv, GuardedWork, AnonymousApart
<1> QED BY <1>4, <1>5, <1>6, <1>7 DEF DeviceInv

\* Another project is selected.
LEMMA SelectProjectSound ==
    ASSUME DeviceInv, NEW p \in Id, SelectProject(p)
    PROVE  DeviceInv'
<1>1. /\ p \in shown /\ sel' = p
      /\ UNCHANGED <<cached, anon, row, queued, session, shown, pass, origin,
                     faults>>
  BY DEF SelectProject
<1>2. DeviceType' /\ PassPlaced' /\ PublishedBefore' /\ GuardedWork'
  BY <1>1 DEF DeviceInv, DeviceType, PassPlaced, PublishedBefore, MadeOf,
              GuardedWork
<1>3. AnonymousApart'
  BY <1>1 DEF DeviceInv, AnonymousApart
<1> QED BY <1>2, <1>3 DEF DeviceInv

\* create_project, on the server or in the table.
LEMMA CreateProjectSound ==
    ASSUME DeviceInv, CreateProject
    PROVE  DeviceInv'
<1>1. /\ session # "closed"
      /\ UNCHANGED <<row, queued, session, pass, faults>>
  BY DEF CreateProject
<1>2. DeviceType /\ PassPlaced /\ PublishedBefore /\ GuardedWork
      /\ AnonymousApart /\ faults \in Nat
  BY DEF DeviceInv, DeviceType
<1>3. PassPlaced'
  BY <1>1, <1>2 DEF PassPlaced
<1>4. CASE session = "online"
  <2>1. PICK s \in Some(FreshServerId) :
            /\ origin' = [origin EXCEPT ![s] = s]
            /\ cached' = SyncedProjects(Listed(me) \cup {s})
            /\ Loads(WithSyncable(Listed(me) \cup {s}, cached'), s)
            /\ anon' = anon
    BY <1>4 DEF CreateProject
  <2>2. s \in ServerId /\ origin[s] = NoId /\ s \in Id /\ s \notin LocalId
    BY FreeIds, Constants DEF Id
  <2> DEFINE listed == Listed(me) \cup {s}
  <2>3. listed \in SUBSET ServerId
    BY <2>2, ListedFacts
  <2>4. /\ cached' \subseteq Id
        /\ \A l \in LocalId : l \in cached' <=> l \in cached
        /\ \A r \in Record : row[r] \in cached => row[r] \in cached'
        /\ WithSyncable(listed, cached') \subseteq Id
        /\ \A p \in WithSyncable(listed, cached') :
              p \in LocalId => p \notin anon
    BY <1>2, <2>1, <2>3, SyncedFacts
  <2>5. shown' = WithSyncable(listed, cached')
        /\ (sel' \in shown' \/ sel' = s)
    BY <2>1, LoadsFacts
  <2> HIDE DEF listed
  <2>6. DeviceType'
    BY <1>1, <1>2, <2>1, <2>2, <2>4, <2>5 DEF DeviceType
  <2>7. \A l \in LocalId : MadeOf(l)' = MadeOf(l)
    BY <1>2, <2>1, <2>2, Constants DEF MadeOf, DeviceType
  <2>8. PublishedBefore'
    BY <1>1, <1>2, <2>4, <2>7 DEF PublishedBefore
  <2>9. GuardedWork'
    BY <1>1, <1>2, <2>4, WorkKept
  <2>10. AnonymousApart'
    <3>1. \A p \in shown' \cup {sel'} : p \in LocalId => p \notin anon
      BY <2>2, <2>4, <2>5
    <3>2. \A t \in ServerId : origin'[t] \notin anon
      BY <1>2, <2>1, <2>2 DEF AnonymousApart, DeviceType
    <3> QED BY <1>1, <1>4, <2>1, <3>1, <3>2 DEF AnonymousApart
  <2> QED BY <1>3, <2>6, <2>8, <2>9, <2>10 DEF DeviceInv
<1>5. CASE session # "online"
  <2>1. PICK l \in Some(FreshLocalId) :
            /\ cached' = cached \cup {l}
            /\ anon' = IF session = "anon" THEN anon \cup {l} ELSE anon
            /\ Loads(VisibleCached(session) \cup {l}, l)
            /\ origin' = origin
    BY <1>5 DEF CreateProject
  <2>2. l \in LocalId /\ l \notin anon /\ MadeOf(l) = {} /\ l \in Id
    BY FreeIds DEF Id
  <2>3. shown' = VisibleCached(session) \cup {l} /\ sel' \in shown'
    BY <2>1, LoadsFacts
  <2>4. VisibleCached(session) \subseteq cached
        /\ \A p \in VisibleCached(session) : p \in anon <=> session = "anon"
    BY DEF VisibleCached
  <2>5. DeviceType'
    BY <1>1, <1>2, <2>1, <2>2, <2>3, <2>4 DEF DeviceType
  <2>6. PublishedBefore'
    BY <1>1, <1>2, <2>1, <2>2, PublishedKept
  <2>7. GuardedWork'
    BY <1>1, <1>2, <2>1, WorkKept
  <2>8. AnonymousApart'
    <3>1. \A p \in shown' \cup {sel'} : p \in anon' <=> session = "anon"
      BY <2>1, <2>2, <2>3, <2>4
    <3>2. \A t \in ServerId : origin[t] \notin anon'
      BY <1>2, <2>1, <2>2 DEF AnonymousApart, MadeOf
    <3> QED BY <1>1, <2>1, <3>1, <3>2 DEF AnonymousApart
  <2> QED BY <1>3, <2>5, <2>6, <2>7, <2>8 DEF DeviceInv
<1> QED BY <1>4, <1>5

\* A new record goes with its outbox entry into the selected project.
LEMMA CreateRecordSound ==
    ASSUME DeviceInv, NEW r \in Record, CreateRecord(r)
    PROVE  DeviceInv'
<1>1. /\ sel # NoId
      /\ r \in Guarded => sel \in cached
      /\ row' = [row EXCEPT ![r] = sel]
      /\ queued' = [queued EXCEPT ![r] = sel]
      /\ UNCHANGED <<cached, anon, session, shown, sel, pass, origin, faults>>
  BY DEF CreateRecord
<1>2. DeviceType'
  BY <1>1 DEF DeviceInv, DeviceType
<1>3. PassPlaced' /\ PublishedBefore' /\ AnonymousApart'
  BY <1>1 DEF DeviceInv, PassPlaced, PublishedBefore, MadeOf, AnonymousApart
<1>4. GuardedWork'
  BY <1>1, Constants DEF DeviceInv, DeviceType, GuardedWork
<1> QED BY <1>2, <1>3, <1>4 DEF DeviceInv

\* A pass begins.
LEMMA StartPassSound ==
    ASSUME DeviceInv, NEW p \in Id, NEW auto \in BOOLEAN, StartPass(p, auto)
    PROVE  DeviceInv'
<1> DEFINE pc == IF p \in LocalId THEN "publish" ELSE "push"
<1>1. /\ pass = NoPass /\ session \in {"offline", "online"}
      /\ cached' = cached \/ cached' = SyncedProjects(Listed(me))
      /\ pass' = [pc |-> pc, id |-> p, old |-> NoId, auto |-> auto]
      /\ UNCHANGED <<anon, row, queued, session, shown, sel, origin, faults>>
  BY DEF StartPass
<1>2. DeviceType /\ PublishedBefore /\ GuardedWork /\ AnonymousApart
      /\ faults \in Nat
  BY DEF DeviceInv, DeviceType
<1>3. /\ cached' \subseteq Id
      /\ \A l \in LocalId : l \in cached' <=> l \in cached
      /\ \A r \in Record : row[r] \in cached => row[r] \in cached'
  BY <1>1, <1>2, SyncedFacts, ListedFacts DEF DeviceType
<1>4. /\ pass'.pc = pc /\ pass'.id = p /\ pass'.old = NoId
      /\ pass' \in [pc: {"idle", "publish", "migrate", "push", "done"},
                    id: Id \cup {NoId}, old: LocalId \cup {NoId},
                    auto: BOOLEAN]
  BY <1>1
<1>5. DeviceType'
  BY <1>1, <1>2, <1>3, <1>4 DEF DeviceType
<1>6. PassPlaced'
  BY <1>1, <1>4 DEF PassPlaced, Id
<1>7. PublishedBefore'
  BY <1>1, <1>2, <1>3, PublishedKept DEF NoPass
<1>8. GuardedWork'
  BY <1>1, <1>2, <1>3, WorkKept
<1>9. AnonymousApart'
  BY <1>1, <1>2 DEF AnonymousApart
<1> QED BY <1>5, <1>6, <1>7, <1>8, <1>9 DEF DeviceInv

\* One more server project made of l.
LEMMA MadeOnce ==
    ASSUME DeviceType, NEW s \in ServerId, origin[s] = NoId,
           NEW l \in LocalId, origin' = [origin EXCEPT ![s] = l]
    PROVE  /\ Cardinality(MadeOf(l)) \in Nat
           /\ Cardinality(MadeOf(l)') = Cardinality(MadeOf(l)) + 1
           /\ \A k \in LocalId \ {l} : MadeOf(k)' = MadeOf(k)
<1>1. IsFiniteSet(MadeOf(l)) /\ Cardinality(MadeOf(l)) \in Nat
  BY Constants, FS_Subset, FS_CardinalityType DEF MadeOf
<1>2. MadeOf(l)' = MadeOf(l) \cup {s} /\ s \notin MadeOf(l)
  BY Constants DEF MadeOf, DeviceType
<1>3. \A k \in LocalId \ {l} : MadeOf(k)' = MadeOf(k)
  BY Constants DEF MadeOf, DeviceType
<1> QED BY <1>1, <1>2, <1>3, FS_AddElement

\* The fields of the pass when some of them are assigned.
LEMMA PassFields ==
    ASSUME DeviceType
    PROVE  /\ pass.id \in Id \cup {NoId} /\ pass.old \in LocalId \cup {NoId}
           /\ pass.pc \in {"idle", "publish", "migrate", "push", "done"}
           /\ \A pc \in {"idle", "publish", "migrate", "push", "done"},
                 id \in Id \cup {NoId}, old \in LocalId \cup {NoId} :
                 LET q == [pass EXCEPT !.pc = pc, !.id = id, !.old = old]
                 IN  /\ q.pc = pc /\ q.id = id /\ q.old = old
                     /\ q.auto = pass.auto
                     /\ q \in [pc: {"idle", "publish", "migrate", "push",
                                    "done"},
                               id: Id \cup {NoId},
                               old: LocalId \cup {NoId}, auto: BOOLEAN]
           /\ \A pc \in {"idle", "publish", "migrate", "push", "done"} :
                 [pass EXCEPT !.pc = pc] =
                     [pass EXCEPT !.pc = pc, !.id = pass.id, !.old = pass.old]
           /\ \A pc \in {"idle", "publish", "migrate", "push", "done"},
                 old \in LocalId \cup {NoId} :
                 [pass EXCEPT !.pc = pc, !.old = old] =
                     [pass EXCEPT !.pc = pc, !.id = pass.id, !.old = old]
BY DEF DeviceType

\* _promote_local_project up to the server's answer.
LEMMA PublishSound ==
    ASSUME DeviceInv, Publish
    PROVE  DeviceInv'
<1>1. pass.pc = "publish" /\ UNCHANGED <<device, faults>>
  BY DEF Publish
<1>2. /\ DeviceType /\ PassPlaced /\ PublishedBefore /\ GuardedWork
      /\ AnonymousApart /\ faults \in Nat
      /\ pass.id \in LocalId /\ pass.old = NoId
      /\ session \in {"offline", "online"}
  BY <1>1 DEF DeviceInv, DeviceType, PassPlaced
<1>3. CASE pass.id \notin cached \/ pass.id \in anon
  <2>1. pass' = [pass EXCEPT !.pc = "done"] /\ origin' = origin
    BY <1>3 DEF Publish
  <2>2. /\ pass'.pc = "done" /\ pass'.id = pass.id /\ pass'.old = NoId
        /\ pass' \in [pc: {"idle", "publish", "migrate", "push", "done"},
                      id: Id \cup {NoId}, old: LocalId \cup {NoId},
                      auto: BOOLEAN]
    BY <1>2, <2>1 DEF DeviceType
  <2>3. DeviceType'
    BY <1>1, <1>2, <2>1, <2>2 DEF DeviceType, device
  <2>4. PassPlaced'
    BY <1>1, <1>2, <2>2 DEF PassPlaced, device
  <2>5. PublishedBefore'
    BY <1>1, <1>2, <2>1, PublishedKept DEF device
  <2>6. GuardedWork' /\ AnonymousApart'
    BY <1>1, <1>2, <2>1 DEF GuardedWork, AnonymousApart, device
  <2> QED BY <2>3, <2>4, <2>5, <2>6 DEF DeviceInv
<1>4. CASE pass.id \in cached /\ pass.id \notin anon
  <2>1. PICK s \in Some(FreshServerId) :
            /\ origin' = [origin EXCEPT ![s] = pass.id]
            /\ pass' = [pass EXCEPT !.pc = "migrate", !.id = s,
                                    !.old = pass.id]
    BY <1>4 DEF Publish
  <2>2. s \in ServerId /\ origin[s] = NoId /\ s \in Id
    BY FreeIds DEF Id
  <2>3. /\ pass'.pc = "migrate" /\ pass'.id = s /\ pass'.old = pass.id
        /\ pass' \in [pc: {"idle", "publish", "migrate", "push", "done"},
                      id: Id \cup {NoId}, old: LocalId \cup {NoId},
                      auto: BOOLEAN]
    BY <1>2, <2>1, <2>2, PassFields
  <2>4. DeviceType'
    BY <1>1, <1>2, <2>1, <2>2, <2>3 DEF DeviceType, device, Id
  <2>5. PassPlaced'
    BY <1>1, <1>2, <2>2, <2>3, Constants DEF PassPlaced, device
  <2>6. PublishedBefore'
    <3>1. PICK l \in LocalId : l = pass.id
      BY <1>2
    <3>2. /\ Cardinality(MadeOf(l)) \in Nat
          /\ Cardinality(MadeOf(l)') = Cardinality(MadeOf(l)) + 1
          /\ \A k \in LocalId \ {l} : MadeOf(k)' = MadeOf(k)
      BY <1>2, <2>1, <2>2, <3>1, MadeOnce
    <3>3. Cardinality(MadeOf(l)) <= faults
      BY <1>1, <1>2, <1>4, <3>1 DEF PublishedBefore
    <3> SUFFICES ASSUME NEW k \in LocalId
                 PROVE  Cardinality(MadeOf(k)') <=
                            IF k \in cached' /\ ~(pass'.pc = "migrate"
                                                 /\ pass'.old = k)
                            THEN faults' ELSE 1 + faults'
      BY DEF PublishedBefore
    <3>4. CASE k = l
      BY <1>1, <1>2, <2>3, <3>1, <3>2, <3>3, <3>4
    <3>5. CASE k # l
      BY <1>1, <1>2, <2>3, <3>1, <3>2, <3>5 DEF PublishedBefore, device
    <3> QED BY <3>4, <3>5
  <2>7. GuardedWork'
    BY <1>1, <1>2 DEF GuardedWork, device
  <2>8. AnonymousApart'
    <3>1. \A t \in ServerId : origin'[t] \notin anon
      BY <1>2, <1>4, <2>1, <2>2 DEF AnonymousApart, DeviceType
    <3> QED BY <1>1, <1>2, <3>1 DEF AnonymousApart, device
  <2> QED BY <2>4, <2>5, <2>6, <2>7, <2>8 DEF DeviceInv
<1> QED BY <1>3, <1>4

\* A request of the pass fails.
LEMMA RequestFailsSound ==
    ASSUME DeviceInv, RequestFails
    PROVE  DeviceInv'
<1> DEFINE o == IF pass.pc = "migrate" THEN NoId ELSE pass.old
<1>1. /\ pass.pc \in {"publish", "migrate", "push"}
      /\ faults' = faults + 1 /\ UNCHANGED <<device, origin>>
      /\ pass' = NoPass \/ pass' = [pass EXCEPT !.pc = "done", !.old = o]
  <2>1. [pass EXCEPT !.pc = "done",
                     !.old = IF pass.pc = "migrate" THEN NoId ELSE @]
        = [pass EXCEPT !.pc = "done", !.old = o]
    BY DEF DeviceInv, DeviceType
  <2> QED BY <2>1 DEF RequestFails
<1>2. /\ DeviceType /\ PassPlaced /\ PublishedBefore /\ GuardedWork
      /\ AnonymousApart /\ faults \in Nat
      /\ session \in {"offline", "online"}
  BY <1>1 DEF DeviceInv, DeviceType, PassPlaced
<1>3. /\ pass'.pc \in {"idle", "done"}
      /\ pass'.old # NoId => pass'.id = pass.id /\ pass.old # NoId
      /\ pass' \in [pc: {"idle", "publish", "migrate", "push", "done"},
                    id: Id \cup {NoId}, old: LocalId \cup {NoId},
                    auto: BOOLEAN]
  <2>1. o \in LocalId \cup {NoId} /\ (o # NoId => pass.old # NoId)
    BY <1>2, PassFields
  <2>2. CASE pass' = NoPass
    BY <2>2 DEF NoPass
  <2>3. CASE pass' = [pass EXCEPT !.pc = "done", !.old = o]
    <3> HIDE DEF o
    <3> QED BY <1>2, <2>1, <2>3, PassFields
  <2> QED BY <1>1, <2>2, <2>3
<1>4. DeviceType'
  BY <1>1, <1>2, <1>3 DEF DeviceType, device
<1>5. PassPlaced'
  BY <1>1, <1>2, <1>3 DEF PassPlaced, device
<1>6. PublishedBefore'
  BY <1>1, <1>2, PublishedKept DEF device
<1>7. GuardedWork' /\ AnonymousApart'
  BY <1>1, <1>2 DEF GuardedWork, AnonymousApart, device
<1> QED BY <1>4, <1>5, <1>6, <1>7 DEF DeviceInv

\* The local rows move to the identifier of the server.
LEMMA MigrateSound ==
    ASSUME DeviceInv, Migrate
    PROVE  DeviceInv'
<1>1. /\ pass.pc = "migrate"
      /\ cached' = (cached \ {pass.old}) \cup {pass.id}
      /\ row' = Moved(row, pass.old, pass.id)
      /\ queued' = Moved(queued, pass.old, pass.id)
      /\ pass' = [pass EXCEPT !.pc = "push"]
      /\ UNCHANGED <<anon, session, shown, sel, origin, faults>>
  BY DEF Migrate
<1>2. /\ DeviceType /\ PassPlaced /\ PublishedBefore /\ GuardedWork
      /\ AnonymousApart /\ faults \in Nat
      /\ pass.id \in ServerId /\ pass.id \in Id /\ pass.id \notin LocalId
      /\ pass.id # NoId /\ pass.old # NoId
      /\ session \in {"offline", "online"}
  BY <1>1, Constants DEF DeviceInv, DeviceType, PassPlaced, Id
<1>3. /\ pass'.pc = "push" /\ pass'.id = pass.id /\ pass'.old = pass.old
      /\ pass' \in [pc: {"idle", "publish", "migrate", "push", "done"},
                    id: Id \cup {NoId}, old: LocalId \cup {NoId},
                    auto: BOOLEAN]
  BY <1>1, <1>2, PassFields
<1>4. \A r \in Record :
         /\ row'[r] = IF row[r] = pass.old THEN pass.id ELSE row[r]
         /\ queued'[r] = IF queued[r] = pass.old THEN pass.id ELSE queued[r]
  BY <1>1 DEF Moved
<1>5. DeviceType'
  BY <1>1, <1>2, <1>3 DEF DeviceType, Moved
<1>6. PassPlaced'
  BY <1>1, <1>2, <1>3 DEF PassPlaced
<1>7. PublishedBefore'
  BY <1>1, <1>2, <1>3, PublishedKept
<1>8. GuardedWork'
  <2> SUFFICES ASSUME NEW r \in Guarded, queued'[r] # NoId
               PROVE  queued'[r] = row'[r] /\ row'[r] \in cached'
    BY DEF GuardedWork
  <2>1. r \in Record
    BY Constants
  <2>2. CASE queued[r] = NoId
    BY <1>2, <1>4, <2>1, <2>2
  <2>3. CASE queued[r] # NoId
    BY <1>1, <1>2, <1>4, <2>1, <2>3 DEF GuardedWork
  <2> QED BY <2>2, <2>3
<1>9. AnonymousApart'
  BY <1>1, <1>2 DEF AnonymousApart
<1> QED BY <1>5, <1>6, <1>7, <1>8, <1>9 DEF DeviceInv

\* The queued records of a project are sent.
LEMMA PushSound ==
    ASSUME DeviceInv, Push
    PROVE  DeviceInv'
<1>1. /\ pass.pc = "push"
      /\ queued' = queued \/ queued' = Moved(queued, pass.id, NoId)
      /\ pass' = [pass EXCEPT !.pc = "done"]
      /\ UNCHANGED <<cached, anon, row, session, shown, sel, origin, faults>>
  BY DEF Push
<1>2. /\ DeviceType /\ PassPlaced /\ PublishedBefore /\ GuardedWork
      /\ AnonymousApart /\ faults \in Nat
      /\ pass.id \in ServerId /\ session \in {"offline", "online"}
  BY <1>1 DEF DeviceInv, DeviceType, PassPlaced
<1>3. /\ pass'.pc = "done" /\ pass'.id = pass.id /\ pass'.old = pass.old
      /\ pass' \in [pc: {"idle", "publish", "migrate", "push", "done"},
                    id: Id \cup {NoId}, old: LocalId \cup {NoId},
                    auto: BOOLEAN]
  BY <1>1, <1>2 DEF DeviceType
<1>4. DeviceType'
  BY <1>1, <1>2, <1>3 DEF DeviceType, Moved
<1>5. PassPlaced'
  BY <1>1, <1>2, <1>3 DEF PassPlaced
<1>6. PublishedBefore'
  BY <1>1, <1>2, PublishedKept
<1>7. GuardedWork'
  BY <1>1, <1>2, Constants DEF GuardedWork, Moved
<1>8. AnonymousApart'
  BY <1>1, <1>2 DEF AnonymousApart
<1> QED BY <1>4, <1>5, <1>6, <1>7, <1>8 DEF DeviceInv

\* The window hears of the end of a pass, and may reload the list.
LEMMA DeliverSound ==
    ASSUME DeviceInv, Deliver \/ DeliverUnlisted
    PROVE  DeviceInv'
<1>1. /\ pass.pc = "done" /\ session' = "online" /\ pass' = NoPass
      /\ UNCHANGED <<anon, row, queued, origin>>
      /\ faults' = faults \/ faults' = faults + 1
  BY DEF Deliver, DeliverUnlisted
<1>2. /\ DeviceType /\ PassPlaced /\ PublishedBefore /\ GuardedWork
      /\ AnonymousApart /\ faults \in Nat /\ faults' \in Nat
      /\ faults <= faults'
      /\ pass.old # NoId => pass.id \in ServerId
      /\ session \in {"offline", "online"}
      /\ \A p \in shown \cup {sel} : p \in LocalId => p \notin anon
  BY <1>1 DEF DeviceInv, DeviceType, PassPlaced, AnonymousApart
<1>3. /\ cached' \subseteq Id
      /\ \A l \in LocalId : l \in cached' <=> l \in cached
      /\ \A r \in Record : row[r] \in cached => row[r] \in cached'
      /\ shown' \subseteq Id /\ sel' \in Id \cup {NoId}
      /\ \A p \in shown' \cup {sel'} : p \in LocalId => p \notin anon
  <2>1. CASE Deliver /\ pass.old = NoId
    <3>1. UNCHANGED <<cached, shown, sel>>
      BY <2>1 DEF Deliver
    <3> QED BY <1>2, <3>1 DEF DeviceType
  <2>2. CASE Deliver /\ pass.old # NoId
    <3>1. PICK wanted \in {pass.id, sel} :
              /\ cached' = SyncedProjects(Listed(me))
              /\ Loads(WithSyncable(Listed(me), cached'), wanted)
      BY <2>2 DEF Deliver
    <3>2. /\ cached' \subseteq Id
          /\ \A l \in LocalId : l \in cached' <=> l \in cached
          /\ \A r \in Record : row[r] \in cached => row[r] \in cached'
          /\ WithSyncable(Listed(me), cached') \subseteq Id
          /\ \A p \in WithSyncable(Listed(me), cached') :
                p \in LocalId => p \notin anon
      BY <1>2, <3>1, SyncedFacts, ListedFacts
    <3>3. /\ shown' = WithSyncable(Listed(me), cached')
          /\ sel' \in shown' \/ sel' = wanted
      BY <3>1, LoadsFacts
    <3>4. /\ wanted \in Id \cup {NoId}
          /\ wanted \in LocalId => wanted \notin anon
      BY <1>2, <2>2, Constants DEF DeviceType, Id
    <3> QED BY <3>2, <3>3, <3>4
  <2>3. CASE DeliverUnlisted
    <3>1. pass.old # NoId /\ cached' = cached
      BY <2>3 DEF DeliverUnlisted
    <3>2. /\ shown' \subseteq shown \cup {pass.id}
          /\ sel' \in shown' \cup {pass.id, sel}
      BY <2>3, LoadsFacts DEF DeliverUnlisted
    <3>3. pass.id \in Id /\ pass.id \notin LocalId
      BY <1>2, <3>1, Constants DEF Id
    <3> QED BY <1>2, <3>1, <3>2, <3>3 DEF DeviceType
  <2> QED BY <2>1, <2>2, <2>3
<1>4. NoPass \in [pc: {"idle", "publish", "migrate", "push", "done"},
                  id: Id \cup {NoId}, old: LocalId \cup {NoId}, auto: BOOLEAN]
      /\ NoPass.pc = "idle" /\ NoPass.old = NoId
  BY DEF NoPass
<1>5. DeviceType'
  BY <1>1, <1>2, <1>3, <1>4 DEF DeviceType
<1>6. PassPlaced'
  BY <1>1, <1>4 DEF PassPlaced
<1>7. PublishedBefore'
  BY <1>1, <1>2, <1>3, PublishedKept
<1>8. GuardedWork'
  BY <1>1, <1>2, <1>3, WorkKept
<1>9. AnonymousApart'
  BY <1>1, <1>2, <1>3 DEF AnonymousApart
<1> QED BY <1>5, <1>6, <1>7, <1>8, <1>9 DEF DeviceInv

-----------------------------------------------------------------------------
(* The theorems                                                            *)

\* A server without projects and a device that was never used.
LEMMA InitSound == Init => IInv
<1> SUFFICES ASSUME Init PROVE IInv
  OBVIOUS
<1>1. Absent \in [live: BOOLEAN, role: [User -> AnyRole]]
      /\ ~Absent.live /\ \A u \in User : Absent.role[u] = "none"
  BY DEF Absent, AnyRole
<1>2. MembersType
  BY <1>1 DEF Init, MembersInit, MembersType
<1>3. GivenOut /\ ChangesSafe /\ AdminRemains
  BY <1>1 DEF Init, MembersInit, GivenOut, ChangesSafe, AdminRemains
<1>4. DeviceType /\ PassPlaced
  BY Constants DEF Init, DeviceType, PassPlaced, NoPass
<1>5. PublishedBefore
  <2>1. \A l \in LocalId : MadeOf(l) = {}
    BY Constants DEF Init, MadeOf
  <2> QED BY <2>1, FS_EmptySet DEF Init, PublishedBefore
<1>6. GuardedWork /\ AnonymousApart
  BY Constants DEF Init, GuardedWork, AnonymousApart
<1> QED BY <1>2, <1>3, <1>4, <1>5, <1>6 DEF IInv, MembersInv, DeviceInv

\* Every step of the server, the window and the pass keeps the invariant.
LEMMA NextSound == IInv /\ [Next]_vars => IInv'
<1> SUFFICES ASSUME IInv, [Next]_vars PROVE IInv'
  OBVIOUS
<1>0. MembersInv /\ DeviceInv /\ DeviceType
  BY DEF IInv, DeviceInv
<1>1. CASE UNCHANGED vars
  BY <1>0, <1>1, MembersStay, DeviceStays DEF vars, IInv
<1>2. CASE MembersNext /\ UNCHANGED <<device, pass, origin, faults>>
  BY <1>0, <1>2, MembersNextSound, DeviceStays DEF IInv
<1>3. ASSUME NEW mode \in {"anon", "offline", "online"}, Start(mode) PROVE IInv'
  <2>1. UNCHANGED memberVars /\ origin' = origin
    BY <1>3 DEF Start
  <2> QED BY <1>0, <1>3, <2>1, MembersStay, StartSound DEF IInv
<1>4. CASE Close \/ Crash
  <2>1. UNCHANGED memberVars /\ origin' = origin
    BY <1>4 DEF Close, Crash
  <2> QED BY <1>0, <1>4, <2>1, MembersStay, CloseSound DEF IInv
<1>5. ASSUME NEW p \in Id, SelectProject(p) PROVE IInv'
  <2>1. UNCHANGED memberVars /\ origin' = origin
    BY <1>5 DEF SelectProject
  <2> QED BY <1>0, <1>5, <2>1, MembersStay, SelectProjectSound DEF IInv
<1>6. ASSUME NEW p \in Id, NEW auto \in BOOLEAN, StartPass(p, auto)
      PROVE  IInv'
  <2>1. UNCHANGED memberVars /\ origin' = origin
    BY <1>6 DEF StartPass
  <2> QED BY <1>0, <1>6, <2>1, MembersStay, StartPassSound DEF IInv
<1>7. ASSUME NEW r \in Record, CreateRecord(r) PROVE IInv'
  <2>1. UNCHANGED memberVars /\ origin' = origin
    BY <1>7 DEF CreateRecord
  <2> QED BY <1>0, <1>7, <2>1, MembersStay, CreateRecordSound DEF IInv
<1>8. CASE CreateProject
  <2>1. MembersInv'
    <3>1. CASE session = "online"
      <4>1. PICK s \in Some(FreshServerId) :
                /\ project' = Created(s, me)
                /\ origin' = [origin EXCEPT ![s] = s]
        BY <1>8, <3>1 DEF CreateProject
      <4>2. s \in ServerId /\ origin[s] = NoId /\ s \in Id
        BY FreeIds DEF Id
      <4>3. UNCHANGED <<change, changes, budget, excused>>
        BY <1>8 DEF CreateProject
      <4> QED BY <1>0, <4>1, <4>2, <4>3, CreatedSound DEF DeviceType
    <3>2. CASE session # "online"
      <4>1. UNCHANGED memberVars /\ origin' = origin
        BY <1>8, <3>2 DEF CreateProject, memberVars
      <4> QED BY <1>0, <4>1, MembersStay
    <3> QED BY <3>1, <3>2
  <2> QED BY <1>0, <1>8, <2>1, CreateProjectSound DEF IInv
<1>9. CASE Publish
  <2>1. MembersInv'
    <3>1. UNCHANGED <<change, changes, budget, excused>>
      BY <1>9 DEF Publish
    <3>2. CASE pass.id \notin cached \/ pass.id \in anon
      <4>1. UNCHANGED memberVars /\ origin' = origin
        BY <1>9, <3>2 DEF Publish, memberVars
      <4> QED BY <1>0, <4>1, MembersStay
    <3>3. CASE pass.id \in cached /\ pass.id \notin anon
      <4>1. PICK s \in Some(FreshServerId) :
                /\ project' = Created(s, me)
                /\ origin' = [origin EXCEPT ![s] = pass.id]
        BY <1>9, <3>3 DEF Publish
      <4>2. s \in ServerId /\ origin[s] = NoId /\ pass.id \in Id
        BY <1>0, <3>3, FreeIds DEF DeviceType
      <4> QED BY <1>0, <3>1, <4>1, <4>2, CreatedSound DEF DeviceType
    <3> QED BY <3>2, <3>3
  <2> QED BY <1>0, <1>9, <2>1, PublishSound DEF IInv
<1>10. CASE RequestFails
  <2>1. UNCHANGED memberVars /\ origin' = origin
    BY <1>10 DEF RequestFails
  <2> QED BY <1>0, <1>10, <2>1, MembersStay, RequestFailsSound DEF IInv
<1>11. CASE Migrate
  <2>1. UNCHANGED memberVars /\ origin' = origin
    BY <1>11 DEF Migrate
  <2> QED BY <1>0, <1>11, <2>1, MembersStay, MigrateSound DEF IInv
<1>12. CASE Push
  <2>1. UNCHANGED memberVars /\ origin' = origin
    BY <1>12 DEF Push
  <2> QED BY <1>0, <1>12, <2>1, MembersStay, PushSound DEF IInv
<1>13. CASE Deliver \/ DeliverUnlisted
  <2>1. UNCHANGED memberVars /\ origin' = origin
    BY <1>13 DEF Deliver, DeliverUnlisted
  <2> QED BY <1>0, <1>13, <2>1, MembersStay, DeliverSound DEF IInv
<1> QED BY <1>1, <1>2, <1>3, <1>4, <1>5, <1>6, <1>7, <1>8, <1>9, <1>10,
           <1>11, <1>12, <1>13 DEF Next, PassStep

\* The invariant holds throughout.
THEOREM InvariantHolds == Spec => []IInv
<1> QED BY InitSound, NextSound, PTL DEF Spec

\* "Cannot downgrade or remove the last admin of the project", whatever
\* the order of the requests, but for overlapping changes and superusers.
THEOREM AdminsRemain == Spec => []AdminRemains
<1>1. IInv => AdminRemains
  BY DEF IInv, MembersInv
<1> QED BY <1>1, InvariantHolds, PTL

\* Anonymous projects are shown to anonymous sessions only, and no anonymous
\* project is made on the server.
THEOREM AnonymousStaysApart == Spec => []AnonymousApart
<1>1. IInv => AnonymousApart
  BY DEF IInv, DeviceInv
<1> QED BY <1>1, InvariantHolds, PTL

\* A project is published once, and once more at most for every pass that
\* failed between the server's answer and the local migration.
THEOREM PublishedOnceHolds == Spec => []PublishedOnce
<1>1. IInv => PublishedOnce
  <2> SUFFICES ASSUME IInv, NEW l \in LocalId
               PROVE  Cardinality(MadeOf(l)) <= 1 + faults
    BY DEF PublishedOnce, MadeOf
  <2>1. faults \in Nat
    BY DEF IInv, DeviceInv, DeviceType
  <2>2. Cardinality(MadeOf(l)) \in Nat
    BY Constants, FS_Subset, FS_CardinalityType DEF MadeOf
  <2> QED BY <2>1, <2>2 DEF IInv, DeviceInv, PublishedBefore
<1> QED BY <1>1, InvariantHolds, PTL

\* When every table of records references its project by a foreign key, what
\* the user creates survives publication, revocation and a crash in between,
\* in one place.
THEOREM WorkIsSafe ==
    ASSUME Guarded = Record
    PROVE  Spec => []WorkSafe
<1>1. IInv => TypeOK
  BY DEF IInv, MembersInv, DeviceInv, MembersType, DeviceType, PassPlaced,
         TypeOK, AnyRole
<1>2. IInv => NoStrandedWork
  BY DEF IInv, DeviceInv, GuardedWork, NoStrandedWork
<1> QED BY <1>1, <1>2, InvariantHolds, PublishedOnceHolds, PTL DEF WorkSafe
=============================================================================
