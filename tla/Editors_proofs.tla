-------------------------- MODULE Editors_proofs --------------------------
(***************************************************************************)
(* Proofs about the editors, for any projects, records, number of texts    *)
(* and number of changes of other devices.                                 *)
(***************************************************************************)
EXTENDS Editors, TLAPS

-----------------------------------------------------------------------------
(* The inductive invariant                                                 *)

Version == Nat \cup {None}
Id == Record \cup {NoRec}
Place == Project \cup {NoRec}

RowRecord == [proj : Place, live : BOOLEAN, ver : Nat, seen : Nat,
              texts : SUBSET Nat, target : Scored \cup {NoRec}]
FormRecord == [id : Id, base : Version, seen : Nat, text : Nat, ok : BOOLEAN]
CacheRecord == [ver : Version, seen : Nat, listed : BOOLEAN]
Ack == [rec : Record, base : Nat, ver : Nat]
Origin == [rec : Id, proj : Place]

\* The records a form may show.
KindOf(f) ==
    (IF f = "action" THEN Action ELSE IF f = "ticket" THEN Ticket ELSE Scored)
        \cup {NoRec}

DataTypes ==
    /\ srv \in [Record -> Nat]
    /\ removed \in SUBSET Record
    /\ row \in [Record -> RowRecord]
    /\ queue \in [Record -> Version]
    /\ assessed \in [Scored -> SUBSET Nat]
    /\ pass = <<>> \/ \E A \in SUBSET Ack : pass = <<A>>

WindowTypes ==
    /\ form \in [Form -> FormRecord]
    /\ \A f \in Form : form[f].id \in KindOf(f)
    /\ dirty \in BOOLEAN
    /\ cache \in [Record -> CacheRecord]
    /\ combo \in Scored \cup {NoRec}
    /\ sel \in Place

HistoryTypes ==
    /\ budget \in Budget
    /\ texts \in Nat /\ texts <= budget.texts
    /\ origin \in [1..budget.texts -> Origin]
    /\ pick \in Scored \cup {NoRec}
    /\ refused \in BOOLEAN
    /\ raised \in SUBSET Action

Types == DataTypes /\ WindowTypes /\ HistoryTypes

\* Every record that is visible, queued, on the server or in a form has a
\* project.
Known == {r \in Record : row[r].proj \in Project}
Owned ==
    /\ \A r \in Record :
        row[r].live \/ srv[r] > 0 \/ queue[r] # None \/ cache[r].listed
            => r \in Known
    /\ \A f \in Form : form[f].id # NoRec => form[f].id \in Known

\* A text in a form was typed for the record the form shows, and a new
\* record's, but for a ticket's, in the project that is selected.
TypedHere ==
    \A f \in Form : form[f].text # NoText =>
        /\ form[f].text \in 1..texts
        /\ origin[form[f].text].rec = form[f].id
        /\ f = "assessment" => form[f].id # NoRec
        /\ f # "ticket" /\ form[f].id = NoRec => origin[form[f].text].proj = sel

\* Saved texts were typed before.
TypedBefore ==
    /\ \A r \in Record : row[r].texts \subseteq 1..texts
    /\ \A r \in Scored : assessed[r] \subseteq 1..texts

\* No version on the device is ahead of the server's.
Behind ==
    /\ \A r \in Record : row[r].ver <= srv[r] /\ cache[r].ver <= srv[r]
    /\ \A f \in Form : form[f].id # NoRec => form[f].base <= srv[form[f].id]
    /\ pass # <<>> => \A k \in pass[1] : k.ver = k.base + 1 /\ k.ver <= srv[k.rec]

\* An unsent save of a claims less than v: the server will refuse it.
Outdated(a, v) == queue[a] # None /\ queue[a] < v

\* What of a is shown at a version newer than its content has an outdated
\* save in front of it.
Honest(a) ==
    /\ row[a].seen < row[a].ver => Outdated(a, row[a].ver)
    /\ cache[a].seen < cache[a].ver => Outdated(a, cache[a].ver)
    /\ form["action"].id = a /\ form["action"].seen < form["action"].base
        => Outdated(a, form["action"].base)
    /\ queue[a] # None => queue[a] <= row[a].seen

Claims ==
    /\ Behind
    /\ \A r \in Record : cache[r].listed => cache[r].ver # None
    /\ form["action"].id # NoRec => form["action"].base # None
    /\ \A a \in Action \ raised : Honest(a)

Texts == TypedHere /\ TypedBefore /\ SavedWhereTyped
Flags == TypedIsFlagged /\ TargetAsPicked

IInv == Types /\ Owned /\ Texts /\ Flags /\ Claims


-----------------------------------------------------------------------------
(* What the operators of the model return                                  *)

USE EditorsAssumption DEF None, NoText

LEMMA Kinds ==
    /\ Scored \subseteq Record /\ Action \subseteq Record /\ Ticket \subseteq Record
    /\ NoRec \notin Record /\ NoRec \notin Project
    /\ \A a \in Action : a \notin Scored /\ a \notin Ticket
    /\ \A t \in Ticket : t \notin Scored
    /\ "scored" \in Form /\ "action" \in Form /\ "ticket" \in Form
    /\ "assessment" \in Form
BY DEF Record, Form

LEMMA BlankRecord ==
    /\ Blank \in FormRecord
    /\ Blank.id = NoRec /\ Blank.base = None /\ Blank.seen = 0
    /\ Blank.text = NoText
BY DEF Blank, FormRecord, Id, Version

LEMMA AssessRecord ==
    ASSUME NEW r \in Id
    PROVE  /\ Assess(r) \in FormRecord
           /\ Assess(r).id = r /\ Assess(r).text = NoText
           /\ Assess(r).base = None
BY DEF Assess, Blank, FormRecord, Version

LEMMA CleanRecord ==
    ASSUME NEW f \in FormRecord
    PROVE  /\ Clean(f) \in FormRecord
           /\ Clean(f).id = f.id /\ Clean(f).base = f.base
           /\ Clean(f).seen = f.seen /\ Clean(f).text = NoText
BY DEF Clean, FormRecord

\* A table that is read again shows what it showed, nothing, or the row.
LEMMA RefreshedTables ==
    ASSUME cache \in [Record -> CacheRecord],
           NEW S, NEW rows \in [Record -> RowRecord], NEW p
    PROVE  /\ Refreshed(S, rows, p) \in [Record -> CacheRecord]
           /\ \A r \in Record :
                \/ r \notin S /\ Refreshed(S, rows, p)[r] = cache[r]
                \/ Refreshed(S, rows, p)[r] = Gone
                \/ /\ rows[r].live
                   /\ Refreshed(S, rows, p)[r] =
                        [ver |-> rows[r].ver, seen |-> rows[r].seen, listed |-> TRUE]
<1>1. Gone \in CacheRecord
  BY DEF Gone, CacheRecord, Version
<1>2. \A r \in Record :
        [ver |-> rows[r].ver, seen |-> rows[r].seen, listed |-> TRUE] \in CacheRecord
  BY DEF CacheRecord, RowRecord, Version
<1> QED
  BY <1>1, <1>2 DEF Refreshed, ListedRows

LEMMA ComboKept ==
    ASSUME NEW rows, NEW p
    PROVE  ComboAfter(rows, p) \in {NoRec, combo}
BY DEF ComboAfter

\* A save changes the row of its record: its project, version and target stay.
LEMMA SavedRows ==
    ASSUME NEW rows \in [Record -> RowRecord], NEW f \in FormRecord, f.id \in Record
    PROVE  /\ Saved(rows, f) \in [Record -> RowRecord]
           /\ \A r \in Record \ {f.id} : Saved(rows, f)[r] = rows[r]
           /\ Saved(rows, f)[f.id].proj = rows[f.id].proj
           /\ Saved(rows, f)[f.id].ver = rows[f.id].ver
           /\ Saved(rows, f)[f.id].target = rows[f.id].target
           /\ Saved(rows, f)[f.id].seen = f.seen
           /\ Saved(rows, f)[f.id].texts = (rows[f.id].texts \cup {f.text}) \ {NoText}
<1> DEFINE old == rows[f.id]
           new == [old EXCEPT !.live = TRUE, !.seen = f.seen,
                              !.texts = (old.texts \cup {f.text}) \ {NoText}]
<1>1. old \in RowRecord
  OBVIOUS
<1>2. /\ new \in RowRecord
      /\ new.proj = old.proj /\ new.ver = old.ver /\ new.target = old.target
      /\ new.seen = f.seen /\ new.texts = (old.texts \cup {f.text}) \ {NoText}
  BY <1>1 DEF RowRecord, FormRecord
<1>3. Saved(rows, f) = [rows EXCEPT ![f.id] = new]
  BY DEF Saved
<1> HIDE DEF new
<1> QED
  BY <1>1, <1>2, <1>3

LEMMA DeletedRows ==
    ASSUME NEW rows \in [Record -> RowRecord], NEW r \in Record
    PROVE  /\ [rows EXCEPT ![r].live = FALSE] \in [Record -> RowRecord]
           /\ \A x \in Record :
                LET new == [rows EXCEPT ![r].live = FALSE][x]
                IN  /\ new.proj = rows[x].proj /\ new.ver = rows[x].ver
                    /\ new.texts = rows[x].texts /\ new.target = rows[x].target
                    /\ new.live => rows[x].live
                    /\ x # r => new = rows[x]
<1> DEFINE old == rows[r]
           new == [old EXCEPT !.live = FALSE]
<1>1. old \in RowRecord
  OBVIOUS
<1>2. /\ new \in RowRecord /\ new.proj = old.proj /\ new.ver = old.ver
      /\ new.texts = old.texts /\ new.target = old.target
  BY <1>1 DEF RowRecord
<1>3. new.live = FALSE
  BY <1>1 DEF RowRecord
<1>4. [rows EXCEPT ![r].live = FALSE] = [rows EXCEPT ![r] = new]
  OBVIOUS
<1> HIDE DEF new
<1> QED
  BY <1>1, <1>2, <1>3, <1>4

LEMMA FormTypes ==
    ASSUME Types
    PROVE  /\ \A f \in Form : form[f] \in FormRecord
           /\ form["scored"].id \in Scored \cup {NoRec}
           /\ form["assessment"].id \in Scored \cup {NoRec}
           /\ form["action"].id \in Action \cup {NoRec}
           /\ form["ticket"].id \in Ticket \cup {NoRec}
BY Kinds DEF Types, WindowTypes, KindOf

LEMMA BaseTypes ==
    ASSUME Types, NEW f \in FormRecord, f.id \in Record
    PROVE  /\ QueuedBase(f.id) \in Version
           /\ BaseOf(f) \in Version
           /\ f.base # None => BaseOf(f) = f.base
BY DEF Types, DataTypes, FormRecord, RowRecord, QueuedBase, BaseOf, Version

\* What the commit of the scored form leaves of the tables.
LEMMA CommittedRows ==
    ASSUME Types, NEW rows \in [Record -> RowRecord]
    PROVE  /\ RowAfter(rows) \in [Record -> RowRecord]
           /\ \A r \in Record :
                /\ RowAfter(rows)[r].proj = rows[r].proj
                /\ RowAfter(rows)[r].ver = rows[r].ver
                /\ RowAfter(rows)[r].target = rows[r].target
                /\ r # form["scored"].id => RowAfter(rows)[r] = rows[r]
                /\ \A t \in RowAfter(rows)[r].texts :
                    \/ t \in rows[r].texts
                    \/ /\ t = form["scored"].text /\ t # NoText
                       /\ r = form["scored"].id
           /\ Commits /\ form["scored"].text # NoText =>
                form["scored"].text \in RowAfter(rows)[form["scored"].id].texts
<1> DEFINE f == form["scored"]
<1>1. f \in FormRecord /\ f.id \in Scored \cup {NoRec}
  BY FormTypes, Kinds
<1>2. CASE Commits
  <2>1. f.id \in Record /\ RowAfter(rows) = Saved(rows, f)
    BY <1>1, <1>2, Kinds DEF Commits, Uncommitted, RowAfter
  <2>2. f.text \in Nat
    BY <1>1 DEF FormRecord
  <2> HIDE DEF f
  <2>3. /\ Saved(rows, f) \in [Record -> RowRecord]
        /\ \A r \in Record \ {f.id} : Saved(rows, f)[r] = rows[r]
        /\ Saved(rows, f)[f.id].proj = rows[f.id].proj
        /\ Saved(rows, f)[f.id].ver = rows[f.id].ver
        /\ Saved(rows, f)[f.id].target = rows[f.id].target
        /\ Saved(rows, f)[f.id].texts = (rows[f.id].texts \cup {f.text}) \ {NoText}
    BY <1>1, <2>1, SavedRows
  <2> QED
    BY <2>1, <2>2, <2>3 DEF f
<1>3. CASE ~Commits
  BY <1>3 DEF RowAfter
<1> QED
  BY <1>2, <1>3

LEMMA CommittedQueue ==
    ASSUME Types, NEW q \in [Record -> Version]
    PROVE  /\ QueueAfter(q) \in [Record -> Version]
           /\ \A r \in Record : r # form["scored"].id => QueueAfter(q)[r] = q[r]
<1> DEFINE f == form["scored"]
<1>1. f \in FormRecord /\ f.id \in Scored \cup {NoRec}
  BY FormTypes, Kinds
<1>2. CASE Commits
  <2>1. f.id \in Record /\ QueueAfter(q) = [q EXCEPT ![f.id] = BaseOf(f)]
    BY <1>1, <1>2, Kinds DEF Commits, Uncommitted, QueueAfter
  <2>2. BaseOf(f) \in Version
    BY <1>1, <2>1, BaseTypes
  <2> QED
    BY <2>1, <2>2
<1>3. CASE ~Commits
  BY <1>3 DEF QueueAfter
<1> QED
  BY <1>2, <1>3

-----------------------------------------------------------------------------
(* Steps in general                                                        *)

\* A form keeps what it shows, perhaps at another version, or holds a record
\* without text.
FormStep(f) ==
    \/ form'[f] = form[f]
    \/ /\ form'[f].id = form[f].id /\ form'[f].text = form[f].text
       /\ form'[f].id # NoRec => form'[f].base <= srv'[form'[f].id]
    \/ /\ form'[f] \in FormRecord
       /\ form'[f].id \in KindOf(f)
       /\ form'[f].text = NoText
       /\ form'[f].id # NoRec =>
            row'[form'[f].id].proj \in Project /\ form'[f].base <= srv'[form'[f].id]

\* A table keeps what it shows of a record, drops it, or shows the row.
CacheStep(r) ==
    \/ cache'[r] = cache[r]
    \/ cache'[r] = Gone
    \/ /\ row'[r].live
       /\ cache'[r] = [ver |-> row'[r].ver, seen |-> row'[r].seen, listed |-> TRUE]

\* A row keeps its project, or gets one; texts come from a form.
RowStep(r) ==
    /\ row'[r].proj = row[r].proj \/ row'[r].proj \in Project
    /\ row[r].proj \in Project => row'[r].proj = row[r].proj
    /\ row'[r].live => row[r].live \/ row'[r].proj \in Project
    /\ queue'[r] # None => queue[r] # None \/ row'[r].proj \in Project
    /\ \A t \in row'[r].texts :
        \/ t \in row[r].texts /\ row'[r].proj = row[r].proj
        \/ \E f \in Form :
            /\ t = form[f].text /\ t # NoText
            /\ \/ r = form[f].id
               \/ /\ form[f].id = NoRec
                  /\ f = "ticket" => r \in Ticket
                  /\ f # "ticket" => row'[r].proj = sel

\* A step of the window: nothing is typed, and no pass acts.
WindowStep ==
    /\ row' \in [Record -> RowRecord]
    /\ queue' \in [Record -> Version]
    /\ cache' \in [Record -> CacheRecord]
    /\ form' \in [Form -> FormRecord]
    /\ dirty' \in BOOLEAN /\ refused' \in BOOLEAN
    /\ sel' \in Place /\ combo' \in Scored \cup {NoRec}
    /\ \A r \in Record : RowStep(r) /\ CacheStep(r)
    /\ \A f \in Form : FormStep(f)
    /\ sel' # sel => \A f \in Form \ {"ticket"} : form'[f].text = NoText
    /\ \A r \in Record : row'[r].ver <= srv[r]
    /\ Flags'
    /\ UNCHANGED <<srv, removed, assessed, budget, texts, origin>>
    /\ pass' = pass \/ pass' = <<>>
    /\ pick' \in Scored \cup {NoRec} /\ raised' \in SUBSET Action
    /\ form'["action"].id # NoRec => form'["action"].base # None
    /\ \A a \in Action \ raised' : Honest(a)'

LEMMA WindowStepSound ==
    ASSUME IInv, WindowStep
    PROVE  IInv'
<1>1. Types'
  <2>1. \A f \in Form : form'[f].id \in KindOf(f)
    BY DEF IInv, Types, WindowTypes, WindowStep, FormStep
  <2> QED
    BY <2>1 DEF IInv, Types, DataTypes, WindowTypes, HistoryTypes, WindowStep
<1>2. Owned'
  <2>1. ASSUME NEW r \in Record,
               row'[r].live \/ srv'[r] > 0 \/ queue'[r] # None \/ cache'[r].listed
        PROVE  row'[r].proj \in Project
    BY <2>1 DEF IInv, Owned, Known, WindowStep, RowStep, CacheStep, Gone
  <2>2. ASSUME NEW f \in Form, form'[f].id # NoRec
        PROVE  form'[f].id \in Record /\ row'[form'[f].id].proj \in Project
    <3>1. CASE form'[f].id = form[f].id
      BY <2>2, <3>1 DEF IInv, Owned, Known, WindowStep, RowStep
    <3>2. CASE form'[f].id # form[f].id
      BY <2>2, <3>2, <1>1, Kinds DEF Types, WindowTypes, KindOf, WindowStep, FormStep
    <3> QED
      BY <3>1, <3>2
  <2> QED
    BY <2>1, <2>2 DEF Owned, Known
<1>3. Texts'
  <2>1. TypedHere'
    <3> SUFFICES ASSUME NEW f \in Form, form'[f].text # NoText
                 PROVE  /\ form'[f].text \in 1..texts
                        /\ origin[form'[f].text].rec = form'[f].id
                        /\ f = "assessment" => form'[f].id # NoRec
                        /\ f # "ticket" /\ form'[f].id = NoRec =>
                             origin[form'[f].text].proj = sel'
      BY DEF TypedHere, WindowStep
    <3>1. form'[f].id = form[f].id /\ form'[f].text = form[f].text
      BY DEF WindowStep, FormStep
    <3> QED
      BY <3>1 DEF IInv, Texts, TypedHere, WindowStep
  <2>2. ASSUME NEW r \in Record, NEW t \in row'[r].texts
        PROVE  /\ t \in 1..texts
               /\ \/ origin[t].rec = r
                  \/ /\ origin[t].rec = NoRec
                     /\ r \in Ticket \/ origin[t].proj = row'[r].proj
    <3>1. CASE t \in row[r].texts /\ row'[r].proj = row[r].proj
      <4>1. /\ t \in 1..texts
            /\ \/ origin[t].rec = r
               \/ /\ origin[t].rec = NoRec
                  /\ r \in Ticket \/ origin[t].proj = row[r].proj
        BY <3>1 DEF IInv, Texts, TypedBefore, SavedWhereTyped
      <4> QED
        BY <3>1, <4>1
    <3>2. CASE ~(t \in row[r].texts /\ row'[r].proj = row[r].proj)
      BY <3>2 DEF IInv, Texts, TypedHere, WindowStep, RowStep
    <3> QED
      BY <3>1, <3>2
  <2> QED
    BY <2>1, <2>2 DEF IInv, Texts, TypedBefore, SavedWhereTyped, WindowStep
<1>4. Claims'
  <2>1. ASSUME NEW r \in Record
        PROVE  /\ cache'[r].ver <= srv[r]
               /\ cache'[r].listed => cache'[r].ver # None
    <3>1. srv[r] \in Nat /\ row'[r].ver \in Nat
      BY DEF IInv, Types, DataTypes, WindowStep, RowRecord
    <3> QED
      BY <3>1 DEF IInv, Claims, Behind, WindowStep, CacheStep, Gone
  <2>2. ASSUME NEW f \in Form, form'[f].id # NoRec
        PROVE  form'[f].base <= srv[form'[f].id]
    BY <2>2 DEF IInv, Claims, Behind, WindowStep, FormStep
  <2> QED
    BY <2>1, <2>2 DEF IInv, Claims, Behind, WindowStep
<1> QED
  BY <1>1, <1>2, <1>3, <1>4 DEF IInv, WindowStep

\* Reading a table again leaves honest what was honest.
LEMMA HonestKept ==
    ASSUME IInv, NEW a \in Action \ raised, row'[a] = row[a], queue'[a] = queue[a],
           CacheStep(a),
           form'["action"] = form["action"] \/ form'["action"].id = NoRec
    PROVE  Honest(a)'
<1>1. Honest(a) /\ row[a] \in RowRecord /\ a # NoRec
  BY Kinds DEF IInv, Claims, Types, DataTypes
<1>2. cache'[a].seen < cache'[a].ver => Outdated(a, cache'[a].ver)
  BY <1>1 DEF CacheStep, Gone, Honest, Outdated
<1> QED
  BY <1>1, <1>2 DEF Honest, Outdated

\* The tables and the target after they are read again.
LEMMA RefreshStep ==
    ASSUME IInv, row' \in [Record -> RowRecord], NEW S, NEW p,
           cache' = cache \/ cache' = Refreshed(S, row', p)
    PROVE  /\ cache' \in [Record -> CacheRecord]
           /\ \A r \in Record : CacheStep(r)
<1>1. cache \in [Record -> CacheRecord]
  BY DEF IInv, Types, WindowTypes
<1>2. CASE cache' = cache
  BY <1>1, <1>2 DEF CacheStep
<1>3. CASE cache' = Refreshed(S, row', p)
  BY <1>1, <1>3, RefreshedTables DEF CacheStep
<1> QED
  BY <1>2, <1>3

LEMMA ComboStep ==
    ASSUME IInv, NEW rows, NEW p,
           combo' = combo \/ combo' = ComboAfter(rows, p), pick' = pick
    PROVE  combo' \in Scored \cup {NoRec} /\ TargetAsPicked'
BY ComboKept DEF IInv, Types, WindowTypes, Flags, TargetAsPicked

\* The steps that commit the scored form, after rows and q.
CommitStep(rows, q) ==
    /\ row' = rows \/ row' = RowAfter(rows)
    /\ queue' = q \/ queue' = QueueAfter(q)
    /\ \E S, p : cache' = cache \/ cache' = Refreshed(S, row', p)
    /\ \E p : combo' = combo \/ combo' = ComboAfter(row', p)
    /\ form' \in [Form -> FormRecord]
    /\ form'["ticket"] = form["ticket"]
    /\ form'["action"] = form["action"] \/ form'["action"] = Blank
    /\ \A f \in {"scored", "assessment"} : FormStep(f)
    /\ dirty' \in BOOLEAN /\ refused' \in BOOLEAN
    /\ TypedIsFlagged'
    /\ \/ sel' = sel
       \/ sel' \in Project /\ \A f \in Form \ {"ticket"} : form'[f] = Blank
    /\ UNCHANGED <<server, assessed, pass, budget, texts, origin, pick, raised>>

\* What rows and q may be: the tables as they are, or with a record deleted.
Deletes(rows, q) ==
    /\ rows \in [Record -> RowRecord] /\ q \in [Record -> Version]
    /\ \A r \in Record :
        /\ rows[r].proj = row[r].proj /\ rows[r].ver = row[r].ver
        /\ rows[r].texts = row[r].texts /\ rows[r].target = row[r].target
        /\ rows[r].live => row[r].live
        /\ r # form["scored"].id => rows[r] = row[r] /\ q[r] = queue[r]

LEMMA CommitStepSound ==
    ASSUME IInv, NEW rows, NEW q, Deletes(rows, q), CommitStep(rows, q)
    PROVE  WindowStep
<1>t. Types /\ Owned
  BY DEF IInv
<1>0. form["scored"].id \in Scored \cup {NoRec}
  BY <1>t, FormTypes
<1>1. /\ row' \in [Record -> RowRecord]
      /\ \A r \in Record :
            /\ row'[r].proj = row[r].proj /\ row'[r].ver = row[r].ver
            /\ r # form["scored"].id => row'[r] = row[r]
            /\ \A t \in row'[r].texts :
                \/ t \in row[r].texts
                \/ /\ t = form["scored"].text /\ t # NoText
                   /\ r = form["scored"].id
  <2>1. CASE row' = rows
    BY <2>1 DEF Deletes
  <2>2. CASE row' = RowAfter(rows)
    <3>1. rows \in [Record -> RowRecord]
      BY DEF Deletes
    <3>2. /\ RowAfter(rows) \in [Record -> RowRecord]
          /\ \A r \in Record :
                /\ RowAfter(rows)[r].proj = rows[r].proj
                /\ RowAfter(rows)[r].ver = rows[r].ver
                /\ r # form["scored"].id => RowAfter(rows)[r] = rows[r]
                /\ \A t \in RowAfter(rows)[r].texts :
                    \/ t \in rows[r].texts
                    \/ /\ t = form["scored"].text /\ t # NoText
                       /\ r = form["scored"].id
      BY <1>t, <3>1, CommittedRows
    <3> QED
      BY <2>2, <3>2 DEF Deletes
  <2> QED
    BY <2>1, <2>2 DEF CommitStep
<1>2. /\ queue' \in [Record -> Version]
      /\ \A r \in Record : r # form["scored"].id => queue'[r] = queue[r]
  BY <1>t, CommittedQueue DEF CommitStep, Deletes
<1>3. /\ cache' \in [Record -> CacheRecord]
      /\ \A r \in Record : CacheStep(r)
  BY <1>1, RefreshStep DEF CommitStep
<1>4. combo' \in Scored \cup {NoRec} /\ TargetAsPicked'
  BY ComboStep DEF CommitStep
<1>5. \A f \in Form : FormStep(f)
  <2>1. FormStep("action")
    BY BlankRecord DEF CommitStep, FormStep, KindOf
  <2>2. FormStep("ticket")
    BY DEF CommitStep, FormStep
  <2> QED
    BY <2>1, <2>2 DEF CommitStep, Form
<1>6. \A r \in Record : RowStep(r)
  <2> SUFFICES ASSUME NEW r \in Record PROVE RowStep(r)
    OBVIOUS
  <2>1. r = form["scored"].id => row[r].proj \in Project
    BY <1>t, <1>0, Kinds DEF Owned, Known
  <2>2. \A t \in row'[r].texts :
            \/ t \in row[r].texts
            \/ \E f \in Form : t = form[f].text /\ t # NoText /\ r = form[f].id
    BY <1>1, Kinds
  <2> QED
    BY <1>1, <1>2, <2>1, <2>2 DEF RowStep
<1>7. /\ sel' \in Place
      /\ sel' # sel => \A f \in Form \ {"ticket"} : form'[f].text = NoText
  BY <1>t, BlankRecord DEF CommitStep, Types, WindowTypes, Place
<1>8. \A a \in Action \ raised' : Honest(a)'
  <2> SUFFICES ASSUME NEW a \in Action \ raised PROVE Honest(a)'
    BY DEF CommitStep
  <2>1. a \in Record /\ a # form["scored"].id
    BY <1>0, Kinds
  <2>2. form'["action"] = form["action"] \/ form'["action"].id = NoRec
    BY BlankRecord DEF CommitStep
  <2> QED
    BY <1>1, <1>2, <1>3, <2>1, <2>2, HonestKept
<1>9. form'["action"].id # NoRec => form'["action"].base # None
  BY BlankRecord DEF CommitStep, IInv, Claims
<1>10. \A r \in Record : row'[r].ver <= srv[r]
  BY <1>1 DEF IInv, Claims, Behind
<1>11. pick' \in Scored \cup {NoRec} /\ raised' \in SUBSET Action
  BY <1>t DEF CommitStep, Types, HistoryTypes
<1> QED
  BY <1>1, <1>2, <1>3, <1>4, <1>5, <1>6, <1>7, <1>8, <1>9, <1>10, <1>11
  DEF WindowStep, CommitStep, Flags, server

-----------------------------------------------------------------------------
(* The steps that commit                                                   *)

LEMMA NothingDeleted ==
    ASSUME IInv
    PROVE  Deletes(row, queue)
BY DEF IInv, Types, DataTypes, Deletes

\* A form emptied, or filled with a record of its kind that has a project.
LEMMA EmptiedForm ==
    ASSUME NEW f \in Form, form'[f] = Blank
    PROVE  FormStep(f)
BY BlankRecord DEF FormStep, KindOf

LEMMA AssessmentForm ==
    ASSUME IInv, NEW r \in Scored, row'[r].proj \in Project, srv'[r] \in Nat,
           form'["assessment"] = Assess(r)
    PROVE  FormStep("assessment")
BY AssessRecord, Kinds DEF FormStep, KindOf, Id

LEMMA ClickScoredSound ==
    ASSUME IInv, NEW r \in Scored, ClickScored(r)
    PROVE  WindowStep
<1> DEFINE commits == Commits /\ form["scored"].id # r
           rows == IF commits THEN RowAfter(row) ELSE row
           after == IF commits THEN Refreshed(Scored \cup Action, rows, sel) ELSE cache
           filled == [Blank EXCEPT !.id = r, !.base = after[r].ver, !.seen = cache[r].seen]
<1>1. Types /\ Owned /\ r \in Record /\ row \in [Record -> RowRecord]
  BY Kinds DEF IInv, Types, DataTypes
<1>2. row' = rows /\ cache' = after
  BY DEF ClickScored
<1>3. row' \in [Record -> RowRecord] /\ row'[r].proj = row[r].proj
  BY <1>1, <1>2, CommittedRows
<1>4. cache' \in [Record -> CacheRecord] /\ CacheStep(r)
  BY <1>1, <1>2, <1>3, RefreshStep
<1>5. row'[r].proj \in Project /\ srv[r] \in Nat /\ srv' = srv
  BY <1>1, <1>3 DEF ClickScored, Owned, Known, Types, DataTypes, server
<1>6. cache'[r].ver \in Version /\ cache'[r].ver <= srv[r] /\ cache[r].seen \in Nat
  <2>1. /\ row'[r].ver = row[r].ver /\ row[r].ver \in Nat
        /\ row[r].ver <= srv[r] /\ cache[r].ver <= srv[r]
    BY <1>1, <1>2, CommittedRows DEF IInv, Claims, Behind, RowRecord
  <2> QED
    BY <1>1, <1>4, <1>5, <2>1 DEF CacheStep, Gone, CacheRecord, Types, WindowTypes
<1>7. filled \in FormRecord /\ filled.id = r /\ filled.text = NoText
      /\ filled.base = cache'[r].ver
  BY <1>1, <1>2, <1>6 DEF Blank, FormRecord, Id
<1>8. form' = [form EXCEPT !["scored"] = filled, !["assessment"] = Assess(r)]
  BY DEF ClickScored
<1> HIDE DEF filled
<1>9. form' \in [Form -> FormRecord]
  BY <1>1, <1>7, <1>8, AssessRecord DEF Types, WindowTypes, Id
<1>10. FormStep("scored")
  BY <1>1, <1>5, <1>6, <1>7, <1>8, Kinds DEF FormStep, KindOf, Types, WindowTypes
<1>11. FormStep("assessment")
  BY <1>1, <1>5, <1>8, AssessmentForm, Kinds DEF Types, WindowTypes
<1>12. /\ form'["ticket"] = form["ticket"] /\ form'["action"] = form["action"]
       /\ form'["scored"].text = NoText
  BY <1>1, <1>7, <1>8, Kinds DEF Types, WindowTypes
<1>13. dirty' \in BOOLEAN /\ refused' \in BOOLEAN
  BY DEF ClickScored
<1>14. TypedIsFlagged'
  BY <1>12 DEF TypedIsFlagged
<1>15. \E p : combo' = combo \/ combo' = ComboAfter(row', p)
  BY <1>2 DEF ClickScored
<1>16. \E S, p : cache' = cache \/ cache' = Refreshed(S, row', p)
  BY <1>2 DEF ClickScored
<1>17. queue' = queue \/ queue' = QueueAfter(queue)
  BY DEF ClickScored
<1>18. UNCHANGED <<server, assessed, pass, budget, texts, origin, pick, raised, sel>>
  BY DEF ClickScored
<1>19. CommitStep(row, queue)
  BY <1>2, <1>9, <1>10, <1>11, <1>12, <1>13, <1>14, <1>15, <1>16, <1>17, <1>18
  DEF CommitStep
<1> QED
  BY <1>19, NothingDeleted, CommitStepSound

LEMMA ClickOutsideSound ==
    ASSUME IInv, ClickOutside
    PROVE  WindowStep
<1>1. Types /\ form["scored"] \in FormRecord /\ row \in [Record -> RowRecord]
      /\ form \in [Form -> FormRecord]
  BY FormTypes, Kinds DEF IInv, Types, DataTypes, WindowTypes
<1>2. form["scored"].id \in Record /\ form["scored"].id \in Known
  BY <1>1, FormTypes, Kinds DEF ClickOutside, Uncommitted, IInv, Owned
<1>3. row' = RowAfter(row) /\ srv' = srv
  BY DEF ClickOutside, server
<1>4. row'[form["scored"].id].proj \in Project
  BY <1>1, <1>2, <1>3, CommittedRows DEF Known
<1>5. /\ form' \in [Form -> FormRecord]
      /\ form'["ticket"] = form["ticket"] /\ form'["action"] = form["action"]
      /\ form'["assessment"] = form["assessment"]
      /\ form'["scored"] = IF Commits THEN Clean(form["scored"]) ELSE form["scored"]
  BY <1>1, CleanRecord, Kinds DEF ClickOutside
<1>6. FormStep("scored")
  <2>1. form["scored"].id \in KindOf("scored")
        /\ form["scored"].base <= srv[form["scored"].id]
    BY <1>1, <1>2, Kinds DEF IInv, Types, WindowTypes, Claims, Behind
  <2> QED
    BY <1>1, <1>3, <1>4, <1>5, <2>1, CleanRecord DEF FormStep
<1>7. FormStep("assessment")
  BY <1>5 DEF FormStep
<1>8. dirty' \in BOOLEAN /\ refused' \in BOOLEAN
  BY DEF ClickOutside, Committed
<1>9. TypedIsFlagged'
  BY <1>1, <1>5, CleanRecord DEF TypedIsFlagged, IInv, Flags, ClickOutside, Committed
<1>10. \E p : combo' = combo \/ combo' = ComboAfter(row', p)
  BY DEF ClickOutside
<1>11. \E S, p : cache' = cache \/ cache' = Refreshed(S, row', p)
  BY DEF ClickOutside
<1>12. queue' = QueueAfter(queue)
  BY DEF ClickOutside
<1>13. UNCHANGED <<server, assessed, pass, budget, texts, origin, pick, raised, sel>>
  BY DEF ClickOutside
<1>14. CommitStep(row, queue)
  BY <1>3, <1>5, <1>6, <1>7, <1>8, <1>9, <1>10, <1>11, <1>12, <1>13 DEF CommitStep
<1> QED
  BY <1>14, NothingDeleted, CommitStepSound

LEMMA StartNewSound ==
    ASSUME IInv, StartNew
    PROVE  WindowStep
<1>1. /\ form' \in [Form -> FormRecord]
      /\ form'["ticket"] = form["ticket"] /\ form'["action"] = form["action"]
      /\ form'["scored"] = Blank /\ form'["assessment"] = Blank
  BY BlankRecord, Kinds DEF IInv, Types, WindowTypes, StartNew
<1>2. \A f \in {"scored", "assessment"} : FormStep(f)
  BY <1>1, EmptiedForm, Kinds
<1>3. dirty' \in BOOLEAN /\ refused' \in BOOLEAN /\ TypedIsFlagged'
  BY <1>1, BlankRecord DEF StartNew, TypedIsFlagged
<1>4. \E p : combo' = combo \/ combo' = ComboAfter(row', p)
  BY DEF StartNew
<1>5. \E S, p : cache' = cache \/ cache' = Refreshed(S, row', p)
  BY DEF StartNew
<1>6. /\ row' = RowAfter(row) /\ queue' = QueueAfter(queue)
      /\ UNCHANGED <<server, assessed, pass, budget, texts, origin, pick, raised, sel>>
  BY DEF StartNew
<1>7. CommitStep(row, queue)
  BY <1>1, <1>2, <1>3, <1>4, <1>5, <1>6 DEF CommitStep
<1> QED
  BY <1>7, NothingDeleted, CommitStepSound

LEMMA SelectProjectSound ==
    ASSUME IInv, NEW p \in Project, SelectProject(p)
    PROVE  WindowStep
<1>1. /\ form' \in [Form -> FormRecord]
      /\ form'["ticket"] = form["ticket"] /\ form'["action"] = Blank
      /\ form'["scored"] = Blank /\ form'["assessment"] = Blank
  BY BlankRecord, Kinds DEF IInv, Types, WindowTypes, SelectProject
<1>2. \A f \in {"scored", "assessment"} : FormStep(f)
  BY <1>1, EmptiedForm, Kinds
<1>3. dirty' \in BOOLEAN /\ refused' \in BOOLEAN /\ TypedIsFlagged'
  BY <1>1, BlankRecord DEF SelectProject, Committed, TypedIsFlagged
<1>4. \E q : combo' = combo \/ combo' = ComboAfter(row', q)
  BY DEF SelectProject
<1>5. \E S, q : cache' = cache \/ cache' = Refreshed(S, row', q)
  BY DEF SelectProject
<1>6. /\ row' = RowAfter(row) /\ queue' = QueueAfter(queue)
      /\ UNCHANGED <<server, assessed, pass, budget, texts, origin, pick, raised>>
      /\ sel' \in Project
  BY DEF SelectProject
<1>7. \A f \in Form \ {"ticket"} : form'[f] = Blank
  BY <1>1 DEF Form
<1>8. CommitStep(row, queue)
  BY <1>1, <1>2, <1>3, <1>4, <1>5, <1>6, <1>7 DEF CommitStep
<1> QED
  BY <1>8, NothingDeleted, CommitStepSound

LEMMA DeleteScoredSound ==
    ASSUME IInv, DeleteScored
    PROVE  WindowStep
<1> DEFINE r == form["scored"].id
           deleted == [row EXCEPT ![r].live = FALSE]
           sent == IF row[r].ver = 0 THEN None ELSE QueuedBase(r)
           q == [queue EXCEPT ![r] = sent]
<1>1. /\ form' \in [Form -> FormRecord]
      /\ form'["ticket"] = form["ticket"] /\ form'["action"] = form["action"]
      /\ form'["scored"] = Blank /\ form'["assessment"] = Blank
  BY BlankRecord, Kinds DEF IInv, Types, WindowTypes, DeleteScored
<1>2. \A f \in {"scored", "assessment"} : FormStep(f)
  BY <1>1, EmptiedForm, Kinds
<1>3. dirty' \in BOOLEAN /\ refused' \in BOOLEAN /\ TypedIsFlagged'
  BY <1>1, BlankRecord DEF DeleteScored, TypedIsFlagged
<1>4. \E p : combo' = combo \/ combo' = ComboAfter(row', p)
  BY DEF DeleteScored
<1>5. \E S, p : cache' = cache \/ cache' = Refreshed(S, row', p)
  BY DEF DeleteScored
<1>6. /\ row' = RowAfter(deleted) /\ queue' = QueueAfter(q)
      /\ UNCHANGED <<server, assessed, pass, budget, texts, origin, pick, raised, sel>>
  BY DEF DeleteScored
<1>7. Types /\ form["scored"] \in FormRecord /\ r \in Record
      /\ row \in [Record -> RowRecord] /\ queue \in [Record -> Version]
  BY FormTypes, Kinds DEF IInv, Types, DataTypes, DeleteScored
<1>8. sent \in Version
  BY <1>7, BaseTypes DEF Version
<1>9. q \in [Record -> Version] /\ \A x \in Record : x # r => q[x] = queue[x]
  BY <1>7, <1>8
<1>10. /\ deleted \in [Record -> RowRecord]
       /\ \A x \in Record :
            /\ deleted[x].proj = row[x].proj /\ deleted[x].ver = row[x].ver
            /\ deleted[x].texts = row[x].texts /\ deleted[x].target = row[x].target
            /\ deleted[x].live => row[x].live
            /\ x # r => deleted[x] = row[x]
  BY <1>7, DeletedRows
<1> HIDE DEF deleted, q
<1>11. CommitStep(deleted, q)
  BY <1>1, <1>2, <1>3, <1>4, <1>5, <1>6 DEF CommitStep
<1>12. Deletes(deleted, q)
  BY <1>9, <1>10 DEF Deletes
<1> QED
  BY <1>11, <1>12, CommitStepSound

-----------------------------------------------------------------------------
(* The saves                                                               *)

Saving == {"scored", "action", "ticket"}

\* A save is for the record in the form, or for one no project has.
LEMMA TargetRecord ==
    ASSUME IInv, NEW f \in Saving, NEW r \in Targets(f, KindOf(f) \ {NoRec})
    PROVE  /\ r \in Record /\ r \in KindOf(f) /\ r # NoRec
           /\ form[f].id # NoRec => r = form[f].id /\ row[r].proj \in Project
           /\ form[f].id = NoRec => row[r].proj \notin Project
<1>1. f \in Form /\ form[f].id \in KindOf(f) /\ KindOf(f) \ {NoRec} \subseteq Record
  BY Kinds DEF Saving, Form, IInv, Types, WindowTypes, KindOf
<1>2. CASE form[f].id # NoRec
  BY <1>1, <1>2 DEF Targets, IInv, Owned, Known
<1>3. CASE form[f].id = NoRec
  <2> DEFINE unused == {x \in KindOf(f) \ {NoRec} : row[x].proj \notin Project}
  <2>1. unused # {} /\ r = CHOOSE x \in unused : TRUE
    BY <1>3 DEF Targets
  <2>2. r \in unused
    BY <2>1
  <2> QED
    BY <1>1, <1>3, <2>2
<1> QED
  BY <1>2, <1>3

LEMMA RowsSaved ==
    ASSUME IInv, NEW f \in Saving, NEW r \in Targets(f, KindOf(f) \ {NoRec}),
           sel \in Project, form[f].text # NoText
    PROVE  /\ RowSaved(f, r) \in [Record -> RowRecord]
           /\ \A x \in Record \ {r} : RowSaved(f, r)[x] = row[x]
           /\ form[f].id # NoRec =>
                /\ RowSaved(f, r)[r].proj = row[r].proj
                /\ RowSaved(f, r)[r].ver = row[r].ver
                /\ RowSaved(f, r)[r].seen = form[f].seen
                /\ RowSaved(f, r)[r].texts \subseteq row[r].texts \cup {form[f].text}
           /\ form[f].id = NoRec =>
                /\ RowSaved(f, r)[r].proj = sel
                /\ RowSaved(f, r)[r].ver = 0
                /\ RowSaved(f, r)[r].seen = 0
                /\ RowSaved(f, r)[r].texts = {form[f].text}
<1>1. f \in Form /\ form[f] \in FormRecord /\ row \in [Record -> RowRecord]
  BY DEF Saving, Form, IInv, Types, DataTypes, WindowTypes
<1>2. r \in Record /\ (form[f].id # NoRec => r = form[f].id)
  BY TargetRecord
<1>3. CASE form[f].id # NoRec
  <2>1. RowSaved(f, r) = Saved(row, form[f])
    BY <1>3 DEF RowSaved
  <2> QED
    BY <1>1, <1>2, <1>3, <2>1, SavedRows
<1>4. CASE form[f].id = NoRec
  <2> DEFINE new == [proj |-> sel, live |-> TRUE, ver |-> 0, seen |-> 0,
                     texts |-> {form[f].text}, target |-> NoRec]
  <2>1. new \in RowRecord
    BY <1>1 DEF RowRecord, Place, FormRecord
  <2>2. RowSaved(f, r) = [row EXCEPT ![r] = new]
    BY <1>4 DEF RowSaved
  <2> QED
    BY <1>1, <1>2, <1>4, <2>1, <2>2
<1> QED
  BY <1>3, <1>4

LEMMA FormsSaved ==
    ASSUME IInv, NEW f \in Saving, NEW r \in Targets(f, KindOf(f) \ {NoRec})
    PROVE  /\ FormSaved(f, r) \in FormRecord
           /\ FormSaved(f, r).id = r
           /\ FormSaved(f, r).text = NoText
           /\ form[f].id # NoRec =>
                /\ FormSaved(f, r).base = form[f].base
                /\ FormSaved(f, r).seen = form[f].seen
           /\ form[f].id = NoRec =>
                FormSaved(f, r).base = 0 /\ FormSaved(f, r).seen = 0
           /\ FormSaved(f, r).base <= srv[r]
           /\ BaseSaved(f) \in Version
<1>1. f \in Form /\ form[f] \in FormRecord /\ Types
  BY DEF Saving, Form, IInv, Types, WindowTypes
<1>2. /\ r \in Record
      /\ form[f].id # NoRec => r = form[f].id
  BY TargetRecord
<1>3. srv[r] \in Nat /\ (form[f].id # NoRec => form[f].base <= srv[r])
  BY <1>1, <1>2 DEF Types, DataTypes, IInv, Claims, Behind
<1>4. CASE form[f].id # NoRec
  <2>1. FormSaved(f, r) = Clean(form[f]) /\ BaseSaved(f) = BaseOf(form[f])
    BY <1>4 DEF FormSaved, BaseSaved
  <2> QED
    BY <1>1, <1>2, <1>3, <1>4, <2>1, CleanRecord, BaseTypes
<1>5. CASE form[f].id = NoRec
  <2> DEFINE new == [Blank EXCEPT !.id = r, !.base = 0]
  <2>1. new \in FormRecord /\ new.id = r /\ new.base = 0 /\ new.seen = 0
        /\ new.text = NoText
    BY <1>2 DEF Blank, FormRecord, Id, Version
  <2>2. FormSaved(f, r) = new /\ BaseSaved(f) = 0
    BY <1>5 DEF FormSaved, BaseSaved
  <2> QED
    BY <1>3, <1>5, <2>1, <2>2 DEF Version
<1> QED
  BY <1>4, <1>5

\* What a save of form f in record r does to the tables.
SaveStep(f, r) ==
    /\ row' \in [Record -> RowRecord]
    /\ \A x \in Record \ {r} : row'[x] = row[x]
    /\ row'[r].proj = RowSaved(f, r)[r].proj
    /\ row'[r].ver = RowSaved(f, r)[r].ver
    /\ row'[r].texts = RowSaved(f, r)[r].texts
    /\ queue' = [queue EXCEPT ![r] = BaseSaved(f)]
    /\ sel \in Project /\ form[f].text # NoText

LEMMA SaveStepSound ==
    ASSUME IInv, NEW f \in Saving, NEW r \in Targets(f, KindOf(f) \ {NoRec}),
           SaveStep(f, r)
    PROVE  /\ queue' \in [Record -> Version]
           /\ \A x \in Record : RowStep(x) /\ row'[x].ver <= srv[x]
           /\ row'[r].proj \in Project
<1>1. /\ r \in Record /\ r \in KindOf(f) /\ r # NoRec
      /\ form[f].id # NoRec => r = form[f].id /\ row[r].proj \in Project
      /\ form[f].id = NoRec => row[r].proj \notin Project
  BY TargetRecord
<1>2. /\ form[f].id # NoRec =>
            /\ row'[r].proj = row[r].proj /\ row'[r].ver = row[r].ver
            /\ row'[r].texts \subseteq row[r].texts \cup {form[f].text}
      /\ form[f].id = NoRec =>
            /\ row'[r].proj = sel /\ row'[r].ver = 0
            /\ row'[r].texts = {form[f].text}
  BY RowsSaved DEF SaveStep
<1>3. BaseSaved(f) \in Version /\ queue \in [Record -> Version]
  BY FormsSaved DEF IInv, Types, DataTypes
<1>4. queue' \in [Record -> Version] /\ \A x \in Record \ {r} : queue'[x] = queue[x]
  BY <1>1, <1>3 DEF SaveStep
<1>5. row'[r].proj \in Project
  BY <1>1, <1>2 DEF SaveStep
<1>6. \A x \in Record : row'[x].ver <= srv[x]
  <2>1. \A x \in Record : row[x].ver <= srv[x] /\ srv[x] \in Nat
    BY DEF IInv, Claims, Behind, Types, DataTypes
  <2> QED
    BY <1>1, <1>2, <2>1 DEF SaveStep
<1>7. ASSUME NEW x \in Record, x # r
      PROVE  RowStep(x)
  BY <1>4, <1>7 DEF RowStep, SaveStep, IInv, Owned, Known
<1>8. RowStep(r)
  <2>1. \A t \in row'[r].texts :
            \/ t \in row[r].texts /\ row'[r].proj = row[r].proj
            \/ \E g \in Form :
                /\ t = form[g].text /\ t # NoText
                /\ \/ r = form[g].id
                   \/ /\ form[g].id = NoRec
                      /\ g = "ticket" => r \in Ticket
                      /\ g # "ticket" => row'[r].proj = sel
    <3>1. f \in Form /\ (f = "ticket" => r \in Ticket)
      BY <1>1 DEF Saving, Form, KindOf
    <3> QED
      BY <1>1, <1>2, <3>1 DEF SaveStep
  <2> QED
    BY <1>1, <1>2, <1>5, <2>1 DEF RowStep
<1> QED
  BY <1>4, <1>5, <1>6, <1>7, <1>8

LEMMA SaveScoredSound ==
    ASSUME IInv, NEW r \in Scored, SaveScored(r)
    PROVE  WindowStep
<1> DEFINE f == "scored"
<1>1. f \in Saving /\ KindOf(f) \ {NoRec} = Scored /\ "assessment" \notin Saving
  BY Kinds DEF Saving, KindOf
<1>2. r \in Targets(f, KindOf(f) \ {NoRec})
  BY <1>1 DEF SaveScored
<1>3. /\ row' = RowSaved(f, r) /\ queue' = [queue EXCEPT ![r] = BaseSaved(f)]
      /\ sel \in Project /\ form[f].text # NoText
      /\ UNCHANGED <<srv, removed, assessed, sel, pass, budget, texts, origin, pick,
                     refused, raised>>
  BY DEF SaveScored, server, history
<1>4. SaveStep(f, r)
  BY <1>1, <1>2, <1>3, RowsSaved DEF SaveStep
<1>5. /\ queue' \in [Record -> Version]
      /\ \A x \in Record : RowStep(x) /\ row'[x].ver <= srv[x]
      /\ row'[r].proj \in Project
  BY <1>1, <1>2, <1>4, SaveStepSound
<1>6. /\ row' \in [Record -> RowRecord]
      /\ \A x \in Record \ {r} : row'[x] = row[x] /\ queue'[x] = queue[x]
  BY <1>3, <1>4 DEF SaveStep, IInv, Types, DataTypes
<1>7. cache' \in [Record -> CacheRecord] /\ \A x \in Record : CacheStep(x)
  BY <1>6, RefreshStep DEF SaveScored
<1>8. combo' \in Scored \cup {NoRec} /\ TargetAsPicked'
  BY <1>3, ComboStep DEF SaveScored
<1>9. /\ FormSaved(f, r) \in FormRecord
      /\ FormSaved(f, r).id = r
      /\ FormSaved(f, r).text = NoText
      /\ FormSaved(f, r).base <= srv[r]
  BY <1>1, <1>2, FormsSaved
<1>10. /\ form' \in [Form -> FormRecord]
       /\ form'["scored"] = FormSaved(f, r) /\ form'["assessment"] = Assess(r)
       /\ form'["action"] = form["action"] /\ form'["ticket"] = form["ticket"]
  BY <1>9, AssessRecord, Kinds DEF SaveScored, IInv, Types, WindowTypes, Id
<1>11. \A g \in Form : FormStep(g)
  <2>1. FormStep("scored")
    BY <1>1, <1>3, <1>5, <1>9, <1>10 DEF FormStep, KindOf
  <2>2. FormStep("assessment")
    BY <1>3, <1>5, <1>10, AssessmentForm, Kinds DEF IInv, Types, DataTypes
  <2>3. FormStep("action") /\ FormStep("ticket")
    BY <1>10 DEF FormStep
  <2> QED
    BY <2>1, <2>2, <2>3 DEF Form
<1>12. dirty' = FALSE /\ refused' \in BOOLEAN /\ TypedIsFlagged' /\ sel' \in Place
       /\ pick' \in Scored \cup {NoRec} /\ raised' \in SUBSET Action
  BY <1>3, <1>9, <1>10 DEF SaveScored, TypedIsFlagged, IInv, Types, WindowTypes, HistoryTypes
<1>13. \A a \in Action \ raised' : Honest(a)'
  <2> SUFFICES ASSUME NEW a \in Action \ raised PROVE Honest(a)'
    BY <1>3
  <2>1. a \in Record \ {r}
    BY Kinds
  <2> QED
    BY <1>6, <1>7, <1>10, <2>1, HonestKept
<1>14. form'["action"].id # NoRec => form'["action"].base # None
  BY <1>10 DEF IInv, Claims
<1> QED
  BY <1>3, <1>5, <1>6, <1>7, <1>8, <1>10, <1>11, <1>12, <1>13, <1>14
  DEF WindowStep, Flags

LEMMA SaveTicketSound ==
    ASSUME IInv, NEW t \in Ticket, SaveTicket(t)
    PROVE  WindowStep
<1> DEFINE f == "ticket"
           kept == [FormSaved(f, t) EXCEPT !.base = None]
<1>1. f \in Saving /\ KindOf(f) \ {NoRec} = Ticket
  BY Kinds DEF Saving, KindOf
<1>2. t \in Targets(f, KindOf(f) \ {NoRec})
  BY <1>1 DEF SaveTicket
<1>3. /\ row' = RowSaved(f, t) /\ queue' = [queue EXCEPT ![t] = BaseSaved(f)]
      /\ sel \in Project /\ form[f].text # NoText
      /\ UNCHANGED <<srv, removed, assessed, sel, pass, budget, texts, origin, pick,
                     refused, raised, dirty, combo>>
  BY DEF SaveTicket, server, history
<1>4. SaveStep(f, t)
  BY <1>1, <1>2, <1>3, RowsSaved DEF SaveStep
<1>5. /\ queue' \in [Record -> Version]
      /\ \A x \in Record : RowStep(x) /\ row'[x].ver <= srv[x]
      /\ row'[t].proj \in Project
  BY <1>1, <1>2, <1>4, SaveStepSound
<1>6. /\ row' \in [Record -> RowRecord]
      /\ \A x \in Record \ {t} : row'[x] = row[x] /\ queue'[x] = queue[x]
  BY <1>3, <1>4 DEF SaveStep, IInv, Types, DataTypes
<1>7. cache' \in [Record -> CacheRecord] /\ \A x \in Record : CacheStep(x)
  BY <1>6, RefreshStep DEF SaveTicket
<1>9. FormSaved(f, t) \in FormRecord /\ FormSaved(f, t).id = t
      /\ FormSaved(f, t).text = NoText
  BY <1>1, <1>2, FormsSaved
<1>10. kept \in FormRecord /\ kept.id = t /\ kept.text = NoText /\ kept.base = None
  BY <1>9 DEF FormRecord, Version
<1>11. form' = [form EXCEPT !["ticket"] = kept]
  BY DEF SaveTicket
<1> HIDE DEF kept
<1>12. /\ form' \in [Form -> FormRecord] /\ form'["ticket"] = kept
       /\ \A g \in Form \ {"ticket"} : form'[g] = form[g]
  BY <1>10, <1>11, Kinds DEF IInv, Types, WindowTypes
<1>13. \A g \in Form : FormStep(g)
  <2>1. FormStep("ticket")
    BY <1>1, <1>3, <1>5, <1>10, <1>12, Kinds DEF FormStep, KindOf, IInv, Types, DataTypes
  <2> QED
    BY <2>1, <1>12 DEF FormStep
<1>14. /\ dirty' \in BOOLEAN /\ refused' \in BOOLEAN /\ sel' \in Place
       /\ combo' \in Scored \cup {NoRec}
       /\ pick' \in Scored \cup {NoRec} /\ raised' \in SUBSET Action
  BY <1>3 DEF IInv, Types, WindowTypes, HistoryTypes
<1>15. Flags'
  BY <1>3, <1>12, Kinds DEF IInv, Flags, TypedIsFlagged, TargetAsPicked
<1>16. \A a \in Action \ raised' : Honest(a)'
  <2> SUFFICES ASSUME NEW a \in Action \ raised PROVE Honest(a)'
    BY <1>3
  <2>1. a \in Record \ {t} /\ form'["action"] = form["action"]
    BY <1>12, Kinds
  <2> QED
    BY <1>6, <1>7, <2>1, HonestKept
<1>17. form'["action"].id # NoRec => form'["action"].base # None
  BY <1>12, Kinds DEF IInv, Claims
<1> QED
  BY <1>3, <1>5, <1>6, <1>7, <1>12, <1>13, <1>14, <1>15, <1>16, <1>17
  DEF WindowStep

\* A save claims more than was seen only if it raises the claim of an unsent
\* one.
LEMMA SaveActionSound ==
    ASSUME IInv, NEW a \in Action, SaveAction(a)
    PROVE  WindowStep
<1> DEFINE f == "action"
<1>1. f \in Saving /\ KindOf(f) \ {NoRec} = Action
  BY Kinds DEF Saving, KindOf
<1>2. a \in Targets(f, KindOf(f) \ {NoRec}) /\ a \in Record /\ a # NoRec
  BY <1>1, Kinds DEF SaveAction
<1>3. /\ row' = [RowSaved(f, a) EXCEPT ![a].target = combo]
      /\ queue' = [queue EXCEPT ![a] = BaseSaved(f)]
      /\ sel \in Project /\ form[f].text # NoText
      /\ UNCHANGED <<srv, removed, assessed, sel, pass, budget, texts, origin, pick,
                     refused, dirty, combo>>
  BY DEF SaveAction, server
<1>4. RowSaved(f, a) \in [Record -> RowRecord]
      /\ \A x \in Record \ {a} : RowSaved(f, a)[x] = row[x]
  BY <1>1, <1>2, <1>3, RowsSaved
<1>5. /\ row' \in [Record -> RowRecord]
      /\ \A x \in Record \ {a} : row'[x] = row[x]
      /\ row'[a].proj = RowSaved(f, a)[a].proj
      /\ row'[a].ver = RowSaved(f, a)[a].ver
      /\ row'[a].seen = RowSaved(f, a)[a].seen
      /\ row'[a].texts = RowSaved(f, a)[a].texts
  <2> DEFINE rows == RowSaved(f, a)
             new == [rows[a] EXCEPT !.target = combo]
  <2>1. rows[a] \in RowRecord /\ combo \in Scored \cup {NoRec}
    BY <1>2, <1>4 DEF IInv, Types, WindowTypes
  <2> HIDE DEF rows
  <2>2. /\ new \in RowRecord /\ new.proj = rows[a].proj /\ new.ver = rows[a].ver
        /\ new.seen = rows[a].seen /\ new.texts = rows[a].texts
    BY <2>1 DEF RowRecord
  <2>3. row' = [rows EXCEPT ![a] = new]
    BY <1>3 DEF rows
  <2> HIDE DEF new
  <2> QED
    BY <1>2, <1>4, <2>2, <2>3 DEF rows
<1>6. SaveStep(f, a)
  BY <1>3, <1>5 DEF SaveStep
<1>7. /\ queue' \in [Record -> Version]
      /\ \A x \in Record : RowStep(x) /\ row'[x].ver <= srv[x]
      /\ row'[a].proj \in Project
  BY <1>1, <1>2, <1>6, SaveStepSound
<1>8. cache' \in [Record -> CacheRecord] /\ \A x \in Record : CacheStep(x)
  BY <1>5, RefreshStep DEF SaveAction
<1>9. /\ FormSaved(f, a) \in FormRecord
      /\ FormSaved(f, a).id = a
      /\ FormSaved(f, a).text = NoText
      /\ form[f].id # NoRec =>
            /\ FormSaved(f, a).base = form[f].base
            /\ FormSaved(f, a).seen = form[f].seen
      /\ form[f].id = NoRec =>
            FormSaved(f, a).base = 0 /\ FormSaved(f, a).seen = 0
      /\ FormSaved(f, a).base <= srv[a]
  BY <1>1, <1>2, FormsSaved
<1>10. /\ form' \in [Form -> FormRecord] /\ form'["action"] = FormSaved(f, a)
       /\ \A g \in Form \ {"action"} : form'[g] = form[g]
  BY <1>9, Kinds DEF SaveAction, IInv, Types, WindowTypes
<1>11. \A g \in Form : FormStep(g)
  <2>1. FormStep("action")
    BY <1>1, <1>3, <1>7, <1>9, <1>10 DEF FormStep, KindOf
  <2> QED
    BY <2>1, <1>10 DEF FormStep
<1>12. /\ dirty' \in BOOLEAN /\ refused' \in BOOLEAN /\ sel' \in Place
       /\ combo' \in Scored \cup {NoRec}
       /\ pick' \in Scored \cup {NoRec}
  BY <1>3 DEF IInv, Types, WindowTypes, HistoryTypes
<1>13. Flags'
  BY <1>3, <1>10, Kinds DEF IInv, Flags, TypedIsFlagged, TargetAsPicked
<1>14. /\ form[f].id # NoRec => form[f].base # None
       /\ form[f].base \in Version /\ form[f].seen \in Nat
  BY Kinds DEF IInv, Claims, Types, WindowTypes, FormRecord
<1>15. form'["action"].id # NoRec => form'["action"].base # None
  BY <1>9, <1>10, <1>14
<1>16. raised' = (IF queue[a] # None /\ queue[a] < queue'[a] THEN raised \cup {a}
                  ELSE raised)
  BY DEF SaveAction
<1>17. raised' \in SUBSET Action
  BY <1>16 DEF IInv, Types, HistoryTypes
<1>18. \A b \in Action \ raised' : b # a => Honest(b)'
  <2> SUFFICES ASSUME NEW b \in Action \ raised, b # a PROVE Honest(b)'
    BY <1>16
  <2>1. Honest(b) /\ b \in Record /\ row'[b] = row[b] /\ queue'[b] = queue[b]
    BY <1>3, <1>5, Kinds DEF IInv, Claims, Types, DataTypes
  <2>2. cache'[b].seen < cache'[b].ver => Outdated(b, cache'[b].ver)
    BY <1>8, <2>1 DEF CacheStep, Gone, Honest, Outdated
  <2> QED
    BY <1>9, <1>10, <2>1, <2>2 DEF Honest, Outdated
<1>19. a \notin raised' => Honest(a)'
  <2> SUFFICES ASSUME a \notin raised' PROVE Honest(a)'
    OBVIOUS
  <2>1. a \notin raised /\ ~(queue[a] # None /\ queue[a] < queue'[a])
    BY <1>16
  <2>2. Honest(a) /\ queue'[a] = BaseSaved(f)
    BY <1>2, <1>3, <2>1 DEF IInv, Claims, Types, DataTypes
  <2>3. form'["action"].seen = row'[a].seen /\ form'["action"].base = queue'[a]
        /\ queue'[a] <= row'[a].seen /\ queue'[a] \in Nat /\ row'[a].seen \in Nat
        /\ row'[a].ver \in Nat
    <3>0. row'[a].seen \in Nat /\ row'[a].ver \in Nat
      BY <1>2, <1>5 DEF RowRecord
    <3>1. CASE form[f].id = NoRec
      <4>1. BaseSaved(f) = 0
        BY <3>1 DEF BaseSaved
      <4>2. row'[a].seen = 0
        BY <1>1, <1>2, <1>3, <1>5, <3>1, RowsSaved
      <4> QED
        BY <1>9, <1>10, <2>2, <3>0, <3>1, <4>1, <4>2
    <3>2. CASE form[f].id # NoRec
      <4>1. form[f].id = a
        BY <1>1, <1>2, <3>2, TargetRecord
      <4>2. row'[a].seen = form[f].seen
        BY <1>1, <1>2, <1>3, <1>5, <3>2, RowsSaved
      <4>3. BaseSaved(f) = form[f].base
        BY <1>14, <3>2 DEF BaseSaved, BaseOf
      <4>4. form[f].base <= form[f].seen
        <5>1. form[f].seen < form[f].base => queue[a] # None /\ queue[a] < form[f].base
          BY <2>2, <4>1 DEF Honest, Outdated
        <5> QED
          BY <1>14, <2>1, <2>2, <3>2, <4>3, <5>1 DEF Version
      <4> QED
        BY <1>9, <1>10, <1>14, <2>2, <3>0, <3>2, <4>2, <4>3, <4>4 DEF Version
    <3> QED
      BY <3>1, <3>2
  <2>4. row'[a].seen < row'[a].ver => queue'[a] < row'[a].ver
    BY <2>3 DEF Outdated
  <2>5. \/ cache'[a] = Gone
        \/ cache'[a].ver = row'[a].ver /\ cache'[a].seen = row'[a].seen
    <3>1. cache \in [Record -> CacheRecord] /\ cache' = Refreshed(Action, row', sel)
      BY DEF IInv, Types, WindowTypes, SaveAction
    <3>2. \/ cache'[a] = Gone
          \/ cache'[a] =
               [ver |-> row'[a].ver, seen |-> row'[a].seen, listed |-> TRUE]
      BY <1>2, <1>5, <3>1 DEF Refreshed
    <3> QED
      BY <3>2
  <2>6. cache'[a].seen < cache'[a].ver => queue'[a] < cache'[a].ver
    BY <2>3, <2>5 DEF Gone
  <2> QED
    BY <2>3, <2>4, <2>6 DEF Honest, Outdated
<1>20. \A b \in Action \ raised' : Honest(b)'
  BY <1>18, <1>19
<1> QED
  BY <1>3, <1>5, <1>7, <1>8, <1>10, <1>11, <1>12, <1>13, <1>15, <1>17, <1>20
  DEF WindowStep

-----------------------------------------------------------------------------
(* The other steps of the window                                           *)

\* Steps that change one form, and at most the target besides.
LEMMA OneForm ==
    ASSUME IInv, NEW f \in {"action", "ticket"}, NEW new \in FormRecord,
           form' = [form EXCEPT ![f] = new], new.text = NoText,
           new.id \in KindOf(f),
           new.id # NoRec => new.id \in Known /\ new.base <= srv[new.id],
           f = "action" /\ new.id # NoRec =>
               /\ new.base # None
               /\ new.id \notin raised /\ new.seen < new.base =>
                    Outdated(new.id, new.base),
           combo' \in {NoRec, pick'}, pick' \in Scored \cup {NoRec},
           UNCHANGED <<srv, removed, row, queue, assessed, dirty, cache, sel, pass,
                       budget, texts, origin, refused, raised>>
    PROVE  WindowStep
<1>1. /\ form' \in [Form -> FormRecord] /\ form'[f] = new
      /\ \A g \in Form \ {f} : form'[g] = form[g]
  BY Kinds DEF IInv, Types, WindowTypes
<1>2. \A g \in Form : FormStep(g)
  BY <1>1 DEF FormStep, Known
<1>3. \A r \in Record : RowStep(r) /\ CacheStep(r) /\ row'[r].ver <= srv[r]
  BY DEF RowStep, CacheStep, IInv, Owned, Known, Claims, Behind
<1>4. Flags'
  <2>1. form'["scored"] = form["scored"]
    BY <1>1, Kinds
  <2> QED
    BY <2>1 DEF IInv, Flags, TypedIsFlagged, TargetAsPicked
<1>5. form'["action"].id # NoRec => form'["action"].base # None
  BY <1>1, Kinds DEF IInv, Claims
<1>6. \A a \in Action \ raised' : Honest(a)'
  <2> SUFFICES ASSUME NEW a \in Action \ raised PROVE Honest(a)'
    OBVIOUS
  <2>1. Honest(a)
    BY DEF IInv, Claims
  <2>2. CASE f = "action"
    <3>1. form'["action"] = new /\ a # NoRec
      BY <1>1, <2>2, Kinds
    <3> QED
      BY <2>1, <2>2, <3>1 DEF Honest, Outdated
  <2>3. CASE f = "ticket"
    <3>1. form'["action"] = form["action"]
      BY <1>1, <2>3, Kinds
    <3> QED
      BY <2>1, <3>1 DEF Honest, Outdated
  <2> QED
    BY <2>2, <2>3
<1>7. combo' \in Scored \cup {NoRec}
  OBVIOUS
<1> QED
  BY <1>1, <1>2, <1>3, <1>4, <1>5, <1>6, <1>7
  DEF WindowStep, IInv, Types, DataTypes, WindowTypes, HistoryTypes

LEMMA ClickActionSound ==
    ASSUME IInv, NEW a \in Action, ClickAction(a)
    PROVE  WindowStep
<1> DEFINE new == [Blank EXCEPT !.id = a, !.base = cache[a].ver, !.seen = cache[a].seen]
<1>1. /\ a \in Record /\ a # NoRec /\ cache[a] \in CacheRecord /\ row[a] \in RowRecord
      /\ row[a].proj \in Project /\ cache[a].ver <= srv[a] /\ cache[a].ver # None
  BY Kinds DEF ClickAction, IInv, Types, DataTypes, WindowTypes, Owned, Known, Claims, Behind
<1>2. /\ new \in FormRecord /\ new.id = a /\ new.text = NoText
      /\ new.base = cache[a].ver /\ new.seen = cache[a].seen
  BY <1>1 DEF Blank, FormRecord, CacheRecord, Id
<1>3. form' = [form EXCEPT !["action"] = new]
  BY DEF ClickAction
<1> HIDE DEF new
<1>4. combo' \in {NoRec, pick'} /\ pick' \in Scored \cup {NoRec}
  BY <1>1 DEF ClickAction, RowRecord
<1>5. UNCHANGED <<srv, removed, row, queue, assessed, dirty, cache, sel, pass,
                  budget, texts, origin, refused, raised>>
  BY DEF ClickAction, server, data
<1>6. new.id \in KindOf("action") /\ new.id \in Known /\ new.base <= srv[new.id]
      /\ new.base # None
  BY <1>1, <1>2 DEF KindOf, Known
<1>7. new.id \notin raised /\ new.seen < new.base => Outdated(new.id, new.base)
  BY <1>2 DEF IInv, Claims, Honest
<1> QED
  BY <1>2, <1>3, <1>4, <1>5, <1>6, <1>7, OneForm

LEMMA ClickTicketSound ==
    ASSUME IInv, NEW t \in Ticket, ClickTicket(t)
    PROVE  WindowStep
<1> DEFINE new == [Blank EXCEPT !.id = t, !.seen = cache[t].seen]
<1>1. /\ t \in Record /\ t # NoRec /\ cache[t] \in CacheRecord
      /\ row[t].proj \in Project /\ srv[t] \in Nat
  BY Kinds DEF ClickTicket, IInv, Types, DataTypes, WindowTypes, Owned, Known
<1>2. /\ new \in FormRecord /\ new.id = t /\ new.text = NoText /\ new.base = None
  BY <1>1 DEF Blank, FormRecord, CacheRecord, Id, Version
<1>3. form' = [form EXCEPT !["ticket"] = new]
  BY DEF ClickTicket
<1> HIDE DEF new
<1>4. combo' \in {NoRec, pick'} /\ pick' \in Scored \cup {NoRec}
  BY DEF ClickTicket, history, IInv, Flags, TargetAsPicked, Types, HistoryTypes
<1>5. UNCHANGED <<srv, removed, row, queue, assessed, dirty, cache, sel, pass,
                  budget, texts, origin, refused, raised>>
  BY DEF ClickTicket, server, data, history
<1>6. new.id \in KindOf("ticket") /\ new.id \in Known /\ new.base <= srv[new.id]
  BY <1>1, <1>2 DEF KindOf, Known
<1> QED
  BY <1>2, <1>3, <1>4, <1>5, <1>6, OneForm

LEMMA StartBlankSound ==
    ASSUME IInv, NEW f \in Form, StartBlank(f)
    PROVE  WindowStep
<1>1. f \in {"action", "ticket"} /\ form' = [form EXCEPT ![f] = Blank]
  BY DEF StartBlank
<1>2. combo' \in {NoRec, pick'} /\ pick' \in Scored \cup {NoRec}
  BY DEF StartBlank, history, IInv, Flags, TargetAsPicked, Types, HistoryTypes
<1>3. UNCHANGED <<srv, removed, row, queue, assessed, dirty, cache, sel, pass,
                  budget, texts, origin, refused, raised>>
  BY DEF StartBlank, server, data, history
<1>4. Blank.id \in KindOf(f)
  BY BlankRecord DEF KindOf
<1> QED
  BY <1>1, <1>2, <1>3, <1>4, BlankRecord, OneForm

LEMMA PickTargetSound ==
    ASSUME IInv, NEW r \in Scored, PickTarget(r)
    PROVE  WindowStep
<1>1. UNCHANGED <<srv, removed, row, queue, assessed, form, dirty, cache, sel, pass,
                  budget, texts, origin, refused, raised>>
  BY DEF PickTarget, server, data
<1>2. form["action"] \in FormRecord
  BY Kinds DEF IInv, Types, WindowTypes
<1>3. \A x \in Record : RowStep(x) /\ CacheStep(x) /\ row'[x].ver <= srv[x]
  BY <1>1 DEF RowStep, CacheStep, IInv, Owned, Known, Claims, Behind
<1>4. \A f \in Form : FormStep(f)
  BY <1>1 DEF FormStep
<1>5. Flags'
  BY <1>1 DEF PickTarget, IInv, Flags, TypedIsFlagged, TargetAsPicked
<1>6. \A a \in Action \ raised' : Honest(a)'
  BY <1>1 DEF IInv, Claims, Honest, Outdated
<1> QED
  BY <1>1, <1>3, <1>4, <1>5, <1>6
  DEF PickTarget, WindowStep, IInv, Claims, Types, DataTypes, WindowTypes, HistoryTypes

LEMMA DeleteTicketSound ==
    ASSUME IInv, DeleteTicket
    PROVE  WindowStep
<1> DEFINE t == form["ticket"].id
<1>1. Types /\ form["ticket"] \in FormRecord /\ t \in Record /\ t \in Ticket
      /\ row[t].proj \in Project
      /\ row \in [Record -> RowRecord] /\ queue \in [Record -> Version]
  BY FormTypes, Kinds DEF IInv, Types, DataTypes, DeleteTicket, Owned, Known
<1>2. /\ row' = [row EXCEPT ![t].live = FALSE]
      /\ UNCHANGED <<srv, removed, assessed, sel, pass, budget, texts, origin, pick,
                     refused, raised, dirty, combo>>
  BY DEF DeleteTicket, server, history
<1>3. /\ row' \in [Record -> RowRecord]
      /\ \A x \in Record :
            /\ row'[x].proj = row[x].proj /\ row'[x].ver = row[x].ver
            /\ row'[x].texts = row[x].texts
            /\ row'[x].live => row[x].live
            /\ x # t => row'[x] = row[x]
  BY <1>1, <1>2, DeletedRows
<1>4. /\ queue' \in [Record -> Version]
      /\ \A x \in Record \ {t} : queue'[x] = queue[x]
  BY <1>1, BaseTypes DEF DeleteTicket, Version
<1>5. /\ form' \in [Form -> FormRecord] /\ form'["ticket"] = Blank
      /\ \A g \in Form \ {"ticket"} : form'[g] = form[g]
  BY BlankRecord, Kinds DEF DeleteTicket, IInv, Types, WindowTypes
<1>6. cache' \in [Record -> CacheRecord] /\ \A x \in Record : CacheStep(x)
  BY <1>3, RefreshStep DEF DeleteTicket
<1>7. \A x \in Record : RowStep(x) /\ row'[x].ver <= srv[x]
  BY <1>1, <1>3, <1>4 DEF RowStep, IInv, Claims, Behind, Owned, Known
<1>8. \A g \in Form : FormStep(g)
  BY <1>5, EmptiedForm DEF FormStep
<1>9. Flags'
  <2>1. form'["scored"] = form["scored"]
    BY <1>5, Kinds
  <2> QED
    BY <1>2, <2>1 DEF IInv, Flags, TypedIsFlagged, TargetAsPicked
<1>10. \A a \in Action \ raised' : Honest(a)'
  <2> SUFFICES ASSUME NEW a \in Action \ raised PROVE Honest(a)'
    BY <1>2
  <2>1. a \in Record \ {t} /\ form'["action"] = form["action"]
    BY <1>1, <1>5, Kinds
  <2> QED
    BY <1>3, <1>4, <1>6, <2>1, HonestKept
<1>11. form'["action"].id # NoRec => form'["action"].base # None
  BY <1>5, Kinds DEF IInv, Claims
<1> QED
  BY <1>2, <1>3, <1>4, <1>5, <1>6, <1>7, <1>8, <1>9, <1>10, <1>11
  DEF WindowStep, IInv, Types, DataTypes, WindowTypes, HistoryTypes

-----------------------------------------------------------------------------
(* The callback of a pass                                                  *)

\* A form that follows its own save keeps its record and text; what it claims
\* is then what it has seen, or was outdated before.
LEMMA FollowedForm ==
    ASSUME IInv, NEW f \in Form, pass # <<>>
    PROVE  /\ Followed(f) \in FormRecord
           /\ Followed(f).id = form[f].id /\ Followed(f).text = form[f].text
           /\ form[f].id # NoRec => Followed(f).base <= srv[form[f].id]
           /\ form[f].base # None => Followed(f).base # None
           /\ Followed(f).seen < Followed(f).base =>
                form[f].seen < form[f].base /\ form[f].base <= Followed(f).base
<1> DEFINE own == {k \in pass[1] : k.rec = form[f].id /\ k.base = form[f].base}
<1>1. form[f] \in FormRecord /\ (form[f].id # NoRec => form[f].base <= srv[form[f].id])
  BY DEF IInv, Types, WindowTypes, Claims, Behind
<1>2. CASE f \notin {"scored", "action"} \/ own = {}
  <2>1. Followed(f) = form[f]
    BY <1>2 DEF Followed
  <2> QED
    BY <1>1, <2>1 DEF FormRecord, Version
<1>3. CASE ~(f \notin {"scored", "action"} \/ own = {})
  <2>1. PICK A \in SUBSET Ack : pass = <<A>>
    BY DEF IInv, Types, DataTypes
  <2> DEFINE k == CHOOSE k \in own : TRUE
             new == [form[f] EXCEPT !.base = k.ver,
                        !.seen = IF form[f].seen >= k.base THEN k.ver ELSE form[f].seen]
  <2>2. Followed(f) = new
    BY <1>3 DEF Followed
  <2>3. k \in own
    BY <1>3
  <2> HIDE DEF k
  <2>4. k \in Ack /\ k.rec = form[f].id /\ k.base = form[f].base
        /\ k.ver = k.base + 1 /\ k.ver <= srv[k.rec]
    BY <2>1, <2>3 DEF IInv, Claims, Behind
  <2>5. k.ver \in Nat /\ k.base \in Nat /\ form[f].seen \in Nat
    BY <1>1, <2>4 DEF Ack, FormRecord
  <2>6. /\ new \in FormRecord /\ new.id = form[f].id /\ new.text = form[f].text
        /\ new.base = k.ver
        /\ new.seen = IF form[f].seen >= k.base THEN k.ver ELSE form[f].seen
    BY <1>1, <2>5 DEF FormRecord, Version
  <2> HIDE DEF new
  <2> QED
    BY <2>2, <2>4, <2>5, <2>6
<1> QED
  BY <1>2, <1>3

LEMMA DeliverSound ==
    ASSUME IInv, Deliver
    PROVE  WindowStep
<1>1. /\ pass # <<>> /\ pass' = <<>> /\ cache' = Refreshed(Record, row, sel)
      /\ combo' = ComboAfter(row, sel)
      /\ UNCHANGED <<srv, removed, row, queue, assessed, dirty, sel, budget, texts,
                     origin, pick, refused, raised>>
  BY DEF Deliver, server, data, history
<1>2. Types /\ form \in [Form -> FormRecord] /\ row' \in [Record -> RowRecord]
  BY <1>1 DEF IInv, Types, DataTypes, WindowTypes
<1>3. cache' \in [Record -> CacheRecord] /\ \A x \in Record : CacheStep(x)
  <2>1. cache' = Refreshed(Record, row', sel)
    BY <1>1
  <2> QED
    BY <1>2, <2>1, RefreshStep
<1>4. combo' \in Scored \cup {NoRec} /\ TargetAsPicked'
  BY <1>1, ComboStep
<1>5. /\ \A f \in Form \ {"assessment"} : form'[f] = Followed(f)
      /\ form'["assessment"] = Assess(form["assessment"].id)
      /\ form' \in [Form -> FormRecord]
  <2>1. /\ form' = [f \in Form |-> IF f = "assessment" THEN Assess(form[f].id)
                                   ELSE Followed(f)]
    BY DEF Deliver
  <2>2. \A f \in Form : Followed(f) \in FormRecord
    BY <1>1, FollowedForm
  <2>3. \A f \in Form : Assess(form[f].id) \in FormRecord
    BY <1>2, AssessRecord DEF FormRecord
  <2> QED
    BY <2>1, <2>2, <2>3, Kinds
<1>6. \A f \in Form : FormStep(f)
  <2>1. ASSUME NEW f \in Form, f # "assessment"
        PROVE  FormStep(f)
    BY <1>1, <1>5, <2>1, FollowedForm DEF FormStep
  <2>2. FormStep("assessment")
    <3> DEFINE r == form["assessment"].id
    <3>1. r \in Scored \cup {NoRec}
      BY <1>2, FormTypes
    <3>2. CASE r = NoRec
      BY <1>5, <3>2, AssessRecord DEF FormStep, Id, KindOf
    <3>3. CASE r # NoRec
      <4>1. r \in Scored /\ row'[r].proj \in Project /\ srv'[r] \in Nat
        BY <1>1, <3>1, <3>3, Kinds DEF IInv, Owned, Known, Types, DataTypes
      <4> QED
        BY <1>5, <4>1, AssessmentForm
    <3> QED
      BY <3>2, <3>3
  <2> QED
    BY <2>1, <2>2
<1>7. TypedIsFlagged'
  <2>1. form'["scored"].text = form["scored"].text
    BY <1>1, <1>5, FollowedForm, Kinds
  <2> QED
    BY <1>1, <2>1 DEF IInv, Flags, TypedIsFlagged
<1>8. \A r \in Record : RowStep(r) /\ row'[r].ver <= srv[r]
  BY <1>1 DEF RowStep, IInv, Owned, Known, Claims, Behind
<1>9. /\ form'["action"].id = form["action"].id
      /\ form["action"].base # None => form'["action"].base # None
      /\ form'["action"].seen < form'["action"].base =>
            /\ form["action"].seen < form["action"].base
            /\ form["action"].base <= form'["action"].base
      /\ form["action"].base \in Version /\ form'["action"].base \in Version
  BY <1>1, <1>2, <1>5, FollowedForm, Kinds DEF FormRecord
<1>10. \A a \in Action \ raised' : Honest(a)'
  <2> SUFFICES ASSUME NEW a \in Action \ raised PROVE Honest(a)'
    BY <1>1
  <2>1. Honest(a) /\ queue[a] \in Version /\ CacheStep(a)
    BY <1>2, <1>3, Kinds DEF IInv, Claims, Types, DataTypes
  <2>2. cache'[a].seen < cache'[a].ver => Outdated(a, cache'[a].ver)
    BY <1>1, <2>1 DEF CacheStep, Gone, Honest, Outdated
  <2>3. form'["action"].id = a /\ form'["action"].seen < form'["action"].base =>
            Outdated(a, form'["action"].base)
    BY <1>9, <2>1 DEF Honest, Outdated, Version
  <2> QED
    BY <1>1, <2>1, <2>2, <2>3 DEF Honest, Outdated
<1>11. form'["action"].id # NoRec => form'["action"].base # None
  BY <1>9 DEF IInv, Claims
<1> QED
  BY <1>1, <1>2, <1>3, <1>4, <1>5, <1>6, <1>7, <1>8, <1>10, <1>11
  DEF WindowStep, Flags, Types, DataTypes, WindowTypes, HistoryTypes

-----------------------------------------------------------------------------
(* The steps that are not the window's alone                               *)

LEMMA TypeSound ==
    ASSUME IInv, NEW f \in Form, NEW ok \in BOOLEAN, Type(f, ok)
    PROVE  IInv'
<1>1. /\ UNCHANGED <<srv, removed, row, queue, assessed, cache, combo, sel, pass,
                     budget, pick, refused, raised>>
      /\ sel \in Project
  BY DEF Type, server, data
<1>2. Types /\ form \in [Form -> FormRecord] /\ form[f] \in FormRecord
      /\ form[f].text \in Nat /\ texts \in Nat /\ budget.texts \in Nat
  BY DEF IInv, Types, WindowTypes, HistoryTypes, FormRecord
<1>3. \E new \in FormRecord :
        /\ form' = [form EXCEPT ![f] = new]
        /\ new.id = form[f].id /\ new.base = form[f].base /\ new.seen = form[f].seen
        /\ \/ new.text = form[f].text /\ UNCHANGED <<texts, origin>>
           \/ /\ new.text = texts + 1 /\ texts' = texts + 1
              /\ texts < budget.texts
              /\ origin' = [origin EXCEPT ![texts + 1] =
                               [rec |-> form[f].id, proj |-> sel]]
  <2>1. CASE form[f].text = NoText
    <3> DEFINE new == [form[f] EXCEPT !.text = texts + 1, !.ok = ok]
    <3>1. /\ new \in FormRecord
          /\ new.id = form[f].id /\ new.base = form[f].base /\ new.seen = form[f].seen
          /\ new.text = texts + 1
      <4>1. PICK t \in Nat : t = texts + 1
        BY <1>2
      <4>2. PICK g \in FormRecord : g = form[f]
        BY <1>2
      <4>3. /\ [g EXCEPT !.text = t, !.ok = ok] \in FormRecord
            /\ [g EXCEPT !.text = t, !.ok = ok].text = t
            /\ [g EXCEPT !.text = t, !.ok = ok].id = g.id
            /\ [g EXCEPT !.text = t, !.ok = ok].base = g.base
            /\ [g EXCEPT !.text = t, !.ok = ok].seen = g.seen
        BY DEF FormRecord
      <4>4. new = [g EXCEPT !.text = t, !.ok = ok]
        BY <4>1, <4>2
      <4> QED
        BY <4>1, <4>2, <4>3, <4>4
    <3>2. /\ form' = [form EXCEPT ![f] = new] /\ texts' = texts + 1
          /\ texts < budget.texts
          /\ origin' = [origin EXCEPT ![texts + 1] =
                           [rec |-> form[f].id, proj |-> sel]]
      BY <2>1, <1>2 DEF Type
    <3> QED
      BY <3>1, <3>2
  <2>2. CASE form[f].text # NoText
    <3> DEFINE new == [form[f] EXCEPT !.ok = ok]
    <3>1. /\ new \in FormRecord
          /\ new.id = form[f].id /\ new.base = form[f].base /\ new.seen = form[f].seen
          /\ new.text = form[f].text
      BY <1>2 DEF FormRecord
    <3>2. form' = [form EXCEPT ![f] = new] /\ UNCHANGED <<texts, origin>>
      BY <2>2 DEF Type
    <3> QED
      BY <3>1, <3>2
  <2> QED
    BY <2>1, <2>2
<1>4. /\ form' \in [Form -> FormRecord]
      /\ \A g \in Form : /\ form'[g].id = form[g].id /\ form'[g].base = form[g].base
                         /\ form'[g].seen = form[g].seen
      /\ \A g \in Form \ {f} : form'[g] = form[g]
      /\ texts' \in Nat /\ texts <= texts' /\ texts' <= budget.texts
      /\ origin' \in [1..budget.texts -> Origin]
      /\ \A t \in 1..texts : t # texts + 1 /\ origin'[t] = origin[t]
  <2>1. texts <= budget.texts /\ origin \in [1..budget.texts -> Origin]
    BY <1>2 DEF Types, HistoryTypes
  <2>2. [rec |-> form[f].id, proj |-> sel] \in Origin
    BY <1>1, <1>2 DEF Origin, FormRecord, Place
  <2>3. PICK new \in FormRecord :
            /\ form' = [form EXCEPT ![f] = new]
            /\ new.id = form[f].id /\ new.base = form[f].base /\ new.seen = form[f].seen
    BY <1>3
  <2>4. /\ form' \in [Form -> FormRecord]
        /\ \A g \in Form : /\ form'[g].id = form[g].id /\ form'[g].base = form[g].base
                           /\ form'[g].seen = form[g].seen
        /\ \A g \in Form \ {f} : form'[g] = form[g]
    BY <1>2, <2>3
  <2>5. CASE UNCHANGED <<texts, origin>>
    BY <1>2, <2>1, <2>4, <2>5
  <2>6. CASE /\ texts' = texts + 1 /\ texts < budget.texts
             /\ origin' = [origin EXCEPT ![texts + 1] =
                              [rec |-> form[f].id, proj |-> sel]]
    <3>1. /\ texts' \in Nat /\ texts <= texts' /\ texts' <= budget.texts
          /\ \A t \in 1..texts : t # texts + 1 /\ t \in 1..budget.texts
      BY <1>2, <2>6
    <3>2. /\ origin' \in [1..budget.texts -> Origin]
          /\ \A t \in 1..texts : origin'[t] = origin[t]
      BY <2>1, <2>2, <2>6, <3>1
    <3> QED
      BY <2>4, <3>1, <3>2
  <2> QED
    BY <1>3, <2>5, <2>6
<1>5. Types'
  <2>1. dirty' \in BOOLEAN
    BY <1>2 DEF Type, Types, WindowTypes
  <2> QED
    BY <1>1, <1>2, <1>4, <2>1 DEF Types, DataTypes, WindowTypes, HistoryTypes
<1>6. Owned'
  BY <1>1, <1>4 DEF IInv, Owned, Known
<1>7. TypedHere'
  <2> SUFFICES ASSUME NEW g \in Form, form'[g].text # NoText
               PROVE  /\ form'[g].text \in 1..texts'
                      /\ origin'[form'[g].text].rec = form'[g].id
                      /\ g = "assessment" => form'[g].id # NoRec
                      /\ g # "ticket" /\ form'[g].id = NoRec =>
                           origin'[form'[g].text].proj = sel'
    BY DEF TypedHere
  <2>1. CASE form'[g].text = form[g].text
    BY <1>1, <1>2, <1>4, <2>1 DEF IInv, Texts, TypedHere
  <2>2. CASE form'[g].text # form[g].text
    <3>1. /\ g = f /\ form'[g].text = texts + 1 /\ texts' = texts + 1
          /\ texts < budget.texts
          /\ origin' = [origin EXCEPT ![texts + 1] =
                           [rec |-> form[f].id, proj |-> sel]]
      BY <1>2, <1>3, <1>4, <2>2
    <3>2. texts + 1 \in 1..budget.texts /\ texts + 1 \in 1..texts'
      BY <1>2, <3>1
    <3>3. origin'[texts + 1] = [rec |-> form[f].id, proj |-> sel]
      BY <1>2, <3>1, <3>2 DEF Types, HistoryTypes
    <3>4. f = "assessment" => form[f].id # NoRec
      BY DEF Type
    <3> QED
      BY <1>1, <1>4, <3>1, <3>2, <3>3, <3>4
  <2> QED
    BY <2>1, <2>2
<1>8. TypedBefore' /\ SavedWhereTyped'
  <2>1. 1..texts \subseteq 1..texts'
    BY <1>2, <1>4
  <2>2. /\ \A r \in Record : row[r].texts \subseteq 1..texts
        /\ \A r \in Scored : assessed[r] \subseteq 1..texts
    BY DEF IInv, Texts, TypedBefore
  <2> QED
    BY <1>1, <1>4, <2>1, <2>2 DEF IInv, Texts, TypedBefore, SavedWhereTyped
<1>9. Flags'
  <2>1. form'["scored"].text # NoText => dirty'
    <3>1. CASE f = "scored"
      BY <3>1 DEF Type
    <3>2. CASE f # "scored"
      BY <1>4, <3>2, Kinds DEF Type, IInv, Flags, TypedIsFlagged
    <3> QED
      BY <3>1, <3>2
  <2> QED
    BY <1>1, <2>1 DEF IInv, Flags, TypedIsFlagged, TargetAsPicked
<1>10. Claims'
  BY <1>1, <1>4, Kinds DEF IInv, Claims, Behind, Honest, Outdated
<1> QED
  BY <1>5, <1>6, <1>7, <1>8, <1>9, <1>10 DEF IInv, Texts

LEMMA SaveAssessmentSound ==
    ASSUME IInv, SaveAssessment
    PROVE  IInv'
<1> DEFINE f == form["assessment"]
<1>1. UNCHANGED <<srv, removed, row, queue, dirty, cache, combo, sel, pass, budget,
                  texts, origin, pick, refused, raised>>
  BY DEF SaveAssessment, server, history
<1>2. Types /\ form \in [Form -> FormRecord] /\ f \in FormRecord
      /\ assessed \in [Scored -> SUBSET Nat]
  BY Kinds DEF IInv, Types, DataTypes, WindowTypes
<1>3. /\ f.text # NoText /\ f.text \in 1..texts /\ origin[f.text].rec = f.id
      /\ f.id \in Scored /\ f.text \in Nat
  BY <1>2, FormTypes, Kinds DEF SaveAssessment, IInv, Texts, TypedHere, FormRecord
<1>4. /\ assessed' \in [Scored -> SUBSET Nat]
      /\ \A r \in Scored : \A t \in assessed'[r] :
            t \in assessed[r] \/ (t = f.text /\ r = f.id)
  BY <1>2, <1>3 DEF SaveAssessment
<1>5. /\ form' \in [Form -> FormRecord] /\ form'["assessment"] = Assess(f.id)
      /\ \A g \in Form \ {"assessment"} : form'[g] = form[g]
  BY <1>2, AssessRecord, Kinds DEF SaveAssessment, FormRecord
<1>6. Assess(f.id).id = f.id /\ Assess(f.id).text = NoText /\ Assess(f.id).base = None
  BY <1>2, AssessRecord DEF FormRecord
<1>7. \A g \in Form : form'[g].id = form[g].id
  BY <1>5, <1>6
<1>8. Types'
  BY <1>1, <1>2, <1>4, <1>5, <1>7 DEF Types, DataTypes, WindowTypes, HistoryTypes
<1>9. Owned'
  BY <1>1, <1>7 DEF IInv, Owned, Known
<1>10. TypedHere'
  BY <1>1, <1>5, <1>6 DEF IInv, Texts, TypedHere
<1>11. TypedBefore' /\ SavedWhereTyped'
  BY <1>1, <1>3, <1>4 DEF IInv, Texts, TypedBefore, SavedWhereTyped
<1>12. Flags'
  BY <1>1, <1>5, Kinds DEF IInv, Flags, TypedIsFlagged, TargetAsPicked
<1>13. Claims'
  <2>1. form'["action"] = form["action"]
    BY <1>5, Kinds
  <2>2. \A g \in Form : form'[g].id # NoRec => form'[g].base <= srv[form'[g].id]
    <3>1. srv[f.id] \in Nat
      BY <1>2, <1>3, Kinds DEF Types, DataTypes
    <3> QED
      BY <1>5, <1>6, <3>1 DEF IInv, Claims, Behind
  <2> QED
    BY <1>1, <2>1, <2>2 DEF IInv, Claims, Behind, Honest, Outdated
<1> QED
  BY <1>8, <1>9, <1>10, <1>11, <1>12, <1>13 DEF IInv, Texts

\* Steps that leave the window alone and change the versions of one record.
LEMMA VersionStep ==
    ASSUME IInv, NEW r \in Record, r \in Known,
           UNCHANGED <<form, dirty, cache, combo, sel, assessed, budget, texts, origin,
                       pick, refused, raised>>,
           srv' \in [Record -> Nat], removed' \in SUBSET Record,
           row' \in [Record -> RowRecord], queue' \in [Record -> Version],
           pass' = <<>> \/ \E A \in SUBSET Ack : pass' = <<A>>,
           \A x \in Record : srv[x] <= srv'[x] /\ (x # r => srv'[x] = srv[x]),
           \A x \in Record \ {r} : row'[x] = row[x] /\ queue'[x] = queue[x],
           row'[r].proj = row[r].proj, row'[r].texts = row[r].texts,
           row'[r].ver <= srv'[r],
           pass' # <<>> =>
               \A k \in pass'[1] : k.ver = k.base + 1 /\ k.ver <= srv'[k.rec],
           r \in Action \ raised => Honest(r)'
    PROVE  IInv'
<1>1. Types'
  BY DEF IInv, Types, DataTypes, WindowTypes, HistoryTypes
<1>2. Owned'
  BY DEF IInv, Owned, Known
<1>3. Texts'
  BY DEF IInv, Texts, TypedHere, TypedBefore, SavedWhereTyped
<1>4. Flags'
  BY DEF IInv, Flags, TypedIsFlagged, TargetAsPicked
<1>5. Claims'
  <2>1. ASSUME NEW x \in Record
        PROVE  row'[x].ver <= srv'[x] /\ cache'[x].ver <= srv'[x]
    <3>1. /\ srv[x] \in Nat /\ srv'[x] \in Nat /\ srv[x] <= srv'[x]
          /\ row[x].ver <= srv[x] /\ cache[x].ver <= srv[x]
          /\ row[x].ver \in Nat /\ cache[x].ver \in Version
      BY DEF IInv, Types, DataTypes, WindowTypes, Claims, Behind, RowRecord, CacheRecord
    <3>2. cache'[x].ver = cache[x].ver
      OBVIOUS
    <3>3. x = r \/ row'[x].ver = row[x].ver
      OBVIOUS
    <3>4. cache[x].ver <= srv'[x] /\ row[x].ver <= srv'[x]
      BY <3>1 DEF Version
    <3> QED
      BY <3>2, <3>3, <3>4
  <2>2. ASSUME NEW f \in Form, form'[f].id # NoRec
        PROVE  form'[f].base <= srv'[form'[f].id]
    <3>1. /\ form[f].id \in Record /\ form[f].base \in Version
          /\ form[f].base <= srv[form[f].id]
      BY <2>2, Kinds DEF IInv, Types, WindowTypes, Claims, Behind, Id, FormRecord
    <3>2. PICK x \in Record : x = form[f].id
      BY <3>1
    <3>3. srv[x] \in Nat /\ srv'[x] \in Nat /\ srv[x] <= srv'[x]
      BY DEF IInv, Types, DataTypes
    <3> QED
      BY <3>1, <3>2, <3>3 DEF Version
  <2>3. ASSUME NEW a \in Action \ raised', a # r
        PROVE  Honest(a)'
    <3>1. a \in Record /\ Honest(a)
      BY <2>3, Kinds DEF IInv, Claims
    <3> QED
      BY <2>3, <3>1 DEF Honest, Outdated
  <2>4. \A a \in Action \ raised' : Honest(a)'
    BY <2>3
  <2>5. Behind'
    BY <2>1, <2>2 DEF Behind
  <2> QED
    BY <2>4, <2>5 DEF IInv, Claims
<1> QED
  BY <1>1, <1>2, <1>3, <1>4, <1>5 DEF IInv

LEMMA RemoteEditSound ==
    ASSUME IInv, NEW r \in Record, NEW d \in BOOLEAN, RemoteEdit(r, d)
    PROVE  IInv'
<1>1. /\ UNCHANGED <<row, queue, pass, form, dirty, cache, combo, sel, assessed,
                     budget, texts, origin, pick, refused, raised>>
      /\ srv' = [srv EXCEPT ![r] = @ + 1] /\ srv[r] > 0
  BY DEF RemoteEdit, window, data, history
<1>2. srv \in [Record -> Nat] /\ removed \in SUBSET Record /\ r \in Known
      /\ row \in [Record -> RowRecord] /\ queue \in [Record -> Version]
      /\ (pass = <<>> \/ \E A \in SUBSET Ack : pass = <<A>>)
  BY <1>1 DEF IInv, Types, DataTypes, Owned
<1>3. /\ srv' \in [Record -> Nat]
      /\ \A x \in Record : srv[x] <= srv'[x] /\ (x # r => srv'[x] = srv[x])
  BY <1>1, <1>2
<1>4. row'[r].ver <= srv'[r]
  <2>1. row[r].ver <= srv[r] /\ row[r].ver \in Nat
    BY <1>2 DEF IInv, Claims, Behind, RowRecord
  <2> QED
    BY <1>1, <1>2, <1>3, <2>1
<1>5. ASSUME pass' # <<>>, NEW k \in pass'[1]
      PROVE  k.ver = k.base + 1 /\ k.ver <= srv'[k.rec]
  <2>1. PICK A \in SUBSET Ack : pass = <<A>>
    BY <1>1, <1>2, <1>5
  <2>2. k \in Ack /\ k.ver = k.base + 1 /\ k.ver <= srv[k.rec]
    BY <1>1, <1>5, <2>1 DEF IInv, Claims, Behind
  <2>3. k.ver \in Nat /\ k.rec \in Record
    BY <2>2 DEF Ack
  <2> QED
    BY <1>2, <1>3, <2>2, <2>3
<1>6. r \in Action \ raised => Honest(r)'
  BY <1>1 DEF IInv, Claims, Honest, Outdated
<1>7. removed' \in SUBSET Record
  BY <1>2 DEF RemoteEdit
<1> QED
  BY <1>1, <1>2, <1>3, <1>4, <1>5, <1>6, <1>7, VersionStep

LEMMA StartPassSound ==
    ASSUME IInv, NEW auto \in BOOLEAN, StartPass(auto)
    PROVE  IInv'
<1>1. /\ UNCHANGED <<srv, removed, row, queue, form, dirty, cache, combo, sel, assessed,
                     budget, texts, origin, pick, refused, raised>>
      /\ pass' = <<{}>>
  BY DEF StartPass, server, window, data, history
<1>2. Types'
  <2>1. {} \in SUBSET Ack
    OBVIOUS
  <2> QED
    BY <1>1, <2>1 DEF IInv, Types, DataTypes, WindowTypes, HistoryTypes
<1>3. Claims'
  BY <1>1 DEF IInv, Claims, Behind, Honest, Outdated
<1> QED
  BY <1>1, <1>2, <1>3
  DEF IInv, Owned, Known, Texts, TypedHere, TypedBefore, SavedWhereTyped, Flags,
      TypedIsFlagged, TargetAsPicked

LEMMA PullSound ==
    ASSUME IInv, NEW r \in Record, Pull(r)
    PROVE  IInv'
<1>1. /\ UNCHANGED <<srv, removed, queue, pass, form, dirty, cache, combo, sel, assessed,
                     budget, texts, origin, pick, refused, raised>>
      /\ queue[r] = None /\ row[r].ver < srv[r]
  BY DEF Pull, server, window, history
<1>2. /\ srv \in [Record -> Nat] /\ removed \in SUBSET Record
      /\ row \in [Record -> RowRecord] /\ queue \in [Record -> Version]
      /\ (pass = <<>> \/ \E A \in SUBSET Ack : pass = <<A>>)
  BY DEF IInv, Types, DataTypes
<1>3. r \in Known /\ srv[r] \in Nat
  BY <1>1, <1>2 DEF IInv, Owned, RowRecord
<1> DEFINE old == row[r]
           new == [old EXCEPT !.ver = srv[r], !.seen = srv[r], !.live = r \notin removed]
<1>4. old \in RowRecord
  BY <1>2
<1>5. /\ new \in RowRecord /\ new.proj = old.proj /\ new.texts = old.texts
      /\ new.ver = srv[r] /\ new.seen = srv[r]
  BY <1>3, <1>4 DEF RowRecord
<1>6. row' = [row EXCEPT ![r] = new]
  BY DEF Pull
<1> HIDE DEF new
<1>7. /\ row' \in [Record -> RowRecord] /\ row'[r] = new
      /\ \A x \in Record \ {r} : row'[x] = row[x]
  BY <1>2, <1>5, <1>6
<1>8. row'[r].ver <= srv'[r]
  BY <1>1, <1>3, <1>5, <1>7
<1>9. \A x \in Record : srv[x] <= srv'[x] /\ (x # r => srv'[x] = srv[x])
  BY <1>1, <1>2
<1>10. pass' # <<>> =>
         \A k \in pass'[1] : k.ver = k.base + 1 /\ k.ver <= srv'[k.rec]
  BY <1>1 DEF IInv, Claims, Behind
<1>11. r \in Action \ raised => Honest(r)'
  BY <1>1, <1>3, <1>5, <1>7 DEF IInv, Claims, Honest, Outdated
<1> QED
  BY <1>1, <1>2, <1>3, <1>5, <1>7, <1>8, <1>9, <1>10, <1>11, VersionStep

\* An outdated save is not accepted: its base is below the server's version.
LEMMA PushSound ==
    ASSUME IInv, NEW r \in Record, Push(r)
    PROVE  IInv'
<1>1. /\ UNCHANGED <<form, dirty, cache, combo, sel, assessed, budget, texts, origin,
                     pick, refused, raised>>
      /\ pass # <<>> /\ queue[r] # None /\ queue[r] = srv[r]
      /\ srv' = [srv EXCEPT ![r] = @ + 1]
      /\ queue' = [queue EXCEPT ![r] = None]
  BY DEF Push, window, history
<1>2. /\ srv \in [Record -> Nat] /\ removed \in SUBSET Record
      /\ row \in [Record -> RowRecord] /\ queue \in [Record -> Version]
      /\ (pass = <<>> \/ \E A \in SUBSET Ack : pass = <<A>>)
  BY DEF IInv, Types, DataTypes
<1>3. PICK v \in Nat : v = srv[r]
  BY <1>2
<1>4. /\ srv' \in [Record -> Nat] /\ srv'[r] = v + 1 /\ v + 1 \in Nat
      /\ \A x \in Record : srv[x] <= srv'[x] /\ (x # r => srv'[x] = srv[x])
  BY <1>1, <1>2, <1>3
<1>5. /\ queue' \in [Record -> Version] /\ queue'[r] = None
      /\ \A x \in Record \ {r} : queue'[x] = queue[x]
  BY <1>1, <1>2 DEF Version
<1>6. r \in Known
  BY <1>1 DEF IInv, Owned
<1> DEFINE old == row[r]
           new == [old EXCEPT !.ver = v + 1, !.seen = v + 1]
<1>7. old \in RowRecord
  BY <1>2
<1>8. /\ new \in RowRecord /\ new.proj = old.proj /\ new.texts = old.texts
      /\ new.ver = v + 1 /\ new.seen = v + 1
  BY <1>4, <1>7 DEF RowRecord
<1>9. row' = [row EXCEPT ![r] = new]
  BY <1>2, <1>4 DEF Push
<1> HIDE DEF new
<1>10. /\ row' \in [Record -> RowRecord] /\ row'[r] = new
       /\ \A x \in Record \ {r} : row'[x] = row[x]
  BY <1>2, <1>8, <1>9
<1>11. row'[r].ver <= srv'[r]
  BY <1>4, <1>8, <1>10
<1>12. PICK A \in SUBSET Ack : pass = <<A>>
  BY <1>1, <1>2
<1> DEFINE ack == [rec |-> r, base |-> v, ver |-> v + 1]
<1>13. ack \in Ack /\ ack.rec = r /\ ack.base = v /\ ack.ver = v + 1
  BY <1>4 DEF Ack
<1>14. pass' = <<A \cup {ack}>>
  BY <1>1, <1>3, <1>4, <1>12 DEF Push
<1> HIDE DEF ack
<1>15. \E B \in SUBSET Ack : pass' = <<B>>
  BY <1>13, <1>14
<1>16. ASSUME NEW k \in pass'[1]
       PROVE  k.ver = k.base + 1 /\ k.ver <= srv'[k.rec]
  <2>1. CASE k = ack
    BY <1>4, <1>13, <2>1
  <2>2. CASE k # ack
    <3>1. k \in A
      BY <1>14, <1>16, <2>2
    <3>2. k \in Ack /\ k.ver = k.base + 1 /\ k.ver <= srv[k.rec]
      BY <1>1, <1>12, <3>1 DEF IInv, Claims, Behind
    <3>3. k.ver \in Nat /\ k.rec \in Record
      BY <3>2 DEF Ack
    <3> QED
      BY <1>2, <1>4, <3>2, <3>3
  <2> QED
    BY <2>1, <2>2
<1>17. r \in Action \ raised => Honest(r)'
  <2> SUFFICES ASSUME r \in Action \ raised PROVE Honest(r)'
    OBVIOUS
  <2>1. Honest(r) /\ cache[r].ver <= srv[r] /\ cache[r] \in CacheRecord
        /\ r # NoRec
    BY Kinds DEF IInv, Claims, Behind, Types, WindowTypes
  <2>2. ~(cache[r].seen < cache[r].ver)
    BY <1>1, <1>3, <2>1 DEF Honest, Outdated, CacheRecord, Version
  <2>3. ~(form["action"].id = r /\ form["action"].seen < form["action"].base)
    <3>1. form["action"] \in FormRecord
          /\ (form["action"].id = r => form["action"].base <= srv[r])
      BY <2>1, Kinds DEF IInv, Types, WindowTypes, Claims, Behind
    <3> QED
      BY <1>1, <1>3, <2>1, <3>1 DEF Honest, Outdated, FormRecord, Version
  <2> QED
    BY <1>1, <1>4, <1>5, <1>8, <1>10, <2>2, <2>3 DEF Honest, Outdated
<1>18. removed' \in SUBSET Record
  BY <1>2 DEF Push
<1> QED
  BY <1>1, <1>4, <1>5, <1>6, <1>8, <1>10, <1>11, <1>15, <1>16, <1>17, <1>18, VersionStep

-----------------------------------------------------------------------------
(* The invariant                                                           *)

LEMMA InitSound ==
    ASSUME Init
    PROVE  IInv
<1>1. /\ \A r \in Record : srv[r] \in Nat /\ (srv[r] > 0 <=> r \in DOMAIN Start)
      /\ srv \in [Record -> Nat]
  BY DEF Init
<1>2. /\ row \in [Record -> RowRecord]
      /\ \A r \in Record :
            /\ row[r].ver = srv[r] /\ row[r].seen = srv[r] /\ row[r].texts = {}
            /\ r \in DOMAIN Start => row[r].proj \in Project
      /\ \A r \in Record : row[r].live => r \in DOMAIN Start
  <2> DEFINE new(r) == [proj |-> IF r \in DOMAIN Start THEN Start[r] ELSE NoRec,
                        live |-> r \in DOMAIN Start,
                        ver |-> srv[r], seen |-> srv[r], texts |-> {}, target |-> NoRec]
  <2>1. row = [r \in Record |-> new(r)]
    BY DEF Init
  <2>2. ASSUME NEW r \in Record
        PROVE  /\ new(r) \in RowRecord
               /\ new(r).ver = srv[r] /\ new(r).seen = srv[r] /\ new(r).texts = {}
               /\ r \in DOMAIN Start => new(r).proj \in Project
               /\ new(r).live => r \in DOMAIN Start
    <3>1. PICK q \in Place : q = IF r \in DOMAIN Start THEN Start[r] ELSE NoRec
      BY DEF Place
    <3>2. PICK b \in BOOLEAN : b = (r \in DOMAIN Start)
      <4>1. (r \in DOMAIN Start) \in BOOLEAN
        OBVIOUS
      <4> QED
        BY <4>1
    <3>3. new(r) = [proj |-> q, live |-> b, ver |-> srv[r], seen |-> srv[r],
                    texts |-> {}, target |-> NoRec]
      BY <3>1, <3>2
    <3>4. new(r) \in RowRecord
      BY <1>1, <3>3 DEF RowRecord
    <3>5. /\ new(r).ver = srv[r] /\ new(r).seen = srv[r] /\ new(r).texts = {}
          /\ new(r).proj = q /\ new(r).live = b
      BY <3>3
    <3>6. r \in DOMAIN Start => q \in Project
      BY <3>1
    <3>7. b => r \in DOMAIN Start
      BY <3>2
    <3> QED
      BY <3>4, <3>5, <3>6, <3>7
  <2> HIDE DEF new
  <2> QED
    BY <2>1, <2>2
<1>3. /\ form \in [Form -> FormRecord]
      /\ \A f \in Form : form[f].id = NoRec /\ form[f].text = NoText
  BY BlankRecord DEF Init
<1>4. /\ cache \in [Record -> CacheRecord]
      /\ \A r \in Record : cache[r].ver = None /\ cache[r].seen = 0 /\ ~cache[r].listed
  BY DEF Init, Gone, CacheRecord, Version
<1>5. queue \in [Record -> Version] /\ \A r \in Record : queue[r] = None
  BY DEF Init, Version
<1>6. /\ budget \in Budget /\ budget.texts \in Nat /\ texts = 0
      /\ origin \in [1..budget.texts -> Origin]
  BY DEF Init, Origin, Id, Place
<1>7. /\ removed = {} /\ sel = NoRec /\ dirty = FALSE /\ combo = NoRec
      /\ pass = <<>> /\ pick = NoRec /\ refused = FALSE /\ raised = {}
      /\ assessed \in [Scored -> SUBSET Nat]
      /\ \A r \in Scored : assessed[r] = {}
  BY DEF Init
<1>8. Types
  <2>1. DataTypes
    BY <1>1, <1>2, <1>5, <1>7 DEF DataTypes
  <2>2. WindowTypes
    BY <1>3, <1>4, <1>7 DEF WindowTypes, KindOf, Place
  <2>3. HistoryTypes
    <3>1. texts \in Nat /\ texts <= budget.texts
      BY <1>6
    <3>2. refused \in BOOLEAN
      BY <1>7
    <3>3. pick \in Scored \cup {NoRec} /\ raised \in SUBSET Action
      BY <1>7
    <3> QED
      BY <1>6, <3>1, <3>2, <3>3 DEF HistoryTypes
  <2> QED
    BY <2>1, <2>2, <2>3 DEF Types
<1>9. Owned
  BY <1>1, <1>2, <1>3, <1>4, <1>5 DEF Owned, Known
<1>10. Texts
  BY <1>2, <1>3, <1>7 DEF Texts, TypedHere, TypedBefore, SavedWhereTyped
<1>11. Flags
  BY <1>3, <1>7, Kinds DEF Flags, TypedIsFlagged, TargetAsPicked
<1>12. Claims
  <2>1. Behind
    BY <1>1, <1>2, <1>3, <1>4, <1>7 DEF Behind
  <2>2. \A a \in Action : Honest(a)
    BY <1>1, <1>2, <1>3, <1>4, <1>5, Kinds DEF Honest
  <2> QED
    BY <2>1, <2>2, <1>3, <1>4, Kinds DEF Claims
<1> QED
  BY <1>8, <1>9, <1>10, <1>11, <1>12 DEF IInv

\* The steps of Next, one by one.
LEMMA NextSteps ==
    ASSUME IInv, Next
    PROVE  \/ WindowStep
           \/ \E f \in Form, ok \in BOOLEAN : Type(f, ok)
           \/ SaveAssessment
           \/ \E r \in Record : Push(r) \/ Pull(r) \/ \E d \in BOOLEAN : RemoteEdit(r, d)
           \/ \E auto \in BOOLEAN : StartPass(auto)
<1>1. CASE \E r \in Scored : ClickScored(r) \/ SaveScored(r) \/ PickTarget(r)
  BY <1>1, ClickScoredSound, SaveScoredSound, PickTargetSound
<1>2. CASE \E a \in Action : ClickAction(a) \/ SaveAction(a)
  BY <1>2, ClickActionSound, SaveActionSound
<1>3. CASE \E t \in Ticket : ClickTicket(t) \/ SaveTicket(t)
  BY <1>3, ClickTicketSound, SaveTicketSound
<1>4. CASE \E f \in Form : StartBlank(f)
  BY <1>4, StartBlankSound
<1>5. CASE \E p \in Project : SelectProject(p)
  BY <1>5, SelectProjectSound
<1>6. CASE ClickOutside \/ StartNew \/ DeleteScored \/ DeleteTicket \/ Deliver
  BY <1>6, ClickOutsideSound, StartNewSound, DeleteScoredSound, DeleteTicketSound,
     DeliverSound
<1> QED
  BY <1>1, <1>2, <1>3, <1>4, <1>5, <1>6 DEF Next, UserStep

LEMMA StepSound ==
    ASSUME IInv, [Next]_vars
    PROVE  IInv'
<1>1. CASE WindowStep
  BY <1>1, WindowStepSound
<1>2. CASE \E f \in Form, ok \in BOOLEAN : Type(f, ok)
  BY <1>2, TypeSound
<1>3. CASE SaveAssessment
  BY <1>3, SaveAssessmentSound
<1>4. CASE \E r \in Record : Push(r) \/ Pull(r) \/ \E d \in BOOLEAN : RemoteEdit(r, d)
  BY <1>4, PushSound, PullSound, RemoteEditSound
<1>5. CASE \E auto \in BOOLEAN : StartPass(auto)
  BY <1>5, StartPassSound
<1>6. CASE UNCHANGED vars
  BY <1>6
  DEF vars, server, window, data, history, IInv, Types, DataTypes, WindowTypes,
      HistoryTypes, Owned, Known, Texts, TypedHere, TypedBefore, SavedWhereTyped,
      Flags, TypedIsFlagged, TargetAsPicked, Claims, Behind, Honest, Outdated
<1> QED
  BY <1>1, <1>2, <1>3, <1>4, <1>5, <1>6, NextSteps

\* The invariant holds throughout.
THEOREM InvariantHolds == Spec => []IInv
<1>1. Init => IInv
  BY InitSound
<1>2. IInv /\ [Next]_vars => IInv'
  BY StepSound
<1> QED
  BY <1>1, <1>2, PTL DEF Spec

\* The forms show records of their own kind that some project has, text in
\* the scored form is flagged as unsaved, and the target of the Actions tab is
\* the one the user picked or none.
THEOREM FormsAreSound == Spec => []FormsSound
<1>1. IInv => FormsSound
  <2> SUFFICES ASSUME IInv PROVE FormsSound
    OBVIOUS
  <2>1. Types
    BY DEF IInv
  <2>2. \A f \in Form : form[f].id # NoRec => row[form[f].id].proj \in Project
    BY DEF IInv, Owned, Known
  <2>3. \A r \in Record :
            queue[r] \in Int /\ queue[r] >= None /\ row[r].ver \in Nat
    BY <2>1 DEF Types, DataTypes, Version, RowRecord
  <2>4. TypeOK
    BY <2>1, <2>2, <2>3, FormTypes DEF TypeOK, Types, WindowTypes, Place
  <2> QED
    BY <2>4 DEF FormsSound, IInv, Flags
<1> QED
  BY <1>1, InvariantHolds, PTL

\* What is typed for a record is saved in that record, and a new record, but
\* for a ticket, in the project it was typed in.
THEOREM TextsAreSavedWhereTyped == Spec => []SavedWhereTyped
<1>1. IInv => SavedWhereTyped
  BY DEF IInv, Texts
<1> QED
  BY <1>1, InvariantHolds, PTL

\* A queued save of the action form claims no version newer than the one its
\* content was derived from, however many devices edit the action, until a
\* save raises the claim of an unsent one.
THEOREM ActionsClaimWhatWasSeen == Spec => []ActionClaims
<1>1. IInv => ActionClaims
  BY Kinds DEF IInv, Claims, Honest, ActionClaims, ClaimsWhatItSaw
<1> QED
  BY <1>1, InvariantHolds, PTL

-----------------------------------------------------------------------------
(* Typed text is kept                                                      *)

\* Text in the form of an existing risk leaves it only into the risk, or for
\* a reason the user sees.
LeavesForReason ==
    LET f == form["scored"]
    IN  f.text # NoText /\ f.id # NoRec /\ form'["scored"].text # f.text =>
         \/ f.text \in row'[f.id].texts
         \/ form'["scored"].id = f.id
         \/ refused' # refused
         \/ ~row'[f.id].live

\* A commit of flagged text saves it or reports that it was refused.
LEMMA CommitKeeps ==
    ASSUME IInv, NEW rows \in [Record -> RowRecord], row' = RowAfter(rows),
           form["scored"].text # NoText, form["scored"].id # NoRec,
           refused' = (refused # (Uncommitted /\ ~Commits))
    PROVE  LeavesForReason
<1>1. Uncommitted /\ refused \in BOOLEAN /\ Types
  BY DEF IInv, Flags, TypedIsFlagged, Uncommitted, Types, HistoryTypes
<1>2. CASE Commits
  BY <1>1, <1>2, CommittedRows DEF LeavesForReason
<1>3. CASE ~Commits
  <2>1. refused' # refused
    BY <1>1, <1>3, Zenon
  <2> QED
    BY <2>1 DEF LeavesForReason
<1> QED
  BY <1>2, <1>3

LEMMA TextLeavesForReason ==
    ASSUME IInv, Next
    PROVE  LeavesForReason
<1> SUFFICES ASSUME form["scored"].text # NoText, form["scored"].id # NoRec,
                    form'["scored"].text # form["scored"].text
             PROVE  LeavesForReason
  BY DEF LeavesForReason
<1>1. Types /\ form \in [Form -> FormRecord] /\ row \in [Record -> RowRecord]
      /\ form["scored"] \in FormRecord
      /\ form["scored"].id \in Scored /\ form["scored"].id \in Record
  BY FormTypes, Kinds DEF IInv, Types, DataTypes, WindowTypes
<1>2. ASSUME NEW f \in Form, NEW ok \in BOOLEAN, Type(f, ok)
      PROVE  LeavesForReason
  <2>1. f # "scored" => form'["scored"] = form["scored"]
    BY <1>1, <1>2, Kinds DEF Type
  <2>2. f = "scored" => form'["scored"].text = form["scored"].text
    BY <1>1, <1>2, Kinds DEF Type, FormRecord
  <2> QED
    BY <2>1, <2>2
<1>3. ASSUME NEW r \in Scored, ClickScored(r)
      PROVE  LeavesForReason
  <2>1. CASE form["scored"].id = r
    <3>1. form'["scored"].id = r
      BY <1>1, <1>3, Kinds DEF ClickScored, Blank
    <3> QED
      BY <2>1, <3>1 DEF LeavesForReason
  <2>2. CASE form["scored"].id # r
    <3>1. row' = RowAfter(row)
      BY <1>3, <2>2 DEF ClickScored, RowAfter
    <3>2. refused' = (refused # (Uncommitted /\ ~Commits))
      BY <1>3, <2>2 DEF ClickScored
    <3> QED
      BY <1>1, <3>1, <3>2, CommitKeeps
  <2> QED
    BY <2>1, <2>2
<1>4. ASSUME NEW r \in Scored, SaveScored(r)
      PROVE  LeavesForReason
  <2>1. form'["scored"] = Clean(form["scored"])
    BY <1>1, <1>4, Kinds DEF SaveScored, FormSaved
  <2> QED
    BY <1>1, <2>1, CleanRecord DEF LeavesForReason
<1>5. CASE ClickOutside
  <2>1. row' = RowAfter(row) /\ refused' = (refused # (Uncommitted /\ ~Commits))
    BY <1>5 DEF ClickOutside, Committed
  <2> QED
    BY <1>1, <2>1, CommitKeeps
<1>6. CASE StartNew
  <2>1. row' = RowAfter(row) /\ refused' = (refused # (Uncommitted /\ ~Commits))
    BY <1>6 DEF StartNew
  <2> QED
    BY <1>1, <2>1, CommitKeeps
<1>7. CASE DeleteScored
  <2>1. /\ row' = RowAfter([row EXCEPT ![form["scored"].id].live = FALSE])
        /\ refused' = (refused # (Uncommitted /\ ~Commits))
    BY <1>7 DEF DeleteScored
  <2>2. [row EXCEPT ![form["scored"].id].live = FALSE] \in [Record -> RowRecord]
    BY <1>1, DeletedRows
  <2> QED
    BY <2>1, <2>2, CommitKeeps
<1>8. ASSUME NEW p \in Project, SelectProject(p)
      PROVE  LeavesForReason
  <2>1. row' = RowAfter(row) /\ refused' = (refused # (Uncommitted /\ ~Commits))
    BY <1>8 DEF SelectProject, Committed
  <2> QED
    BY <1>1, <2>1, CommitKeeps
<1>9. ASSUME form'["scored"] = form["scored"]
      PROVE  LeavesForReason
  BY <1>9
<1>10. CASE \E r \in Scored : PickTarget(r)
  BY <1>9, <1>10 DEF PickTarget
<1>11. CASE \E a \in Action : ClickAction(a) \/ SaveAction(a)
  BY <1>1, <1>9, <1>11, Kinds DEF ClickAction, SaveAction
<1>12. CASE \E t \in Ticket : ClickTicket(t) \/ SaveTicket(t)
  BY <1>1, <1>9, <1>12, Kinds DEF ClickTicket, SaveTicket
<1>13. CASE \E f \in Form : StartBlank(f)
  BY <1>1, <1>9, <1>13, Kinds DEF StartBlank
<1>14. CASE DeleteTicket \/ SaveAssessment
  BY <1>1, <1>9, <1>14, Kinds DEF DeleteTicket, SaveAssessment
<1>15. CASE \E r \in Record : Push(r) \/ Pull(r) \/ \E d \in BOOLEAN : RemoteEdit(r, d)
  BY <1>9, <1>15 DEF Push, Pull, RemoteEdit, window
<1>16. CASE \E auto \in BOOLEAN : StartPass(auto)
  BY <1>9, <1>16 DEF StartPass, window
<1>17. CASE Deliver
  <2>1. form'["scored"] = Followed("scored") /\ pass # <<>>
    BY <1>17, Kinds DEF Deliver
  <2> QED
    BY <2>1, FollowedForm, Kinds
<1> QED
  BY <1>2, <1>3, <1>4, <1>5, <1>6, <1>7, <1>8, <1>10, <1>11, <1>12, <1>13, <1>14,
     <1>15, <1>16, <1>17
  DEF Next, UserStep

LEMMA PassKeepsText ==
    ASSUME IInv, Next, pass' # pass
    PROVE  \A f \in Form \ {"assessment"} : form'[f].text = form[f].text
<1>1. CASE UserStep
  <2>1. pass' = pass
    BY <1>1 DEF UserStep, Type, ClickScored, SaveScored, PickTarget, ClickAction,
         SaveAction, ClickTicket, SaveTicket, StartBlank, SelectProject, ClickOutside,
         StartNew, DeleteScored, DeleteTicket, SaveAssessment
  <2> QED
    BY <2>1
<1>2. CASE \E r \in Record : Push(r) \/ Pull(r) \/ \E d \in BOOLEAN : RemoteEdit(r, d)
  BY <1>2 DEF Push, Pull, RemoteEdit, window
<1>3. CASE \E auto \in BOOLEAN : StartPass(auto)
  BY <1>3 DEF StartPass, window
<1>4. CASE Deliver
  <2>1. \A f \in Form \ {"assessment"} : form'[f] = Followed(f)
    BY <1>4 DEF Deliver
  <2>2. pass # <<>>
    BY <1>4 DEF Deliver
  <2> QED
    BY <2>1, <2>2, FollowedForm
<1> QED
  BY <1>1, <1>2, <1>3, <1>4 DEF Next

\* No text a user typed is lost without a reason the user can see, neither to
\* the user's own clicks nor to the callback of a pass.
THEOREM TypedTextIsKept == Spec => TextKept
<1>1. IInv /\ [Next]_vars =>
        [LET f == form["scored"]
         IN  f.text # NoText /\ f.id # NoRec /\ form'["scored"].text # f.text =>
              \/ f.text \in row'[f.id].texts
              \/ form'["scored"].id = f.id
              \/ refused' # refused
              \/ ~row'[f.id].live]_vars
  BY TextLeavesForReason DEF LeavesForReason
<1>2. IInv /\ [Next]_vars =>
        [pass' # pass =>
          \A f \in Form \ {"assessment"} : form'[f].text = form[f].text]_vars
  BY PassKeepsText
<1>3. Spec => TypedIsKept
  BY <1>1, InvariantHolds, PTL DEF Spec, TypedIsKept
<1>4. Spec => SyncKeepsText
  BY <1>2, InvariantHolds, PTL DEF Spec, SyncKeepsText
<1> QED
  BY <1>3, <1>4 DEF TextKept
=============================================================================
