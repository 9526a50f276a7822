---------------------------- MODULE Server_proofs ----------------------------
(***************************************************************************)
(* Proofs about two parts of the server.                                   *)
(*                                                                         *)
(* SyncServer, for every set of records, users, changes and devices and    *)
(* every bound. The inductive invariant speaks of one working copy of the  *)
(* tables at a time (Sound), because a push works on its own copy until it *)
(* commits, and of how an open push relates to the committed tables        *)
(* (Ahead).                                                                *)
(*                                                                         *)
(* Sessions, for every number of threads, requests, operations and tokens: *)
(* a session is one chain of refresh tokens, the rows that a request has   *)
(* locked do not move under it, and the client loses its session to reuse  *)
(* detection only after answers were lost.                                 *)
(***************************************************************************)
EXTENDS SyncServer, Sessions, TLAPS, WellFoundedInduction, FiniteSetTheorems,
        SequenceTheorems

\* What holds of the tables w while the receipts in P have been pruned.
RowsSound(w) ==
    /\ SequencesUnique(w)
    /\ \A r \in Rec :
          w.row[r].ver > 0 /\ Parent[r] # NoRec => w.row[Parent[r]].ver > 0

ReceiptsSound(w, P) ==
    /\ \A i \in ChangeId :
          w.rcpt[i].status = "accepted" =>
              w.rcpt[i].ver <= w.row[w.rcpt[i].pay.rec].ver
    /\ \A i \in ChangeId \ P :
          /\ w.applied[i] <= 1
          /\ w.applied[i] > 0 <=> w.rcpt[i].status = "accepted"
    /\ \A i, j \in ChangeId :
          /\ i # j
          /\ w.rcpt[i].status = "accepted"
          /\ w.rcpt[j].status = "accepted"
          /\ w.rcpt[i].pay.rec = w.rcpt[j].pay.rec
          /\ w.rcpt[i].ver = w.rcpt[j].ver
          => w.rcpt[i].ver = 0

Sound(w, P) == w \in Work /\ RowsSound(w) /\ ReceiptsSound(w, P)

\* The tables w are later than the tables v: rows change only to higher
\* versions with sequences v has not handed out.
Ahead(v, w) ==
    /\ v.seq <= w.seq
    /\ \A r \in Rec : w.row[r] # v.row[r] =>
          /\ w.row[r].ver > v.row[r].ver
          /\ w.row[r].seq > v.seq

\* What an accepted result says is not ahead of the tables w.
Current(res, w) ==
    res.status = "accepted" =>
        /\ res.rver <= res.ver
        /\ res.ver <= w.row[res.rec].ver

\* Every receipt in w is in v or belongs to a change in done.
Traced(v, w, done) ==
    \A i \in ChangeId : w.rcpt[i] # NoReceipt =>
        \/ v.rcpt[i] # NoReceipt
        \/ \E k \in 1..Len(done) : done[k].change.id = i

\* A push with working copy w that has answered the changes in done, while
\* v is committed and the receipts in P are pruned.
PushState(v, w, P, done) ==
    /\ Sound(v, P)
    /\ Sound(w, P)
    /\ Ahead(v, w)
    /\ Traced(v, w, done)
    /\ \A k \in 1..Len(done) : Current(done[k].result, w)

\* What processing change c on top of w gives.
StepSound(o, w, P, c) ==
    /\ Sound(o.work, P)
    /\ Ahead(w, o.work)
    /\ o.result \in Result
    /\ Current(o.result, o.work)
    /\ \A i \in ChangeId \ {c.id} : o.work.rcpt[i] = w.rcpt[i]

\* A row that may be stored for record r on top of the tables w.
NextRow(w, r, row) ==
    /\ row \in Row
    /\ row.ver = w.row[r].ver + 1
    /\ Parent[r] # NoRec => w.row[Parent[r]].ver > 0

-----------------------------------------------------------------------------
(* Facts about the operators of SyncEngine                                 *)

\* The row of a record that does not exist has the type of a row.
LEMMA NoRowType == NoRow \in Row
BY DEF NoRow, Row

\* The rows an update and a delete store.
LEMMA UpdatedRowType ==
    ASSUME NEW x \in Row, NEW v \in Val, NEW f \in Flag
    PROVE  LET y == [x EXCEPT !.ver = x.ver + 1,
                              !.val = v,
                              !.del = IF f = "absent" THEN x.del
                                      ELSE f = "true"]
           IN  y \in Row /\ y.ver = x.ver + 1
<1> DEFINE d == IF f = "absent" THEN x.del ELSE f = "true"
<1>1. d \in BOOLEAN
  BY DEF Row
<1>2. x.ver + 1 \in Nat
  BY DEF Row
<1>3. ASSUME NEW e \in BOOLEAN, NEW n \in Nat
      PROVE  LET y == [x EXCEPT !.ver = n, !.val = v, !.del = e]
             IN  y \in Row /\ y.ver = n
  BY DEF Row
<1> QED BY <1>1, <1>2, <1>3, Zenon

\* A soft-deleted row (SyncMixin.soft_delete) has the type of a row.
LEMMA DeletedRowType ==
    ASSUME NEW x \in Row, NEW n \in Nat
    PROVE  /\ [x EXCEPT !.ver = n, !.del = TRUE] \in Row
           /\ [x EXCEPT !.ver = n, !.del = TRUE].ver = n
BY DEF Row

\* Storing a next row: the sequence is new, the version grows, every other
\* row stays.
LEMMA WriteRowFacts ==
    ASSUME NEW w \in Work, RowsSound(w), NEW r \in Rec, NEW row,
           NextRow(w, r, row)
    PROVE  LET m == WriteRow(w, r, row)
           IN  /\ m \in Work
               /\ RowsSound(m)
               /\ Ahead(w, m)
               /\ m.row[r].ver = w.row[r].ver + 1
               /\ \A s \in Rec \ {r} : m.row[s] = w.row[s]
               /\ m.rcpt = w.rcpt
               /\ m.applied = w.applied
<1> DEFINE m == WriteRow(w, r, row)
           new == [row EXCEPT !.seq = w.seq + 1]
<1>1. /\ w.seq \in Nat /\ w.row \in [Rec -> Row]
      /\ w.rcpt \in [ChangeId -> Receipt \cup {NoReceipt}]
      /\ w.applied \in [ChangeId -> Nat]
  BY DEF Work
<1>2. /\ new \in Row /\ new.seq = w.seq + 1 /\ new.ver = w.row[r].ver + 1
  BY <1>1 DEF NextRow, Row
<1>3. /\ m.seq = w.seq + 1
      /\ m.row = [w.row EXCEPT ![r] = new]
      /\ m.rcpt = w.rcpt
      /\ m.applied = w.applied
      /\ m = [row |-> m.row, seq |-> m.seq, rcpt |-> m.rcpt,
              applied |-> m.applied]
  <2> HIDE DEF new
  <2>1. m = [w EXCEPT !.seq = w.seq + 1, !.row = [w.row EXCEPT ![r] = new]]
    BY DEF WriteRow, new
  <2> HIDE DEF m
  <2> QED BY <2>1 DEF Work
<1>4. m \in Work
  <2>1. m.row \in [Rec -> Row]
    BY <1>1, <1>2, <1>3
  <2>2. m.seq \in Nat
    BY <1>1, <1>3
  <2> QED BY <1>1, <1>3, <2>1, <2>2 DEF Work
<1>5. /\ m.row[r] = new
      /\ \A s \in Rec \ {r} : m.row[s] = w.row[s]
  BY <1>1, <1>3
<1>6. \A s \in Rec : w.row[s].seq \in Nat /\ w.row[s].ver \in Nat
  BY <1>1 DEF Row
<1>7. SequencesUnique(m)
  BY <1>1, <1>2, <1>3, <1>5, <1>6 DEF SequencesUnique, RowsSound
<1>8. \A s \in Rec :
         m.row[s].ver > 0 /\ Parent[s] # NoRec => m.row[Parent[s]].ver > 0
  <2> SUFFICES ASSUME NEW s \in Rec, m.row[s].ver > 0, Parent[s] # NoRec
               PROVE  m.row[Parent[s]].ver > 0
    OBVIOUS
  <2> HIDE DEF m, new
  <2>1. Parent[s] \in Rec
    BY EngineAssumption
  <2>2. w.row[Parent[s]].ver > 0
    BY <1>5, <1>6 DEF RowsSound, NextRow
  <2> QED BY <1>2, <1>5, <1>6, <2>1, <2>2
<1>9. Ahead(w, m)
  BY <1>1, <1>2, <1>3, <1>5, <1>6 DEF Ahead
<1> QED BY <1>2, <1>3, <1>4, <1>5, <1>7, <1>8, <1>9 DEF RowsSound

\* Storing a receipt leaves rows and counter alone.
LEMMA StoreReceiptFacts ==
    ASSUME NEW w \in Work, NEW u \in User, NEW c \in Change,
           NEW status \in Status, NEW kind \in Kind, NEW row \in Row
    PROVE  LET m == StoreReceipt(w, u, c, status, kind, row)
           IN  /\ m \in Work
               /\ m.row = w.row
               /\ m.seq = w.seq
               /\ m.applied = w.applied
               /\ m.rcpt = [w.rcpt EXCEPT ![c.id] =
                     [user |-> u, pay |-> c.pay, status |-> status,
                      kind |-> kind, ver |-> row.ver, row |-> row]]
<1> DEFINE m == StoreReceipt(w, u, c, status, kind, row)
           rc == [user |-> u, pay |-> c.pay, status |-> status,
                  kind |-> kind, ver |-> row.ver, row |-> row]
<1>1. c.id \in ChangeId /\ rc \in Receipt
  BY DEF Change, Receipt, Row
<1>2. /\ m.row = w.row
      /\ m.seq = w.seq
      /\ m.applied = w.applied
      /\ m.rcpt = [w.rcpt EXCEPT ![c.id] = rc]
      /\ m = [row |-> m.row, seq |-> m.seq, rcpt |-> m.rcpt,
              applied |-> m.applied]
  BY DEF StoreReceipt, Work
<1>3. m.rcpt \in [ChangeId -> Receipt \cup {NoReceipt}]
  BY <1>1, <1>2 DEF Work
<1> QED BY <1>2, <1>3 DEF Work

\* Counting an application touches the history variable only.
LEMMA CountFacts ==
    ASSUME NEW w \in Work, NEW c \in Change
    PROVE  LET m == Count(w, c)
           IN  /\ m \in Work
               /\ m.row = w.row
               /\ m.seq = w.seq
               /\ m.rcpt = w.rcpt
               /\ m.applied = [w.applied EXCEPT ![c.id] = w.applied[c.id] + 1]
<1> DEFINE m == Count(w, c)
<1>1. c.id \in ChangeId
  BY DEF Change
<1>2. /\ m.row = w.row
      /\ m.seq = w.seq
      /\ m.rcpt = w.rcpt
      /\ m.applied = [w.applied EXCEPT ![c.id] = w.applied[c.id] + 1]
      /\ m = [row |-> m.row, seq |-> m.seq, rcpt |-> m.rcpt,
              applied |-> m.applied]
  BY DEF Count, Work
<1>3. m.applied \in [ChangeId -> Nat]
  BY <1>1, <1>2 DEF Work
<1> QED BY <1>2, <1>3 DEF Work

\* Types of the fields that the invariants compare.
LEMMA WorkFields ==
    ASSUME NEW w \in Work
    PROVE  /\ w.seq \in Nat
           /\ w.row \in [Rec -> Row]
           /\ \A r \in Rec : /\ w.row[r] \in Row
                             /\ w.row[r].ver \in Nat
                             /\ w.row[r].seq \in Nat
           /\ w.rcpt \in [ChangeId -> Receipt \cup {NoReceipt}]
           /\ w.applied \in [ChangeId -> Nat]
           /\ \A i \in ChangeId :
                 w.rcpt[i] # NoReceipt =>
                     /\ w.rcpt[i] \in Receipt
                     /\ w.rcpt[i].ver \in Nat
                     /\ w.rcpt[i].pay \in Payload
                     /\ w.rcpt[i].pay.rec \in Rec
           /\ \A i \in ChangeId :
                 w.rcpt[i].status = "accepted" => w.rcpt[i] # NoReceipt
<1>1. /\ w.seq \in Nat
      /\ w.row \in [Rec -> Row]
      /\ w.rcpt \in [ChangeId -> Receipt \cup {NoReceipt}]
      /\ w.applied \in [ChangeId -> Nat]
  BY DEF Work
<1>2. \A r \in Rec : /\ w.row[r] \in Row
                    /\ w.row[r].ver \in Nat
                    /\ w.row[r].seq \in Nat
  BY <1>1 DEF Row
<1>3. ASSUME NEW i \in ChangeId, w.rcpt[i] # NoReceipt
      PROVE  /\ w.rcpt[i] \in Receipt
             /\ w.rcpt[i].ver \in Nat
             /\ w.rcpt[i].pay \in Payload
             /\ w.rcpt[i].pay.rec \in Rec
  BY <1>1, <1>3 DEF Receipt, Payload
<1>4. ASSUME NEW i \in ChangeId, w.rcpt[i].status = "accepted"
      PROVE  w.rcpt[i] # NoReceipt
  BY <1>4 DEF NoReceipt
<1> QED BY <1>1, <1>2, <1>3, <1>4

\* Tables ahead of others have no smaller version of any row.
LEMMA AheadVersions ==
    ASSUME NEW w \in Work, NEW m \in Work, Ahead(w, m), NEW r \in Rec
    PROVE  w.row[r].ver <= m.row[r].ver
<1>1. /\ w.row[r].ver \in Nat
      /\ m.row[r].ver \in Nat
  BY WorkFields
<1>2. CASE m.row[r] = w.row[r]
  BY <1>1, <1>2
<1>3. CASE m.row[r] # w.row[r]
  BY <1>1, <1>3 DEF Ahead
<1> QED BY <1>2, <1>3

\* A later table keeps receipts sound as long as the receipts stay.
LEMMA AheadReceipts ==
    ASSUME NEW w \in Work, NEW m \in Work, NEW P, ReceiptsSound(w, P),
           Ahead(w, m), m.rcpt = w.rcpt, m.applied = w.applied
    PROVE  ReceiptsSound(m, P)
<1>1. \A r \in Rec : w.row[r].ver <= m.row[r].ver
  BY AheadVersions
<1>2. ASSUME NEW i \in ChangeId, m.rcpt[i].status = "accepted"
      PROVE  m.rcpt[i].ver <= m.row[m.rcpt[i].pay.rec].ver
  <2>1. /\ m.rcpt[i].ver \in Nat
        /\ m.rcpt[i].pay.rec \in Rec
    BY <1>2, WorkFields
  <2>2. m.rcpt[i].ver <= w.row[m.rcpt[i].pay.rec].ver
    BY <1>2 DEF ReceiptsSound
  <2> QED BY <1>1, <2>1, <2>2, WorkFields
<1> QED BY <1>2 DEF ReceiptsSound

\* Being ahead is transitive: a push of several changes stays ahead of the
\* tables it began with.
LEMMA AheadTransitive ==
    ASSUME NEW v \in Work, NEW w \in Work, NEW m \in Work,
           Ahead(v, w), Ahead(w, m)
    PROVE  Ahead(v, m)
BY WorkFields DEF Ahead

\* Tables are ahead of themselves: a push begins with a copy.
LEMMA AheadReflexive ==
    ASSUME NEW w \in Work
    PROVE  Ahead(w, w)
BY WorkFields DEF Ahead

\* A REST write keeps the tables sound.
LEMMA WriteRowSound ==
    ASSUME NEW w, NEW P, Sound(w, P), NEW r \in Rec, NEW row,
           NextRow(w, r, row)
    PROVE  /\ Sound(WriteRow(w, r, row), P)
           /\ Ahead(w, WriteRow(w, r, row))
BY WriteRowFacts, AheadReceipts DEF Sound

\* A rejection or a conflict only adds a receipt for a new identifier.
LEMMA RejectSound ==
    ASSUME NEW w, NEW P, Sound(w, P), NEW u \in User, NEW c \in Change,
           w.rcpt[c.id] = NoReceipt,
           NEW status \in {"conflict", "error"}, NEW kind \in Kind,
           NEW row \in Row
    PROVE  LET m == StoreReceipt(w, u, c, status, kind, row)
           IN  /\ Sound(m, P)
               /\ Ahead(w, m)
               /\ \A i \in ChangeId \ {c.id} : m.rcpt[i] = w.rcpt[i]
<1> DEFINE m == StoreReceipt(w, u, c, status, kind, row)
<1>1. c.id \in ChangeId /\ w \in Work
  BY DEF Change, Sound
<1>2. /\ m \in Work
      /\ m.row = w.row
      /\ m.seq = w.seq
      /\ m.applied = w.applied
      /\ m.rcpt = [w.rcpt EXCEPT ![c.id] =
            [user |-> u, pay |-> c.pay, status |-> status, kind |-> kind,
             ver |-> row.ver, row |-> row]]
  BY <1>1, StoreReceiptFacts DEF Status
<1> HIDE DEF m
<1>3. /\ m.rcpt[c.id].status # "accepted"
      /\ w.rcpt[c.id].status # "accepted"
      /\ \A i \in ChangeId \ {c.id} : m.rcpt[i] = w.rcpt[i]
  BY <1>1, <1>2, WorkFields
<1>4. ReceiptsSound(m, P)
  BY <1>1, <1>2, <1>3 DEF ReceiptsSound, Sound
<1>5. RowsSound(m) /\ Ahead(w, m)
  BY <1>1, <1>2, AheadReflexive
     DEF RowsSound, Ahead, SequencesUnique, Sound
<1> QED BY <1>2, <1>3, <1>4, <1>5 DEF Sound, m

\* Accepting a change whose identifier has no receipt: its version is one
\* nobody has claimed, or there is no row at all.
LEMMA AcceptSound ==
    ASSUME NEW w, NEW P, Sound(w, P), NEW u \in User, NEW c \in Change,
           w.rcpt[c.id] = NoReceipt,
           NEW m \in Work, RowsSound(m), Ahead(w, m),
           m.rcpt = w.rcpt, m.applied = w.applied,
           \/ m.row[c.pay.rec].ver = 0
           \/ m.row[c.pay.rec].ver = w.row[c.pay.rec].ver + 1
    PROVE  LET n == Accept(m, u, c)
           IN  /\ Sound(n, P)
               /\ Ahead(w, n)
               /\ n.row = m.row
               /\ \A i \in ChangeId \ {c.id} : n.rcpt[i] = w.rcpt[i]
<1> DEFINE k == Count(m, c)
           n == Accept(m, u, c)
           r == c.pay.rec
<1>1. c.id \in ChangeId /\ w \in Work /\ r \in Rec
  BY DEF Change, Sound, Payload
<1>2. /\ k \in Work
      /\ k.row = m.row
      /\ k.seq = m.seq
      /\ k.rcpt = m.rcpt
      /\ k.applied = [m.applied EXCEPT ![c.id] = m.applied[c.id] + 1]
  BY CountFacts
<1>3. m.row[r] \in Row /\ m.row[r].ver \in Nat /\ w.row[r].ver \in Nat
  BY <1>1, WorkFields
<1> HIDE DEF k
<1>4. n = StoreReceipt(k, u, c, "accepted", "none", m.row[r])
  BY DEF Accept, k
<1>5. /\ n \in Work
      /\ n.row = k.row
      /\ n.seq = k.seq
      /\ n.applied = k.applied
      /\ n.rcpt = [k.rcpt EXCEPT ![c.id] =
            [user |-> u, pay |-> c.pay, status |-> "accepted",
             kind |-> "none", ver |-> m.row[r].ver, row |-> m.row[r]]]
  <2> HIDE DEF n
  <2>1. "accepted" \in Status /\ "none" \in Kind
    BY DEF Status, Kind
  <2> QED BY <1>2, <1>3, <1>4, <2>1, StoreReceiptFacts
<1> HIDE DEF n
<1>6. /\ n.rcpt[c.id].ver = m.row[r].ver
      /\ n.rcpt[c.id].pay.rec = r
      /\ n.rcpt[c.id].status = "accepted"
      /\ \A i \in ChangeId \ {c.id} : n.rcpt[i] = w.rcpt[i]
  BY <1>1, <1>2, <1>5, WorkFields
<1>7. RowsSound(n) /\ Ahead(w, n)
  BY <1>2, <1>5 DEF RowsSound, Ahead, SequencesUnique
<1>8. ReceiptsSound(n, P)
  <2>1. ReceiptsSound(m, P)
    BY <1>1, AheadReceipts DEF Sound
  <2>2. \A i \in ChangeId : n.rcpt[i].status = "accepted" =>
            n.rcpt[i].ver <= n.row[n.rcpt[i].pay.rec].ver
    BY <1>2, <1>3, <1>5, <1>6, <2>1 DEF ReceiptsSound
  <2>3. \A i \in ChangeId \ P :
            /\ n.applied[i] <= 1
            /\ n.applied[i] > 0 <=> n.rcpt[i].status = "accepted"
    <3>1. c.id \notin P => w.applied[c.id] = 0
      BY <1>1, WorkFields DEF ReceiptsSound, Sound, NoReceipt
    <3>2. /\ n.applied[c.id] = w.applied[c.id] + 1
          /\ \A i \in ChangeId \ {c.id} : n.applied[i] = w.applied[i]
      BY <1>1, <1>2, <1>5, WorkFields
    <3> QED BY <1>6, <3>1, <3>2 DEF ReceiptsSound, Sound
  <2>4. ASSUME NEW i \in ChangeId \ {c.id}, w.rcpt[i].status = "accepted",
               w.rcpt[i].pay.rec = r, w.rcpt[i].ver = m.row[r].ver
        PROVE  m.row[r].ver = 0
    BY <1>1, <1>3, <2>4, WorkFields DEF ReceiptsSound, Sound
  <2> QED BY <1>6, <2>2, <2>3, <2>4 DEF ReceiptsSound, Sound
<1> QED BY <1>2, <1>5, <1>6, <1>7, <1>8 DEF Sound, n

\* A change without a receipt, whatever its outcome.
LEMMA ProcessNewSound ==
    ASSUME NEW w, NEW P, Sound(w, P), NEW u \in User, NEW c \in Change,
           NEW manager \in BOOLEAN, NEW fails \in BOOLEAN,
           w.rcpt[c.id] = NoReceipt
    PROVE  LET o == ProcessNew(w, u, manager, c, fails)
           IN  /\ o.status \in Status
               /\ o.kind \in Kind
               /\ Sound(o.work, P)
               /\ Ahead(w, o.work)
               /\ \A i \in ChangeId \ {c.id} : o.work.rcpt[i] = w.rcpt[i]
<1> DEFINE o == ProcessNew(w, u, manager, c, fails)
           p == c.pay
           r == p.rec
           upd == [w.row[r] EXCEPT !.ver = w.row[r].ver + 1,
                       !.val = p.val,
                       !.del = IF p.flag = "absent" THEN w.row[r].del
                               ELSE p.flag = "true"]
           gone == [w.row[r] EXCEPT !.ver = w.row[r].ver + 1, !.del = TRUE]
           new == [ver |-> 1, val |-> p.val, del |-> p.flag = "true",
                   by |-> u, seq |-> 0]
           good(x) == /\ x.status \in Status
                      /\ x.kind \in Kind
                      /\ Sound(x.work, P)
                      /\ Ahead(w, x.work)
                      /\ \A i \in ChangeId \ {c.id} :
                            x.work.rcpt[i] = w.rcpt[i]
<1>1. w \in Work /\ r \in Rec /\ p.val \in Val /\ NoRow \in Row
  BY NoRowType DEF Sound, Change, Payload
<1>2. w.row[r] \in Row /\ w.row[r].ver \in Nat
  BY <1>1, WorkFields
<1>3. \A kind \in Kind :
         good([status |-> "error", kind |-> kind, work |-> Reject(w, u, c, kind)])
  BY <1>1, RejectSound DEF Reject, Status
<1>4. good([status |-> "conflict", kind |-> "conflict",
            work |-> Conflict(w, u, c)])
  BY <1>2, RejectSound DEF Conflict, Status, Kind
<1>5. good([status |-> "error", kind |-> "transient", work |-> w])
  BY <1>1, AheadReflexive DEF Status, Kind
<1>6. ASSUME w.row[r].ver = 0
      PROVE  good([status |-> "accepted", kind |-> "none",
                   work |-> Accept(w, u, c)])
  BY <1>1, <1>6, AcceptSound, AheadReflexive DEF Status, Kind, Sound
<1>7. ASSUME NEW row, NextRow(w, r, row)
      PROVE  good([status |-> "accepted", kind |-> "none",
                   work |-> Accept(WriteRow(w, r, row), u, c)])
  <2> DEFINE m == WriteRow(w, r, row)
  <2>1. /\ m \in Work /\ RowsSound(m) /\ Ahead(w, m)
        /\ m.row[r].ver = w.row[r].ver + 1
        /\ m.rcpt = w.rcpt /\ m.applied = w.applied
    BY <1>1, <1>7, WriteRowFacts DEF Sound
  <2> HIDE DEF m
  <2>2. /\ Sound(Accept(m, u, c), P)
        /\ Ahead(w, Accept(m, u, c))
        /\ \A i \in ChangeId \ {c.id} : Accept(m, u, c).rcpt[i] = w.rcpt[i]
    BY <2>1, AcceptSound
  <2> QED BY <2>2 DEF Status, Kind, m
<1>8. w.row[r].ver > 0 => NextRow(w, r, upd) /\ NextRow(w, r, gone)
  <2>0. w.row[r].ver + 1 \in Nat /\ TRUE \in BOOLEAN
    BY <1>2
  <2>1. p.flag \in Flag /\ p.val \in Val
    BY DEF Change, Payload
  <2>2. upd \in Row /\ upd.ver = w.row[r].ver + 1
    BY <1>2, <2>1, UpdatedRowType, Zenon
  <2>3. gone \in Row /\ gone.ver = w.row[r].ver + 1
    BY <1>1, <1>2, <2>0, DeletedRowType, Zenon
  <2> QED BY <1>1, <2>2, <2>3 DEF NextRow, Sound, RowsSound
<1>9. w.row[r].ver = 0 /\ ~TargetMissing(w, p) => NextRow(w, r, new)
  BY <1>1, <1>2, EngineAssumption, WorkFields
     DEF NextRow, Row, TargetMissing
<1>10. /\ UpdateExisting(w, p) = WriteRow(w, r, upd)
       /\ SoftDelete(w, p) = WriteRow(w, r, gone)
       /\ CreateNew(w, u, p) = WriteRow(w, r, new)
  BY DEF UpdateExisting, SoftDelete, CreateNew
<1>11. \/ o = [status |-> "error", kind |-> "validation",
               work |-> Reject(w, u, c, "validation")]
       \/ o = [status |-> "error", kind |-> "permission",
               work |-> Reject(w, u, c, "permission")]
       \/ o = [status |-> "conflict", kind |-> "conflict",
               work |-> Conflict(w, u, c)]
       \/ o = [status |-> "error", kind |-> "transient", work |-> w]
       \/ /\ w.row[r].ver = 0
          /\ o = [status |-> "accepted", kind |-> "none",
                  work |-> Accept(w, u, c)]
       \/ /\ w.row[r].ver > 0
          /\ o = [status |-> "accepted", kind |-> "none",
                  work |-> Accept(SoftDelete(w, p), u, c)]
       \/ /\ w.row[r].ver > 0
          /\ o = [status |-> "accepted", kind |-> "none",
                  work |-> Accept(UpdateExisting(w, p), u, c)]
       \/ /\ w.row[r].ver = 0
          /\ ~TargetMissing(w, p)
          /\ o = [status |-> "accepted", kind |-> "none",
                  work |-> Accept(CreateNew(w, u, p), u, c)]
  <2>1. CASE p.op \notin Ops
    BY <2>1 DEF ProcessNew
  <2>2. CASE p.op \in Ops /\ RequiresManager(w, p) /\ ~manager
    BY <2>2 DEF ProcessNew
  <2> DEFINE tried == p.op \in Ops /\ ~(RequiresManager(w, p) /\ ~manager)
  <2>3. CASE tried /\ fails
    BY <2>3 DEF ProcessNew
  <2>4. CASE tried /\ ~fails /\ w.row[r].ver = 0 /\ p.op = "delete"
    BY <2>4 DEF ProcessNew
  <2>5. CASE tried /\ ~fails /\ w.row[r].ver > 0 /\ NotOwner(w, u, p)
    BY <2>5 DEF ProcessNew
  <2>6. CASE /\ tried /\ ~fails /\ w.row[r].ver > 0 /\ ~NotOwner(w, u, p)
             /\ StaleBase(w, p)
    BY <2>6 DEF ProcessNew
  <2>7. CASE /\ tried /\ ~fails /\ w.row[r].ver > 0 /\ ~NotOwner(w, u, p)
             /\ ~StaleBase(w, p) /\ p.op = "delete"
    BY <2>7 DEF ProcessNew
  <2>8. CASE /\ tried /\ ~fails /\ p.op # "delete"
             /\ ~p.valid \/ TargetMissing(w, p)
             /\ w.row[r].ver > 0 => ~NotOwner(w, u, p) /\ ~StaleBase(w, p)
    BY <2>8 DEF ProcessNew
  <2>9. CASE /\ tried /\ ~fails /\ p.op # "delete"
             /\ p.valid /\ ~TargetMissing(w, p)
             /\ w.row[r].ver > 0 /\ ~NotOwner(w, u, p) /\ ~StaleBase(w, p)
    BY <2>9 DEF ProcessNew
  <2>10. CASE /\ tried /\ ~fails /\ p.op # "delete"
              /\ p.valid /\ ~TargetMissing(w, p)
              /\ w.row[r].ver = 0
    BY <2>10 DEF ProcessNew
  <2> QED
    BY <1>2, <2>1, <2>2, <2>3, <2>4, <2>5, <2>6, <2>7, <2>8, <2>9, <2>10
<1>12. good(o)
  <2> HIDE DEF good, o, upd, gone, new
  <2> QED BY <1>3, <1>4, <1>5, <1>6, <1>7, <1>8, <1>9, <1>10, <1>11 DEF Kind
<1> QED BY <1>12

\* Refreshing an accepted replay reports the row as it is.
LEMMA RefreshFacts ==
    ASSUME NEW w \in Work, NEW u \in User, NEW res \in Result,
           Current(res, w)
    PROVE  /\ RefreshAcceptedReplay(w, u, res) \in Result
           /\ Current(RefreshAcceptedReplay(w, u, res), w)
<1> DEFINE row == w.row[res.rec]
           new == [res EXCEPT !.rver = res.ver, !.ver = row.ver, !.row = row]
<1>1. res.rec \in Rec /\ res.ver \in Nat
  BY DEF Result
<1>2. row \in Row /\ row.ver \in Nat
  BY <1>1, WorkFields
<1> HIDE DEF row
<1>3. /\ new \in Result
      /\ new.status = res.status
      /\ new.rec = res.rec
      /\ new.rver = res.ver
      /\ new.ver = row.ver
  BY <1>1, <1>2 DEF Result
<1> HIDE DEF new
<1>4. Current(new, w)
  BY <1>1, <1>2, <1>3 DEF Current, row
<1> QED BY <1>3, <1>4 DEF RefreshAcceptedReplay, new, row

\* The error for a reused change_id (duplicate_error_reason) is a result
\* without server state.
LEMMA DuplicateErrorFacts ==
    ASSUME NEW c \in Change, NEW w
    PROVE  DuplicateError(c) \in Result /\ Current(DuplicateError(c), w)
BY NoRowType
   DEF DuplicateError, Result, Current, Change, Payload, Status, Kind

\* What a stored receipt replays.
LEMMA ReplayFacts ==
    ASSUME NEW v, NEW w, NEW P, Sound(v, P), Sound(w, P), Ahead(v, w),
           NEW u \in User, NEW c \in Change, v.rcpt[c.id] # NoReceipt
    PROVE  LET res == ReplayResult(w, u, c, v.rcpt[c.id])
           IN  res \in Result /\ Current(res, w)
<1> DEFINE rc == v.rcpt[c.id]
           res == ReceiptResult(c, rc)
<1>1. /\ v \in Work /\ w \in Work /\ c.id \in ChangeId
  BY DEF Sound, Change
<1>2. rc \in Receipt /\ rc.ver \in Nat /\ rc.pay.rec \in Rec
  BY <1>1, WorkFields
<1>3. rc.status = "accepted" => rc.ver <= v.row[rc.pay.rec].ver
  BY <1>1 DEF Sound, ReceiptsSound
<1> HIDE DEF rc
<1>4. res \in Result /\ res.rver = 0 /\ res.ver = rc.ver
  BY <1>1, <1>2 DEF ReceiptResult, Result, Receipt
<1>5. Current(res, w)
  <2>1. v.row[rc.pay.rec].ver <= w.row[rc.pay.rec].ver
    BY <1>1, <1>2, AheadVersions
  <2>2. /\ v.row[rc.pay.rec].ver \in Nat
        /\ w.row[rc.pay.rec].ver \in Nat
    BY <1>1, <1>2, WorkFields
  <2> QED BY <1>2, <1>3, <2>1, <2>2 DEF Current, ReceiptResult
<1> HIDE DEF res
<1>6. /\ RefreshAcceptedReplay(w, u, res) \in Result
      /\ Current(RefreshAcceptedReplay(w, u, res), w)
  BY <1>1, <1>4, <1>5, RefreshFacts
<1> QED BY <1>6, DuplicateErrorFacts DEF ReplayResult, res, rc

\* The first earlier change of a batch with the same change_id exists.
LEMMA SmallestIndex ==
    ASSUME NEW S \in SUBSET Nat, S # {}
    PROVE  \E k \in S : \A j \in S : k <= j
<1>1. PICK k \in S : \A j \in S : ~ (<<j, k>> \in OpToRel(<, Nat))
  BY NatLessThanWellFounded, WFMin
<1>2. \A j \in S : ~ (j < k)
  BY <1>1 DEF OpToRel
<1> QED BY <1>2

\* One change of a batch keeps the working copy sound, moves it forward,
\* accounts for the receipt it may store and answers with a current result.
LEMMA ProcessSound ==
    ASSUME NEW v, NEW w, NEW P, NEW prior \in Seq(Entry),
           PushState(v, w, P, prior),
           NEW u \in User, NEW manager \in BOOLEAN, NEW fails \in BOOLEAN,
           NEW c \in Change
    PROVE  StepSound(Process(v.rcpt, w, u, manager, prior, c, fails), w, P, c)
<1> USE DEF PushState, StepSound
<1> DEFINE o == Process(v.rcpt, w, u, manager, prior, c, fails)
<1>1. w \in Work /\ c.id \in ChangeId /\ c.pay.rec \in Rec
  BY DEF Sound, Change, Payload
<1>2. CASE v.rcpt[c.id] # NoReceipt
  <2>1. o = [work |-> w, result |-> ReplayResult(w, u, c, v.rcpt[c.id])]
    BY <1>2 DEF Process
  <2> QED BY <1>1, <1>2, <2>1, ReplayFacts, AheadReflexive
<1>3. CASE v.rcpt[c.id] = NoReceipt /\ Earlier(prior, c) # {}
  <2> DEFINE first == CHOOSE k \in Earlier(prior, c) :
                          \A j \in Earlier(prior, c) : k <= j
  <2>1. o = [work |-> w, result |-> Repeat(w, u, c, prior[first])]
    BY <1>3 DEF Process
  <2>2. first \in 1..Len(prior)
    <3>1. \E k \in Earlier(prior, c) : \A j \in Earlier(prior, c) : k <= j
      <4>1. Earlier(prior, c) \in SUBSET Nat
        BY DEF Earlier
      <4> QED BY <1>3, <4>1, SmallestIndex, Zenon
    <3> QED BY <3>1 DEF Earlier
  <2> HIDE DEF first
  <2>3. /\ prior[first].result \in Result
        /\ Current(prior[first].result, w)
    <3>1. prior[first] \in Entry
      BY <2>2
    <3> QED BY <2>2, <3>1 DEF Entry
  <2> DEFINE again == [prior[first].result EXCEPT !.replayed = TRUE]
  <2>4. again \in Result /\ Current(again, w)
    BY <2>3 DEF Result, Current
  <2> HIDE DEF again
  <2>5. /\ RefreshAcceptedReplay(w, u, again) \in Result
        /\ Current(RefreshAcceptedReplay(w, u, again), w)
    BY <1>1, <2>4, RefreshFacts
  <2>6. /\ Repeat(w, u, c, prior[first]) \in Result
        /\ Current(Repeat(w, u, c, prior[first]), w)
    BY <2>5, DuplicateErrorFacts DEF Repeat, again
  <2> QED BY <1>1, <2>1, <2>6, AheadReflexive
<1>4. CASE v.rcpt[c.id] = NoReceipt /\ Earlier(prior, c) = {}
  <2> DEFINE n == ProcessNew(w, u, manager, c, fails)
  <2>1. o = [work |-> n.work, result |-> NewResult(c, n)]
    BY <1>4 DEF Process
  <2>2. w.rcpt[c.id] = NoReceipt
    BY <1>1, <1>4 DEF Traced, Earlier
  <2>3. /\ n.status \in Status
        /\ n.kind \in Kind
        /\ Sound(n.work, P)
        /\ Ahead(w, n.work)
        /\ \A i \in ChangeId \ {c.id} : n.work.rcpt[i] = w.rcpt[i]
    BY <2>2, ProcessNewSound
  <2> HIDE DEF n
  <2>4. /\ n.work.row[c.pay.rec] \in Row
        /\ n.work.row[c.pay.rec].ver \in Nat
    BY <1>1, <2>3, WorkFields DEF Sound
  <2>5. NewResult(c, n) \in Result
    BY <1>1, <2>3, <2>4, NoRowType DEF NewResult, Result, Row
  <2>6. Current(NewResult(c, n), n.work)
    BY <2>3, <2>4 DEF NewResult, Current
  <2> QED BY <2>1, <2>3, <2>5, <2>6
<1> QED BY <1>2, <1>3, <1>4

-----------------------------------------------------------------------------
(* The inductive invariant                                                 *)

\* An open push: its copy is sound and later than the committed tables,
\* every receipt it added belongs to a change it has answered, and no
\* answer is ahead of it.
PushSound ==
    txn.open => PushState(db, txn.work, pruned, txn.done)

\* No device is ahead of the counter, and below its watermark it agrees
\* with the committed rows.
DevicesSound ==
    /\ \A d \in Device : dev[d].wm <= db.seq
    /\ PullComplete

Inductive == TypeOK /\ Sound(db, pruned) /\ PushSound /\ DevicesSound

\* The empty project satisfies the inductive invariant.
LEMMA InitInductive == Init => Inductive
<1> SUFFICES ASSUME Init PROVE Inductive
  OBVIOUS
<1> USE DEF Init
<1>1. db \in Work
  BY NoRowType DEF InitWork, Work
<1>2. /\ db.row = [r \in Rec |-> NoRow] /\ db.seq = 0
      /\ db.rcpt = [i \in ChangeId |-> NoReceipt]
      /\ db.applied = [i \in ChangeId |-> 0]
  BY DEF InitWork
<1>3. Sound(db, pruned)
  BY <1>1, <1>2
     DEF Sound, RowsSound, SequencesUnique, ReceiptsSound, NoRow, NoReceipt
<1>4. TypeOK
  BY <1>1, NoRowType DEF TypeOK, DeviceState
<1>5. PushSound /\ DevicesSound
  <2>1. ~txn.open
    BY DEF Idle
  <2>2. \A d \in Device : /\ dev[d].wm = 0
                         /\ dev[d].copy = [r \in Rec |-> NoRow]
    OBVIOUS
  <2> QED BY <1>2, <2>1, <2>2 DEF PushSound, PushState, DevicesSound, PullComplete
<1> QED BY <1>3, <1>4, <1>5 DEF Inductive

\* Devices follow whenever the committed tables move forward.
LEMMA AheadDevices ==
    ASSUME Inductive, db' \in Work, Ahead(db, db'), dev' = dev
    PROVE  DevicesSound'
<1>1. db \in Work /\ dev \in [Device -> DeviceState]
  BY DEF Inductive, TypeOK
<1>2. /\ db.seq \in Nat /\ db'.seq \in Nat
      /\ \A r \in Rec : db.row[r].seq \in Nat /\ db'.row[r].seq \in Nat
  BY <1>1, WorkFields
<1>3. \A d \in Device : dev[d].wm \in Nat /\ dev[d].wm <= db.seq
  BY <1>1 DEF DeviceState, Inductive, DevicesSound
<1>4. \A d \in Device : dev'[d].wm <= db'.seq
  BY <1>2, <1>3 DEF Ahead
<1>5. ASSUME NEW d \in Device, NEW r \in Rec, db'.row[r].seq <= dev'[d].wm
      PROVE  dev'[d].copy[r] = db'.row[r]
  <2>1. db'.row[r] = db.row[r]
    BY <1>2, <1>3, <1>5 DEF Ahead
  <2> QED BY <1>5, <2>1 DEF Inductive, DevicesSound, PullComplete
<1> QED BY <1>4, <1>5 DEF DevicesSound, PullComplete

\* A write outside a push: the tables move forward, nothing is open.
LEMMA RestWriteStep ==
    ASSUME Inductive, ~txn.open, NEW r \in Rec, NEW row, NextRow(db, r, row),
           db' = WriteRow(db, r, row), UNCHANGED <<txn, pruned, dev>>
    PROVE  Inductive'
<1>1. Sound(db', pruned) /\ Ahead(db, db')
  BY WriteRowSound DEF Inductive
<1>2. db' \in Work
  BY <1>1 DEF Sound
<1>3. DevicesSound'
  BY <1>1, <1>2, AheadDevices
<1>4. PushSound'
  BY DEF PushSound, PushState
<1>5. TypeOK'
  BY <1>2 DEF Inductive, TypeOK
<1> QED BY <1>1, <1>3, <1>4, <1>5 DEF Inductive

\* The rows PATCH and DELETE store.
LEMMA RestUpdateRow ==
    ASSUME Inductive, NEW u \in User, NEW r \in Rec, NEW base \in 1..MaxSeq,
           NEW v \in Val, NEW delete \in BOOLEAN,
           RestUpdate(u, r, base, v, delete)
    PROVE  NextRow(db, r,
               [db.row[r] EXCEPT !.ver = base + 1,
                                 !.val = v,
                                 !.del = IF r \in Owned THEN FALSE
                                         ELSE db.row[r].del \/ delete])
<1> DEFINE d == IF r \in Owned THEN FALSE ELSE db.row[r].del \/ delete
           row == [db.row[r] EXCEPT !.ver = base + 1, !.val = v, !.del = d]
<1>1. db \in Work /\ Sound(db, pruned)
  BY DEF Inductive, TypeOK
<1>2. /\ db.row[r] \in Row /\ db.row[r].ver = base
      /\ base + 1 \in Nat /\ base > 0
  BY <1>1, WorkFields, ServerAssumption DEF RestUpdate
<1>3. d \in BOOLEAN
  BY <1>2 DEF Row
<1>4. ASSUME NEW x \in Row, NEW n \in Nat, NEW e \in BOOLEAN
      PROVE  LET y == [x EXCEPT !.ver = n, !.val = v, !.del = e]
             IN  y \in Row /\ y.ver = n
  BY DEF Row
<1>5. row \in Row /\ row.ver = base + 1
  BY <1>2, <1>3, <1>4, Zenon
<1> QED BY <1>1, <1>2, <1>5 DEF NextRow, Sound, RowsSound

\* The row a REST delete writes is the old one, deleted, at the next version.
LEMMA RestDeleteRow ==
    ASSUME Inductive, NEW r \in Rec, RestDelete(r)
    PROVE  NextRow(db, r, [db.row[r] EXCEPT !.ver = db.row[r].ver + 1,
                                            !.del = TRUE])
<1> DEFINE row == [db.row[r] EXCEPT !.ver = db.row[r].ver + 1, !.del = TRUE]
<1>1. db \in Work /\ Sound(db, pruned)
  BY DEF Inductive, TypeOK
<1>2. /\ db.row[r] \in Row /\ db.row[r].ver > 0
      /\ db.row[r].ver + 1 \in Nat
  BY <1>1, WorkFields DEF RestDelete
<1>3. row \in Row /\ row.ver = db.row[r].ver + 1
  BY <1>2, DeletedRowType, Zenon
<1> QED BY <1>1, <1>2, <1>3 DEF NextRow, Sound, RowsSound

\* Every step of the server and of its devices preserves the inductive
\* invariant.
LEMMA NextInductive == Inductive /\ [Next]_vars => Inductive'
<1> SUFFICES ASSUME Inductive, [Next]_vars PROVE Inductive'
  OBVIOUS
<1>1. /\ db \in Work /\ Sound(db, pruned) /\ TypeOK
      /\ PushSound /\ DevicesSound
  BY DEF Inductive, TypeOK
<1>2. txn.open => txn \in Txn
  BY <1>1 DEF TypeOK, Idle
<1>3. CASE UNCHANGED vars
  <2>1. UNCHANGED <<db, txn, pruned, dev>>
    BY <1>3 DEF vars
  <2> QED
    BY <1>1, <2>1 DEF Inductive, TypeOK, Sound, RowsSound, ReceiptsSound,
       SequencesUnique, PushSound, PushState, Ahead, Traced, Current, DevicesSound,
       PullComplete
<1>4. ASSUME NEW u \in User, NEW m \in BOOLEAN, NEW b \in Batches,
             BeginPush(u, m, b)
      PROVE  Inductive'
  <2>1. /\ UNCHANGED <<db, pruned, dev>>
        /\ txn' = [open |-> TRUE, user |-> u, manager |-> m, rest |-> b,
                   work |-> db, done |-> <<>>]
    BY <1>4 DEF BeginPush
  <2>2. b \in Seq(Change)
    BY ServerAssumption DEF Batches
  <2>3. txn' \in Txn
    BY <1>1, <2>1, <2>2 DEF Txn
  <2>4. PushSound'
    BY <1>1, <2>1, AheadReflexive DEF PushSound, PushState, Traced
  <2>5. TypeOK' /\ DevicesSound'
    BY <1>1, <2>1, <2>3 DEF TypeOK, DevicesSound, PullComplete
  <2> QED BY <1>1, <2>1, <2>4, <2>5 DEF Inductive
<1>5. ASSUME NEW f \in BOOLEAN, ProcessNext(f)
      PROVE  Inductive'
  <2> DEFINE c == Head(txn.rest)
             o == Process(db.rcpt, txn.work, txn.user, txn.manager,
                          txn.done, c, f)
             e == [change |-> c, result |-> o.result]
  <2>1. /\ txn.open /\ txn.rest # <<>>
        /\ UNCHANGED <<db, pruned, dev>>
        /\ txn' = [txn EXCEPT !.rest = Tail(txn.rest), !.work = o.work,
                              !.done = Append(txn.done, e)]
    BY <1>5 DEF ProcessNext
  <2>2. /\ txn \in Txn /\ txn.user \in User /\ txn.manager \in BOOLEAN
        /\ txn.rest \in Seq(Change) /\ txn.done \in Seq(Entry)
    BY <1>2, <2>1 DEF Txn
  <2>3. c \in Change /\ Tail(txn.rest) \in Seq(Change)
    BY <2>1, <2>2
  <2>4. /\ Sound(o.work, pruned)
        /\ Ahead(txn.work, o.work)
        /\ o.result \in Result
        /\ Current(o.result, o.work)
        /\ \A i \in ChangeId \ {c.id} : o.work.rcpt[i] = txn.work.rcpt[i]
    <3>1. PushState(db, txn.work, pruned, txn.done)
      BY <1>1, <2>1 DEF PushSound, PushState
    <3> HIDE DEF c
    <3>2. StepSound(o, txn.work, pruned, c)
      BY <2>2, <2>3, <3>1, ProcessSound
    <3> QED BY <3>2 DEF StepSound
  <2> HIDE DEF c, o
  <2>5. e \in Entry /\ o.work \in Work /\ txn.work \in Work
    BY <1>1, <2>1, <2>3, <2>4 DEF Entry, Sound, PushSound, PushState
  <2>6. /\ txn'.open /\ txn'.work = o.work
        /\ txn'.done = Append(txn.done, e)
        /\ txn' \in Txn
    <3> DEFINE more == Append(txn.done, e)
               rest == Tail(txn.rest)
    <3>1. more \in Seq(Entry) /\ rest \in Seq(Change)
      BY <2>2, <2>3, <2>5
    <3>2. txn' = [txn EXCEPT !.rest = rest, !.work = o.work, !.done = more]
      BY <2>1
    <3> HIDE DEF more, rest, e
    <3>3. /\ txn'.open /\ txn'.work = o.work /\ txn'.done = more
          /\ txn' \in Txn
      BY <2>1, <2>2, <2>5, <3>1, <3>2 DEF Txn
    <3> QED BY <3>3 DEF more
  <2>7. /\ Len(txn'.done) = Len(txn.done) + 1
        /\ \A k \in 1..Len(txn.done) : txn'.done[k] = txn.done[k]
        /\ txn'.done[Len(txn.done) + 1] = e
        /\ Len(txn.done) \in Nat
    BY <2>2, <2>5, <2>6
  <2>8. Ahead(db, o.work)
    BY <1>1, <2>1, <2>4, <2>5, AheadTransitive DEF PushSound, PushState
  <2>9. Traced(db, o.work, txn'.done)
    <3> SUFFICES ASSUME NEW i \in ChangeId, o.work.rcpt[i] # NoReceipt
                 PROVE  \/ db.rcpt[i] # NoReceipt
                        \/ \E k \in 1..Len(txn'.done) :
                              txn'.done[k].change.id = i
      BY DEF Traced
    <3>1. CASE i = c.id
      BY <2>7, <3>1
    <3>2. CASE i # c.id
      <4>1. \/ db.rcpt[i] # NoReceipt
            \/ \E k \in 1..Len(txn.done) : txn.done[k].change.id = i
        BY <1>1, <2>1, <2>4, <3>2 DEF PushSound, PushState, Traced
      <4>2. ASSUME NEW k \in 1..Len(txn.done), txn.done[k].change.id = i
            PROVE  \E j \in 1..Len(txn'.done) : txn'.done[j].change.id = i
        <5>1. k \in 1..Len(txn'.done) /\ txn'.done[k].change.id = i
          BY <2>7, <4>2
        <5> QED BY <5>1
      <4> QED BY <4>1, <4>2
    <3> QED BY <3>1, <3>2
  <2>10. ASSUME NEW k \in 1..Len(txn'.done)
         PROVE  Current(txn'.done[k].result, o.work)
    <3>1. CASE k = Len(txn.done) + 1
      BY <2>4, <2>7, <3>1
    <3>2. CASE k \in 1..Len(txn.done)
      <4> DEFINE res == txn.done[k].result
      <4>1. txn.done[k] \in Entry
        BY <2>2, <3>2
      <4>2. res \in Result /\ Current(res, txn.work)
        BY <1>1, <2>1, <3>2, <4>1 DEF PushSound, PushState, Entry
      <4> HIDE DEF res
      <4>3. res.rec \in Rec /\ res.ver \in Nat
        BY <4>2 DEF Result
      <4>4. /\ txn.work.row[res.rec].ver <= o.work.row[res.rec].ver
            /\ txn.work.row[res.rec].ver \in Nat
            /\ o.work.row[res.rec].ver \in Nat
        BY <2>4, <2>5, <4>3, AheadVersions, WorkFields
      <4>5. Current(res, o.work)
        BY <4>2, <4>3, <4>4 DEF Current
      <4> QED BY <2>7, <3>2, <4>5 DEF res
    <3> QED BY <2>7, <3>1, <3>2
  <2>11. PushSound'
    BY <1>1, <2>1, <2>4, <2>6, <2>8, <2>9, <2>10 DEF PushSound, PushState
  <2>12. TypeOK' /\ DevicesSound'
    BY <1>1, <2>1, <2>6 DEF TypeOK, DevicesSound, PullComplete
  <2> QED BY <1>1, <2>1, <2>11, <2>12 DEF Inductive
<1>6. CASE CommitPush
  <2>1. /\ txn.open /\ db' = txn.work /\ txn' = Idle
        /\ UNCHANGED <<pruned, dev>>
    BY <1>6 DEF CommitPush
  <2>2. Sound(db', pruned') /\ Ahead(db, db') /\ db' \in Work
    BY <1>1, <2>1 DEF PushSound, PushState, Sound
  <2>3. DevicesSound'
    BY <2>1, <2>2, AheadDevices
  <2>4. TypeOK' /\ PushSound'
    BY <1>1, <2>1, <2>2 DEF TypeOK, PushSound, Idle
  <2> QED BY <2>2, <2>3, <2>4 DEF Inductive
<1>7. CASE AbortPush
  BY <1>1, <1>7 DEF AbortPush, Inductive, TypeOK, PushSound, PushState, Idle,
     DevicesSound, PullComplete
<1>8. ASSUME NEW u \in User, NEW r \in Rec, NEW v \in Val, RestCreate(u, r, v)
      PROVE  Inductive'
  <2> DEFINE row == [ver |-> 1, val |-> v, del |-> FALSE, by |-> u, seq |-> 0]
  <2>1. NextRow(db, r, row)
    BY <1>8 DEF RestCreate, NextRow, Row
  <2> QED BY <1>8, <2>1, RestWriteStep DEF RestCreate
<1>9. ASSUME NEW u \in User, NEW r \in Rec, NEW base \in 1..MaxSeq,
             NEW v \in Val, NEW delete \in BOOLEAN,
             RestUpdate(u, r, base, v, delete)
      PROVE  Inductive'
  <2> DEFINE row == [db.row[r] EXCEPT
                        !.ver = base + 1,
                        !.val = v,
                        !.del = IF r \in Owned THEN FALSE
                                ELSE db.row[r].del \/ delete]
  <2>1. NextRow(db, r, row)
    BY <1>9, RestUpdateRow, Zenon
  <2>2. /\ ~txn.open /\ db' = WriteRow(db, r, row)
        /\ UNCHANGED <<txn, pruned, dev>>
    BY <1>9 DEF RestUpdate
  <2> HIDE DEF row
  <2> QED BY <2>1, <2>2, RestWriteStep
<1>10. ASSUME NEW r \in Rec, RestDelete(r)
       PROVE  Inductive'
  BY <1>10, RestDeleteRow, RestWriteStep DEF RestDelete
<1>11. ASSUME NEW old \in SUBSET ChangeId, PruneReceipts(old)
       PROVE  Inductive'
  <2> DEFINE left == [i \in ChangeId |->
                         IF i \in old THEN NoReceipt ELSE db.rcpt[i]]
  <2>1. /\ ~txn.open /\ UNCHANGED <<txn, dev>>
        /\ pruned' = pruned \cup old
        /\ db' = [db EXCEPT !.rcpt = left]
    BY <1>11 DEF PruneReceipts
  <2>2. left \in [ChangeId -> Receipt \cup {NoReceipt}]
    BY <1>1, WorkFields
  <2>3. /\ db' \in Work /\ db'.row = db.row /\ db'.seq = db.seq
        /\ db'.applied = db.applied /\ db'.rcpt = left
    <3> HIDE DEF left
    <3> QED BY <1>1, <2>1, <2>2 DEF Work
  <2>4. \A i \in ChangeId :
           /\ i \notin old => db'.rcpt[i] = db.rcpt[i]
           /\ i \in old => db'.rcpt[i].status # "accepted"
    BY <2>3 DEF NoReceipt
  <2>5. Sound(db', pruned')
    <3>1. RowsSound(db')
      BY <1>1, <2>3 DEF Sound, RowsSound, SequencesUnique
    <3>2. ReceiptsSound(db', pruned')
      BY <1>1, <2>1, <2>3, <2>4 DEF Sound, ReceiptsSound
    <3> QED BY <2>3, <3>1, <3>2 DEF Sound
  <2>6. TypeOK' /\ PushSound' /\ DevicesSound'
    BY <1>1, <2>1, <2>3 DEF TypeOK, PushSound, DevicesSound, PullComplete
  <2> QED BY <2>5, <2>6 DEF Inductive
<1>12. ASSUME NEW d \in Device, Pull(d)
       PROVE  Inductive'
  <2> DEFINE copy == [r \in Rec |-> IF r \in PullSet(db, dev[d].wm, db.seq)
                                  THEN db.row[r] ELSE dev[d].copy[r]]
  <2>1. /\ UNCHANGED <<db, txn, pruned>>
        /\ dev' = [dev EXCEPT ![d] = [wm |-> db.seq, copy |-> copy]]
    BY <1>12 DEF Pull
  <2>2. /\ dev \in [Device -> DeviceState]
        /\ dev[d].copy \in [Rec -> Row] /\ dev[d].wm \in Nat
    BY <1>1 DEF TypeOK, DeviceState
  <2>3. copy \in [Rec -> Row]
    BY <1>1, <2>2, WorkFields
  <2>4. \A r \in Rec : copy[r] = db.row[r]
    BY <1>1, <2>2, WorkFields
       DEF PullSet, DevicesSound, PullComplete, Sound, RowsSound,
           SequencesUnique
  <2> HIDE DEF copy
  <2>5. [wm |-> db.seq, copy |-> copy] \in DeviceState
    BY <1>1, <2>3, WorkFields DEF DeviceState
  <2>6. TypeOK'
    BY <1>1, <2>1, <2>2, <2>5 DEF TypeOK
  <2>7. DevicesSound'
    <3>1. \A x \in Device : dev'[x] = IF x = d
               THEN [wm |-> db.seq, copy |-> copy] ELSE dev[x]
      BY <2>1, <2>2
    <3> QED BY <1>1, <2>1, <2>4, <3>1, WorkFields DEF DevicesSound, PullComplete
  <2>8. PushSound'
    BY <1>1, <2>1 DEF PushSound, PushState
  <2> QED BY <1>1, <2>1, <2>6, <2>7, <2>8 DEF Inductive
<1> QED
  BY <1>3, <1>4, <1>5, <1>6, <1>7, <1>8, <1>9, <1>10, <1>11, <1>12 DEF Next

\* The inductive invariant holds throughout every behaviour.
LEMMA SpecInductive == Spec => []Inductive
BY InitInductive, NextInductive, PTL DEF Spec

\* Every working copy a push may commit is sound.
LEMMA TablesSound ==
    ASSUME Inductive
    PROVE  \A w \in Tables : Sound(w, pruned)
BY DEF Tables, Inductive, PushSound, PushState

-----------------------------------------------------------------------------
(* The theorems                                                            *)

\* The tables, the open push and the devices keep their types.
THEOREM TypeCorrect == Spec => []TypeOK
<1>1. Inductive => TypeOK
  BY DEF Inductive
<1> QED BY <1>1, SpecInductive, PTL

\* However often, by whomever and with whatever payload a change_id is
\* pushed, it is applied at most once until its receipt is pruned.
THEOREM ChangesAppliedOnce == Spec => []AppliedOnce
<1>1. Inductive => AppliedOnce
  BY TablesSound DEF Sound, ReceiptsSound, AppliedOnce
<1> QED BY <1>1, SpecInductive, PTL

\* A receipt says "accepted" exactly when its change has been applied.
THEOREM ReceiptsTruthful == Spec => []ReceiptsTellTheTruth
<1>1. Inductive => ReceiptsTellTheTruth
  BY TablesSound DEF Sound, ReceiptsSound, ReceiptsTellTheTruth
<1> QED BY <1>1, SpecInductive, PTL

\* Both together: for any users, batches and repetitions a change takes
\* effect once and its receipt says so, until the receipt is pruned.
THEOREM ChangesExactlyOnce == Spec => []ExactlyOnce
<1>1. AppliedOnce /\ ReceiptsTellTheTruth => ExactlyOnce
  BY DEF ExactlyOnce
<1> QED BY <1>1, ChangesAppliedOnce, ReceiptsTruthful, PTL

\* change_sequence orders the rows of a project strictly.
THEOREM SequencesOrdered == Spec => []SequenceOrder
<1>1. Inductive => SequenceOrder
  BY TablesSound DEF Sound, RowsSound, SequenceOrder
<1> QED BY <1>1, SpecInductive, PTL

\* No two accepted changes claim the same version of a record.
THEOREM VersionsExclusive == Spec => []VersionsClaimedOnce
<1>1. Inductive => VersionsClaimedOnce
  BY TablesSound DEF Sound, ReceiptsSound, VersionsClaimedOnce
<1> QED BY <1>1, SpecInductive, PTL

\* No child is stored without its parent.
THEOREM ChildrenHaveParents == Spec => []ChildHasParent
<1>1. Inductive => ChildHasParent
  BY TablesSound DEF Sound, RowsSound, ChildHasParent
<1> QED BY <1>1, SpecInductive, PTL

\* A device that has pulled to a watermark holds every row up to it.
THEOREM PullsComplete == Spec => []PullComplete
<1>1. Inductive => PullComplete
  BY DEF Inductive, DevicesSound
<1> QED BY <1>1, SpecInductive, PTL

\* The cursor of a pull is sound: it separates seen rows from unseen ones and
\* skips none, for any interleaving of pushes, REST writes and pulls.
THEOREM PullCursorSound == Spec => []PullsSound
<1>1. SequenceOrder /\ PullComplete => PullsSound
  BY DEF PullsSound
<1> QED BY <1>1, SequencesOrdered, PullsComplete, PTL

\* No answer of an open push is ahead of the tables it will commit.
THEOREM ResultsNeverAhead == Spec => []ResultsCurrent
<1>1. Inductive => ResultsCurrent
  BY DEF Inductive, PushSound, PushState, Current, ResultsCurrent
<1> QED BY <1>1, SpecInductive, PTL

\* A committed row changes only to a higher version with a sequence that no
\* watermark has reached.
THEOREM RowsAdvance == Spec => RowsOnlyAdvance
<1> DEFINE Advance == \A r \in Rec : db'.row[r] # db.row[r] =>
                          /\ db'.row[r].ver > db.row[r].ver
                          /\ db'.row[r].seq > db.seq
<1>1. ASSUME Inductive, [Next]_vars
      PROVE  [Advance]_vars
  <2>1. db \in Work /\ Sound(db, pruned)
    BY <1>1 DEF Inductive, TypeOK
  <2>2. CASE db' = db
    BY <2>2
  <2>3. CASE CommitPush
    BY <1>1, <2>3 DEF CommitPush, Inductive, PushSound, PushState, Ahead
  <2>4. ASSUME NEW r \in Rec, NEW row, NextRow(db, r, row),
               db' = WriteRow(db, r, row)
        PROVE  Advance
    BY <2>1, <2>4, WriteRowSound DEF Ahead
  <2>5. ASSUME NEW u \in User, NEW r \in Rec, NEW v \in Val,
               RestCreate(u, r, v)
        PROVE  Advance
    <3>1. NextRow(db, r, [ver |-> 1, val |-> v, del |-> FALSE, by |-> u,
                          seq |-> 0])
      BY <2>5 DEF RestCreate, NextRow, Row
    <3> QED BY <2>4, <2>5, <3>1 DEF RestCreate
  <2>6. ASSUME NEW u \in User, NEW r \in Rec, NEW base \in 1..MaxSeq,
               NEW v \in Val, NEW delete \in BOOLEAN,
               RestUpdate(u, r, base, v, delete)
        PROVE  Advance
    <3> DEFINE row == [db.row[r] EXCEPT
                          !.ver = base + 1,
                          !.val = v,
                          !.del = IF r \in Owned THEN FALSE
                                  ELSE db.row[r].del \/ delete]
    <3>1. NextRow(db, r, row)
      BY <1>1, <2>6, RestUpdateRow, Zenon
    <3>2. db' = WriteRow(db, r, row)
      BY <2>6 DEF RestUpdate
    <3> HIDE DEF row
    <3> QED BY <2>4, <3>1, <3>2
  <2>7. ASSUME NEW r \in Rec, RestDelete(r)
        PROVE  Advance
    BY <1>1, <2>4, <2>7, RestDeleteRow DEF RestDelete
  <2>8. ASSUME NEW old \in SUBSET ChangeId, PruneReceipts(old)
        PROVE  Advance
    BY <2>1, <2>8 DEF PruneReceipts, Work
  <2> QED
    BY <1>1, <2>2, <2>3, <2>5, <2>6, <2>7, <2>8
       DEF Next, BeginPush, ProcessNext, AbortPush, Pull, vars
<1> QED BY <1>1, SpecInductive, PTL DEF Spec, RowsOnlyAdvance

-----------------------------------------------------------------------------
(* Sessions: the inductive invariant                                       *)

Pc == {"free", "begin", "lookup", "claim", "commit", "lock", "wait", "follow",
       "decide", "answered"}

Exchange ==
    [pc: Pc, who: Thread \cup {NoThread}, tok: Nat, now: Nat, tries: Nat,
     locks: SUBSET Nat, answer: Nat]

Operation ==
    [pc: {"free", "read"},
     kind: {"none", "change", "deactivate", "confirm", "request"},
     reset: Nat, seen: SUBSET Nat, upto: Nat, now: 0..MaxTime]

SessionTypes ==
    /\ clock \in 0..MaxTime
    /\ tok \in Seq(Token)
    /\ enabled \in BOOLEAN /\ login \in BOOLEAN
    /\ resets \in Seq([used: BOOLEAN, uses: Nat, exp: Nat])
    /\ req \in [Request -> Exchange]
    /\ op \in [Operator -> Operation]
    /\ auth \in [held: Nat, lock: Thread \cup {NoThread}]
    /\ thread \in [Thread -> [pc: {"idle", "refused", "waiting", "retry"},
                              used: Nat]]
    /\ budget \in Budget
    /\ spent \in [faults: Nat, ops: Nat, late: BOOLEAN]
    /\ cut \in [read: Nat, commit: Nat]

\* A login is one chain of replacements, in the order of insertion, and only
\* its tail can be active.
Chained ==
    /\ \A i \in 1..Len(tok) :
          /\ tok[i].root \in 1..i
          /\ tok[i].issued <= clock
          /\ Active(i) => tok[i].next = NoTok
          /\ tok[i].next # NoTok =>
                /\ tok[i].next \in i + 1 .. Len(tok)
                /\ tok[tok[i].next].root = tok[i].root
    /\ \A i, j \in 1..Len(tok) :
          tok[i].root = tok[j].root /\ i < j => tok[i].next # NoTok

\* The tail is active until the family or all sessions are ended.
TailsAlive ==
    /\ cut.read <= Len(tok)
    /\ \A e \in ended : e.root \in 1..Len(tok)
    /\ \A i \in 1..Len(tok) :
          /\ \A e \in ended : e.root = tok[i].root => ~Active(i)
          /\ tok[i].next = NoTok /\ i > cut.read =>
                Active(i) \/ \E e \in ended : e.root = tok[i].root

\* What a request knows at each of its steps.
Placed(q) ==
    LET r == req[q]
    IN  /\ r.pc = "free" => r = NoRequest
        /\ r.pc # "free" => r.tok \in 1..Len(tok)
        /\ r.tries < Attempts
        /\ r.now <= clock
        /\ r.answer \in 0..Len(tok)
        /\ r.locks \subseteq 1..Len(tok)
        /\ r.pc \in {"begin", "lookup", "claim", "lock", "wait", "answered"} =>
              r.locks = {}
        /\ r.pc = "wait" => r.tok <= r.answer
        /\ r.pc = "commit" => r.locks = {r.tok} /\ Active(r.tok)
        /\ r.pc \in {"follow", "decide"} => r.tok \in r.locks
        /\ r.pc \in {"lock", "wait", "follow", "decide"} => ~Active(r.tok)
        /\ r.pc = "decide" =>
              \A i \in r.locks : tok[i].next \in r.locks \cup {NoTok}

LocksApart ==
    \A p, q \in Request : p # q => req[p].locks \cap req[q].locks = {}

\* What an operation has read.
Listing(o) ==
    LET me == op[o]
    IN  /\ me.pc = "free" => me = NoOp
        /\ me.pc = "read" /\ me.kind # "request" =>
              /\ me.upto <= Len(tok)
              /\ me.seen \subseteq 1..me.upto
              /\ \A i \in 1..me.upto : i \in me.seen \/ ~Active(i)

\* The reset token an operation holds is unused and its own.
Holding ==
    \A o \in Operator : op[o].kind = "confirm" =>
        /\ op[o].reset \in 1..Len(resets)
        /\ ~resets[op[o].reset].used
        /\ \A p \in Operator : op[p].kind = "confirm" /\ p # o =>
              op[p].reset # op[o].reset

ResetsUsedOnce ==
    \A r \in 1..Len(resets) :
        resets[r].uses <= 1 /\ (~resets[r].used => resets[r].uses = 0)

WorkingSet == {q \in Request : req[q].pc \notin {"free", "answered"}}
RefusedSet == {t \in Thread : thread[t].pc = "refused"}

InRoom == Len(tok) + Reserved <= budget.toks

ServerInv ==
    /\ Chained /\ TailsAlive
    /\ \A q \in Request : Placed(q)
    /\ LocksApart
    /\ \A o \in Operator : Listing(o)
    /\ Holding /\ ResetsUsedOnce
    /\ ListedSessionsEnd
    /\ InRoom

\* A request that the client waits for, or that the server is at work on.
Working(q) == req[q].pc \notin {"free", "answered"}
Underway(q) == req[q].who # NoThread \/ Working(q)

\* The token that the answer under way brings.
Delivered ==
    \E q \in Request : /\ req[q].who # NoThread /\ req[q].pc = "answered"
                       /\ req[q].answer # NoTok

\* How many answers are needed to explain the state of the held token.
Losses(h) ==
    IF Active(h) THEN 0
    ELSE IF /\ tok[h].next # NoTok
            /\ Active(tok[h].next)
            /\ tok[tok[h].next].issued = tok[h].rev
    THEN 1 ELSE 2

\* No attempt will find the held token within its grace period any more.
GraceOver(h) ==
    \/ Grace = 0
    \/ /\ clock > tok[h].rev + Grace
       /\ \A q \in Request : Working(q) /\ req[q].pc # "begin" =>
             req[q].now > tok[h].rev + Grace

\* A token under way, a request left behind, and the losses that only
\* faults explain.
Brought == IF Delivered THEN 1 ELSE 0
LeftBehind == IF Abandoned # {} THEN 1 ELSE 0
Debt ==
    LET h == auth.held
    IN  IF GraceOver(h) /\ ~Active(h) THEN 1 ELSE Losses(h)

Explained ==
    LET h == auth.held
    IN  /\ spent.faults + Brought >= LeftBehind + Debt
        /\ \A q \in Request :
              /\ /\ req[q].who # NoThread /\ req[q].pc = "answered"
                 /\ req[q].answer # NoTok
                 => Active(req[q].answer)
              /\ Working(q) /\ req[q].pc # "begin" /\ ~Active(h) =>
                    tok[h].rev <= req[q].now
        /\ ~Active(h) => tok[h].rev <= clock

\* The client: one request at a time unless one was abandoned and overtaken.
ClientInv ==
    /\ auth.held \in 1..Len(tok)
    /\ \A q \in Request : req[q].who # NoThread =>
          /\ req[q].pc # "free"
          /\ auth.lock = req[q].who
          /\ \A p \in Request : req[p].who # NoThread => p = q
    /\ ~spent.late => \A p, q \in Request :
          Underway(p) => /\ req[p].tok = auth.held
                         /\ Underway(q) => p = q
    /\ spent.ops = 0 => \A o \in Operator : op[o] = NoOp
    /\ ~spent.late /\ spent.ops = 0 => Explained

SessionsInv == SessionTypes /\ ServerInv /\ ClientInv /\ OneLossForgiven

-----------------------------------------------------------------------------
(* The tables                                                              *)

\* Numbers and their order.
LEMMA Numbers ==
    /\ MaxTime \in Nat /\ MaxTok \in Nat /\ Grace \in Nat /\ RefreshLife \in Nat
    /\ AccessLife \in Nat /\ ResetLife \in Nat /\ Attempts \in Nat \ {0}
    /\ Grace < RefreshLife
    /\ Never \in Nat /\ NoTok = 0
    /\ \A now \in 0..MaxTime : now # Never /\ now \in 0..Never
BY SessionAssumption DEF Never, NoTok

\* The rows of refresh_tokens.
LEMMA TokFacts ==
    ASSUME SessionTypes
    PROVE  /\ Len(tok) \in Nat /\ DOMAIN tok = 1..Len(tok)
           /\ \A i \in 1..Len(tok) :
                 /\ tok[i] \in Token
                 /\ tok[i].issued \in 0..MaxTime /\ tok[i].rev \in 0..Never
                 /\ tok[i].next \in 0..MaxTok /\ tok[i].root \in 1..MaxTok
                 /\ tok[i].rev \in Nat /\ tok[i].issued \in Nat
                 /\ tok[i].next \in Nat /\ tok[i].root \in Nat
<1>1. tok \in Seq(Token)
  BY DEF SessionTypes
<1>2. Len(tok) \in Nat /\ DOMAIN tok = 1..Len(tok)
  BY <1>1, LenProperties
<1>3. \A i \in 1..Len(tok) : tok[i] \in Token
  BY <1>1, ElementOfSeq
<1>4. \A t \in Token : /\ t.issued \in 0..MaxTime /\ t.rev \in 0..Never
                       /\ t.next \in 0..MaxTok /\ t.root \in 1..MaxTok
  BY DEF Token
<1>5. \A t \in Token : /\ t.rev \in Nat /\ t.issued \in Nat
                       /\ t.next \in Nat /\ t.root \in Nat
  BY <1>4, Numbers
<1> QED BY <1>2, <1>3, <1>4, <1>5

\* A token as it is issued.
LEMMA NewTokenFacts ==
    ASSUME NEW now \in 0..MaxTime, NEW root \in 1..MaxTok
    PROVE  /\ NewToken(now, root) \in Token
           /\ NewToken(now, root).issued = now
           /\ NewToken(now, root).rev = Never
           /\ NewToken(now, root).next = NoTok
           /\ NewToken(now, root).root = root
BY Numbers DEF NewToken, Token

\* The row of a claimed token, and that of its replacement.
LEMMA RotatedFacts ==
    ASSUME tok \in Seq(Token), NEW old \in 1..Len(tok), NEW now \in 0..MaxTime,
           Len(tok) + 1 <= MaxTok, tok' = Rotated(old, now)
    PROVE  /\ tok' \in Seq(Token) /\ Len(tok') = Len(tok) + 1
           /\ tok'[old].rev = now /\ tok'[old].next = Len(tok) + 1
           /\ tok'[old].root = tok[old].root
           /\ tok'[old].issued = tok[old].issued
           /\ \A i \in 1..Len(tok) : i # old => tok'[i] = tok[i]
           /\ tok'[Len(tok) + 1].issued = now
           /\ tok'[Len(tok) + 1].rev = Never
           /\ tok'[Len(tok) + 1].next = NoTok
           /\ tok'[Len(tok) + 1].root = tok[old].root
<1>1. Len(tok) \in Nat /\ DOMAIN tok = 1..Len(tok) /\ tok[old] \in Token
  BY LenProperties, ElementOfSeq
<1> DEFINE t == [tok[old] EXCEPT !.rev = now, !.next = Len(tok) + 1]
           n == NewToken(now, tok[old].root)
           s == [tok EXCEPT ![old] = t]
<1>2. /\ t \in Token /\ t.rev = now /\ t.next = Len(tok) + 1
      /\ t.root = tok[old].root /\ t.issued = tok[old].issued
  <2>1. now \in 0..Never /\ Len(tok) + 1 \in 0..MaxTok
    BY <1>1, Numbers
  <2>2. \A l \in 0..MaxTok :
           /\ [tok[old] EXCEPT !.rev = now, !.next = l] \in Token
           /\ [tok[old] EXCEPT !.rev = now, !.next = l].rev = now
           /\ [tok[old] EXCEPT !.rev = now, !.next = l].next = l
           /\ [tok[old] EXCEPT !.rev = now, !.next = l].root = tok[old].root
           /\ [tok[old] EXCEPT !.rev = now, !.next = l].issued
                 = tok[old].issued
    BY <1>1, <2>1 DEF Token
  <2> QED BY <2>1, <2>2
<1>3. /\ n \in Token /\ n.issued = now /\ n.rev = Never /\ n.next = NoTok
      /\ n.root = tok[old].root
  <2>1. tok[old].root \in 1..MaxTok
    BY <1>1 DEF Token
  <2> QED BY <2>1, NewTokenFacts
<1>4. tok' = Append(s, n)
  BY <1>1 DEF Rotated
<1> HIDE DEF t, n
<1>5. /\ s \in Seq(Token) /\ Len(s) = Len(tok)
      /\ s[old] = t /\ \A i \in 1..Len(tok) : i # old => s[i] = tok[i]
  BY <1>1, <1>2, ExceptSeq
<1> HIDE DEF s
<1>6. /\ tok' \in Seq(Token) /\ Len(tok') = Len(tok) + 1
      /\ \A i \in 1..Len(tok) : tok'[i] = s[i]
      /\ tok'[Len(tok) + 1] = n
  BY <1>3, <1>4, <1>5, AppendProperties
<1>7. tok'[old] = t /\ \A i \in 1..Len(tok) : i # old => tok'[i] = tok[i]
  BY <1>5, <1>6
<1> QED BY <1>2, <1>3, <1>6, <1>7

\* Tokens that are revoked, one by one: the rest of the row stays.
RevokesOnly(S, now) ==
    /\ tok' \in Seq(Token) /\ Len(tok') = Len(tok)
    /\ \A i \in 1..Len(tok) :
          /\ tok'[i].root = tok[i].root /\ tok'[i].next = tok[i].next
          /\ tok'[i].issued = tok[i].issued
          /\ tok'[i].rev = IF i \in S THEN now ELSE tok[i].rev
          /\ i \notin S => tok'[i] = tok[i]

LEMMA RevokedFacts ==
    ASSUME tok \in Seq(Token), NEW S, NEW now \in 0..MaxTime,
           tok' = [i \in DOMAIN tok |->
                      IF i \in S THEN [tok[i] EXCEPT !.rev = now] ELSE tok[i]]
    PROVE  RevokesOnly(S, now)
<1> SUFFICES /\ tok' \in Seq(Token) /\ Len(tok') = Len(tok)
             /\ \A i \in 1..Len(tok) :
                   /\ tok'[i].root = tok[i].root /\ tok'[i].next = tok[i].next
                   /\ tok'[i].issued = tok[i].issued
                   /\ tok'[i].rev = IF i \in S THEN now ELSE tok[i].rev
                   /\ i \notin S => tok'[i] = tok[i]
  BY DEF RevokesOnly
<1>1. Len(tok) \in Nat /\ DOMAIN tok = 1..Len(tok)
      /\ \A i \in 1..Len(tok) : tok[i] \in Token
  BY LenProperties, ElementOfSeq
<1>2. \A i \in 1..Len(tok) :
         /\ [tok[i] EXCEPT !.rev = now] \in Token
         /\ [tok[i] EXCEPT !.rev = now].rev = now
         /\ [tok[i] EXCEPT !.rev = now].root = tok[i].root
         /\ [tok[i] EXCEPT !.rev = now].next = tok[i].next
         /\ [tok[i] EXCEPT !.rev = now].issued = tok[i].issued
  BY <1>1, Numbers DEF Token
<1>3. \A i \in 1..Len(tok) :
         tok'[i] = IF i \in S THEN [tok[i] EXCEPT !.rev = now] ELSE tok[i]
  BY <1>1
<1>4. tok' \in [1..Len(tok) -> Token]
  BY <1>1, <1>2
<1>5. tok' \in Seq(Token) /\ Len(tok') = Len(tok)
  BY <1>1, <1>4, LenProperties, IsASeq
<1> QED BY <1>2, <1>3, <1>5

\* A login that is committed.
LEMMA InsertedFacts ==
    ASSUME tok \in Seq(Token), NEW now \in 0..MaxTime, NEW root \in 1..MaxTok,
           tok' = Append(tok, NewToken(now, root))
    PROVE  /\ tok' \in Seq(Token) /\ Len(tok') = Len(tok) + 1
           /\ \A i \in 1..Len(tok) : tok'[i] = tok[i]
           /\ tok'[Len(tok) + 1].issued = now
           /\ tok'[Len(tok) + 1].rev = Never
           /\ tok'[Len(tok) + 1].next = NoTok
           /\ tok'[Len(tok) + 1].root = root
<1>1. NewToken(now, root) \in Token
  BY NewTokenFacts
<1>2. /\ tok' \in Seq(Token) /\ Len(tok') = Len(tok) + 1
      /\ \A i \in 1..Len(tok) : tok'[i] = tok[i]
      /\ tok'[Len(tok) + 1] = NewToken(now, root)
  BY <1>1, AppendProperties
<1> QED BY <1>2, NewTokenFacts

-----------------------------------------------------------------------------
(* Chains                                                                  *)

\* The tail of a chain is its newest token.
LEMMA TailIsNewest ==
    ASSUME SessionTypes, Chained, NEW i \in 1..Len(tok)
    PROVE  /\ tok[i].next = NoTok <=>
                 \A j \in 1..Len(tok) : tok[j].root = tok[i].root => j <= i
           /\ tok[i].next = NoTok => Newest(tok[i].root) = i
<1>1. ASSUME tok[i].next = NoTok, NEW j \in 1..Len(tok),
             tok[j].root = tok[i].root
      PROVE  j <= i
  BY <1>1, TokFacts DEF Chained
<1>2. ASSUME \A j \in 1..Len(tok) : tok[j].root = tok[i].root => j <= i
      PROVE  tok[i].next = NoTok
  BY <1>2, TokFacts DEF Chained
<1>3. ASSUME tok[i].next = NoTok
      PROVE  Newest(tok[i].root) = i
  <2> DEFINE IsNewest(n) == /\ tok[n].root = tok[i].root
                            /\ \A j \in DOMAIN tok :
                                  tok[j].root = tok[i].root => j <= n
  <2>1. i \in DOMAIN tok /\ IsNewest(i)
    BY <1>1, <1>3, TokFacts
  <2>2. \A n \in DOMAIN tok : IsNewest(n) => n = i
    BY <2>1, TokFacts
  <2>3. Newest(tok[i].root) = CHOOSE n \in DOMAIN tok : IsNewest(n)
    BY DEF Newest
  <2> HIDE DEF IsNewest
  <2> QED BY <2>1, <2>2, <2>3
<1> QED BY <1>1, <1>2, <1>3

\* Every login has a tail.
LEMMA TailExists ==
    ASSUME SessionTypes, Chained, NEW S \in SUBSET (1..Len(tok)),
           \A i \in S : tok[i].next \in S \cup {NoTok},
           NEW t \in S
    PROVE  \E u \in S : tok[u].root = tok[t].root /\ tok[u].next = NoTok
<1> DEFINE D == {Len(tok) - u : u \in {v \in S : tok[v].root = tok[t].root}}
<1>1. D \subseteq Nat /\ Len(tok) - t \in D
  BY TokFacts
<1>2. PICK m \in D : \A n \in D : ~(<<n, m>> \in OpToRel(<, Nat))
  BY <1>1, NatLessThanWellFounded, WFMin
<1>3. PICK u \in S : tok[u].root = tok[t].root /\ m = Len(tok) - u
  OBVIOUS
<1>4. ASSUME tok[u].next # NoTok PROVE FALSE
  <2>1. /\ tok[u].next \in S /\ tok[u].next > u
        /\ tok[tok[u].next].root = tok[t].root
    BY <1>3, <1>4, TokFacts DEF Chained
  <2>2. Len(tok) - tok[u].next \in D /\ Len(tok) - tok[u].next < m
    BY <1>3, <2>1, TokFacts
  <2>3. <<Len(tok) - tok[u].next, m>> \in OpToRel(<, Nat)
    BY <1>1, <2>2 DEF OpToRel
  <2> QED BY <1>2, <2>2, <2>3
<1> QED BY <1>3, <1>4

\* A rotation extends the chain of the token it replaces.
LEMMA RotatedChained ==
    ASSUME SessionTypes, Chained, TailsAlive,
           NEW old \in 1..Len(tok), Active(old), Len(tok) + 1 <= MaxTok,
           NEW now \in 0..MaxTime, now <= clock, tok' = Rotated(old, now),
           UNCHANGED <<clock, cut, ended>>
    PROVE  Chained' /\ TailsAlive'
<1>1. /\ tok' \in Seq(Token) /\ Len(tok') = Len(tok) + 1
      /\ tok'[old].rev = now /\ tok'[old].next = Len(tok) + 1
      /\ tok'[old].root = tok[old].root
      /\ tok'[old].issued = tok[old].issued
      /\ \A i \in 1..Len(tok) : i # old => tok'[i] = tok[i]
      /\ tok'[Len(tok) + 1].issued = now
      /\ tok'[Len(tok) + 1].rev = Never
      /\ tok'[Len(tok) + 1].next = NoTok
      /\ tok'[Len(tok) + 1].root = tok[old].root
  BY RotatedFacts DEF SessionTypes
<1>2. tok[old].next = NoTok /\ Len(tok) \in Nat /\ clock \in Nat
  BY TokFacts, Numbers DEF Chained, SessionTypes
<1>3. \A i \in 1..Len(tok') : i \in 1..Len(tok) \/ i = Len(tok) + 1
  BY <1>1, <1>2
<1>4. \A i \in 1..Len(tok) : tok[i].root = tok[old].root => i <= old
  BY <1>2, TailIsNewest
<1>5. \A i \in 1..Len(tok') :
         /\ tok'[i].root \in 1..i
         /\ tok'[i].issued <= clock'
         /\ Active(i)' => tok'[i].next = NoTok
         /\ tok'[i].next # NoTok =>
               /\ tok'[i].next \in i + 1 .. Len(tok')
               /\ tok'[tok'[i].next].root = tok'[i].root
  <2> SUFFICES ASSUME NEW i \in 1..Len(tok')
               PROVE  /\ tok'[i].root \in 1..i
                      /\ tok'[i].issued <= clock'
                      /\ Active(i)' => tok'[i].next = NoTok
                      /\ tok'[i].next # NoTok =>
                            /\ tok'[i].next \in i + 1 .. Len(tok')
                            /\ tok'[tok'[i].next].root = tok'[i].root
    OBVIOUS
  <2>1. CASE i = Len(tok) + 1
    <3>1. tok[old].root \in 1..old
      BY DEF Chained
    <3> QED BY <1>1, <1>2, <2>1, <3>1
  <2>2. CASE i = old
    <3>1. tok[old].root \in 1..old /\ tok[old].issued <= clock
      BY DEF Chained
    <3>2. now # Never /\ Len(tok) + 1 \in old + 1 .. Len(tok) + 1
      BY <1>2, Numbers
    <3>3. ~Active(i)'
      BY <1>1, <2>2, <3>2 DEF Active
    <3> QED BY <1>1, <2>2, <3>1, <3>2, <3>3
  <2>3. CASE i # old /\ i \in 1..Len(tok)
    <3>1. tok'[i] = tok[i]
      BY <1>1, <2>3
    <3>2. /\ tok[i].root \in 1..i
          /\ tok[i].issued <= clock
          /\ Active(i) => tok[i].next = NoTok
          /\ tok[i].next # NoTok =>
                /\ tok[i].next \in i + 1 .. Len(tok)
                /\ tok[tok[i].next].root = tok[i].root
      BY <2>3 DEF Chained
    <3>3. tok[i].next # NoTok =>
             /\ tok[i].next \in 1..Len(tok)
             /\ tok'[tok[i].next].root = tok[tok[i].next].root
      <4>1. ASSUME tok[i].next # NoTok
            PROVE  tok[i].next \in 1..Len(tok)
        BY <1>2, <2>3, <3>2, <4>1
      <4>2. \A j \in 1..Len(tok) : tok'[j].root = tok[j].root
        BY <1>1
      <4> QED BY <4>1, <4>2
    <3>4. tok[i].next # NoTok => tok[i].next \in i + 1 .. Len(tok')
      BY <1>1, <1>2, <2>3, <3>2
    <3>5. Active(i)' => Active(i)
      BY <3>1 DEF Active
    <3> QED BY <3>1, <3>2, <3>3, <3>4, <3>5
  <2> QED BY <1>3, <2>1, <2>2, <2>3
<1>6. \A i, j \in 1..Len(tok') :
         tok'[i].root = tok'[j].root /\ i < j => tok'[i].next # NoTok
  <2> SUFFICES ASSUME NEW i \in 1..Len(tok'), NEW j \in 1..Len(tok'),
                      tok'[i].root = tok'[j].root, i < j
               PROVE  tok'[i].next # NoTok
    OBVIOUS
  <2>1. i \in 1..Len(tok)
    BY <1>1, <1>2
  <2>2. CASE i = old
    BY <1>1, <1>2, <2>2, Numbers
  <2>3. CASE i # old /\ j = Len(tok) + 1
    <3>1. i \in 1..Len(tok) /\ tok[i].root = tok[old].root /\ i < old
      BY <1>1, <1>4, <2>1, <2>3
    <3> QED BY <1>1, <2>3, <3>1 DEF Chained
  <2>4. CASE i # old /\ j \in 1..Len(tok)
    <3>1. tok'[j].root = tok[j].root
      BY <1>1, <2>4
    <3> QED BY <1>1, <2>1, <2>4, <3>1 DEF Chained
  <2> QED BY <1>3, <2>2, <2>3, <2>4
<1>7. Chained'
  BY <1>5, <1>6 DEF Chained
<1>8. TailsAlive'
  <2>1. cut'.read <= Len(tok') /\ \A e \in ended' : e.root \in 1..Len(tok')
    <3>1. cut.read \in Nat
      BY DEF SessionTypes
    <3> QED BY <1>1, <1>2, <3>1 DEF TailsAlive
  <2>2. \A e \in ended : e.root # tok[old].root
    BY DEF TailsAlive
  <2>3. ASSUME NEW i \in 1..Len(tok')
        PROVE  /\ \A e \in ended' : e.root = tok'[i].root => ~Active(i)'
               /\ tok'[i].next = NoTok /\ i > cut'.read =>
                     Active(i)' \/ \E e \in ended' : e.root = tok'[i].root
    <3>1. CASE i = Len(tok) + 1
      BY <1>1, <2>2, <3>1 DEF Active
    <3>2. CASE i = old
      BY <1>1, <1>2, <2>2, <3>2, Numbers
    <3>3. CASE i # old /\ i \in 1..Len(tok)
      BY <1>1, <3>3 DEF TailsAlive, Active
    <3> QED BY <1>3, <3>1, <3>2, <3>3
  <2> QED BY <2>1, <2>3 DEF TailsAlive
<1> QED BY <1>7, <1>8

\* Revoked tokens stay in their chains.
LEMMA RevokedChained ==
    ASSUME SessionTypes, Chained, NEW S, NEW now \in 0..MaxTime,
           tok' = [i \in DOMAIN tok |->
                      IF i \in S THEN [tok[i] EXCEPT !.rev = now] ELSE tok[i]],
           clock' = clock
    PROVE  Chained'
<1>1. /\ Len(tok') = Len(tok)
      /\ \A i \in 1..Len(tok) :
            /\ tok'[i].root = tok[i].root /\ tok'[i].next = tok[i].next
            /\ tok'[i].issued = tok[i].issued
            /\ tok'[i].rev = IF i \in S THEN now ELSE tok[i].rev
  BY RevokedFacts DEF SessionTypes, RevokesOnly
<1>2. \A i \in 1..Len(tok) : Active(i)' => Active(i)
  BY <1>1, Numbers DEF Active
<1>3. \A i \in 1..Len(tok) : tok[i].next # NoTok => tok[i].next \in 1..Len(tok)
  BY TokFacts DEF Chained
<1> QED BY <1>1, <1>2, <1>3 DEF Chained

\* A login begins a chain.
LEMMA InsertedChained ==
    ASSUME SessionTypes, Chained, TailsAlive, Len(tok) + 1 <= MaxTok,
           tok' = Append(tok, NewToken(clock, Len(tok) + 1)),
           UNCHANGED <<clock, cut, ended>>
    PROVE  Chained' /\ TailsAlive'
<1>1. Len(tok) \in Nat /\ clock \in Nat /\ cut.read \in Nat
  BY TokFacts, Numbers DEF SessionTypes
<1>2. /\ Len(tok') = Len(tok) + 1
      /\ \A i \in 1..Len(tok) : tok'[i] = tok[i]
      /\ tok'[Len(tok) + 1].issued = clock
      /\ tok'[Len(tok) + 1].rev = Never
      /\ tok'[Len(tok) + 1].next = NoTok
      /\ tok'[Len(tok) + 1].root = Len(tok) + 1
  BY <1>1, InsertedFacts, Numbers DEF SessionTypes
<1>3. \A i \in 1..Len(tok') : i \in 1..Len(tok) \/ i = Len(tok) + 1
  BY <1>1, <1>2
<1>4. \A i \in 1..Len(tok) :
         /\ tok[i].root \in 1..Len(tok)
         /\ tok[i].next # NoTok =>
               tok[i].next \in 1..Len(tok) /\ tok[i].next \in i+1..Len(tok')
  BY <1>1, <1>2, TokFacts DEF Chained
<1>5. \A i \in 1..Len(tok') :
         /\ tok'[i].root \in 1..i
         /\ tok'[i].issued <= clock'
         /\ Active(i)' => tok'[i].next = NoTok
         /\ tok'[i].next # NoTok =>
               /\ tok'[i].next \in i + 1 .. Len(tok')
               /\ tok'[tok'[i].next].root = tok'[i].root
  BY <1>1, <1>2, <1>3, <1>4 DEF Chained, Active
<1>6. \A i, j \in 1..Len(tok') :
         tok'[i].root = tok'[j].root /\ i < j => tok'[i].next # NoTok
  BY <1>1, <1>2, <1>3, <1>4, TokFacts DEF Chained
<1>7. \A e \in ended : e.root \in 1..Len(tok) /\ e.root \in 1..Len(tok')
  BY <1>1, <1>2 DEF TailsAlive
<1>8. \A i \in 1..Len(tok') :
         /\ \A e \in ended' : e.root = tok'[i].root => ~Active(i)'
         /\ tok'[i].next = NoTok /\ i > cut'.read =>
               Active(i)' \/ \E e \in ended' : e.root = tok'[i].root
  BY <1>1, <1>2, <1>3, <1>7 DEF TailsAlive, Active
<1> QED BY <1>1, <1>2, <1>5, <1>6, <1>7, <1>8 DEF Chained, TailsAlive

-----------------------------------------------------------------------------
(* What a step of another leaves to a request or an operation              *)

\* No token is lost and none becomes active again.
Grows ==
    /\ Len(tok') \in Nat /\ Len(tok) <= Len(tok')
    /\ \A i \in 1..Len(tok) : ~Active(i) => ~Active(i)'

\* A request whose locked rows stay as they are.
LEMMA PlacedKept ==
    ASSUME SessionTypes, Grows, NEW q \in Request, Placed(q),
           req'[q] = req[q], clock' \in Nat, clock <= clock',
           \A i \in req[q].locks : tok'[i] = tok[i]
    PROVE  Placed(q)'
<1>1. req[q] \in Exchange /\ clock \in Nat /\ Len(tok) \in Nat
  BY TokFacts, Numbers DEF SessionTypes
<1>2. /\ req[q].now \in Nat /\ req[q].tok \in Nat /\ req[q].answer \in Nat
      /\ req[q].tries \in Nat
  BY <1>1 DEF Exchange
<1>3. \A i \in 1..Len(tok) : i \in 1..Len(tok')
  BY <1>1 DEF Grows
<1>4. req[q].answer \in 0..Len(tok') /\ req[q].now <= clock'
  BY <1>1, <1>2 DEF Grows, Placed
<1>5. req[q].pc = "commit" => Active(req[q].tok)'
  BY DEF Placed, Active
<1>6. req[q].pc \in {"lock", "wait", "follow", "decide"} => ~Active(req[q].tok)'
  BY <1>1 DEF Placed, Grows
<1> QED BY <1>2, <1>3, <1>4, <1>5, <1>6 DEF Placed

\* The list of an operation.
LEMMA ListingKept ==
    ASSUME SessionTypes, Grows, NEW o \in Operator, Listing(o), op'[o] = op[o]
    PROVE  Listing(o)'
<1>1. op[o] \in Operation /\ Len(tok) \in Nat
  BY TokFacts DEF SessionTypes
<1>2. op[o].upto \in Nat
  BY <1>1 DEF Operation
<1>3. op[o].upto <= Len(tok) =>
         /\ op[o].upto <= Len(tok')
         /\ \A i \in 1..op[o].upto : i \in 1..Len(tok)
  BY <1>1, <1>2 DEF Grows
<1> QED BY <1>3 DEF Listing, Grows

\* Sessions that an operation ended stay ended.
LEMMA EndedKept ==
    ASSUME SessionTypes, Grows, ListedSessionsEnd, cut.read <= Len(tok),
           cut' = cut
    PROVE  ListedSessionsEnd'
<1>1. cut.read \in Nat /\ Len(tok) \in Nat
  BY TokFacts DEF SessionTypes
<1>2. \A i \in 1..cut.read : i \in 1..Len(tok)
  BY <1>1
<1> QED BY <1>2 DEF ListedSessionsEnd, Grows

\* The room that is reserved.
LEMMA ReservedFacts ==
    /\ IsFiniteSet(WorkingSet) /\ IsFiniteSet(RefusedSet)
    /\ Cardinality(WorkingSet) \in Nat /\ Cardinality(RefusedSet) \in Nat
    /\ Reserved = Cardinality(WorkingSet) + Cardinality(RefusedSet)
                  + (IF login THEN 1 ELSE 0)
<1>1. IsFiniteSet(WorkingSet) /\ IsFiniteSet(RefusedSet)
  BY SessionAssumption, FS_Subset DEF WorkingSet, RefusedSet
<1>2. Cardinality(WorkingSet) \in Nat /\ Cardinality(RefusedSet) \in Nat
  BY <1>1, FS_CardinalityType
<1>3. Reserved = Cardinality(WorkingSet) + Cardinality(RefusedSet)
                  + (IF login THEN 1 ELSE 0)
  BY DEF Reserved, WorkingSet, RefusedSet
<1> QED BY <1>1, <1>2, <1>3

\* The same of the next state.
LEMMA ReservedNext ==
    /\ Cardinality(WorkingSet') \in Nat /\ Cardinality(RefusedSet') \in Nat
    /\ Reserved' = Cardinality(WorkingSet') + Cardinality(RefusedSet')
                  + (IF login' THEN 1 ELSE 0)
<1>1. (/\ IsFiniteSet(WorkingSet) /\ IsFiniteSet(RefusedSet)
       /\ Cardinality(WorkingSet) \in Nat /\ Cardinality(RefusedSet) \in Nat
       /\ Reserved = Cardinality(WorkingSet) + Cardinality(RefusedSet)
                  + (IF login THEN 1 ELSE 0))'
  BY ReservedFacts, PTL
<1> QED BY <1>1

\* A request begins, ends or goes on.
LEMMA WorkingStep ==
    ASSUME NEW q \in Request,
           \A p \in Request : p # q => req'[p].pc = req[p].pc
    PROVE  /\ Working(q)' /\ ~Working(q) =>
                 Cardinality(WorkingSet') = Cardinality(WorkingSet) + 1
           /\ ~Working(q)' /\ Working(q) =>
                 Cardinality(WorkingSet') = Cardinality(WorkingSet) - 1
           /\ (Working(q)' <=> Working(q)) => WorkingSet' = WorkingSet
<1>1. CASE Working(q)' /\ ~Working(q)
  <2>1. WorkingSet' = WorkingSet \cup {q} /\ q \notin WorkingSet
    BY <1>1 DEF Working, WorkingSet
  <2> QED BY <1>1, <2>1, ReservedFacts, FS_AddElement
<1>2. CASE ~Working(q)' /\ Working(q)
  <2>1. WorkingSet' = WorkingSet \ {q} /\ q \in WorkingSet
    BY <1>2 DEF Working, WorkingSet
  <2> QED BY <1>2, <2>1, ReservedFacts, FS_RemoveElement
<1>3. CASE Working(q)' <=> Working(q)
  BY <1>3 DEF Working, WorkingSet
<1> QED BY <1>1, <1>2, <1>3

\* A thread is refused, or goes on to refresh.
LEMMA RefusedStep ==
    ASSUME NEW t \in Thread,
           \A u \in Thread : u # t => thread'[u].pc = thread[u].pc
    PROVE  /\ thread'[t].pc = "refused" /\ thread[t].pc # "refused" =>
                 Cardinality(RefusedSet') = Cardinality(RefusedSet) + 1
           /\ thread'[t].pc # "refused" /\ thread[t].pc = "refused" =>
                 Cardinality(RefusedSet') = Cardinality(RefusedSet) - 1
           /\ thread'[t].pc # "refused" /\ thread[t].pc # "refused" =>
                 RefusedSet' = RefusedSet
<1>1. CASE thread'[t].pc = "refused" /\ thread[t].pc # "refused"
  <2>1. RefusedSet' = RefusedSet \cup {t} /\ t \notin RefusedSet
    BY <1>1 DEF RefusedSet
  <2> QED BY <1>1, <2>1, ReservedFacts, FS_AddElement
<1>2. CASE thread'[t].pc # "refused" /\ thread[t].pc = "refused"
  <2>1. RefusedSet' = RefusedSet \ {t} /\ t \in RefusedSet
    BY <1>2 DEF RefusedSet
  <2> QED BY <1>2, <2>1, ReservedFacts, FS_RemoveElement
<1>3. CASE thread'[t].pc # "refused" /\ thread[t].pc # "refused"
  BY <1>3 DEF RefusedSet
<1> QED BY <1>1, <1>2, <1>3

LEMMA BudgetFacts ==
    ASSUME SessionTypes
    PROVE  budget.toks \in Nat
<1>1. budget \in Budget
  BY DEF SessionTypes
<1>2. budget \in [faults : Nat, ops : Nat, toks : 1..MaxTok]
  BY <1>1, SessionAssumption, Zenon
<1> QED BY <1>2

\* A step that gives back the room it takes.
LEMMA RoomKept ==
    ASSUME SessionTypes, InRoom, Len(tok') \in Nat, budget' = budget,
           Len(tok') + Cardinality(WorkingSet') + Cardinality(RefusedSet')
               + (IF login' THEN 1 ELSE 0)
           <= Len(tok) + Cardinality(WorkingSet) + Cardinality(RefusedSet)
               + (IF login THEN 1 ELSE 0)
    PROVE  InRoom'
<1>1. budget.toks \in Nat
  BY BudgetFacts
<1> DEFINE a == IF login THEN 1 ELSE 0
           b == IF login' THEN 1 ELSE 0
<1>2. a \in Nat /\ b \in Nat
  OBVIOUS
<1>3. /\ Reserved = Cardinality(WorkingSet) + Cardinality(RefusedSet) + a
      /\ Reserved' = Cardinality(WorkingSet') + Cardinality(RefusedSet') + b
      /\ Len(tok') + Cardinality(WorkingSet') + Cardinality(RefusedSet') + b
         <= Len(tok) + Cardinality(WorkingSet) + Cardinality(RefusedSet) + a
  BY ReservedFacts, ReservedNext
<1> HIDE DEF a, b
<1>4. Len(tok) + Reserved <= budget.toks
  BY DEF InRoom
<1>5. /\ Len(tok) \in Nat
      /\ Cardinality(WorkingSet) \in Nat /\ Cardinality(WorkingSet') \in Nat
      /\ Cardinality(RefusedSet) \in Nat /\ Cardinality(RefusedSet') \in Nat
  BY TokFacts, ReservedFacts, ReservedNext
<1>6. PICK l, w, r, m, v, s, n \in Nat :
         /\ l = Len(tok) /\ w = Cardinality(WorkingSet)
         /\ r = Cardinality(RefusedSet) /\ n = budget.toks
         /\ m = Len(tok') /\ v = Cardinality(WorkingSet')
         /\ s = Cardinality(RefusedSet')
  BY <1>1, <1>5
<1>7. m + v + s + b <= l + w + r + a /\ l + (w + r + a) <= n
  BY <1>3, <1>4, <1>6
<1>8. m + (v + s + b) <= n
  BY <1>2, <1>7
<1>9. Len(tok') + Reserved' <= budget.toks
  BY <1>3, <1>6, <1>8
<1> QED BY <1>9 DEF InRoom

\* The numbers of the account.
LEMMA DebtFacts ==
    /\ Brought \in {0, 1} /\ LeftBehind \in {0, 1} /\ Debt \in {0, 1, 2}
    /\ Active(auth.held) <=> Debt = 0
    /\ ~Delivered <=> Brought = 0
    /\ Abandoned = {} <=> LeftBehind = 0
BY DEF Brought, LeftBehind, Debt, Losses

-----------------------------------------------------------------------------
(* /refresh                                                                *)

\* A step of a request that writes no row: it goes on or is refused.
LEMMA RequestGoesOn ==
    ASSUME SessionsInv, NEW q \in Request, Working(q),
           NEW r \in Exchange, req' = [req EXCEPT ![q] = r],
           UNCHANGED <<tok, ended, notRefresh>>,
           r.who = req[q].who, r.tok = req[q].tok, r.pc # "free",
           r.locks \cap LockedByOthers(q) = {}, Placed(q)',
           r.pc = "answered" => r.answer = NoTok,
           r.pc \notin {"begin", "answered"} =>
               r.now = clock \/ (r.now = req[q].now /\ req[q].pc # "begin")
    PROVE  SessionsInv'
<1>1. /\ req'[q] = r /\ req' \in [Request -> Exchange]
      /\ \A p \in Request : p # q => req'[p] = req[p]
  BY DEF SessionsInv, SessionTypes
<1>2. UNCHANGED <<clock, enabled, resets, op, login, auth, thread, budget,
                  spent, cut>>
  BY DEF notRefresh
<1>3. SessionTypes'
  BY <1>1, <1>2 DEF SessionsInv, SessionTypes
<1>4. Grows /\ clock \in Nat
  BY TokFacts, Numbers DEF SessionsInv, SessionTypes, Grows, Active
<1>5. Chained' /\ TailsAlive'
  BY <1>2 DEF SessionsInv, ServerInv, Chained, TailsAlive, Active
<1>6. \A p \in Request : Placed(p)'
  <2> SUFFICES ASSUME NEW p \in Request, p # q PROVE Placed(p)'
    OBVIOUS
  <2> QED BY <1>1, <1>2, <1>4, PlacedKept DEF SessionsInv, ServerInv
<1>7. LocksApart'
  <2>1. \A p \in Request : p # q => r.locks \cap req[p].locks = {}
    BY DEF LockedByOthers
  <2> QED BY <1>1, <2>1 DEF SessionsInv, ServerInv, LocksApart
<1>8. \A o \in Operator : Listing(o)'
  BY <1>2, <1>4, ListingKept DEF SessionsInv, ServerInv
<1>9. Holding' /\ ResetsUsedOnce' /\ ListedSessionsEnd'
  BY <1>2 DEF SessionsInv, ServerInv, Holding, ResetsUsedOnce, ListedSessionsEnd,
              Active
<1>10. InRoom'
  <2>1. Cardinality(WorkingSet') <= Cardinality(WorkingSet)
    BY <1>1, ReservedFacts, WorkingStep
  <2>2. RefusedSet' = RefusedSet
    BY <1>2 DEF RefusedSet
  <2>3. Len(tok') + Cardinality(WorkingSet') + Cardinality(RefusedSet')
            + (IF login' THEN 1 ELSE 0)
        <= Len(tok) + Cardinality(WorkingSet) + Cardinality(RefusedSet)
            + (IF login THEN 1 ELSE 0)
    BY <1>2, <2>1, <2>2, TokFacts, ReservedFacts, ReservedNext DEF SessionsInv
  <2> QED BY <1>2, <2>3, TokFacts, RoomKept DEF SessionsInv, ServerInv
<1>11. auth' = auth /\ spent' = spent
  BY <1>2
<1>12. \A p \in Request :
          /\ req'[p].who = req[p].who /\ req'[p].tok = req[p].tok
          /\ Working(p)' => Working(p)
          /\ Underway(p)' => Underway(p)
          /\ req'[p].pc = "free" => req[p].pc = "free"
  BY <1>1 DEF Working, Underway
<1>13. ASSUME Explained PROVE Explained'
  <2>1. Delivered' <=> Delivered
    BY <1>1 DEF Delivered, Working
  <2>2. Abandoned' \subseteq Abandoned
    BY <1>12 DEF Abandoned, Working
  <2>3. GraceOver(auth.held) => GraceOver(auth.held)'
    BY <1>1, <1>2, <1>12 DEF GraceOver, Working
  <2>4. Brought' = Brought /\ LeftBehind' <= LeftBehind /\ Debt' <= Debt
    BY <1>11, <2>1, <2>2, <2>3
    DEF Brought, LeftBehind, Debt, Losses, Active
  <2>5. spent.faults + Brought >= LeftBehind' + Debt'
    <3>1. spent.faults \in Nat /\ LeftBehind' \in {0, 1} /\ Debt' \in {0, 1, 2}
      BY DEF SessionsInv, SessionTypes, LeftBehind, Debt, Losses
    <3> QED BY <1>13, <2>4, <3>1, DebtFacts DEF Explained
  <2>6. ASSUME NEW p \in Request
        PROVE  /\ /\ req'[p].who # NoThread /\ req'[p].pc = "answered"
                  /\ req'[p].answer # NoTok
                  => tok'[req'[p].answer].rev = Never
               /\ Working(p)' /\ req'[p].pc # "begin" /\ ~Active(auth.held)' =>
                     tok'[auth.held].rev <= req'[p].now
    <3>1. CASE p = q
      <4>1. req'[p] = r /\ (Working(q)' => r.pc \notin {"free", "answered"})
        BY <1>1, <3>1 DEF Working
      <4>2. /\ ~Active(auth.held) => tok[auth.held].rev <= clock
            /\ Working(q) /\ req[q].pc # "begin" /\ ~Active(auth.held) =>
                  tok[auth.held].rev <= req[q].now
        BY <1>13 DEF Explained
      <4> QED BY <1>11, <3>1, <4>1, <4>2 DEF Active
    <3>2. CASE p # q
      <4>1. req'[p] = req[p] /\ (Working(p)' <=> Working(p))
        BY <1>1, <3>2 DEF Working
      <4> QED BY <1>11, <1>13, <4>1 DEF Explained, Active
    <3> QED BY <3>1, <3>2
  <2> QED BY <1>2, <1>13, <2>4, <2>5, <2>6 DEF Explained, Active
<1>14. ClientInv'
  BY <1>2, <1>12, <1>13 DEF SessionsInv, ClientInv
<1>15. OneLossForgiven'
  BY <1>2 DEF SessionsInv, OneLossForgiven
<1> QED BY <1>3, <1>5, <1>6, <1>7, <1>8, <1>9, <1>10, <1>14, <1>15
    DEF SessionsInv, ServerInv

\* The fields of a request.
LEMMA ExchangeFields ==
    ASSUME NEW e \in Exchange
    PROVE  /\ e.pc \in Pc /\ e.who \in Thread \cup {NoThread} /\ e.tok \in Nat
           /\ e.now \in Nat /\ e.tries \in Nat /\ e.locks \in SUBSET Nat
           /\ e.answer \in Nat
BY DEF Exchange

\* An answer.
LEMMA AnswerFacts ==
    ASSUME SessionTypes, NEW q \in Request, NEW t \in Nat, req' = Answer(q, t)
    PROVE  \E r \in Exchange :
              /\ req' = [req EXCEPT ![q] = r]
              /\ r.pc = "answered" /\ r.answer = t /\ r.locks = {}
              /\ r.who = req[q].who /\ r.tok = req[q].tok /\ r.now = req[q].now
              /\ r.tries = req[q].tries
<1>1. req[q] \in Exchange /\ req \in [Request -> Exchange]
  BY DEF SessionTypes
<1> DEFINE r == [req[q] EXCEPT !.pc = "answered", !.answer = t, !.locks = {}]
<1>2. /\ r \in Exchange /\ r.pc = "answered" /\ r.answer = t /\ r.locks = {}
      /\ r.who = req[q].who /\ r.tok = req[q].tok /\ r.now = req[q].now
      /\ r.tries = req[q].tries
  BY <1>1 DEF Exchange, Pc
<1>3. req' = [req EXCEPT ![q] = r]
  BY <1>1 DEF Answer
<1> HIDE DEF r
<1> QED BY <1>2, <1>3

\* A refusal.
LEMMA RefusedSound ==
    ASSUME SessionsInv, NEW q \in Request, Working(q), req' = Answer(q, NoTok),
           UNCHANGED <<tok, ended, notRefresh>>
    PROVE  SessionsInv'
<1>1. PICK r \in Exchange :
         /\ req' = [req EXCEPT ![q] = r]
         /\ r.pc = "answered" /\ r.answer = NoTok /\ r.locks = {}
         /\ r.who = req[q].who /\ r.tok = req[q].tok /\ r.now = req[q].now
         /\ r.tries = req[q].tries
  BY AnswerFacts, Numbers DEF SessionsInv
<1>2. Placed(q)'
  <2>1. req'[q] = r
    BY <1>1 DEF SessionsInv, SessionTypes
  <2>2. Placed(q) /\ req[q].pc # "free" /\ Len(tok) \in Nat
    BY TokFacts DEF SessionsInv, ServerInv, Working
  <2> QED BY <1>1, <2>1, <2>2, Numbers DEF Placed, notRefresh
<1> QED BY <1>1, <1>2, RequestGoesOn

\* BeginAttempt.
LEMMA BeginAttemptSound ==
    ASSUME SessionsInv, NEW q \in Request, BeginAttempt(q)
    PROVE  SessionsInv'
<1>1. req[q] \in Exchange /\ req \in [Request -> Exchange] /\ clock \in Nat
  BY Numbers DEF SessionsInv, SessionTypes
<1> DEFINE r == [req[q] EXCEPT !.pc = "lookup", !.now = clock]
<1>2. /\ r \in Exchange /\ r.pc = "lookup" /\ r.now = clock
      /\ r.answer = req[q].answer /\ r.locks = req[q].locks
      /\ r.who = req[q].who /\ r.tok = req[q].tok /\ r.tries = req[q].tries
  BY <1>1 DEF Exchange, Pc
<1>3. req' = [req EXCEPT ![q] = r]
  BY <1>1 DEF BeginAttempt
<1> HIDE DEF r
<1>4. req'[q] = r
  BY <1>1, <1>3
<1>5. Placed(q) /\ req[q].pc = "begin"
  BY DEF BeginAttempt, SessionsInv, ServerInv
<1>6. r.locks = {} /\ Placed(q)'
  BY <1>1, <1>2, <1>4, <1>5 DEF Placed, BeginAttempt, notRefresh
<1>7. Working(q) /\ UNCHANGED <<tok, ended, notRefresh>>
  BY <1>5 DEF BeginAttempt, Working
<1> QED BY <1>2, <1>3, <1>6, <1>7, RequestGoesOn

\* A step to another place, with other locks.
MovedTo(q, pc, locks, answer, tries) ==
    [req EXCEPT ![q].pc = pc, ![q].locks = locks, ![q].answer = answer,
                ![q].tries = tries]

\* The record it assigns.
Moved(q, pc, locks, answer, tries) ==
    [req[q] EXCEPT !.pc = pc, !.locks = locks, !.answer = answer,
                   !.tries = tries]

\* Its fields.
LEMMA PlaceFacts ==
    ASSUME SessionTypes, NEW q \in Request, NEW pc \in Pc,
           NEW locks \in SUBSET Nat, NEW answer \in Nat, NEW tries \in Nat
    PROVE  LET r == Moved(q, pc, locks, answer, tries)
           IN  /\ r \in Exchange
               /\ MovedTo(q, pc, locks, answer, tries) = [req EXCEPT ![q] = r]
               /\ r.pc = pc /\ r.answer = answer /\ r.locks = locks
               /\ r.who = req[q].who /\ r.tok = req[q].tok
               /\ r.now = req[q].now /\ r.tries = tries
<1>1. req[q] \in Exchange /\ req \in [Request -> Exchange]
  BY DEF SessionTypes
<1> DEFINE r == Moved(q, pc, locks, answer, tries)
<1>2. /\ r \in Exchange
      /\ r.pc = pc /\ r.answer = answer /\ r.locks = locks
      /\ r.who = req[q].who /\ r.tok = req[q].tok /\ r.now = req[q].now
      /\ r.tries = tries
  BY <1>1 DEF Exchange, Moved
<1>3. MovedTo(q, pc, locks, answer, tries) = [req EXCEPT ![q] = r]
  BY <1>1 DEF MovedTo, Moved
<1> QED BY <1>2, <1>3

\* The assignments of the steps in that form: of the place,
LEMMA PcForm ==
    ASSUME SessionTypes, NEW q \in Request, NEW pc
    PROVE  [req EXCEPT ![q].pc = pc] =
               MovedTo(q, pc, req[q].locks, req[q].answer, req[q].tries)
<1>1. req[q] \in Exchange /\ req \in [Request -> Exchange]
  BY DEF SessionTypes
<1> QED BY <1>1 DEF Exchange, MovedTo

\* of the place and the locks,
LEMMA ClaimForm ==
    ASSUME SessionTypes, NEW q \in Request, NEW pc, NEW locks
    PROVE  [req EXCEPT ![q].pc = pc, ![q].locks = locks] =
               MovedTo(q, pc, locks, req[q].answer, req[q].tries)
<1>1. req[q] \in Exchange /\ req \in [Request -> Exchange]
  BY DEF SessionTypes
<1> QED BY <1>1 DEF Exchange, MovedTo

\* of the locks,
LEMMA LocksForm ==
    ASSUME SessionTypes, NEW q \in Request, NEW locks
    PROVE  [req EXCEPT ![q].locks = locks] =
               MovedTo(q, req[q].pc, locks, req[q].answer, req[q].tries)
<1>1. req[q] \in Exchange /\ req \in [Request -> Exchange]
  BY DEF SessionTypes
<1> QED BY <1>1 DEF Exchange, MovedTo

\* of a snapshot,
LEMMA SnapshotForm ==
    ASSUME SessionTypes, NEW q \in Request, NEW pc, NEW answer
    PROVE  [req EXCEPT ![q].pc = pc, ![q].answer = answer] =
               MovedTo(q, pc, req[q].locks, answer, req[q].tries)
<1>1. req[q] \in Exchange /\ req \in [Request -> Exchange]
  BY DEF SessionTypes
<1> QED BY <1>1 DEF Exchange, MovedTo

\* of the first locks,
LEMMA LockForm ==
    ASSUME SessionTypes, NEW q \in Request, NEW pc, NEW locks, NEW answer
    PROVE  [req EXCEPT ![q].pc = pc, ![q].locks = locks, ![q].answer = answer] =
               MovedTo(q, pc, locks, answer, req[q].tries)
<1>1. req[q] \in Exchange /\ req \in [Request -> Exchange]
  BY DEF SessionTypes
<1> QED BY <1>1 DEF Exchange, MovedTo

\* and of the next attempt.
LEMMA RetryForm ==
    ASSUME SessionTypes, NEW q \in Request
    PROVE  [req EXCEPT ![q].pc = "begin", ![q].tries = @ + 1, ![q].locks = {}] =
               MovedTo(q, "begin", {}, req[q].answer, req[q].tries + 1)
<1>1. req[q] \in Exchange /\ req \in [Request -> Exchange]
  BY DEF SessionTypes
<1> QED BY <1>1 DEF Exchange, MovedTo

\* A request that goes on to a place it may be in.
LEMMA PlaceSound ==
    ASSUME SessionsInv, NEW q \in Request, Working(q), req[q].pc # "begin",
           NEW pc \in Pc \ {"free", "answered"},
           NEW locks \in SUBSET (1..Len(tok)), NEW answer \in 0..Len(tok),
           NEW tries \in Nat, tries < Attempts,
           req' = MovedTo(q, pc, locks,
                     answer, tries),
           UNCHANGED <<tok, ended, notRefresh>>,
           locks \cap LockedByOthers(q) = {},
           pc \in {"begin", "lookup", "claim", "lock", "wait"} => locks = {},
           pc = "wait" => req[q].tok <= answer,
           pc = "commit" => locks = {req[q].tok} /\ Active(req[q].tok),
           pc \in {"follow", "decide"} => req[q].tok \in locks,
           pc \in {"lock", "wait", "follow", "decide"} => ~Active(req[q].tok),
           pc = "decide" =>
               \A i \in locks : tok[i].next \in locks \cup {NoTok}
    PROVE  SessionsInv'
<1>1. /\ SessionTypes /\ pc \in Pc /\ locks \in SUBSET Nat
      /\ answer \in Nat
  BY TokFacts DEF SessionsInv
<1> DEFINE r == Moved(q, pc, locks, answer, tries)
<1>2. /\ r \in Exchange
      /\ MovedTo(q, pc, locks, answer, tries) = [req EXCEPT ![q] = r]
      /\ r.pc = pc /\ r.answer = answer /\ r.locks = locks
      /\ r.who = req[q].who /\ r.tok = req[q].tok /\ r.now = req[q].now
      /\ r.tries = tries
  <2>1. req[q] \in Exchange /\ req \in [Request -> Exchange]
    BY <1>1 DEF SessionTypes
  <2>2. /\ r \in Exchange
        /\ r.pc = pc /\ r.answer = answer /\ r.locks = locks
        /\ r.who = req[q].who /\ r.tok = req[q].tok /\ r.now = req[q].now
        /\ r.tries = tries
    BY <1>1, <2>1 DEF Exchange, Moved
  <2>3. MovedTo(q, pc, locks, answer, tries) = [req EXCEPT ![q] = r]
    BY <2>1 DEF MovedTo, Moved
  <2> QED BY <2>2, <2>3
<1> HIDE DEF r
<1>5. req' = [req EXCEPT ![q] = r]
  BY <1>2
<1>3. Placed(q) /\ req[q].pc # "free" /\ req'[q] = r
  BY <1>5 DEF SessionsInv, ServerInv, Working, SessionTypes
<1>4. Placed(q)'
  BY <1>2, <1>3 DEF Placed, notRefresh, Active
<1> QED BY <1>2, <1>4, <1>5, RequestGoesOn

\* The place of a request and its types.
LEMMA PlaceOf ==
    ASSUME SessionsInv, NEW q \in Request
    PROVE  /\ req[q] \in Exchange /\ Placed(q) /\ Len(tok) \in Nat
           /\ req[q].tok \in Nat /\ req[q].tries \in Nat /\ req[q].answer \in Nat
           /\ req[q].now \in 0..MaxTime /\ req[q].now <= clock
           /\ req[q].locks \in SUBSET (1..Len(tok))
           /\ req[q].answer \in 0..Len(tok) /\ req[q].tries < Attempts
           /\ req[q].pc \in Pc
           /\ Working(q) => req[q].tok \in 1..Len(tok)
<1>1. req[q] \in Exchange /\ Placed(q) /\ Len(tok) \in Nat /\ clock \in 0..MaxTime
  BY TokFacts DEF SessionsInv, ServerInv, SessionTypes
<1>2. /\ req[q].tok \in Nat /\ req[q].tries \in Nat /\ req[q].answer \in Nat
      /\ req[q].now \in Nat /\ req[q].pc \in Pc
  BY <1>1, ExchangeFields
<1>3. req[q].now \in 0..MaxTime /\ req[q].now <= clock
  BY <1>1, <1>2, Numbers DEF Placed
<1> QED BY <1>1, <1>2, <1>3 DEF Placed, Working

\* Lookup.
LEMMA LookupSound ==
    ASSUME SessionsInv, NEW q \in Request, Lookup(q)
    PROVE  SessionsInv'
<1>1. /\ req[q].pc = "lookup" /\ Working(q) /\ req[q].locks = {}
      /\ UNCHANGED <<tok, ended, notRefresh>>
  BY PlaceOf DEF Lookup, Working, Placed
<1>2. CASE req' = Answer(q, NoTok)
  BY <1>1, <1>2, RefusedSound
<1>3. CASE \/ req' = [req EXCEPT ![q].pc = "lock"] /\ ~Active(req[q].tok)
           \/ req' = [req EXCEPT ![q].pc = "claim"]
  <2>1. PICK pc \in {"lock", "claim"} :
           /\ req' = [req EXCEPT ![q].pc = pc]
           /\ pc = "lock" => ~Active(req[q].tok)
    BY <1>3
  <2>2. pc \in Pc \ {"free", "answered"}
    BY DEF Pc
  <2>3. req' = MovedTo(q, pc, req[q].locks, req[q].answer, req[q].tries)
    <3>1. SessionTypes
      BY DEF SessionsInv
    <3> QED BY <2>1, <3>1, PcForm
  <2>4. /\ req[q].locks \in SUBSET (1..Len(tok))
        /\ req[q].locks \cap LockedByOthers(q) = {}
        /\ req[q].answer \in 0..Len(tok)
        /\ req[q].tries \in Nat /\ req[q].tries < Attempts
    BY <1>1, PlaceOf
  <2>5. /\ req[q].locks = {} /\ req[q].pc # "begin"
        /\ pc # "wait" /\ pc # "commit" /\ pc # "follow" /\ pc # "decide"
        /\ pc \in {"lock", "wait", "follow", "decide"} => ~Active(req[q].tok)
        /\ Working(q) /\ UNCHANGED <<tok, ended, notRefresh>>
    BY <1>1, <2>1
  <2> QED BY <2>2, <2>3, <2>4, <2>5, PlaceSound
<1> QED BY <1>2, <1>3 DEF Lookup

\* Claim.
LEMMA ClaimSound ==
    ASSUME SessionsInv, NEW q \in Request, Claim(q)
    PROVE  SessionsInv'
<1>1. /\ req[q].pc = "claim" /\ Working(q) /\ req[q].locks = {}
      /\ req[q].tok \notin LockedByOthers(q)
      /\ UNCHANGED <<tok, ended, notRefresh>>
  BY PlaceOf DEF Claim, Working, Placed
<1>2. /\ SessionTypes /\ req[q].answer \in 0..Len(tok)
      /\ req[q].tries \in Nat /\ req[q].tries < Attempts
      /\ req[q].tok \in 1..Len(tok)
  BY <1>1, PlaceOf DEF SessionsInv
<1>3. CASE req' = Answer(q, NoTok)
  BY <1>1, <1>3, RefusedSound
<1>4. CASE /\ Active(req[q].tok)
           /\ req' = [req EXCEPT ![q].pc = "commit", ![q].locks = {req[q].tok}]
  <2>1. "commit" \in Pc \ {"free", "answered"}
    BY DEF Pc
  <2>2. PICK held \in SUBSET (1..Len(tok)) :
           held = {req[q].tok} /\ held \cap LockedByOthers(q) = {}
    BY <1>1, <1>2
  <2>3. req' = MovedTo(q, "commit", held, req[q].answer, req[q].tries)
    BY <1>2, <1>4, <2>2, ClaimForm
  <2>4. Active(req[q].tok) /\ req[q].pc # "begin"
    BY <1>1, <1>4
  <2> QED BY <1>1, <1>2, <2>1, <2>2, <2>3, <2>4, PlaceSound
<1>5. CASE /\ req[q].tries + 1 # Attempts
           /\ req' = [req EXCEPT ![q].pc = "begin", ![q].tries = @ + 1,
                                 ![q].locks = {}]
  <2>1. "begin" \in Pc \ {"free", "answered"}
    BY DEF Pc
  <2>2. req[q].tries + 1 \in Nat /\ req[q].tries + 1 < Attempts
    <3>1. \A n, m \in Nat : n < m /\ n + 1 # m => n + 1 \in Nat /\ n + 1 < m
      OBVIOUS
    <3>2. Attempts \in Nat
      BY Numbers
    <3> QED BY <1>2, <1>5, <3>1, <3>2, Zenon
  <2>3. {} \in SUBSET (1..Len(tok)) /\ {} \cap LockedByOthers(q) = {}
    OBVIOUS
  <2>4. req' = MovedTo(q, "begin", {}, req[q].answer, req[q].tries + 1)
    BY <1>2, <1>5, RetryForm
  <2> QED BY <1>1, <1>2, <2>1, <2>2, <2>3, <2>4, PlaceSound
<1> QED BY <1>3, <1>4, <1>5 DEF Claim, Claimable, TryAgain

\* SnapshotTokens.
LEMMA SnapshotTokensSound ==
    ASSUME SessionsInv, NEW q \in Request, SnapshotTokens(q)
    PROVE  SessionsInv'
<1>1. /\ req[q].pc = "lock" /\ Working(q) /\ req[q].locks = {}
      /\ ~Active(req[q].tok) /\ req[q].tok <= Len(tok)
      /\ UNCHANGED <<tok, ended, notRefresh>>
  BY PlaceOf DEF SnapshotTokens, Working, Placed
<1>2. "wait" \in Pc \ {"free", "answered"}
  BY DEF Pc
<1>3. /\ SessionTypes /\ req[q].locks \cap LockedByOthers(q) = {}
      /\ req[q].locks \in SUBSET (1..Len(tok)) /\ Len(tok) \in 0..Len(tok)
      /\ req[q].tries \in Nat /\ req[q].tries < Attempts
  BY <1>1, PlaceOf DEF SessionsInv
<1>4. req' = MovedTo(q, "wait", req[q].locks, Len(tok), req[q].tries)
  BY <1>3, SnapshotForm DEF SnapshotTokens
<1> QED BY <1>1, <1>2, <1>3, <1>4, PlaceSound

\* LockTokens.
LEMMA LockTokensSound ==
    ASSUME SessionsInv, NEW q \in Request, LockTokens(q)
    PROVE  SessionsInv'
<1>1. /\ req[q].pc = "wait" /\ Working(q) /\ ~Active(req[q].tok)
      /\ UNCHANGED <<tok, ended, notRefresh>>
  BY PlaceOf DEF LockTokens, Working, Placed
<1>2. "follow" \in Pc \ {"free", "answered"}
  BY DEF Pc
<1> DEFINE ids == 1..req[q].answer
<1>3. /\ SessionTypes /\ ids \in SUBSET (1..Len(tok))
      /\ req[q].tok \in ids /\ NoTok \in 0..Len(tok)
      /\ req[q].tries \in Nat /\ req[q].tries < Attempts
  BY <1>1, PlaceOf, Numbers DEF Placed, SessionsInv
<1>4. ids \cap LockedByOthers(q) = {}
  BY DEF LockTokens
<1>5. req' = [req EXCEPT ![q].pc = "follow", ![q].locks = ids,
                         ![q].answer = NoTok]
  BY DEF LockTokens
<1> HIDE DEF ids
<1>6. req' = MovedTo(q, "follow", ids, NoTok, req[q].tries)
  BY <1>3, <1>5, LockForm
<1> QED BY <1>1, <1>2, <1>3, <1>4, <1>6, PlaceSound

\* FollowLinks.
LEMMA FollowLinksSound ==
    ASSUME SessionsInv, NEW q \in Request, FollowLinks(q)
    PROVE  SessionsInv'
<1>1. /\ req[q].pc = "follow" /\ Working(q) /\ ~Active(req[q].tok)
      /\ req[q].tok \in req[q].locks
      /\ UNCHANGED <<tok, ended, notRefresh>>
  BY PlaceOf DEF FollowLinks, Working, Placed
<1>2. req[q].locks \cap LockedByOthers(q) = {}
  BY DEF LockedByOthers, SessionsInv, ServerInv, LocksApart
<1>3. /\ SessionTypes /\ req[q].answer \in 0..Len(tok)
      /\ req[q].tries \in Nat /\ req[q].tries < Attempts
      /\ req[q].locks \in SUBSET (1..Len(tok))
  BY <1>1, PlaceOf DEF SessionsInv
<1>4. CASE Missing(q) = {} /\ req' = [req EXCEPT ![q].pc = "decide"]
  <2>1. "decide" \in Pc \ {"free", "answered"}
    BY DEF Pc
  <2>2. req' = MovedTo(q, "decide", req[q].locks, req[q].answer, req[q].tries)
    BY <1>3, <1>4, PcForm
  <2>3. \A i \in req[q].locks : tok[i].next \in req[q].locks \cup {NoTok}
    BY <1>4 DEF Missing
  <2> QED BY <1>1, <1>2, <1>3, <2>1, <2>2, <2>3, PlaceSound
<1>5. CASE req' = [req EXCEPT ![q].locks = @ \cup Missing(q)]
  <2> DEFINE more == req[q].locks \cup Missing(q)
  <2>1. Missing(q) \in SUBSET (1..Len(tok))
    BY <1>3, TokFacts DEF Missing, SessionsInv, ServerInv, Chained
  <2>2. /\ more \in SUBSET (1..Len(tok))
        /\ more \cap LockedByOthers(q) = {} /\ req[q].tok \in more
    BY <1>1, <1>2, <1>3, <2>1 DEF FollowLinks
  <2>3. req' = [req EXCEPT ![q].locks = more]
    BY <1>5 DEF SessionsInv, SessionTypes
  <2> HIDE DEF more
  <2>4. "follow" \in Pc \ {"free", "answered"}
    BY DEF Pc
  <2>5. req' = MovedTo(q, "follow", more, req[q].answer, req[q].tries)
    BY <1>1, <1>3, <2>3, LocksForm
  <2> QED BY <1>1, <1>3, <2>2, <2>4, <2>5, PlaceSound
<1> QED BY <1>4, <1>5 DEF FollowLinks

\* A request at work has room for a token.
LEMMA RoomForOne ==
    ASSUME SessionsInv, NEW q \in Request, Working(q)
    PROVE  Len(tok) + 1 <= MaxTok
<1>1. q \in WorkingSet
  BY DEF WorkingSet, Working
<1>2. Cardinality(WorkingSet) # 0
  BY <1>1, ReservedFacts, FS_EmptySet
<1>3. Reserved \in Nat /\ Reserved >= 1
  BY <1>2, ReservedFacts
<1>4. Len(tok) \in Nat /\ Len(tok) + Reserved <= budget.toks
  BY TokFacts DEF SessionsInv, ServerInv, InRoom
<1>5. budget.toks \in 1..MaxTok
  BY SessionAssumption DEF SessionsInv, SessionTypes
<1> QED BY <1>3, <1>4, <1>5, Numbers

\* While a request is at work and none was overtaken, the client has no
\* other.
LEMMA OnlyOne ==
    ASSUME SessionsInv, NEW q \in Request, Working(q), ~spent.late
    PROVE  /\ req[q].tok = auth.held
           /\ \A p \in Request : Underway(p) => p = q
           /\ ~Delivered /\ Brought = 0
           /\ LeftBehind = IF req[q].who = NoThread THEN 1 ELSE 0
<1>1. req[q].tok = auth.held /\ \A p \in Request : Underway(p) => p = q
  BY DEF SessionsInv, ClientInv, Underway
<1>2. ~Delivered
  BY <1>1 DEF Delivered, Underway, Working
<1>3. Abandoned # {} <=> req[q].who = NoThread
  BY <1>1 DEF Abandoned, Underway, Working
<1> QED BY <1>1, <1>2, <1>3 DEF Brought, LeftBehind

\* Once its request is answered, nothing of the client is at work.
LEMMA NoneAfter ==
    ASSUME SessionsInv, NEW q \in Request, Working(q), ~spent.late,
           \A p \in Request : p # q => req'[p] = req[p],
           req'[q].pc = "answered", req'[q].who = req[q].who
    PROVE  /\ LeftBehind' = 0
           /\ \A p \in Request : ~Working(p)'
           /\ Brought' = IF req[q].who # NoThread /\ req'[q].answer # NoTok
                         THEN 1 ELSE 0
           /\ \A p \in Request : p # q =>
                 req'[p].who = NoThread
<1>1. \A p \in Request : p # q => ~Underway(p)
  BY OnlyOne
<1>2. \A p \in Request : ~Working(p)'
  BY <1>1 DEF Working, Underway
<1>3. Abandoned' = {}
  BY <1>2 DEF Abandoned, Working
<1>4. \A p \in Request : p # q => req'[p].who = NoThread
  BY <1>1 DEF Underway
<1>5. Delivered' <=> req[q].who # NoThread /\ req'[q].answer # NoTok
  BY <1>4 DEF Delivered
<1> QED BY <1>2, <1>3, <1>4, <1>5 DEF Brought, LeftBehind

\* A rotation: the claimed token is replaced and its request answered.
LEMMA RotationStep ==
    ASSUME SessionsInv, NEW q \in Request, Working(q),
           NEW old \in req[q].locks, Active(old),
           old = req[q].tok \/ ~Active(req[q].tok),
           tok' = Rotated(old, req[q].now), req' = Answer(q, Len(tok) + 1),
           UNCHANGED <<ended, notRefresh>>
    PROVE  SessionsInv'
<1> DEFINE now == req[q].now
           n == Len(tok) + 1
<1>1. /\ SessionTypes /\ old \in 1..Len(tok) /\ now \in 0..MaxTime
      /\ now <= clock /\ Len(tok) \in Nat /\ n <= MaxTok /\ n \in Nat
      /\ req[q].tok \in 1..Len(tok) /\ clock \in Nat
  <2>1. SessionTypes
    BY DEF SessionsInv
  <2>2. clock \in Nat
    BY <2>1, Numbers DEF SessionTypes
  <2>3. /\ now \in 0..MaxTime /\ now <= clock /\ Len(tok) \in Nat
        /\ req[q].tok \in 1..Len(tok) /\ req[q].locks \in SUBSET (1..Len(tok))
    BY PlaceOf
  <2>4. n <= MaxTok
    BY RoomForOne
  <2> QED BY <2>1, <2>2, <2>3, <2>4
<1>2. UNCHANGED <<clock, enabled, resets, op, login, auth, thread, budget,
                  spent, cut>>
  BY DEF notRefresh
<1>3. /\ tok' \in Seq(Token) /\ Len(tok') = n
      /\ tok'[old].rev = now /\ tok'[old].next = n
      /\ tok'[old].root = tok[old].root
      /\ tok'[old].issued = tok[old].issued
      /\ \A i \in 1..Len(tok) : i # old => tok'[i] = tok[i]
      /\ tok'[n].issued = now
      /\ tok'[n].rev = Never
      /\ tok'[n].next = NoTok
      /\ tok'[n].root = tok[old].root
  BY <1>1, RotatedFacts DEF SessionTypes
<1>4. PICK r \in Exchange :
         /\ req' = [req EXCEPT ![q] = r]
         /\ r.pc = "answered" /\ r.answer = n /\ r.locks = {}
         /\ r.who = req[q].who /\ r.tok = req[q].tok /\ r.now = req[q].now
         /\ r.tries = req[q].tries
  BY <1>1, AnswerFacts
<1>5. /\ req'[q] = r /\ req' \in [Request -> Exchange]
      /\ \A p \in Request : p # q => req'[p] = req[p]
  <2>1. req \in [Request -> Exchange]
    BY <1>1 DEF SessionTypes
  <2>2. req' = [req EXCEPT ![q] = r]
    BY <1>4
  <2> HIDE DEF now, n
  <2> QED BY <2>1, <2>2
<1> HIDE DEF now, n
<1>6. SessionTypes'
  BY <1>1, <1>2, <1>3, <1>5 DEF SessionTypes
<1>7. Chained' /\ TailsAlive'
  BY <1>1, <1>2, RotatedChained DEF SessionsInv, ServerInv, now, n
<1>8. Grows
  <2>1. \A i \in 1..Len(tok) : ~Active(i) => ~Active(i)'
    BY <1>1, <1>3, Numbers DEF Active
  <2> QED BY <1>1, <1>3, <2>1 DEF Grows, n
<1>9. \A p \in Request : p # q => Placed(p)'
  <2> SUFFICES ASSUME NEW p \in Request, p # q PROVE Placed(p)'
    OBVIOUS
  <2>1. old \notin req[p].locks /\ req[p].locks \in SUBSET (1..Len(tok))
    BY PlaceOf DEF SessionsInv, ServerInv, LocksApart
  <2>2. \A i \in req[p].locks : tok'[i] = tok[i]
    BY <1>3, <2>1
  <2> QED BY <1>1, <1>2, <1>5, <1>8, <2>2, PlacedKept DEF SessionsInv, ServerInv
<1>10. Placed(q)'
  <2>1. n \in 0..Len(tok') /\ req[q].tok \in 1..Len(tok')
    BY <1>1, <1>3 DEF n
  <2> QED BY <1>1, <1>2, <1>4, <1>5, <2>1, PlaceOf DEF Placed
<1>11. LocksApart'
  BY <1>4, <1>5 DEF SessionsInv, ServerInv, LocksApart
<1>12. \A o \in Operator : Listing(o)'
  BY <1>1, <1>2, <1>8, ListingKept DEF SessionsInv, ServerInv
<1>13. Holding' /\ ResetsUsedOnce'
  BY <1>2 DEF SessionsInv, ServerInv, Holding, ResetsUsedOnce
<1>14. ListedSessionsEnd'
  BY <1>1, <1>2, <1>8, EndedKept DEF SessionsInv, ServerInv, TailsAlive
<1>15. InRoom'
  <2>1. Cardinality(WorkingSet') = Cardinality(WorkingSet) - 1
    <3>1. ~Working(q)'
      BY <1>4, <1>5 DEF Working
    <3> QED BY <1>5, <3>1, WorkingStep
  <2>2. RefusedSet' = RefusedSet /\ login' = login
    BY <1>2 DEF RefusedSet
  <2>3. PICK w, f, l, k \in Nat :
           /\ w = Cardinality(WorkingSet) /\ f = Cardinality(RefusedSet)
           /\ l = Len(tok) /\ k = IF login THEN 1 ELSE 0
    BY <1>1, ReservedFacts
  <2>4. l + 1 + (w - 1) + f + k <= l + w + f + k
    <3>1. \A a, b, c, d \in Nat : a + 1 + (b - 1) + c + d <= a + b + c + d
      OBVIOUS
    <3> QED BY <3>1, Zenon
  <2>5. Len(tok') + Cardinality(WorkingSet') + Cardinality(RefusedSet')
            + (IF login' THEN 1 ELSE 0)
        <= Len(tok) + Cardinality(WorkingSet) + Cardinality(RefusedSet)
            + (IF login THEN 1 ELSE 0)
    BY <1>3, <2>1, <2>2, <2>3, <2>4 DEF n
  <2> QED BY <1>1, <1>2, <1>3, <2>5, RoomKept DEF SessionsInv, ServerInv
<1>16. \A p \in Request :
          /\ req'[p].who = req[p].who /\ req'[p].tok = req[p].tok
          /\ Underway(p)' => Underway(p)
          /\ req'[p].pc = "free" => req[p].pc = "free"
  BY <1>4, <1>5 DEF Working, Underway
<1>17. ASSUME Explained, ~spent.late PROVE Explained'
  <2>1. /\ req[q].tok = auth.held /\ Brought = 0
        /\ LeftBehind = IF req[q].who = NoThread THEN 1 ELSE 0
    BY <1>17, OnlyOne
  <2>2. /\ LeftBehind' = 0
        /\ \A p \in Request : ~Working(p)'
        /\ Brought' = IF req[q].who # NoThread THEN 1 ELSE 0
        /\ \A p \in Request : p # q => req'[p].who = NoThread
    <3>1. n # NoTok
      BY <1>1, Numbers DEF n
    <3> QED BY <1>4, <1>5, <1>17, <3>1, NoneAfter
  <2>3. Debt' \in Nat /\ Debt \in Nat /\ Debt' <= Debt + 1
    <3>1. CASE old = req[q].tok
      <4>1. auth'.held = old
        BY <1>2, <2>1, <3>1
      <4>2. now # Never /\ n # NoTok
        BY <1>1, Numbers DEF n
      <4>3. /\ ~Active(auth.held)'
            /\ tok'[auth'.held].next = n
            /\ tok'[auth'.held].rev = now
        BY <1>3, <4>1, <4>2 DEF Active
      <4>4. tok'[n].rev = Never /\ tok'[n].issued = now
        BY <1>3
      <4>5. tok'[tok'[auth'.held].next].rev = Never
        BY <4>3, <4>4
      <4>6. tok'[tok'[auth'.held].next].issued = tok'[auth'.held].rev
        BY <4>3, <4>4
      <4>7. Losses(auth.held)' = 1
        BY <4>2, <4>3, <4>5, <4>6 DEF Losses, Active
      <4> QED BY <4>7, DebtFacts DEF Debt
    <3>2. CASE ~Active(req[q].tok)
      <4>1. Debt \in {1, 2}
        BY <2>1, <3>2, DebtFacts
      <4>2. Debt' \in {0, 1, 2}
        BY DEF Debt, Losses
      <4> QED BY <4>1, <4>2
    <3> QED BY <3>1, <3>2
  <2>4. spent.faults \in Nat /\ spent.faults + Brought >= LeftBehind + Debt
    BY <1>1, <1>17 DEF SessionTypes, Explained
  <2>5. spent.faults + Brought' >= LeftBehind' + Debt'
    <3>1. CASE req[q].who = NoThread
      <4>1. spent.faults + 0 >= 1 + Debt
        BY <2>1, <2>4, <3>1
      <4>2. Brought' = 0 /\ LeftBehind' = 0
        BY <2>2, <3>1
      <4> QED BY <2>3, <2>4, <4>1, <4>2
    <3>2. CASE req[q].who # NoThread
      <4>1. spent.faults + 0 >= 0 + Debt
        BY <2>1, <2>4, <3>2
      <4>2. Brought' = 1 /\ LeftBehind' = 0
        BY <2>2, <3>2
      <4> QED BY <2>3, <2>4, <4>1, <4>2
    <3> QED BY <3>1, <3>2
  <2>6. ~Active(auth.held)' => tok'[auth.held].rev <= clock
    <3>1. CASE old = auth.held
      BY <1>1, <1>3, <3>1 DEF now
    <3>2. CASE old # auth.held
      BY <1>1, <1>2, <1>3, <1>17, <2>1, <3>2 DEF Explained, Active
    <3> QED BY <3>1, <3>2
  <2>7. \A p \in Request : /\ req'[p].who # NoThread /\ req'[p].pc = "answered"
                           /\ req'[p].answer # NoTok
                           => tok'[req'[p].answer].rev = Never
    BY <1>3, <1>4, <1>5, <2>2
  <2> QED BY <1>2, <2>2, <2>5, <2>6, <2>7 DEF Explained, Active
<1>18. auth.held \in 1..Len(tok')
  BY <1>1, <1>3 DEF SessionsInv, ClientInv, n
<1>19. ClientInv'
  BY <1>2, <1>16, <1>17, <1>18 DEF SessionsInv, ClientInv
<1>20. OneLossForgiven'
  BY <1>2 DEF SessionsInv, OneLossForgiven
<1> QED BY <1>6, <1>7, <1>9, <1>10, <1>11, <1>12, <1>13, <1>14, <1>15, <1>19,
           <1>20
    DEF SessionsInv, ServerInv

\* CommitRotation and Recover.
LEMMA RotationsSound ==
    ASSUME SessionsInv, NEW q \in Request, CommitRotation(q) \/ Recover(q)
    PROVE  SessionsInv'
<1>1. CASE CommitRotation(q)
  <2>1. /\ Working(q) /\ req[q].tok \in req[q].locks /\ Active(req[q].tok)
    BY <1>1, PlaceOf DEF CommitRotation, Working, Placed
  <2> QED BY <1>1, <2>1, RotationStep DEF CommitRotation
<1>2. CASE Recover(q)
  <2>1. /\ Working(q) /\ req[q].tok \in req[q].locks /\ ~Active(req[q].tok)
        /\ tok[req[q].tok].next \in req[q].locks \cup {NoTok}
    BY <1>2, PlaceOf DEF Recover, Working, Placed
  <2>2. tok[req[q].tok].next \in req[q].locks /\ Active(tok[req[q].tok].next)
    BY <1>2, <2>1 DEF Recover, GraceEligible, Claimable
  <2>3. PICK old \in req[q].locks : old = tok[req[q].tok].next
    BY <2>2
  <2> QED BY <1>2, <2>1, <2>2, <2>3, RotationStep DEF Recover
<1> QED BY <1>1, <1>2

\* The family of a locked token: tokens of its login, with the tail.
LEMMA FamilyFacts ==
    ASSUME SessionTypes, Chained, NEW ids \in SUBSET (1..Len(tok)),
           \A i \in ids : tok[i].next \in ids \cup {NoTok}, NEW t \in ids
    PROVE  /\ Family(ids, t) \subseteq ids
           /\ \A i \in Family(ids, t) : tok[i].root = tok[t].root
           /\ \A i \in 1..Len(tok) : tok[i].root = tok[t].root /\ Active(i) =>
                 i \in Family(ids, t)
<1>1. Family(ids, t) \subseteq ids
  BY DEF Family
<1>2. ASSUME NEW i \in Family(ids, t)
      PROVE  tok[i].root = tok[t].root
  <2> DEFINE S == {u \in ids : tok[u].root = tok[t].root}
  <2>1. ASSUME NEW a \in S, NEW b \in ids, Linked(a, b)
        PROVE  b \in S
    <3>1. NoTok \notin ids
      BY Numbers, TokFacts
    <3> QED BY <2>1, <3>1 DEF Linked, Chained
  <2>2. S \in SUBSET ids /\ t \in S
    OBVIOUS
  <2> HIDE DEF S
  <2>3. i \in S
    BY <2>1, <2>2 DEF Family
  <2> QED BY <2>3 DEF S
<1>3. ASSUME NEW i \in 1..Len(tok), tok[i].root = tok[t].root, Active(i)
      PROVE  i \in Family(ids, t)
  <2>1. tok[i].next = NoTok
    BY <1>3 DEF Chained
  <2>2. ASSUME NEW S \in SUBSET ids, t \in S,
               \A a \in S, b \in ids : Linked(a, b) => b \in S
        PROVE  i \in S
    <3>1. \A a \in S : tok[a].next \in S \cup {NoTok}
      BY <2>2 DEF Linked
    <3>2. S \in SUBSET (1..Len(tok))
      OBVIOUS
    <3>3. PICK u \in S : tok[u].root = tok[t].root /\ tok[u].next = NoTok
      BY <2>2, <3>1, <3>2, TailExists
    <3>4. u \in 1..Len(tok) /\ u \in Nat /\ i \in Nat
      BY <3>2, TokFacts
    <3>5. u <= i /\ i <= u
      BY <1>3, <2>1, <3>3, <3>4, TailIsNewest
    <3> QED BY <3>4, <3>5
  <2>3. i \in ids
    <3>1. ids \in SUBSET ids /\ \A a \in ids, b \in ids : Linked(a, b) => b \in ids
      OBVIOUS
    <3> QED BY <2>2, <3>1
  <2> QED BY <2>2, <2>3 DEF Family
<1> QED BY <1>1, <1>2, <1>3

\* A reuse that is not forgiven within the grace period is the second loss.
LEMMA SecondLoss ==
    ASSUME SessionsInv, NEW q \in Request, req[q].pc = "decide", ~spent.late,
           WithinGrace(q), ~GraceEligible(q)
    PROVE  Debt = 2
<1>1. Working(q) /\ ~Active(req[q].tok)
  BY PlaceOf DEF Working, Placed
<1>2. PICK h \in 1..Len(tok) : h = req[q].tok /\ h = auth.held
  BY <1>1, OnlyOne, PlaceOf
<1>3. SessionTypes /\ Chained
  BY DEF SessionsInv, ServerInv
<1>4. /\ Grace > 0 /\ tok[h].rev <= req[q].now
      /\ req[q].now <= tok[h].rev + Grace
      /\ req[q].now \in Nat /\ tok[h].rev \in Nat
  BY <1>2, <1>3, TokFacts, PlaceOf DEF WithinGrace
<1>5. ~GraceOver(h)
  <2>1. Working(q) /\ req[q].pc # "begin"
    BY <1>1
  <2>2. ~(req[q].now > tok[h].rev + Grace) /\ Grace # 0
    BY <1>4, Numbers
  <2> QED BY <2>1, <2>2 DEF GraceOver
<1>6. ASSUME tok[h].next # NoTok, Active(tok[h].next),
             tok[tok[h].next].issued = tok[h].rev
      PROVE  FALSE
  <2>1. tok[h].next \in 1..Len(tok)
    BY <1>3, <1>6, TokFacts DEF Chained
  <2>2. tok[tok[h].next].next = NoTok
    BY <1>3, <1>6, <2>1 DEF Chained
  <2>3. Expired(tok[h].next, req[q].now)
    BY <1>2, <1>6, <2>2 DEF GraceEligible, Claimable
  <2> QED BY <1>4, <1>6, <2>3, Numbers DEF Expired
<1> QED BY <1>1, <1>2, <1>5, <1>6 DEF Debt, Losses

\* RevokeFamily.
LEMMA RevokeFamilySound ==
    ASSUME SessionsInv, NEW q \in Request, RevokeFamily(q)
    PROVE  SessionsInv'
<1>1. /\ req[q].pc = "decide" /\ Working(q) /\ ~Active(req[q].tok)
      /\ req[q].tok \in req[q].locks /\ req[q].tok \in 1..Len(tok)
      /\ \A i \in req[q].locks : tok[i].next \in req[q].locks \cup {NoTok}
  BY PlaceOf DEF RevokeFamily, Working, Placed
<1>2. SessionTypes /\ Chained /\ TailsAlive
  BY DEF SessionsInv, ServerInv
<1>3. PICK R : R = tok[req[q].tok].root
  OBVIOUS
<1>4. PICK S \in SUBSET req[q].locks :
         /\ \A i \in S : tok[i].root = R
         /\ \A i \in 1..Len(tok) : tok[i].root = R /\ Active(i) => i \in S
         /\ tok' = [i \in DOMAIN tok |->
                      IF i \in S THEN [tok[i] EXCEPT !.rev = req[q].now]
                      ELSE tok[i]]
         /\ req[q].tok \notin S
  <2> DEFINE fam == Family(req[q].locks, req[q].tok)
             S == {i \in fam : Active(i)}
  <2>1. /\ fam \subseteq req[q].locks
        /\ \A i \in fam : tok[i].root = R
        /\ \A i \in 1..Len(tok) : tok[i].root = R /\ Active(i) => i \in fam
    <3>1. PICK ids \in SUBSET (1..Len(tok)) : ids = req[q].locks
      BY PlaceOf
    <3>2. PICK t \in ids : t = req[q].tok
      BY <1>1, <3>1
    <3>3. \A i \in ids : tok[i].next \in ids \cup {NoTok}
      BY <1>1, <3>1
    <3>4. /\ Family(ids, t) \subseteq ids
          /\ \A i \in Family(ids, t) : tok[i].root = tok[t].root
          /\ \A i \in 1..Len(tok) : tok[i].root = tok[t].root /\ Active(i) =>
                i \in Family(ids, t)
      BY <1>2, <3>3, FamilyFacts
    <3>5. fam = Family(ids, t) /\ R = tok[t].root
      BY <1>3, <3>1, <3>2
    <3> HIDE DEF fam
    <3> QED BY <3>1, <3>4, <3>5
  <2>2. tok' = [i \in DOMAIN tok |->
                   IF i \in fam /\ Active(i)
                   THEN [tok[i] EXCEPT !.rev = req[q].now] ELSE tok[i]]
    BY DEF RevokeFamily
  <2> HIDE DEF fam
  <2>3. tok' = [i \in DOMAIN tok |->
                   IF i \in S THEN [tok[i] EXCEPT !.rev = req[q].now]
                   ELSE tok[i]]
    BY <2>2
  <2>4. /\ S \in SUBSET req[q].locks /\ req[q].tok \notin S
        /\ \A i \in S : tok[i].root = R
        /\ \A i \in 1..Len(tok) : tok[i].root = R /\ Active(i) => i \in S
    BY <1>1, <2>1
  <2> HIDE DEF S
  <2> QED BY <2>3, <2>4
<1>5. PICK now \in 0..MaxTime : now = req[q].now /\ now <= clock
  BY PlaceOf
<1>6. /\ tok' \in Seq(Token) /\ Len(tok') = Len(tok)
      /\ \A i \in 1..Len(tok) :
            /\ tok'[i].root = tok[i].root /\ tok'[i].next = tok[i].next
            /\ tok'[i].issued = tok[i].issued
            /\ tok'[i].rev = IF i \in S THEN now ELSE tok[i].rev
            /\ i \notin S => tok'[i] = tok[i]
  <2>1. tok \in Seq(Token)
    BY <1>2 DEF SessionTypes
  <2>2. tok' = [i \in DOMAIN tok |->
                   IF i \in S THEN [tok[i] EXCEPT !.rev = now] ELSE tok[i]]
    BY <1>4, <1>5
  <2>3. RevokesOnly(S, now)
    BY <2>1, <2>2, RevokedFacts
  <2> QED BY <2>3 DEF RevokesOnly
<1>7. UNCHANGED <<clock, enabled, resets, op, login, auth, thread, budget,
                  spent, cut>>
  BY DEF RevokeFamily, notRefresh
<1>8. PICK r \in Exchange :
         /\ req' = [req EXCEPT ![q] = r]
         /\ r.pc = "answered" /\ r.answer = NoTok /\ r.locks = {}
         /\ r.who = req[q].who /\ r.tok = req[q].tok /\ r.now = req[q].now
         /\ r.tries = req[q].tries
  BY <1>2, AnswerFacts, Numbers DEF RevokeFamily
<1>9. /\ req'[q] = r /\ req' \in [Request -> Exchange]
      /\ \A p \in Request : p # q => req'[p] = req[p]
  <2>1. req \in [Request -> Exchange]
    BY <1>2 DEF SessionTypes
  <2> QED BY <1>8, <2>1
<1>10. SessionTypes'
  BY <1>2, <1>6, <1>7, <1>9 DEF SessionTypes
<1>11. Chained'
  BY <1>2, <1>4, <1>5, <1>7, RevokedChained
<1>12. Len(tok) \in Nat /\ clock \in Nat /\ Grows
  <2>1. \A i \in 1..Len(tok) : ~Active(i) => ~Active(i)'
    BY <1>6, Numbers DEF Active
  <2> QED BY <1>2, <1>6, <2>1, TokFacts, Numbers DEF Grows, SessionTypes
<1>13. \A e \in ended' : \/ e \in ended
                         \/ e.root = R /\ e.grace = WithinGrace(q)
  BY <1>3 DEF RevokeFamily
<1>14. \E e \in ended' : e.root = R
  <2> DEFINE e == [root |-> R, grace |-> WithinGrace(q)]
  <2>1. e \in ended' /\ e.root = R
    BY <1>3 DEF RevokeFamily
  <2> QED BY <2>1
<1>15. ended \subseteq ended'
  BY DEF RevokeFamily
<1>16. TailsAlive'
  <2>1. cut'.read <= Len(tok') /\ \A e \in ended' : e.root \in 1..Len(tok')
    <3>1. R \in 1..Len(tok)
      BY <1>1, <1>2, <1>3, <1>12 DEF Chained
    <3> QED BY <1>2, <1>6, <1>7, <1>13, <3>1 DEF TailsAlive
  <2>2. ASSUME NEW i \in 1..Len(tok), NEW e \in ended', e.root = tok'[i].root
        PROVE  ~Active(i)'
    <3>1. CASE e \in ended
      BY <1>2, <1>6, <1>12, <2>2, <3>1 DEF TailsAlive, Grows
    <3>2. CASE e.root = R
      <4>1. Active(i) => i \in S
        BY <1>4, <1>6, <2>2, <3>2
      <4>2. Active(i) => tok'[i].rev = now
        BY <1>6, <4>1
      <4> QED BY <1>12, <4>2, Numbers DEF Active, Grows
    <3> QED BY <1>13, <3>1, <3>2
  <2>3. ASSUME NEW i \in 1..Len(tok), tok'[i].next = NoTok, i > cut'.read
        PROVE  Active(i)' \/ \E e \in ended' : e.root = tok'[i].root
    <3>1. CASE i \in S
      BY <1>4, <1>6, <1>14, <3>1
    <3>2. CASE i \notin S
      BY <1>2, <1>6, <1>7, <1>15, <2>3, <3>2 DEF TailsAlive, Active
    <3> QED BY <3>1, <3>2
  <2> QED BY <1>6, <2>1, <2>2, <2>3 DEF TailsAlive
<1>17. \A p \in Request : p # q => Placed(p)'
  <2> SUFFICES ASSUME NEW p \in Request, p # q PROVE Placed(p)'
    OBVIOUS
  <2>1. S \cap req[p].locks = {} /\ req[p].locks \in SUBSET (1..Len(tok))
    BY PlaceOf DEF SessionsInv, ServerInv, LocksApart
  <2>2. \A i \in req[p].locks : tok'[i] = tok[i]
    BY <1>6, <2>1
  <2>3. Placed(p) /\ clock' \in Nat /\ clock <= clock'
    BY <1>7, <1>12, PlaceOf
  <2> QED BY <1>2, <1>9, <1>12, <2>2, <2>3, PlacedKept
<1>18. Placed(q)'
  BY <1>1, <1>5, <1>6, <1>7, <1>8, <1>9, <1>12, PlaceOf, Numbers DEF Placed
<1>19. LocksApart'
  BY <1>8, <1>9 DEF SessionsInv, ServerInv, LocksApart
<1>20. \A o \in Operator : Listing(o)'
  BY <1>2, <1>7, <1>12, ListingKept DEF SessionsInv, ServerInv
<1>21. Holding' /\ ResetsUsedOnce'
  BY <1>7 DEF SessionsInv, ServerInv, Holding, ResetsUsedOnce
<1>22. ListedSessionsEnd'
  BY <1>2, <1>7, <1>12, EndedKept DEF SessionsInv, ServerInv, TailsAlive
<1>23. InRoom'
  <2>1. Cardinality(WorkingSet') = Cardinality(WorkingSet) - 1
    <3>1. ~Working(q)'
      BY <1>8, <1>9 DEF Working
    <3> QED BY <1>1, <1>9, <3>1, WorkingStep
  <2>2. RefusedSet' = RefusedSet /\ login' = login
    BY <1>7 DEF RefusedSet
  <2>3. PICK w, f, l, k \in Nat :
           /\ w = Cardinality(WorkingSet) /\ f = Cardinality(RefusedSet)
           /\ l = Len(tok) /\ k = IF login THEN 1 ELSE 0
    BY <1>12, ReservedFacts
  <2>4. l + (w - 1) + f + k <= l + w + f + k
    <3>1. \A a, b, c, d \in Nat : a + (b - 1) + c + d <= a + b + c + d
      OBVIOUS
    <3> QED BY <3>1, Zenon
  <2>5. Len(tok') + Cardinality(WorkingSet') + Cardinality(RefusedSet')
            + (IF login' THEN 1 ELSE 0)
        <= Len(tok) + Cardinality(WorkingSet) + Cardinality(RefusedSet)
            + (IF login THEN 1 ELSE 0)
    BY <1>6, <2>1, <2>2, <2>3, <2>4
  <2>6. InRoom /\ Len(tok') \in Nat
    BY <1>6, <1>12 DEF SessionsInv, ServerInv
  <2> QED BY <1>2, <1>7, <2>5, <2>6, RoomKept
<1>24. \A p \in Request :
          /\ req'[p].who = req[p].who /\ req'[p].tok = req[p].tok
          /\ Underway(p)' => Underway(p)
          /\ req'[p].pc = "free" => req[p].pc = "free"
  BY <1>8, <1>9 DEF Working, Underway
<1>25. ~GraceEligible(q)
  BY DEF RevokeFamily
<1>26. ASSUME Explained, ~spent.late
       PROVE  /\ spent.faults \in Nat /\ spent.faults >= Debt
              /\ WithinGrace(q) => Debt = 2
              /\ Debt \in {1, 2}
  <2>1. /\ req[q].tok = auth.held /\ Brought = 0 /\ LeftBehind \in {0, 1}
    BY <1>1, <1>26, OnlyOne
  <2>2. Debt \in {1, 2}
    BY <1>1, <2>1, DebtFacts
  <2>3. spent.faults \in Nat /\ spent.faults + Brought >= LeftBehind + Debt
    BY <1>2, <1>26 DEF SessionTypes, Explained
  <2>4. spent.faults >= Debt
    BY <2>1, <2>2, <2>3
  <2> QED BY <1>1, <1>25, <1>26, <2>2, <2>3, <2>4, SecondLoss
<1>27. ASSUME Explained, ~spent.late PROVE Explained'
  <2>1. PICK h \in 1..Len(tok) :
           /\ h = auth.held /\ h = req[q].tok /\ tok'[h] = tok[h]
           /\ ~Active(h)
    BY <1>1, <1>4, <1>6, <1>27, OnlyOne
  <2>2. /\ LeftBehind' = 0 /\ Brought' = 0
        /\ \A p \in Request : ~Working(p)'
        /\ \A p \in Request : p # q => req'[p].who = NoThread
    BY <1>1, <1>8, <1>9, <1>27, NoneAfter
  <2>3. tok[h].rev <= now /\ tok[h].rev <= clock /\ tok[h].rev \in Nat
    BY <1>1, <1>2, <1>5, <1>27, <2>1, TokFacts DEF Explained
  <2>4. Debt' \in {1, 2} /\ (Debt' = 2 => ~GraceOver(h)')
    <3>1. ~Active(h)' /\ auth'.held = h
      BY <1>7, <2>1 DEF Active
    <3> QED BY <3>1 DEF Debt, Losses
  <2>5. ASSUME ~GraceOver(h)' PROVE WithinGrace(q)
    <3>1. Grace # 0 /\ ~(clock > tok[h].rev + Grace)
      BY <1>7, <2>1, <2>2, <2>5 DEF GraceOver
    <3> QED BY <1>5, <1>12, <2>1, <2>3, <3>1, Numbers DEF WithinGrace
  <2>6. spent.faults >= Debt'
    BY <1>26, <1>27, <2>4, <2>5
  <2>7. spent'.faults + Brought' >= LeftBehind' + Debt'
    BY <1>7, <1>26, <1>27, <2>2, <2>4, <2>6
  <2>8. \A p \in Request : ~(/\ req'[p].who # NoThread /\ req'[p].pc = "answered"
                             /\ req'[p].answer # NoTok)
    BY <1>8, <1>9, <2>2
  <2>9. tok'[auth'.held].rev <= clock'
    BY <1>7, <2>1, <2>3
  <2> QED BY <2>2, <2>7, <2>8, <2>9 DEF Explained
<1>28. auth.held \in 1..Len(tok')
  BY <1>6 DEF SessionsInv, ClientInv
<1>29. ClientInv'
  BY <1>7, <1>24, <1>27, <1>28 DEF SessionsInv, ClientInv
<1>30. OneLossForgiven'
  <2> SUFFICES ASSUME spent.ops = 0, ~spent.late, NEW e \in ended'
               PROVE  spent.faults > IF e.grace THEN 1 ELSE 0
    BY <1>7 DEF OneLossForgiven
  <2>1. Explained
    BY DEF SessionsInv, ClientInv
  <2>2. CASE e \in ended
    BY <2>2 DEF SessionsInv, OneLossForgiven
  <2>3. CASE e.grace = WithinGrace(q)
    <3>1. spent.faults \in Nat /\ spent.faults >= 1
      BY <1>26, <2>1
    <3>2. WithinGrace(q) => spent.faults >= 2
      BY <1>26, <2>1
    <3> QED BY <2>3, <3>1, <3>2
  <2> QED BY <1>13, <2>2, <2>3
<1> QED BY <1>10, <1>11, <1>16, <1>17, <1>18, <1>19, <1>20, <1>21, <1>22,
           <1>23, <1>29, <1>30
    DEF SessionsInv, ServerInv

\* A step of /refresh.
LEMMA ServerStepSound ==
    ASSUME SessionsInv, NEW q \in Request, ServerStep(q)
    PROVE  SessionsInv'
BY BeginAttemptSound, LookupSound, ClaimSound, RotationsSound,
   SnapshotTokensSound, LockTokensSound, FollowLinksSound, RevokeFamilySound
DEF ServerStep

-----------------------------------------------------------------------------
(* What the other steps leave alone                                        *)

\* The table of tokens.
LEMMA TablesKept ==
    ASSUME SessionsInv, UNCHANGED <<clock, tok, ended, cut>>
    PROVE  Grows /\ Chained' /\ TailsAlive' /\ ListedSessionsEnd'
<1>1. Len(tok) \in Nat
  BY TokFacts DEF SessionsInv
<1>2. Grows
  BY <1>1 DEF Grows, Active
<1>3. Chained' /\ TailsAlive' /\ ListedSessionsEnd'
  BY DEF SessionsInv, ServerInv, Chained, TailsAlive, ListedSessionsEnd, Active
<1> QED BY <1>2, <1>3

\* The requests, while none of the rows they have locked changes.
LEMMA RequestsKept ==
    ASSUME SessionsInv, Grows, req' = req, clock' \in Nat, clock <= clock',
           \A q \in Request : \A i \in req[q].locks : tok'[i] = tok[i]
    PROVE  (\A q \in Request : Placed(q)') /\ LocksApart'
<1>1. SessionTypes /\ LocksApart
  BY DEF SessionsInv, ServerInv
<1>2. ASSUME NEW q \in Request PROVE Placed(q)'
  <2>1. Placed(q) /\ req'[q] = req[q]
    BY PlaceOf
  <2> QED BY <1>1, <2>1, PlacedKept
<1>3. LocksApart'
  BY <1>1 DEF LocksApart
<1> QED BY <1>2, <1>3

\* The operations on the account.
LEMMA OperationsKept ==
    ASSUME SessionsInv, Grows, UNCHANGED <<op, resets>>
    PROVE  (\A o \in Operator : Listing(o)') /\ Holding' /\ ResetsUsedOnce'
<1>1. SessionTypes /\ (\A o \in Operator : Listing(o)) /\ Holding
      /\ ResetsUsedOnce
  BY DEF SessionsInv, ServerInv
<1>2. Holding' /\ ResetsUsedOnce'
  BY <1>1 DEF Holding, ResetsUsedOnce
<1> QED BY <1>1, <1>2, ListingKept

\* The client and its account of losses.
LEMMA ClientKept ==
    ASSUME SessionsInv, UNCHANGED <<clock, tok, req, auth, ended>>,
           spent'.faults = spent.faults, spent'.late = spent.late,
           spent'.ops = 0 =>
               spent.ops = 0 /\ (\A o \in Operator : op'[o] = NoOp)
    PROVE  ClientInv' /\ OneLossForgiven'
<1>1. ClientInv /\ OneLossForgiven
  BY DEF SessionsInv
<1>2. Explained => Explained'
  <2>1. \A q \in Request : Working(q)' <=> Working(q)
    BY DEF Working
  <2>2. Brought' = Brought /\ LeftBehind' = LeftBehind
    BY DEF Brought, LeftBehind, Delivered, Abandoned
  <2>3. Debt' = Debt
    BY DEF Debt, Losses, GraceOver, Active, Working
  <2> QED BY <2>1, <2>2, <2>3 DEF Explained, Active, Working
<1>3. ClientInv'
  BY <1>1, <1>2 DEF ClientInv, Underway, Working
<1>4. OneLossForgiven'
  BY <1>1 DEF OneLossForgiven
<1> QED BY <1>3, <1>4

\* The room of a step that takes no more than there is.
LEMMA RoomTaken ==
    ASSUME SessionTypes, Room, UNCHANGED <<tok, budget>>,
           Cardinality(WorkingSet') + Cardinality(RefusedSet')
               + (IF login' THEN 1 ELSE 0)
           <= Cardinality(WorkingSet) + Cardinality(RefusedSet)
               + (IF login THEN 1 ELSE 0) + 1
    PROVE  InRoom'
<1>1. budget.toks \in Nat /\ Len(tok) \in Nat
  BY BudgetFacts, TokFacts, Zenon
<1>2. PICK m, n \in Nat : m = Reserved /\ n = Reserved'
  BY ReservedFacts, ReservedNext
<1>3. n <= m + 1
  <2>1. PICK w, f, k, v, g, j \in Nat :
           /\ w = Cardinality(WorkingSet) /\ f = Cardinality(RefusedSet)
           /\ k = IF login THEN 1 ELSE 0
           /\ v = Cardinality(WorkingSet') /\ g = Cardinality(RefusedSet')
           /\ j = IF login' THEN 1 ELSE 0
    BY ReservedFacts, ReservedNext
  <2>2. v + g + j <= w + f + k + 1 /\ m = w + f + k /\ n = v + g + j
    BY <1>2, <2>1, ReservedFacts, ReservedNext
  <2> QED BY <2>2
<1>4. Len(tok) + m < budget.toks
  BY <1>2 DEF Room
<1>5. Len(tok) + n <= budget.toks
  BY <1>1, <1>3, <1>4
<1> QED BY <1>2, <1>5 DEF InRoom

-----------------------------------------------------------------------------
(* Logins and operations on the account                                    *)

\* LoginVerify.
LEMMA LoginVerifySound ==
    ASSUME SessionsInv, LoginVerify
    PROVE  SessionsInv'
<1>1. /\ ~login /\ login' = TRUE /\ Room
      /\ UNCHANGED <<clock, tok, enabled, resets, req, op, auth, thread,
                     budget, spent, ended, cut>>
  BY DEF LoginVerify
<1>2. SessionTypes
  BY DEF SessionsInv
<1>3. SessionTypes'
  BY <1>1, <1>2 DEF SessionTypes
<1>4. Grows /\ Chained' /\ TailsAlive' /\ ListedSessionsEnd'
  BY <1>1, TablesKept
<1>5. (\A q \in Request : Placed(q)') /\ LocksApart'
  <2>1. clock' \in Nat /\ clock <= clock'
    BY <1>1, <1>2, Numbers DEF SessionTypes
  <2> QED BY <1>1, <1>4, <2>1, RequestsKept
<1>6. (\A o \in Operator : Listing(o)') /\ Holding' /\ ResetsUsedOnce'
  BY <1>1, <1>4, OperationsKept
<1>7. ClientInv' /\ OneLossForgiven'
  <2>1. spent.ops = 0 => \A o \in Operator : op[o] = NoOp
    BY DEF SessionsInv, ClientInv
  <2> QED BY <1>1, <2>1, ClientKept
<1>8. InRoom'
  <2>1. WorkingSet' = WorkingSet /\ RefusedSet' = RefusedSet
    BY <1>1 DEF WorkingSet, RefusedSet
  <2>2. Cardinality(WorkingSet) \in Nat /\ Cardinality(RefusedSet) \in Nat
    BY ReservedFacts
  <2>3. Cardinality(WorkingSet') + Cardinality(RefusedSet')
            + (IF login' THEN 1 ELSE 0)
        <= Cardinality(WorkingSet) + Cardinality(RefusedSet)
            + (IF login THEN 1 ELSE 0) + 1
    BY <1>1, <2>1, <2>2
  <2> QED BY <1>1, <1>2, <2>3, RoomTaken
<1> QED BY <1>3, <1>4, <1>5, <1>6, <1>7, <1>8 DEF SessionsInv, ServerInv

\* LoginCommit.
LEMMA LoginCommitSound ==
    ASSUME SessionsInv, LoginCommit
    PROVE  SessionsInv'
<1>1. /\ login /\ login' = FALSE
      /\ tok' = Append(tok, NewToken(clock, Len(tok) + 1))
      /\ UNCHANGED <<clock, enabled, resets, req, op, auth, thread, budget,
                     spent, ended, cut>>
  BY DEF LoginCommit
<1>2. SessionTypes /\ Chained /\ TailsAlive /\ InRoom /\ ClientInv
  BY DEF SessionsInv, ServerInv
<1>3. Len(tok) \in Nat /\ clock \in Nat /\ clock \in 0..MaxTime
  BY <1>2, TokFacts, Numbers DEF SessionTypes
<1>4. Len(tok) + 1 <= MaxTok
  <2>1. Reserved \in Nat /\ Reserved >= 1
    BY <1>1, ReservedFacts
  <2>2. Len(tok) + Reserved <= budget.toks /\ budget.toks \in 1..MaxTok
    BY <1>2, SessionAssumption DEF InRoom, SessionTypes
  <2> QED BY <1>3, <2>1, <2>2, Numbers
<1>5. /\ tok' \in Seq(Token) /\ Len(tok') = Len(tok) + 1
      /\ \A i \in 1..Len(tok) : tok'[i] = tok[i]
  <2>1. tok \in Seq(Token) /\ Len(tok) + 1 \in 1..MaxTok
    BY <1>2, <1>3, <1>4, Numbers DEF SessionTypes
  <2> QED BY <1>1, <1>3, <2>1, InsertedFacts
<1>6. SessionTypes'
  BY <1>1, <1>2, <1>5 DEF SessionTypes
<1>7. Chained' /\ TailsAlive'
  BY <1>1, <1>2, <1>4, InsertedChained
<1>8. Grows
  BY <1>3, <1>5 DEF Grows, Active
<1>9. (\A q \in Request : Placed(q)') /\ LocksApart'
  <2>1. clock' \in Nat /\ clock <= clock'
    BY <1>1, <1>3
  <2>2. \A q \in Request : \A i \in req[q].locks : tok'[i] = tok[i]
    BY <1>5, PlaceOf
  <2> QED BY <1>1, <1>8, <2>1, <2>2, RequestsKept
<1>10. (\A o \in Operator : Listing(o)') /\ Holding' /\ ResetsUsedOnce'
  BY <1>1, <1>8, OperationsKept
<1>11. ListedSessionsEnd'
  BY <1>1, <1>2, <1>8, EndedKept DEF SessionsInv, ServerInv, TailsAlive
<1>12. InRoom'
  <2>1. WorkingSet' = WorkingSet /\ RefusedSet' = RefusedSet
    BY <1>1 DEF WorkingSet, RefusedSet
  <2>2. Cardinality(WorkingSet) \in Nat /\ Cardinality(RefusedSet) \in Nat
    BY ReservedFacts
  <2>3. Len(tok') + Cardinality(WorkingSet') + Cardinality(RefusedSet')
            + (IF login' THEN 1 ELSE 0)
        <= Len(tok) + Cardinality(WorkingSet) + Cardinality(RefusedSet)
            + (IF login THEN 1 ELSE 0)
    BY <1>1, <1>3, <1>5, <2>1, <2>2
  <2> QED BY <1>1, <1>2, <1>3, <1>5, <2>3, RoomKept
<1>13. Explained => Explained'
  <2>1. PICK h \in 1..Len(tok) : h = auth.held /\ h = auth'.held
    BY <1>1, <1>2 DEF ClientInv
  <2>2. /\ tok'[h] = tok[h]
        /\ tok[h].next # NoTok => /\ tok[h].next \in 1..Len(tok)
                                  /\ tok'[tok[h].next] = tok[tok[h].next]
    BY <1>2, <1>5, TokFacts DEF Chained
  <2>3. Brought' = Brought /\ LeftBehind' = LeftBehind
    BY <1>1 DEF Brought, LeftBehind, Delivered, Abandoned
  <2>4. GraceOver(h)' <=> GraceOver(h)
    BY <1>1, <2>2 DEF GraceOver, Working
  <2>5. Losses(h)' = Losses(h) /\ (Active(h)' <=> Active(h))
    BY <2>2 DEF Losses, Active
  <2>6. Debt' = Debt
    BY <2>1, <2>4, <2>5 DEF Debt
  <2>7. \A q \in Request : req[q].answer # NoTok =>
           (Active(req[q].answer) => tok'[req[q].answer].rev = Never)
    BY <1>5, PlaceOf, Numbers DEF Active
  <2>8. \A q \in Request : (Working(q)' <=> Working(q)) /\ req'[q] = req[q]
    BY <1>1 DEF Working
  <2> QED BY <1>1, <2>1, <2>2, <2>3, <2>5, <2>6, <2>7, <2>8
      DEF Explained, Active
<1>14. ClientInv'
  <2>1. auth'.held \in 1..Len(tok')
    BY <1>1, <1>2, <1>3, <1>5 DEF ClientInv
  <2>2. \A q \in Request : (Underway(q)' <=> Underway(q)) /\ req'[q] = req[q]
    BY <1>1 DEF Working, Underway
  <2> QED BY <1>1, <1>2, <1>13, <2>1, <2>2 DEF ClientInv
<1>15. OneLossForgiven'
  BY <1>1 DEF SessionsInv, OneLossForgiven
<1> QED BY <1>6, <1>7, <1>9, <1>10, <1>11, <1>12, <1>14, <1>15
    DEF SessionsInv, ServerInv

\* A step that leaves the tokens, the requests and the client alone.
LEMMA AccountStep ==
    ASSUME SessionsInv, SessionTypes',
           UNCHANGED <<tok, cut, clock, req, login, auth, thread, budget, ended>>,
           (\A o \in Operator : Listing(o)') /\ Holding' /\ ResetsUsedOnce',
           spent'.faults = spent.faults, spent'.late = spent.late,
           spent'.ops = 0 =>
               spent.ops = 0 /\ (\A o \in Operator : op'[o] = NoOp)
    PROVE  SessionsInv'
<1>1. SessionTypes
  BY DEF SessionsInv
<1>2. Grows /\ Chained' /\ TailsAlive' /\ ListedSessionsEnd'
  BY TablesKept
<1>3. (\A q \in Request : Placed(q)') /\ LocksApart'
  <2>1. clock' \in Nat /\ clock <= clock'
    BY <1>1, Numbers DEF SessionTypes
  <2> QED BY <1>2, <2>1, RequestsKept
<1>4. ClientInv' /\ OneLossForgiven'
  BY ClientKept
<1>5. InRoom'
  BY DEF SessionsInv, ServerInv, InRoom, Reserved
<1> QED BY <1>2, <1>3, <1>4, <1>5 DEF SessionsInv, ServerInv

\* Activate.
LEMMA ActivateSound ==
    ASSUME SessionsInv, Activate
    PROVE  SessionsInv'
<1>1. /\ enabled' = TRUE
      /\ UNCHANGED <<tok, resets, op, spent, cut, clock, req, login, auth, thread,
                     budget, ended>>
  BY DEF Activate, notAccount
<1>2. SessionTypes /\ ClientInv
  BY DEF SessionsInv
<1>3. SessionTypes'
  BY <1>1, <1>2 DEF SessionTypes
<1>4. Grows
  BY <1>1, TablesKept
<1>5. (\A o \in Operator : Listing(o)') /\ Holding' /\ ResetsUsedOnce'
  BY <1>1, <1>4, OperationsKept
<1>6. spent'.ops = 0 => spent.ops = 0 /\ (\A o \in Operator : op'[o] = NoOp)
  BY <1>1, <1>2 DEF ClientInv
<1> QED BY <1>1, <1>3, <1>5, <1>6, AccountStep

\* An operation is counted.
LEMMA CountOpFacts ==
    ASSUME SessionTypes, CountOp
    PROVE  /\ spent' \in [faults: Nat, ops: Nat, late: BOOLEAN]
           /\ spent'.faults = spent.faults /\ spent'.late = spent.late
           /\ spent'.ops # 0
<1>1. spent \in [faults: Nat, ops: Nat, late: BOOLEAN]
  BY DEF SessionTypes
<1>2. spent' = [spent EXCEPT !.ops = @ + 1]
  BY DEF CountOp
<1> QED BY <1>1, <1>2

\* The rows of password_reset_tokens.
LEMMA ResetFacts ==
    ASSUME SessionTypes
    PROVE  /\ Len(resets) \in Nat /\ DOMAIN resets = 1..Len(resets)
           /\ \A r \in 1..Len(resets) :
                 /\ resets[r] \in [used: BOOLEAN, uses: Nat, exp: Nat]
                 /\ resets[r].uses \in Nat
<1>1. resets \in Seq([used: BOOLEAN, uses: Nat, exp: Nat])
  BY DEF SessionTypes
<1>2. Len(resets) \in Nat /\ DOMAIN resets = 1..Len(resets)
  BY <1>1, LenProperties
<1>3. \A r \in 1..Len(resets) : resets[r] \in [used: BOOLEAN, uses: Nat, exp: Nat]
  BY <1>1, ElementOfSeq
<1> QED BY <1>2, <1>3

\* The operation before its first step.
LEMMA NoOpFacts ==
    /\ NoOp \in Operation /\ NoOp.pc = "free" /\ NoOp.kind = "none"
    /\ NoOp.seen = {} /\ NoOp.upto = 0 /\ NoOp.reset = 0
BY Numbers DEF NoOp, Operation

\* ReadSessions.
LEMMA ReadSessionsSound ==
    ASSUME SessionsInv, NEW o \in Operator,
           NEW kind \in {"change", "deactivate", "confirm"},
           NEW r \in 0..Len(resets), ReadSessions(o, kind, r)
    PROVE  SessionsInv'
<1>1. /\ op[o] = NoOp /\ CountOp
      /\ kind = "confirm" => r \in DOMAIN resets /\ ~ResetHeld(r) /\ Usable(r)
      /\ UNCHANGED <<tok, enabled, resets, cut, clock, req, login, auth, thread,
                     budget, ended>>
  BY DEF ReadSessions, notAccount
<1>2. /\ SessionTypes /\ Holding /\ ResetsUsedOnce
      /\ \A p \in Operator : Listing(p)
  BY DEF SessionsInv, ServerInv
<1>3. Len(tok) \in Nat /\ DOMAIN tok = 1..Len(tok) /\ clock \in 0..MaxTime
  BY <1>2, TokFacts DEF SessionTypes
<1> DEFINE S == {i \in DOMAIN tok : Active(i)}
           k == IF kind = "confirm" THEN r ELSE 0
           me == [pc |-> "read", kind |-> kind, reset |-> k, seen |-> S,
                  upto |-> Len(tok), now |-> clock]
<1>4. op \in [Operator -> Operation] /\ op' = [op EXCEPT ![o] = me]
  BY <1>2 DEF ReadSessions, SessionTypes
<1>5. k \in Nat /\ S \in SUBSET (1..Len(tok)) /\ S \in SUBSET Nat
      /\ (kind = "confirm" => k = r)
  BY <1>2, <1>3, ResetFacts
<1>6. \A i \in 1..Len(tok) : i \in S \/ ~Active(i)
  BY <1>3
<1> HIDE DEF S, k
<1>7. /\ me \in Operation
      /\ me.pc = "read" /\ me.kind = kind /\ me.reset = k /\ me.seen = S
      /\ me.upto = Len(tok)
  BY <1>3, <1>5 DEF Operation
<1> HIDE DEF me
<1>8. /\ op' \in [Operator -> Operation] /\ op'[o] = me
      /\ \A p \in Operator : p # o => op'[p] = op[p]
  BY <1>4, <1>7
<1>9. /\ spent' \in [faults: Nat, ops: Nat, late: BOOLEAN]
      /\ spent'.faults = spent.faults /\ spent'.late = spent.late
      /\ spent'.ops # 0
  BY <1>1, <1>2, CountOpFacts
<1>10. SessionTypes'
  BY <1>1, <1>2, <1>8, <1>9 DEF SessionTypes
<1>11. Grows
  BY <1>1, TablesKept
<1>12. \A p \in Operator : Listing(p)'
  <2>1. \A p \in Operator : p # o => Listing(p)'
    BY <1>2, <1>8, <1>11, ListingKept
  <2>2. Listing(o)'
    <3>1. /\ op'[o].pc = "read" /\ op'[o].upto = Len(tok) /\ op'[o].seen = S
          /\ tok' = tok
      BY <1>1, <1>7, <1>8
    <3>2. \A i \in 1..op'[o].upto : i \in op'[o].seen \/ ~(tok'[i].rev = Never)
      BY <1>6, <3>1 DEF Active
    <3>3. op'[o].upto <= Len(tok') /\ op'[o].seen \subseteq 1..op'[o].upto
      BY <1>3, <1>5, <3>1
    <3> QED BY <3>1, <3>2, <3>3 DEF Listing, Active
  <2> QED BY <2>1, <2>2
<1>13. Holding'
  <2>1. kind = "confirm" =>
           /\ r \in 1..Len(resets) /\ ~resets[r].used
           /\ \A p \in Operator : op[p].kind = "confirm" => op[p].reset # r
    BY <1>1, <1>2, ResetFacts DEF Usable, ResetHeld
  <2>2. op'[o].kind = kind /\ (kind = "confirm" => op'[o].reset = r)
    BY <1>5, <1>7, <1>8
  <2> SUFFICES ASSUME NEW a \in Operator, op'[a].kind = "confirm"
               PROVE  /\ op'[a].reset \in 1..Len(resets)
                      /\ ~resets[op'[a].reset].used
                      /\ \A p \in Operator : op'[p].kind = "confirm" /\ p # a =>
                            op'[p].reset # op'[a].reset
    BY <1>1 DEF Holding
  <2>3. CASE a = o
    BY <1>8, <2>1, <2>2, <2>3
  <2>4. CASE a # o
    <3>1. op'[a] = op[a]
      BY <1>8, <2>4
    <3>2. /\ op[a].reset \in 1..Len(resets) /\ ~resets[op[a].reset].used
          /\ \A p \in Operator : op[p].kind = "confirm" /\ p # a =>
                op[p].reset # op[a].reset
      BY <1>2, <3>1 DEF Holding
    <3>3. kind = "confirm" => op[a].reset # r
      BY <2>1, <3>1
    <3>4. \A p \in Operator : op'[p].kind = "confirm" /\ p # a =>
             op'[p].reset # op[a].reset
      BY <1>8, <2>2, <3>2, <3>3
    <3> QED BY <3>1, <3>2, <3>4
  <2> QED BY <2>3, <2>4
<1>14. ResetsUsedOnce'
  BY <1>1, <1>2 DEF ResetsUsedOnce
<1> QED BY <1>1, <1>9, <1>10, <1>12, <1>13, <1>14, AccountStep

\* ReadResets.
LEMMA ReadResetsSound ==
    ASSUME SessionsInv, NEW o \in Operator, ReadResets(o)
    PROVE  SessionsInv'
<1>1. /\ op[o] = NoOp /\ CountOp
      /\ UNCHANGED <<tok, enabled, resets, cut, clock, req, login, auth, thread,
                     budget, ended>>
  BY DEF ReadResets, notAccount
<1>2. /\ SessionTypes /\ Holding /\ ResetsUsedOnce
      /\ \A p \in Operator : Listing(p)
  BY DEF SessionsInv, ServerInv
<1> DEFINE S == {r \in DOMAIN resets : ~resets[r].used}
           me == [NoOp EXCEPT !.pc = "read", !.kind = "request", !.now = clock,
                              !.seen = S]
<1>3. op \in [Operator -> Operation] /\ op' = [op EXCEPT ![o] = me]
  BY <1>2 DEF ReadResets, SessionTypes
<1>4. S \in SUBSET Nat /\ clock \in 0..MaxTime
  BY <1>2, ResetFacts DEF SessionTypes
<1> HIDE DEF S
<1>5. /\ me \in Operation
      /\ me.pc = "read" /\ me.kind = "request" /\ me.reset = 0
  BY <1>4 DEF NoOp, Operation
<1> HIDE DEF me
<1>6. /\ op' \in [Operator -> Operation] /\ op'[o] = me
      /\ \A p \in Operator : p # o => op'[p] = op[p]
  BY <1>3, <1>5
<1>7. /\ spent' \in [faults: Nat, ops: Nat, late: BOOLEAN]
      /\ spent'.faults = spent.faults /\ spent'.late = spent.late
      /\ spent'.ops # 0
  BY <1>1, <1>2, CountOpFacts
<1>8. SessionTypes'
  BY <1>1, <1>2, <1>6, <1>7 DEF SessionTypes
<1>9. Grows
  BY <1>1, TablesKept
<1>10. \A p \in Operator : Listing(p)'
  <2>1. \A p \in Operator : p # o => Listing(p)'
    BY <1>2, <1>6, <1>9, ListingKept
  <2>2. Listing(o)'
    BY <1>5, <1>6 DEF Listing
  <2> QED BY <2>1, <2>2
<1>11. Holding'
  BY <1>1, <1>2, <1>5, <1>6 DEF Holding
<1>12. ResetsUsedOnce'
  BY <1>1, <1>2 DEF ResetsUsedOnce
<1> QED BY <1>1, <1>7, <1>8, <1>10, <1>11, <1>12, AccountStep

\* IssueReset.
LEMMA IssueResetSound ==
    ASSUME SessionsInv, NEW o \in Operator, IssueReset(o)
    PROVE  SessionsInv'
<1>1. /\ op[o].pc = "read" /\ op[o].kind = "request"
      /\ \A r \in op[o].seen : ~ResetHeld(r)
      /\ op' = [op EXCEPT ![o] = NoOp]
      /\ UNCHANGED <<tok, enabled, spent, cut, clock, req, login, auth, thread,
                     budget, ended>>
  BY DEF IssueReset, notAccount
<1>2. /\ SessionTypes /\ Holding /\ ResetsUsedOnce
      /\ \A p \in Operator : Listing(p)
  BY DEF SessionsInv, ServerInv
<1>3. op \in [Operator -> Operation] /\ op[o] \in Operation
  BY <1>2 DEF SessionTypes
<1>4. /\ op' \in [Operator -> Operation] /\ op'[o] = NoOp
      /\ \A p \in Operator : p # o => op'[p] = op[p]
  BY <1>1, <1>3, NoOpFacts
<1> DEFINE ResetRow == [used: BOOLEAN, uses: Nat, exp: Nat]
           marked == [r \in DOMAIN resets |->
                         [resets[r] EXCEPT !.used = @ \/ r \in op[o].seen]]
           new == [used |-> FALSE, uses |-> 0, exp |-> op[o].now + ResetLife]
<1>5. resets' = Append(marked, new)
  BY DEF IssueReset
<1>6. new \in ResetRow /\ new.uses = 0
  <2>1. op[o].now \in 0..MaxTime
    BY <1>3 DEF Operation
  <2> QED BY <2>1, Numbers
<1>7. /\ marked \in Seq(ResetRow) /\ Len(marked) = Len(resets)
      /\ \A r \in 1..Len(resets) :
            /\ marked[r].uses = resets[r].uses
            /\ resets[r].used => marked[r].used
            /\ ~resets[r].used /\ r \notin op[o].seen => ~marked[r].used
  <2>1. Len(resets) \in Nat /\ DOMAIN resets = 1..Len(resets)
        /\ \A r \in 1..Len(resets) : resets[r] \in ResetRow
    BY <1>2, ResetFacts
  <2>2. ASSUME NEW r \in 1..Len(resets)
        PROVE  /\ marked[r] \in ResetRow /\ marked[r].uses = resets[r].uses
               /\ resets[r].used => marked[r].used
               /\ ~resets[r].used /\ r \notin op[o].seen => ~marked[r].used
    <3>1. marked[r] = [resets[r] EXCEPT
                          !.used = resets[r].used \/ r \in op[o].seen]
      BY <2>1
    <3>2. resets[r] \in ResetRow
      BY <2>1
    <3>3. PICK b \in BOOLEAN : b = (resets[r].used \/ r \in op[o].seen)
      OBVIOUS
    <3>4. marked[r] = [resets[r] EXCEPT !.used = b]
      BY <3>1, <3>3
    <3> HIDE DEF marked
    <3>5. marked[r] \in ResetRow /\ marked[r].uses = resets[r].uses
          /\ marked[r].used = b
      BY <3>2, <3>4
    <3> QED BY <3>3, <3>5
  <2>3. marked \in [1..Len(resets) -> ResetRow]
    <3>1. marked = [r \in 1..Len(resets) |->
                       [resets[r] EXCEPT !.used = @ \/ r \in op[o].seen]]
      BY <2>1
    <3> QED BY <2>2, <3>1
  <2> HIDE DEF marked, ResetRow
  <2>4. marked \in Seq(ResetRow) /\ Len(marked) = Len(resets)
    BY <2>1, <2>3, IsASeq, LenProperties
  <2> QED BY <2>2, <2>4
<1> HIDE DEF marked, new
<1>8. /\ resets' \in Seq(ResetRow) /\ Len(resets') = Len(resets) + 1
      /\ \A r \in 1..Len(resets) : resets'[r] = marked[r]
      /\ resets'[Len(resets) + 1] = new
  <2> HIDE DEF ResetRow
  <2> QED BY <1>5, <1>6, <1>7, AppendProperties
<1>9. SessionTypes'
  BY <1>1, <1>2, <1>4, <1>8 DEF SessionTypes
<1>10. Grows
  BY <1>1, TablesKept
<1>11. \A p \in Operator : Listing(p)'
  <2>1. \A p \in Operator : p # o => Listing(p)'
    BY <1>2, <1>4, <1>10, ListingKept
  <2>2. Listing(o)'
    BY <1>4, NoOpFacts DEF Listing
  <2> QED BY <2>1, <2>2
<1>12. Len(resets) \in Nat
  BY <1>2, ResetFacts
<1>13. Holding'
  <2> SUFFICES ASSUME NEW a \in Operator, op'[a].kind = "confirm"
               PROVE  /\ op'[a].reset \in 1..Len(resets')
                      /\ ~resets'[op'[a].reset].used
                      /\ \A p \in Operator : op'[p].kind = "confirm" /\ p # a =>
                            op'[p].reset # op'[a].reset
    BY DEF Holding
  <2>1. a # o /\ op'[a] = op[a]
    BY <1>4, NoOpFacts
  <2>2. /\ op[a].reset \in 1..Len(resets) /\ ~resets[op[a].reset].used
        /\ \A p \in Operator : op[p].kind = "confirm" /\ p # a =>
              op[p].reset # op[a].reset
    BY <1>2, <2>1 DEF Holding
  <2>3. op[a].reset \notin op[o].seen
    BY <1>1, <2>1 DEF ResetHeld
  <2>4. ~resets'[op[a].reset].used
    BY <1>7, <1>8, <2>2, <2>3
  <2>5. op[a].reset \in 1..Len(resets')
    BY <1>8, <1>12, <2>2
  <2>6. \A p \in Operator : op'[p].kind = "confirm" /\ p # a =>
           op'[p].reset # op[a].reset
    BY <1>4, <2>2, NoOpFacts
  <2> QED BY <2>1, <2>4, <2>5, <2>6
<1>14. ResetsUsedOnce'
  <2> SUFFICES ASSUME NEW r \in 1..Len(resets')
               PROVE  resets'[r].uses <= 1
                      /\ (~resets'[r].used => resets'[r].uses = 0)
    BY DEF ResetsUsedOnce
  <2>1. CASE r \in 1..Len(resets)
    <3>1. /\ resets[r].uses <= 1 /\ (~resets[r].used => resets[r].uses = 0)
      BY <1>2, <2>1 DEF ResetsUsedOnce
    <3>2. /\ resets'[r].uses = resets[r].uses
          /\ resets[r].used => resets'[r].used
      BY <1>7, <1>8, <2>1
    <3> QED BY <3>1, <3>2
  <2>2. CASE r = Len(resets) + 1
    BY <1>6, <1>8, <2>2
  <2> QED BY <1>8, <1>12, <2>1, <2>2
<1>15. spent.ops # 0
  BY <1>1, NoOpFacts DEF SessionsInv, ClientInv
<1> QED BY <1>1, <1>9, <1>11, <1>13, <1>14, <1>15, AccountStep

\* The reset token that a confirmed operation uses.
LEMMA UsedFacts ==
    ASSUME SessionTypes, NEW k \in 1..Len(resets),
           resets' = [resets EXCEPT ![k].used = TRUE, ![k].uses = @ + 1]
    PROVE  /\ resets' \in Seq([used: BOOLEAN, uses: Nat, exp: Nat])
           /\ Len(resets') = Len(resets)
           /\ resets'[k].used /\ resets'[k].uses = resets[k].uses + 1
           /\ \A r \in 1..Len(resets) : r # k => resets'[r] = resets[r]
<1> DEFINE ResetRow == [used: BOOLEAN, uses: Nat, exp: Nat]
           row == [resets[k] EXCEPT !.used = TRUE, !.uses = @ + 1]
<1>1. /\ resets \in Seq(ResetRow) /\ resets[k] \in ResetRow
      /\ Len(resets) \in Nat /\ DOMAIN resets = 1..Len(resets)
  BY ResetFacts DEF SessionTypes
<1>2. row \in ResetRow /\ row.used = TRUE /\ row.uses = resets[k].uses + 1
  <2>1. resets[k] \in ResetRow
    BY <1>1
  <2>2. /\ resets[k].uses \in Nat /\ resets[k].exp \in Nat
        /\ resets[k] = [used |-> resets[k].used, uses |-> resets[k].uses,
                        exp |-> resets[k].exp]
    BY <2>1
  <2>3. row = [used |-> TRUE, uses |-> resets[k].uses + 1,
               exp |-> resets[k].exp]
    BY <2>1
  <2>4. row.used = TRUE /\ row.uses = resets[k].uses + 1
    BY <2>3
  <2>5. resets[k].uses + 1 \in Nat
    BY <2>2
  <2>6. row \in ResetRow
    BY <2>2, <2>3, <2>5, Zenon
  <2> QED BY <2>4, <2>6
<1>3. resets' = [resets EXCEPT ![k] = row]
  BY <1>1
<1> HIDE DEF row, ResetRow
<1>4. /\ resets' \in Seq(ResetRow) /\ Len(resets') = Len(resets)
      /\ resets'[k] = row
      /\ \A r \in 1..Len(resets) : r # k => resets'[r] = resets[r]
  <2> DEFINE s == [resets EXCEPT ![k] = row]
  <2>1. /\ s \in Seq(ResetRow) /\ Len(s) = Len(resets) /\ s[k] = row
        /\ \A r \in 1..Len(resets) : r # k => s[r] = resets[r]
    BY <1>1, <1>2, ExceptSeq
  <2> HIDE DEF s
  <2> QED BY <1>3, <2>1 DEF s
<1> QED BY <1>2, <1>4 DEF ResetRow

\* EndSessions.
LEMMA EndSessionsSound ==
    ASSUME SessionsInv, NEW o \in Operator, EndSessions(o)
    PROVE  SessionsInv'
<1>1. /\ op[o].pc = "read" /\ op[o].kind # "request"
      /\ op[o].seen \cap UNION {req[q].locks : q \in Request} = {}
      /\ tok' = [i \in DOMAIN tok |->
                    IF i \in op[o].seen THEN [tok[i] EXCEPT !.rev = op[o].now]
                    ELSE tok[i]]
      /\ op' = [op EXCEPT ![o] = NoOp]
      /\ UNCHANGED <<spent, clock, req, login, auth, thread, budget, ended>>
  BY DEF EndSessions, notAccount
<1>2. /\ enabled' \in BOOLEAN
      /\ cut' = [read |-> IF op[o].upto > cut.read THEN op[o].upto ELSE cut.read,
                 commit |-> Len(tok)]
      /\ IF op[o].kind = "confirm"
         THEN resets' = [resets EXCEPT ![op[o].reset].used = TRUE,
                                       ![op[o].reset].uses = @ + 1]
         ELSE resets' = resets
  <2>1. enabled' = (enabled /\ op[o].kind # "deactivate")
    BY DEF EndSessions
  <2>2. enabled' \in BOOLEAN
    BY <2>1
  <2> QED BY <2>2 DEF EndSessions
<1>3. /\ SessionTypes /\ Chained /\ TailsAlive /\ Holding /\ ResetsUsedOnce
      /\ ListedSessionsEnd /\ ClientInv
      /\ \A p \in Operator : Listing(p)
  BY DEF SessionsInv, ServerInv
<1>4. op \in [Operator -> Operation] /\ op[o] \in Operation
  BY <1>3 DEF SessionTypes
<1>5. PICK S, now, upto :
         /\ S = op[o].seen /\ now = op[o].now /\ upto = op[o].upto
         /\ now \in 0..MaxTime /\ upto \in Nat /\ upto <= Len(tok)
         /\ S \subseteq 1..upto
         /\ \A i \in 1..upto : i \in S \/ ~Active(i)
  BY <1>1, <1>3, <1>4 DEF Operation, Listing
<1>6. tok' = [i \in DOMAIN tok |->
                 IF i \in S THEN [tok[i] EXCEPT !.rev = now] ELSE tok[i]]
  BY <1>1, <1>5
<1>7. /\ tok' \in Seq(Token) /\ Len(tok') = Len(tok)
      /\ \A i \in 1..Len(tok) :
            /\ tok'[i].root = tok[i].root /\ tok'[i].next = tok[i].next
            /\ tok'[i].issued = tok[i].issued
            /\ tok'[i].rev = IF i \in S THEN now ELSE tok[i].rev
            /\ i \notin S => tok'[i] = tok[i]
  <2>1. tok \in Seq(Token) /\ now \in 0..MaxTime
    BY <1>3, <1>5 DEF SessionTypes
  <2> QED BY <1>6, <2>1, RevokedFacts DEF RevokesOnly
<1>8. Chained'
  BY <1>1, <1>3, <1>5, <1>6, RevokedChained
<1>9. Len(tok) \in Nat /\ clock \in Nat /\ cut.read \in Nat
  BY <1>3, TokFacts, Numbers DEF SessionTypes
<1>10. Grows
  <2>1. \A i \in 1..Len(tok) : ~Active(i) => ~Active(i)'
    BY <1>5, <1>7, Numbers DEF Active
  <2> QED BY <1>7, <1>9, <2>1 DEF Grows
<1>11. /\ cut' \in [read: Nat, commit: Nat]
       /\ cut'.read >= upto /\ cut'.read >= cut.read
       /\ cut'.read = upto \/ cut'.read = cut.read
  BY <1>2, <1>5, <1>9
<1>12. /\ op' \in [Operator -> Operation] /\ op'[o] = NoOp
       /\ \A p \in Operator : p # o => op'[p] = op[p]
  BY <1>1, <1>4, NoOpFacts
<1>13. op[o].kind = "confirm" => op[o].reset \in 1..Len(resets)
  BY <1>3 DEF Holding
<1>14. /\ resets' \in Seq([used: BOOLEAN, uses: Nat, exp: Nat])
       /\ Len(resets') = Len(resets)
       /\ \A r \in 1..Len(resets) :
             \/ resets'[r] = resets[r]
             \/ /\ op[o].kind = "confirm" /\ r = op[o].reset
                /\ resets'[r].used /\ resets'[r].uses = resets[r].uses + 1
  <2>1. CASE op[o].kind = "confirm"
    <3>1. PICK k \in 1..Len(resets) : k = op[o].reset
      BY <1>13, <2>1
    <3>2. resets' = [resets EXCEPT ![k].used = TRUE, ![k].uses = @ + 1]
      BY <1>2, <2>1, <3>1
    <3>3. /\ resets' \in Seq([used: BOOLEAN, uses: Nat, exp: Nat])
          /\ Len(resets') = Len(resets)
          /\ resets'[k].used /\ resets'[k].uses = resets[k].uses + 1
          /\ \A r \in 1..Len(resets) : r # k => resets'[r] = resets[r]
      BY <1>3, <3>2, UsedFacts
    <3> QED BY <2>1, <3>1, <3>3
  <2>2. CASE op[o].kind # "confirm"
    BY <1>2, <1>3, <2>2 DEF SessionTypes
  <2> QED BY <2>1, <2>2
<1>15. SessionTypes'
  BY <1>1, <1>2, <1>3, <1>7, <1>11, <1>12, <1>14 DEF SessionTypes
<1>16. TailsAlive'
  <2>1. cut'.read <= Len(tok') /\ \A e \in ended' : e.root \in 1..Len(tok')
    BY <1>1, <1>3, <1>5, <1>7, <1>11 DEF TailsAlive
  <2>2. ASSUME NEW i \in 1..Len(tok), NEW e \in ended', e.root = tok'[i].root
        PROVE  ~Active(i)'
    BY <1>1, <1>3, <1>7, <1>10, <2>2 DEF TailsAlive, Grows
  <2>3. ASSUME NEW i \in 1..Len(tok), tok'[i].next = NoTok, i > cut'.read
        PROVE  Active(i)' \/ \E e \in ended' : e.root = tok'[i].root
    <3>1. i \notin S /\ i > cut.read
      BY <1>5, <1>9, <1>11, <2>3
    <3>2. tok'[i] = tok[i] /\ tok[i].next = NoTok
      BY <1>7, <2>3, <3>1
    <3>3. Active(i) \/ \E e \in ended : e.root = tok[i].root
      BY <1>3, <3>1, <3>2 DEF TailsAlive
    <3> QED BY <1>1, <3>2, <3>3 DEF Active
  <2> QED BY <1>7, <2>1, <2>2, <2>3 DEF TailsAlive
<1>17. (\A q \in Request : Placed(q)') /\ LocksApart'
  <2>1. clock' \in Nat /\ clock <= clock'
    BY <1>1, <1>9
  <2>2. ASSUME NEW q \in Request, NEW i \in req[q].locks
        PROVE  tok'[i] = tok[i]
    <3>1. i \notin S /\ i \in 1..Len(tok)
      BY <1>1, <1>5, PlaceOf
    <3> QED BY <1>7, <3>1
  <2> QED BY <1>1, <1>10, <2>1, <2>2, RequestsKept
<1>18. \A p \in Operator : Listing(p)'
  <2>1. \A p \in Operator : p # o => Listing(p)'
    BY <1>3, <1>10, <1>12, ListingKept
  <2>2. Listing(o)'
    BY <1>12, NoOpFacts DEF Listing
  <2> QED BY <2>1, <2>2
<1>19. Holding'
  <2> SUFFICES ASSUME NEW a \in Operator, op'[a].kind = "confirm"
               PROVE  /\ op'[a].reset \in 1..Len(resets')
                      /\ ~resets'[op'[a].reset].used
                      /\ \A p \in Operator : op'[p].kind = "confirm" /\ p # a =>
                            op'[p].reset # op'[a].reset
    BY DEF Holding
  <2>1. a # o /\ op'[a] = op[a]
    BY <1>12, NoOpFacts
  <2>2. /\ op[a].reset \in 1..Len(resets) /\ ~resets[op[a].reset].used
        /\ \A p \in Operator : op[p].kind = "confirm" /\ p # a =>
              op[p].reset # op[a].reset
    BY <1>3, <2>1 DEF Holding
  <2>3. resets'[op[a].reset] = resets[op[a].reset]
    BY <1>14, <2>1, <2>2
  <2>4. \A p \in Operator : op'[p].kind = "confirm" /\ p # a =>
           op'[p].reset # op[a].reset
    BY <1>12, <2>2, NoOpFacts
  <2> QED BY <1>14, <2>1, <2>2, <2>3, <2>4
<1>20. ResetsUsedOnce'
  <2> SUFFICES ASSUME NEW r \in 1..Len(resets)
               PROVE  resets'[r].uses <= 1
                      /\ (~resets'[r].used => resets'[r].uses = 0)
    BY <1>14 DEF ResetsUsedOnce
  <2>1. resets[r].uses <= 1 /\ (~resets[r].used => resets[r].uses = 0)
    BY <1>3 DEF ResetsUsedOnce
  <2>2. CASE resets'[r] = resets[r]
    BY <2>1, <2>2
  <2>3. CASE /\ op[o].kind = "confirm" /\ r = op[o].reset
             /\ resets'[r].used /\ resets'[r].uses = resets[r].uses + 1
    <3>1. ~resets[r].used
      BY <1>3, <2>3 DEF Holding
    <3> QED BY <2>1, <2>3, <3>1
  <2> QED BY <1>14, <2>2, <2>3
<1>21. ListedSessionsEnd'
  <2> SUFFICES ASSUME NEW i \in 1..cut'.read PROVE ~Active(i)'
    BY DEF ListedSessionsEnd
  <2>1. i \in 1..Len(tok)
    BY <1>3, <1>5, <1>9, <1>11 DEF TailsAlive
  <2>2. CASE i \in 1..upto
    <3>1. i \in S => ~(tok'[i].rev = Never)
      BY <1>5, <1>7, <2>1, Numbers
    <3> QED BY <1>5, <1>10, <2>1, <2>2, <3>1 DEF Grows, Active
  <2>3. CASE i \in 1..cut.read
    BY <1>3, <1>10, <2>1, <2>3 DEF ListedSessionsEnd, Grows
  <2> QED BY <1>11, <2>2, <2>3
<1>22. InRoom'
  BY <1>1, <1>7 DEF SessionsInv, ServerInv, InRoom, Reserved
<1>23. spent'.ops # 0
  BY <1>1, <1>3, NoOpFacts DEF ClientInv
<1>24. ClientInv'
  BY <1>1, <1>3, <1>7, <1>23 DEF ClientInv, Underway, Working
<1>25. OneLossForgiven'
  BY <1>23 DEF OneLossForgiven
<1> QED BY <1>8, <1>15, <1>16, <1>17, <1>18, <1>19, <1>20, <1>21, <1>22,
           <1>24, <1>25
    DEF SessionsInv, ServerInv

\* A step of an operation.
LEMMA AccountSound ==
    ASSUME SessionsInv, NEW o \in Operator, Account(o)
    PROVE  SessionsInv'
BY ReadSessionsSound, EndSessionsSound, ReadResetsSound, IssueResetSound
DEF Account

-----------------------------------------------------------------------------
(* The client                                                              *)

\* A step of the client leaves the server's tables alone.
LEMMA ClientStep ==
    ASSUME SessionsInv, UNCHANGED server, SessionTypes',
           (\A q \in Request : Placed(q)') /\ LocksApart', InRoom', ClientInv',
           OneLossForgiven'
    PROVE  SessionsInv'
<1>1. UNCHANGED <<clock, tok, enabled, resets, op, login, budget, ended, cut>>
  BY DEF server
<1>2. Grows /\ Chained' /\ TailsAlive' /\ ListedSessionsEnd'
  BY <1>1, TablesKept
<1>3. (\A o \in Operator : Listing(o)') /\ Holding' /\ ResetsUsedOnce'
  BY <1>1, <1>2, OperationsKept
<1> QED BY <1>2, <1>3 DEF SessionsInv, ServerInv

\* A step of a thread that leaves the requests and the session alone.
LEMMA ThreadOnly ==
    ASSUME SessionsInv, UNCHANGED <<server, req, auth, spent>>,
           thread' \in [Thread -> [pc: {"idle", "refused", "waiting", "retry"},
                                   used: Nat]],
           InRoom'
    PROVE  SessionsInv'
<1>1. UNCHANGED <<clock, tok, enabled, resets, op, login, budget, ended, cut>>
  BY DEF server
<1>2. SessionTypes /\ ClientInv
  BY DEF SessionsInv
<1>3. SessionTypes'
  BY <1>1, <1>2 DEF SessionTypes
<1>4. Grows
  BY <1>1, TablesKept
<1>5. (\A q \in Request : Placed(q)') /\ LocksApart'
  <2>1. clock' \in Nat /\ clock <= clock'
    BY <1>1, <1>2, Numbers DEF SessionTypes
  <2> QED BY <1>1, <1>4, <2>1, RequestsKept
<1>6. ClientInv' /\ OneLossForgiven'
  <2>1. spent.ops = 0 => \A o \in Operator : op'[o] = NoOp
    BY <1>1, <1>2 DEF ClientInv
  <2> QED BY <1>1, <2>1, ClientKept
<1> QED BY <1>3, <1>5, <1>6, ClientStep

\* Call.
LEMMA CallSound ==
    ASSUME SessionsInv, NEW t \in Thread, Call(t)
    PROVE  SessionsInv'
<1>1. /\ thread[t].pc = "idle" /\ Room
      /\ thread' = [thread EXCEPT ![t] = [pc |-> "refused", used |-> auth.held]]
      /\ UNCHANGED <<server, req, auth, spent>>
  BY DEF Call
<1>2. SessionTypes
  BY DEF SessionsInv
<1>3. /\ thread' \in [Thread -> [pc: {"idle", "refused", "waiting", "retry"},
                                 used: Nat]]
      /\ thread'[t].pc = "refused"
      /\ \A u \in Thread : u # t => thread'[u].pc = thread[u].pc
  BY <1>1, <1>2 DEF SessionTypes
<1>4. InRoom'
  <2>1. UNCHANGED <<tok, budget, login>> /\ WorkingSet' = WorkingSet
    BY <1>1 DEF server, WorkingSet
  <2>2. Cardinality(RefusedSet') = Cardinality(RefusedSet) + 1
    BY <1>1, <1>3, RefusedStep
  <2>3. Cardinality(WorkingSet) \in Nat /\ Cardinality(RefusedSet) \in Nat
    BY ReservedFacts
  <2>4. Cardinality(WorkingSet') + Cardinality(RefusedSet')
            + (IF login' THEN 1 ELSE 0)
        <= Cardinality(WorkingSet) + Cardinality(RefusedSet)
            + (IF login THEN 1 ELSE 0) + 1
    BY <2>1, <2>2, <2>3
  <2> QED BY <1>1, <1>2, <2>1, <2>4, RoomTaken
<1> QED BY <1>1, <1>3, <1>4, ThreadOnly

\* Retry.
LEMMA RetrySound ==
    ASSUME SessionsInv, NEW t \in Thread, Retry(t)
    PROVE  SessionsInv'
<1>1. /\ thread[t].pc = "retry"
      /\ thread' = [thread EXCEPT ![t] = [pc |-> "idle", used |-> NoTok]]
      /\ UNCHANGED <<server, req, auth, spent>>
  BY DEF Retry
<1>2. SessionTypes
  BY DEF SessionsInv
<1>3. /\ thread' \in [Thread -> [pc: {"idle", "refused", "waiting", "retry"},
                                 used: Nat]]
      /\ thread'[t].pc = "idle"
      /\ \A u \in Thread : u # t => thread'[u].pc = thread[u].pc
  BY <1>1, <1>2, Numbers DEF SessionTypes
<1>4. InRoom'
  <2>1. UNCHANGED <<tok, budget, login, req>>
    BY <1>1 DEF server
  <2>2. RefusedSet' = RefusedSet
    BY <1>1, <1>3, RefusedStep
  <2> QED BY <2>1, <2>2 DEF SessionsInv, ServerInv, InRoom, Reserved, RefusedSet
<1> QED BY <1>1, <1>3, <1>4, ThreadOnly

\* A request that begins, is given up or is answered: the others stay.
LEMMA Replaced ==
    ASSUME SessionsInv, NEW q \in Request, NEW r \in Exchange,
           req' = [req EXCEPT ![q] = r], UNCHANGED server,
           r.locks \subseteq req[q].locks, Placed(q)'
    PROVE  /\ req' \in [Request -> Exchange] /\ req'[q] = r
           /\ \A p \in Request : p # q => req'[p] = req[p]
           /\ (\A p \in Request : Placed(p)') /\ LocksApart'
<1>1. UNCHANGED <<clock, tok, enabled, resets, op, login, budget, ended, cut>>
  BY DEF server
<1>2. SessionTypes /\ LocksApart
  BY DEF SessionsInv, ServerInv
<1>3. /\ req' \in [Request -> Exchange] /\ req'[q] = r
      /\ \A p \in Request : p # q => req'[p] = req[p]
  BY <1>2 DEF SessionTypes
<1>4. Grows /\ clock' \in Nat /\ clock <= clock'
  BY <1>1, <1>2, TablesKept, Numbers DEF SessionTypes
<1>5. ASSUME NEW p \in Request, p # q PROVE Placed(p)'
  <2>1. Placed(p) /\ \A i \in req[p].locks : tok'[i] = tok[i]
    BY <1>1, PlaceOf
  <2> QED BY <1>2, <1>3, <1>4, <1>5, <2>1, PlacedKept
<1>6. LocksApart'
  BY <1>2, <1>3 DEF LocksApart
<1> QED BY <1>3, <1>5, <1>6

\* A request that is not in use.
LEMMA IdleFacts ==
    /\ NoRequest \in Exchange /\ NoRequest.pc = "free" /\ NoRequest.who = NoThread
    /\ NoRequest.tok = NoTok /\ NoRequest.now = 0 /\ NoRequest.tries = 0 /\ NoRequest.locks = {}
    /\ NoRequest.answer = NoTok
BY Numbers DEF NoRequest, Exchange, Pc

\* It is in its place.
LEMMA IdlePlaced ==
    ASSUME SessionTypes, NEW q \in Request, req'[q] = NoRequest, tok' = tok,
           clock' = clock
    PROVE  Placed(q)'
<1>1. Len(tok) \in Nat /\ clock \in Nat
  BY TokFacts, Numbers DEF SessionTypes
<1> QED BY <1>1, IdleFacts, Numbers DEF Placed

\* The room of a request that ends, or of none.
LEMMA RoomReturned ==
    ASSUME SessionsInv, NEW q \in Request, UNCHANGED <<tok, budget, login>>,
           RefusedSet' = RefusedSet,
           \A p \in Request : p # q => req'[p] = req[p],
           Working(q)' => Working(q)
    PROVE  InRoom'
<1>1. SessionTypes /\ InRoom
  BY DEF SessionsInv, ServerInv
<1>2. PICK w, f, l, k, v \in Nat :
         /\ w = Cardinality(WorkingSet) /\ f = Cardinality(RefusedSet)
         /\ l = Len(tok) /\ k = IF login THEN 1 ELSE 0
         /\ v = Cardinality(WorkingSet')
  BY <1>1, TokFacts, ReservedFacts, ReservedNext
<1>3. v = w \/ v = w - 1
  BY <1>2, WorkingStep
<1>4. l + v + f + k <= l + w + f + k
  BY <1>3
<1>5. Len(tok') + Cardinality(WorkingSet') + Cardinality(RefusedSet')
          + (IF login' THEN 1 ELSE 0)
      <= Len(tok) + Cardinality(WorkingSet) + Cardinality(RefusedSet)
          + (IF login THEN 1 ELSE 0)
  BY <1>2, <1>4
<1> QED BY <1>1, <1>2, <1>5, RoomKept

\* Debts do not grow while the held token stays and no attempt is new.
LEMMA DebtKept ==
    ASSUME UNCHANGED <<tok, clock>>, auth'.held = auth.held,
           \A p \in Request : Working(p)' /\ req'[p].pc # "begin" =>
               /\ Working(p) /\ req[p].pc # "begin"
               /\ req'[p].now = req[p].now
    PROVE  Debt' \in {0, 1, 2} /\ Debt' <= Debt
<1>1. GraceOver(auth.held) => GraceOver(auth.held)'
  BY DEF GraceOver
<1>2. Debt' \in {0, 1, 2}
  BY DEF Debt, Losses
<1> QED BY <1>1, <1>2 DEF Debt, Losses, Active

\* Discard.
LEMMA DiscardSound ==
    ASSUME SessionsInv, NEW q \in Request, Discard(q)
    PROVE  SessionsInv'
<1>1. /\ req[q].pc = "answered" /\ req[q].who = NoThread
      /\ req' = [req EXCEPT ![q] = NoRequest]
      /\ UNCHANGED <<server, auth, thread, spent>>
  BY DEF Discard
<1>2. UNCHANGED <<clock, tok, enabled, resets, op, login, budget, ended, cut>>
  BY <1>1 DEF server
<1>3. SessionTypes /\ ClientInv
  BY DEF SessionsInv
<1>4. req'[q] = NoRequest
  BY <1>1, <1>3 DEF SessionTypes
<1>5. /\ req' \in [Request -> Exchange]
      /\ \A p \in Request : p # q => req'[p] = req[p]
      /\ (\A p \in Request : Placed(p)') /\ LocksApart'
  <2>1. Placed(q)' /\ NoRequest \in Exchange /\ NoRequest.locks \subseteq req[q].locks
    BY <1>2, <1>3, <1>4, IdlePlaced, IdleFacts
  <2> QED BY <1>1, <2>1, Replaced
<1>6. SessionTypes'
  BY <1>1, <1>2, <1>3, <1>5 DEF SessionTypes
<1>7. \A p \in Request :
         /\ Working(p)' <=> Working(p)
         /\ req'[p].who = req[p].who
         /\ Working(p) \/ req[p].who # NoThread => req'[p] = req[p]
  BY <1>1, <1>4, <1>5, IdleFacts DEF Working
<1>8. InRoom'
  BY <1>1, <1>2, <1>5, <1>7, RoomReturned DEF RefusedSet
<1>9. Explained => Explained'
  <2>1. Brought' = Brought /\ LeftBehind' = LeftBehind
    <3>1. Delivered' <=> Delivered
      BY <1>7 DEF Delivered
    <3>2. Abandoned' = Abandoned
      BY <1>7 DEF Abandoned, Working
    <3> QED BY <3>1, <3>2 DEF Brought, LeftBehind
  <2>2. Debt' \in {0, 1, 2} /\ Debt' <= Debt
    BY <1>1, <1>2, <1>7, DebtKept
  <2>3. ASSUME Explained PROVE spent.faults + Brought >= LeftBehind + Debt'
    <3>1. spent.faults \in Nat /\ spent.faults + Brought >= LeftBehind + Debt
      BY <1>3, <2>3 DEF SessionTypes, Explained
    <3> QED BY <2>2, <3>1, DebtFacts
  <2> QED BY <1>1, <1>2, <1>7, <2>1, <2>3 DEF Explained, Active
<1>10. ClientInv'
  <2>1. \A p \in Request : /\ Underway(p)' <=> Underway(p)
                           /\ Underway(p) => req'[p] = req[p]
    BY <1>7 DEF Underway
  <2> QED BY <1>1, <1>2, <1>3, <1>7, <1>9, <2>1 DEF ClientInv
<1>11. OneLossForgiven'
  BY <1>1, <1>2 DEF SessionsInv, OneLossForgiven
<1> QED BY <1>1, <1>5, <1>6, <1>8, <1>10, <1>11, ClientStep

\* The client's one request: the others are not its own, and no other is at
\* work unless one was overtaken.
LEMMA OwnRequest ==
    ASSUME SessionsInv, NEW t \in Thread, NEW q \in Request, req[q].who = t
    PROVE  /\ req[q].who # NoThread /\ req[q].pc # "free"
           /\ \A p \in Request : p # q => req[p].who = NoThread
           /\ ~spent.late =>
                 /\ req[q].tok = auth.held
                 /\ \A p \in Request : p # q => ~Underway(p)
                 /\ LeftBehind = 0
                 /\ Brought = IF req[q].pc = "answered" /\ req[q].answer # NoTok
                              THEN 1 ELSE 0
<1>1. req[q].who # NoThread
  BY SessionAssumption
<1>2. /\ req[q].pc # "free" /\ \A p \in Request : p # q => req[p].who = NoThread
  BY <1>1 DEF SessionsInv, ClientInv
<1>3. ASSUME ~spent.late
      PROVE  /\ req[q].tok = auth.held
             /\ \A p \in Request : p # q => ~Underway(p)
  BY <1>1, <1>3 DEF SessionsInv, ClientInv, Underway
<1>4. ASSUME ~spent.late PROVE Abandoned = {}
  BY <1>1, <1>3, <1>4 DEF Abandoned, Underway, Working
<1>5. Delivered <=> req[q].pc = "answered" /\ req[q].answer # NoTok
  BY <1>1, <1>2 DEF Delivered
<1> QED BY <1>1, <1>2, <1>3, <1>4, <1>5 DEF LeftBehind, Brought

\* Receive.
LEMMA ReceiveSound ==
    ASSUME SessionsInv, NEW t \in Thread, Receive(t)
    PROVE  SessionsInv'
<1>1. PICK q \in Request :
         /\ req[q].who = t /\ req[q].pc = "answered"
         /\ auth' = [held |-> IF req[q].answer = NoTok THEN auth.held
                              ELSE req[q].answer,
                     lock |-> NoThread]
         /\ thread' = [thread EXCEPT ![t].pc =
                          IF req[q].answer = NoTok THEN "idle" ELSE "retry"]
         /\ req' = [req EXCEPT ![q] = NoRequest]
         /\ UNCHANGED <<server, spent>>
  BY DEF Receive, Waiting
<1>2. UNCHANGED <<clock, tok, enabled, resets, op, login, budget, ended, cut>>
  BY <1>1 DEF server
<1>3. SessionTypes /\ ClientInv
  BY DEF SessionsInv
<1>4. req'[q] = NoRequest
  BY <1>1, <1>3 DEF SessionTypes
<1>5. /\ req' \in [Request -> Exchange]
      /\ \A p \in Request : p # q => req'[p] = req[p]
      /\ (\A p \in Request : Placed(p)') /\ LocksApart'
  <2>1. Placed(q)' /\ NoRequest \in Exchange /\ NoRequest.locks \subseteq req[q].locks
    BY <1>2, <1>3, <1>4, IdlePlaced, IdleFacts
  <2> QED BY <1>1, <2>1, Replaced
<1>6. /\ thread' \in [Thread -> [pc: {"idle", "refused", "waiting", "retry"},
                                 used: Nat]]
      /\ thread'[t].pc # "refused"
      /\ \A u \in Thread : u # t => thread'[u].pc = thread[u].pc
  <2>1. PICK x \in {"idle", "retry"} : thread' = [thread EXCEPT ![t].pc = x]
    BY <1>1
  <2>2. thread \in [Thread -> [pc: {"idle", "refused", "waiting", "retry"},
                               used: Nat]]
    BY <1>3 DEF SessionTypes
  <2> QED BY <2>1, <2>2
<1>7. /\ auth' \in [held: Nat, lock: Thread \cup {NoThread}]
      /\ auth'.lock = NoThread /\ auth'.held \in 1..Len(tok)
      /\ auth'.held = IF req[q].answer = NoTok THEN auth.held
                      ELSE req[q].answer
  <2>1. auth.held \in 1..Len(tok) /\ req[q].answer \in 0..Len(tok)
        /\ Len(tok) \in Nat
    BY <1>3, PlaceOf DEF ClientInv
  <2> QED BY <1>1, <2>1, Numbers
<1>8. SessionTypes'
  BY <1>1, <1>2, <1>3, <1>5, <1>6, <1>7 DEF SessionTypes
<1>9. \A p \in Request : Working(p)' => Working(p) /\ req'[p] = req[p]
  BY <1>4, <1>5, IdleFacts DEF Working
<1>10. InRoom'
  <2>1. PICK f, g \in Nat : /\ f = Cardinality(RefusedSet)
                            /\ g = Cardinality(RefusedSet') /\ g <= f
    <3>1. Cardinality(RefusedSet') <= Cardinality(RefusedSet)
      BY <1>6, RefusedStep, ReservedFacts
    <3> QED BY <3>1, ReservedFacts, ReservedNext
  <2>2. PICK w, l, k \in Nat : /\ w = Cardinality(WorkingSet) /\ l = Len(tok)
                               /\ k = IF login THEN 1 ELSE 0
    BY <1>3, TokFacts, ReservedFacts
  <2>3. WorkingSet' = WorkingSet
    BY <1>1, <1>4, <1>5, IdleFacts DEF WorkingSet
  <2>4. l + w + g + k <= l + w + f + k
    BY <2>1
  <2>5. Len(tok') + Cardinality(WorkingSet') + Cardinality(RefusedSet')
            + (IF login' THEN 1 ELSE 0)
        <= Len(tok) + Cardinality(WorkingSet) + Cardinality(RefusedSet)
            + (IF login THEN 1 ELSE 0)
    BY <1>2, <2>1, <2>2, <2>3, <2>4
  <2>6. InRoom /\ Len(tok') \in Nat
    BY <1>2, <2>2 DEF SessionsInv, ServerInv
  <2> QED BY <1>2, <1>3, <2>5, <2>6, RoomKept
<1>11. \A p \in Request : req'[p].who = NoThread
  BY <1>1, <1>4, <1>5, OwnRequest, IdleFacts
<1>12. ASSUME ~spent.late PROVE \A p \in Request : ~Underway(p)' /\ ~Working(p)'
  BY <1>1, <1>4, <1>5, <1>11, <1>12, OwnRequest, IdleFacts DEF Underway, Working
<1>13. ASSUME ~spent.late, Explained PROVE Explained'
  <2>1. Brought' = 0 /\ LeftBehind' = 0
    BY <1>11, <1>12, <1>13
    DEF Brought, LeftBehind, Delivered, Abandoned, Working
  <2>2. spent.faults \in Nat /\ spent.faults + Brought >= LeftBehind + Debt
    BY <1>3, <1>13 DEF SessionTypes, Explained
  <2>3. CASE req[q].answer # NoTok
    <3>1. Active(req[q].answer)
      BY <1>1, <1>13, <2>3, OwnRequest DEF Explained
    <3>2. tok'[auth'.held].rev = Never
      BY <1>2, <1>7, <2>3, <3>1 DEF Active
    <3>3. Debt' = 0
      BY <3>2 DEF Debt, Losses, Active
    <3>4. spent'.faults + Brought' >= LeftBehind' + Debt'
      BY <1>1, <2>1, <2>2, <3>3
    <3> QED BY <1>11, <1>12, <1>13, <3>2, <3>4 DEF Explained, Active
  <2>4. CASE req[q].answer = NoTok
    <3>1. auth'.held = auth.held /\ Brought = 0 /\ LeftBehind = 0
      BY <1>1, <1>7, <1>13, <2>4, OwnRequest
    <3>2. Debt' \in {0, 1, 2} /\ Debt' <= Debt
      BY <1>2, <1>9, <3>1, DebtKept
    <3>3. spent'.faults + Brought' >= LeftBehind' + Debt'
      BY <1>1, <2>1, <2>2, <3>1, <3>2, DebtFacts
    <3>4. ~Active(auth.held) => tok[auth.held].rev <= clock
      BY <1>13 DEF Explained
    <3> QED BY <1>2, <1>11, <1>12, <1>13, <3>1, <3>3, <3>4 DEF Explained, Active
  <2> QED BY <2>3, <2>4
<1>14. ClientInv'
  BY <1>1, <1>2, <1>3, <1>7, <1>11, <1>12, <1>13 DEF ClientInv
<1>15. OneLossForgiven'
  BY <1>1, <1>2 DEF SessionsInv, OneLossForgiven
<1> QED BY <1>1, <1>5, <1>8, <1>10, <1>14, <1>15, ClientStep

\* The thread that gave up.
LEMMA GaveUp ==
    ASSUME SessionTypes, NEW t \in Thread,
           thread' = [thread EXCEPT ![t] = [pc |-> "idle", used |-> NoTok]]
    PROVE  /\ thread' \in [Thread -> [pc: {"idle", "refused", "waiting", "retry"},
                                      used: Nat]]
           /\ Cardinality(RefusedSet') <= Cardinality(RefusedSet)
<1>1. /\ thread' \in [Thread -> [pc: {"idle", "refused", "waiting", "retry"},
                                 used: Nat]]
      /\ thread'[t].pc = "idle"
      /\ \A u \in Thread : u # t => thread'[u].pc = thread[u].pc
  BY Numbers DEF SessionTypes
<1>2. Cardinality(RefusedSet') <= Cardinality(RefusedSet)
  BY <1>1, RefusedStep, ReservedFacts
<1> QED BY <1>1, <1>2

\* A request whose client is gone.
LEMMA GivenUp ==
    ASSUME NEW e \in Exchange
    PROVE  LET r == [e EXCEPT !.who = NoThread]
           IN  /\ r \in Exchange /\ r.who = NoThread /\ r.pc = e.pc
               /\ r.tok = e.tok /\ r.now = e.now /\ r.tries = e.tries
               /\ r.locks = e.locks /\ r.answer = e.answer
BY DEF Exchange

\* GiveUp.
LEMMA GiveUpSound ==
    ASSUME SessionsInv, NEW t \in Thread, NEW arrived \in BOOLEAN, GiveUp(t, arrived)
    PROVE  SessionsInv'
<1>1. PICK q \in Request :
         /\ req[q].who = t
         /\ spent' = [spent EXCEPT !.faults = @ + 1]
         /\ req' = [req EXCEPT ![q] =
                       IF ~arrived \/ @.pc = "answered" THEN NoRequest
                       ELSE [@ EXCEPT !.who = NoThread]]
         /\ auth' = [auth EXCEPT !.lock = NoThread]
         /\ thread' = [thread EXCEPT ![t] = [pc |-> "idle", used |-> NoTok]]
         /\ UNCHANGED server
  BY DEF GiveUp, Waiting
<1>2. UNCHANGED <<clock, tok, enabled, resets, op, login, budget, ended, cut>>
  BY <1>1 DEF server
<1>3. SessionTypes /\ ClientInv
  BY DEF SessionsInv
<1>4. PICK r \in Exchange :
         /\ req' = [req EXCEPT ![q] = r]
         /\ \/ r = NoRequest
            \/ /\ req[q].pc # "answered" /\ r.who = NoThread /\ r.pc = req[q].pc
               /\ r.tok = req[q].tok /\ r.now = req[q].now
               /\ r.tries = req[q].tries /\ r.locks = req[q].locks
               /\ r.answer = req[q].answer
  <2>1. req \in [Request -> Exchange] /\ req[q] \in Exchange
    BY <1>3 DEF SessionTypes
  <2>2. CASE ~arrived \/ req[q].pc = "answered"
    <3>1. req' = [req EXCEPT ![q] = NoRequest]
      BY <1>1, <2>1, <2>2
    <3> QED BY <3>1, IdleFacts
  <2>3. CASE ~(~arrived \/ req[q].pc = "answered")
    <3> DEFINE g == [req[q] EXCEPT !.who = NoThread]
    <3>1. req' = [req EXCEPT ![q] = g]
      BY <1>1, <2>1, <2>3
    <3>2. /\ g \in Exchange /\ g.who = NoThread /\ g.pc = req[q].pc
          /\ g.tok = req[q].tok /\ g.now = req[q].now
          /\ g.tries = req[q].tries /\ g.locks = req[q].locks
          /\ g.answer = req[q].answer
      BY <2>1, GivenUp
    <3>3. req[q].pc # "answered"
      BY <2>3
    <3> HIDE DEF g
    <3> QED BY <3>1, <3>2, <3>3
  <2> QED BY <2>2, <2>3
<1>5. req'[q] = r /\ r.who = NoThread
  BY <1>3, <1>4, IdleFacts DEF SessionTypes
<1>6. /\ req' \in [Request -> Exchange]
      /\ \A p \in Request : p # q => req'[p] = req[p]
      /\ (\A p \in Request : Placed(p)') /\ LocksApart'
  <2>1. r.locks \subseteq req[q].locks
    BY <1>4, IdleFacts
  <2>2. Placed(q)'
    <3>1. CASE r = NoRequest
      BY <1>2, <1>3, <1>5, <3>1, IdlePlaced
    <3>2. CASE r # NoRequest
      <4>1. Placed(q) /\ req[q].pc # "free"
        BY <1>1, OwnRequest, PlaceOf
      <4> QED BY <1>2, <1>4, <1>5, <3>2, <4>1 DEF Placed, Active
    <3> QED BY <3>1, <3>2
  <2> QED BY <1>1, <1>4, <2>1, <2>2, Replaced
<1>7. /\ spent' \in [faults: Nat, ops: Nat, late: BOOLEAN]
      /\ spent.faults \in Nat /\ spent'.faults = spent.faults + 1
      /\ spent'.ops = spent.ops /\ spent'.late = spent.late
  <2>1. spent \in [faults: Nat, ops: Nat, late: BOOLEAN]
    BY <1>3 DEF SessionTypes
  <2>2. spent' = [spent EXCEPT !.faults = @ + 1]
    BY <1>1
  <2> QED BY <2>1, <2>2
<1>8. /\ auth' \in [held: Nat, lock: Thread \cup {NoThread}]
      /\ auth'.held = auth.held
  BY <1>1, <1>3 DEF SessionTypes
<1>9. /\ thread' \in [Thread -> [pc: {"idle", "refused", "waiting", "retry"},
                                 used: Nat]]
      /\ Cardinality(RefusedSet') <= Cardinality(RefusedSet)
  BY <1>1, <1>3, GaveUp
<1>10. SessionTypes'
  BY <1>2, <1>3, <1>6, <1>7, <1>8, <1>9 DEF SessionTypes
<1>11. /\ Working(q)' => /\ Working(q) /\ r # NoRequest /\ r.pc = req[q].pc
                         /\ req'[q].now = req[q].now /\ req[q].tok = req'[q].tok
       /\ \A p \in Request : p # q => (Working(p)' <=> Working(p))
  BY <1>4, <1>5, <1>6, IdleFacts DEF Working
<1>12. InRoom'
  <2>1. PICK w, f, l, k, v, g \in Nat :
           /\ w = Cardinality(WorkingSet) /\ f = Cardinality(RefusedSet)
           /\ l = Len(tok) /\ k = IF login THEN 1 ELSE 0
           /\ v = Cardinality(WorkingSet') /\ g = Cardinality(RefusedSet')
    BY <1>3, TokFacts, ReservedFacts, ReservedNext
  <2>2. v = w \/ v = w - 1
    BY <1>6, <1>11, <2>1, WorkingStep
  <2>6. g <= f
    BY <1>9, <2>1
  <2>3. l + v + g + k <= l + w + f + k
    BY <2>2, <2>6
  <2>4. Len(tok') + Cardinality(WorkingSet') + Cardinality(RefusedSet')
            + (IF login' THEN 1 ELSE 0)
        <= Len(tok) + Cardinality(WorkingSet) + Cardinality(RefusedSet)
            + (IF login THEN 1 ELSE 0)
    BY <1>2, <2>1, <2>3
  <2>5. InRoom /\ Len(tok') \in Nat
    BY <1>2, <2>1 DEF SessionsInv, ServerInv
  <2> QED BY <1>2, <1>3, <2>4, <2>5, RoomKept
<1>13. \A p \in Request : req'[p].who = NoThread
  BY <1>1, <1>5, <1>6, OwnRequest
<1>14. ASSUME ~spent.late
       PROVE  /\ req[q].tok = auth.held
              /\ \A p \in Request : p # q => ~Underway(p)' /\ ~Working(p)'
              /\ LeftBehind = 0
              /\ Brought = IF req[q].pc = "answered" /\ req[q].answer # NoTok
                           THEN 1 ELSE 0
  BY <1>1, <1>6, <1>14, OwnRequest DEF Underway, Working
<1>15. ASSUME ~spent.late, Explained PROVE Explained'
  <2>1. Brought' = 0 /\ LeftBehind' \in {0, 1}
    BY <1>13 DEF Brought, LeftBehind, Delivered
  <2>2. Brought = 1 => LeftBehind' = 0
    <3> SUFFICES ASSUME Brought = 1 PROVE Abandoned' = {}
      BY DEF LeftBehind
    <3>1. req[q].pc = "answered"
      BY <1>14, <1>15
    <3> QED BY <1>11, <1>14, <1>15, <3>1 DEF Abandoned, Working
  <2>3. spent.faults + Brought >= 0 + Debt
    BY <1>14, <1>15 DEF Explained
  <2>4. Debt' \in {0, 1, 2} /\ Debt' <= Debt
    <3>1. \A p \in Request : Working(p)' /\ req'[p].pc # "begin" =>
             /\ Working(p) /\ req[p].pc # "begin" /\ req'[p].now = req[p].now
      BY <1>5, <1>11, <1>14, <1>15
    <3> QED BY <1>2, <1>8, <3>1, DebtKept
  <2>5. spent'.faults + Brought' >= LeftBehind' + Debt'
    <3>1. CASE Brought = 0
      BY <1>7, <2>1, <2>3, <2>4, <3>1, DebtFacts
    <3>2. CASE Brought = 1
      BY <1>7, <2>1, <2>2, <2>3, <2>4, <3>2, DebtFacts
    <3> QED BY <3>1, <3>2, DebtFacts
  <2>6. ASSUME NEW p \in Request, Working(p)', req'[p].pc # "begin",
               ~Active(auth.held)
        PROVE  tok[auth.held].rev <= req'[p].now
    <3>1. p = q /\ Working(q) /\ req[q].pc # "begin"
          /\ req'[q].now = req[q].now
      BY <1>5, <1>11, <1>14, <1>15, <2>6
    <3> QED BY <1>15, <2>6, <3>1 DEF Explained
  <2>7. ~Active(auth.held) => tok[auth.held].rev <= clock
    BY <1>15 DEF Explained
  <2> QED BY <1>2, <1>8, <1>13, <2>5, <2>6, <2>7 DEF Explained, Active
<1>16. ClientInv'
  <2>1. ASSUME ~spent.late, NEW p \in Request, NEW s \in Request, Underway(p)'
        PROVE  req'[p].tok = auth.held /\ (Underway(s)' => p = s)
    <3>1. p = q /\ (Underway(s)' => s = q)
      BY <1>14, <2>1
    <3>2. Working(q)'
      BY <1>13, <2>1, <3>1 DEF Underway
    <3> QED BY <1>11, <1>14, <2>1, <3>1, <3>2
  <2>2. auth.held \in 1..Len(tok)
    BY <1>3 DEF ClientInv
  <2>3. spent.ops = 0 => \A o \in Operator : op[o] = NoOp
    BY <1>3 DEF ClientInv
  <2>4. ~spent.late /\ spent.ops = 0 => Explained
    BY <1>3 DEF ClientInv
  <2> QED BY <1>2, <1>7, <1>8, <1>13, <1>15, <2>1, <2>2, <2>3, <2>4
      DEF ClientInv
<1>17. OneLossForgiven'
  BY <1>2, <1>7 DEF SessionsInv, OneLossForgiven
<1> QED BY <1>1, <1>6, <1>10, <1>12, <1>16, <1>17, ClientStep

\* Refresh by a thread whose token was replaced meanwhile.
LEMMA RefreshSkipped ==
    ASSUME SessionsInv, NEW t \in Thread, thread[t].pc = "refused",
           thread' = [thread EXCEPT ![t].pc = "retry"],
           spent' = [spent EXCEPT !.late = @ \/ Abandoned # {}],
           UNCHANGED <<server, req, auth>>
    PROVE  SessionsInv'
<1>1. UNCHANGED <<clock, tok, enabled, resets, op, login, budget, ended, cut>>
  BY DEF server
<1>2. SessionTypes /\ ClientInv
  BY DEF SessionsInv
<1>3. /\ thread' \in [Thread -> [pc: {"idle", "refused", "waiting", "retry"},
                                 used: Nat]]
      /\ thread'[t].pc = "retry"
      /\ \A u \in Thread : u # t => thread'[u].pc = thread[u].pc
  BY <1>2 DEF SessionTypes
<1>4. PICK late \in BOOLEAN : late = (spent.late \/ Abandoned # {})
  OBVIOUS
<1>5. /\ spent' \in [faults: Nat, ops: Nat, late: BOOLEAN]
      /\ spent'.faults = spent.faults /\ spent'.ops = spent.ops
      /\ spent'.late = late
  <2>1. spent \in [faults: Nat, ops: Nat, late: BOOLEAN]
    BY <1>2 DEF SessionTypes
  <2>2. spent' = [spent EXCEPT !.late = late]
    BY <1>4, <2>1
  <2> QED BY <2>1, <2>2
<1>6. SessionTypes'
  BY <1>1, <1>2, <1>3, <1>5 DEF SessionTypes
<1>7. Grows
  BY <1>1, TablesKept
<1>8. (\A q \in Request : Placed(q)') /\ LocksApart'
  <2>1. clock' \in Nat /\ clock <= clock'
    BY <1>1, <1>2, Numbers DEF SessionTypes
  <2> QED BY <1>1, <1>7, <2>1, RequestsKept
<1>9. InRoom'
  <2>1. Cardinality(RefusedSet') = Cardinality(RefusedSet) - 1
    BY <1>3, RefusedStep
  <2>2. WorkingSet' = WorkingSet
    BY DEF WorkingSet
  <2>3. PICK w, f, l, k \in Nat :
           /\ w = Cardinality(WorkingSet) /\ f = Cardinality(RefusedSet)
           /\ l = Len(tok) /\ k = IF login THEN 1 ELSE 0
    BY <1>2, TokFacts, ReservedFacts
  <2>4. l + w + (f - 1) + k <= l + w + f + k
    OBVIOUS
  <2>5. Len(tok') + Cardinality(WorkingSet') + Cardinality(RefusedSet')
            + (IF login' THEN 1 ELSE 0)
        <= Len(tok) + Cardinality(WorkingSet) + Cardinality(RefusedSet)
            + (IF login THEN 1 ELSE 0)
    BY <1>1, <2>1, <2>2, <2>3, <2>4
  <2>6. InRoom /\ Len(tok') \in Nat
    BY <1>1, <2>3 DEF SessionsInv, ServerInv
  <2> QED BY <1>1, <1>2, <2>5, <2>6, RoomKept
<1>10. ~spent'.late => ~spent.late
  BY <1>4, <1>5
<1>11. Explained => Explained'
  <2>1. \A q \in Request : Working(q)' <=> Working(q)
    BY DEF Working
  <2>2. Brought' = Brought /\ LeftBehind' = LeftBehind
    BY DEF Brought, LeftBehind, Delivered, Abandoned
  <2>3. Debt' = Debt
    BY <1>1 DEF Debt, Losses, GraceOver, Active, Working
  <2> QED BY <1>1, <1>5, <2>1, <2>2, <2>3 DEF Explained, Active
<1>12. ClientInv'
  BY <1>1, <1>2, <1>5, <1>10, <1>11 DEF ClientInv, Underway, Working
<1>13. OneLossForgiven'
  BY <1>1, <1>5, <1>10 DEF SessionsInv, OneLossForgiven
<1> QED BY <1>6, <1>8, <1>9, <1>12, <1>13, ClientStep

\* Refresh by the thread that uses the held token.
LEMMA RefreshBegun ==
    ASSUME SessionsInv, NEW t \in Thread, thread[t].pc = "refused",
           auth.lock = NoThread,
           thread' = [thread EXCEPT ![t].pc = "waiting"],
           auth' = [auth EXCEPT !.lock = t],
           NEW q \in Request, req[q].pc = "free",
           req' = [req EXCEPT ![q] =
                      [NoRequest EXCEPT !.pc = "begin", !.who = t, !.tok = auth.held]],
           spent' = [spent EXCEPT !.late = @ \/ Abandoned # {}],
           UNCHANGED server
    PROVE  SessionsInv'
<1>1. UNCHANGED <<clock, tok, enabled, resets, op, login, budget, ended, cut>>
  BY DEF server
<1>2. SessionTypes /\ ClientInv
  BY DEF SessionsInv
<1>3. /\ thread' \in [Thread -> [pc: {"idle", "refused", "waiting", "retry"},
                                 used: Nat]]
      /\ thread'[t].pc = "waiting"
      /\ \A u \in Thread : u # t => thread'[u].pc = thread[u].pc
  BY <1>2 DEF SessionTypes
<1>4. PICK late \in BOOLEAN : late = (spent.late \/ Abandoned # {})
  OBVIOUS
<1>5. /\ spent' \in [faults: Nat, ops: Nat, late: BOOLEAN]
      /\ spent'.faults = spent.faults /\ spent'.ops = spent.ops
      /\ spent'.late = late
  <2>1. spent \in [faults: Nat, ops: Nat, late: BOOLEAN]
    BY <1>2 DEF SessionTypes
  <2>2. spent' = [spent EXCEPT !.late = late]
    BY <1>4, <2>1
  <2> QED BY <2>1, <2>2
<1>6. /\ auth' \in [held: Nat, lock: Thread \cup {NoThread}]
      /\ auth'.held = auth.held /\ auth'.lock = t
  <2>1. auth \in [held: Nat, lock: Thread \cup {NoThread}]
    BY <1>2 DEF SessionTypes
  <2> QED BY <2>1
<1>7. auth.held \in 1..Len(tok) /\ Len(tok) \in Nat /\ auth.held \in Nat
  BY <1>2, TokFacts DEF ClientInv
<1> DEFINE r == [NoRequest EXCEPT !.pc = "begin", !.who = t, !.tok = auth.held]
<1>8. /\ r \in Exchange /\ r.pc = "begin" /\ r.who = t /\ r.tok = auth.held
      /\ r.now = 0 /\ r.tries = 0 /\ r.locks = {} /\ r.answer = NoTok
  BY <1>7, Numbers DEF NoRequest, Exchange, Pc
<1>9. req' = [req EXCEPT ![q] = r]
  OBVIOUS
<1> HIDE DEF r
<1>10. req'[q] = r
  BY <1>2, <1>9 DEF SessionTypes
<1>11. /\ req' \in [Request -> Exchange]
       /\ \A p \in Request : p # q => req'[p] = req[p]
       /\ (\A p \in Request : Placed(p)') /\ LocksApart'
  <2>1. clock \in Nat
    BY <1>2, Numbers DEF SessionTypes
  <2>2. Placed(q)'
    <3>1. req'[q].pc = "begin" /\ req'[q].locks = {}
      BY <1>8, <1>10
    <3>4. /\ req'[q].tok = auth.held /\ req'[q].answer = NoTok
          /\ req'[q].tries = 0 /\ req'[q].now = 0
          /\ tok' = tok /\ clock' = clock
      BY <1>1, <1>8, <1>10
    <3>2. req'[q].tok \in 1..Len(tok') /\ req'[q].answer \in 0..Len(tok')
      BY <1>7, <3>4, Numbers
    <3>3. req'[q].tries < Attempts /\ req'[q].now <= clock'
      BY <2>1, <3>4, Numbers
    <3> QED BY <3>1, <3>2, <3>3 DEF Placed
  <2>3. r.locks \subseteq req[q].locks
    BY <1>8
  <2> QED BY <1>8, <1>9, <2>2, <2>3, Replaced
<1>12. SessionTypes'
  BY <1>1, <1>2, <1>3, <1>5, <1>6, <1>11 DEF SessionTypes
<1>13. InRoom'
  <2>1. Cardinality(RefusedSet') = Cardinality(RefusedSet) - 1
    BY <1>3, RefusedStep
  <2>2. Cardinality(WorkingSet') = Cardinality(WorkingSet) + 1
    <3>1. ~Working(q) /\ Working(q)'
      BY <1>8, <1>10 DEF Working
    <3> QED BY <1>11, <3>1, WorkingStep
  <2>3. PICK w, f, l, k \in Nat :
           /\ w = Cardinality(WorkingSet) /\ f = Cardinality(RefusedSet)
           /\ l = Len(tok) /\ k = IF login THEN 1 ELSE 0
    BY <1>2, TokFacts, ReservedFacts
  <2>4. l + (w + 1) + (f - 1) + k <= l + w + f + k
    OBVIOUS
  <2>5. Len(tok') + Cardinality(WorkingSet') + Cardinality(RefusedSet')
            + (IF login' THEN 1 ELSE 0)
        <= Len(tok) + Cardinality(WorkingSet) + Cardinality(RefusedSet)
            + (IF login THEN 1 ELSE 0)
    BY <1>1, <2>1, <2>2, <2>3, <2>4
  <2>6. InRoom /\ Len(tok') \in Nat
    BY <1>1, <2>3 DEF SessionsInv, ServerInv
  <2> QED BY <1>1, <1>2, <2>5, <2>6, RoomKept
<1>14. \A p \in Request : req[p].who = NoThread
  BY <1>2 DEF ClientInv
<1>15. t # NoThread
  BY SessionAssumption
<1>16. \A p \in Request : req'[p].who # NoThread => p = q
  BY <1>11, <1>14
<1>17. ASSUME ~spent'.late
       PROVE  /\ ~spent.late /\ Abandoned = {}
              /\ \A p \in Request : ~Working(p)
              /\ \A p \in Request : p # q => ~Underway(p)'
  <2>1. ~spent.late /\ Abandoned = {}
    BY <1>4, <1>5, <1>17
  <2>2. \A p \in Request : ~Working(p)
    BY <1>14, <2>1 DEF Abandoned, Working
  <2>3. \A p \in Request : p # q => ~Underway(p)'
    BY <1>11, <1>14, <2>2 DEF Underway, Working
  <2> QED BY <2>1, <2>2, <2>3
<1>18. ASSUME ~spent'.late, Explained PROVE Explained'
  <2>1. Brought' = 0 /\ LeftBehind' = 0
    <3>1. ~Delivered'
      BY <1>8, <1>10, <1>16 DEF Delivered
    <3>2. Abandoned' = {}
      BY <1>8, <1>10, <1>15, <1>17, <1>18 DEF Abandoned, Underway, Working
    <3> QED BY <3>1, <3>2 DEF Brought, LeftBehind
  <2>2. Brought = 0 /\ LeftBehind = 0
    BY <1>14, <1>17, <1>18 DEF Brought, LeftBehind, Delivered
  <2>3. \A p \in Request : ~(Working(p)' /\ req'[p].pc # "begin")
    BY <1>8, <1>10, <1>17, <1>18 DEF Underway
  <2>4. Debt' \in {0, 1, 2} /\ Debt' <= Debt
    BY <1>1, <1>6, <2>3, DebtKept
  <2>5. spent.faults \in Nat /\ spent.faults + Brought >= LeftBehind + Debt
    BY <1>2, <1>18 DEF SessionTypes, Explained
  <2>6. spent'.faults + Brought' >= LeftBehind' + Debt'
    BY <1>5, <2>1, <2>2, <2>4, <2>5, DebtFacts
  <2>7. ~Active(auth.held) => tok[auth.held].rev <= clock
    BY <1>18 DEF Explained
  <2>8. \A p \in Request : ~(/\ req'[p].who # NoThread /\ req'[p].pc = "answered"
                             /\ req'[p].answer # NoTok)
    BY <1>8, <1>10, <1>16
  <2> QED BY <1>1, <1>6, <2>3, <2>6, <2>7, <2>8 DEF Explained, Active
<1>19. ClientInv'
  <2>1. \A p \in Request : req'[p].who # NoThread =>
           /\ req'[p].pc # "free" /\ auth'.lock = req'[p].who
           /\ \A s \in Request : req'[s].who # NoThread => s = p
    BY <1>6, <1>8, <1>10, <1>16
  <2>2. ~spent'.late => \A p, s \in Request :
           Underway(p)' => /\ req'[p].tok = auth'.held
                           /\ Underway(s)' => p = s
    BY <1>6, <1>8, <1>10, <1>17
  <2>3. auth'.held \in 1..Len(tok')
    BY <1>1, <1>6, <1>7
  <2>4. spent'.ops = 0 => \A o \in Operator : op'[o] = NoOp
    BY <1>1, <1>2, <1>5 DEF ClientInv
  <2>5. ~spent'.late /\ spent'.ops = 0 => Explained
    BY <1>2, <1>5, <1>17 DEF ClientInv
  <2> QED BY <1>18, <2>1, <2>2, <2>3, <2>4, <2>5 DEF ClientInv
<1>20. OneLossForgiven'
  BY <1>1, <1>5, <1>17 DEF SessionsInv, OneLossForgiven
<1> QED BY <1>11, <1>12, <1>13, <1>19, <1>20, ClientStep

\* Refresh.
LEMMA RefreshSound ==
    ASSUME SessionsInv, NEW t \in Thread, Refresh(t)
    PROVE  SessionsInv'
<1>1. /\ thread[t].pc = "refused" /\ auth.lock = NoThread
      /\ spent' = [spent EXCEPT !.late = @ \/ Abandoned # {}]
      /\ UNCHANGED server
  BY DEF Refresh
<1>2. CASE auth.held # thread[t].used
  <2>1. thread' = [thread EXCEPT ![t].pc = "retry"] /\ UNCHANGED <<req, auth>>
    BY <1>2 DEF Refresh
  <2>2. UNCHANGED <<server, req, auth>>
    BY <1>1, <2>1
  <2> QED BY <1>1, <2>1, <2>2, RefreshSkipped
<1>3. CASE auth.held = thread[t].used
  <2>1. /\ thread' = [thread EXCEPT ![t].pc = "waiting"]
        /\ auth' = [auth EXCEPT !.lock = t] /\ Free # {}
        /\ req' = [req EXCEPT ![CHOOSE q \in Free : TRUE] =
                      [NoRequest EXCEPT !.pc = "begin", !.who = t, !.tok = auth.held]]
    BY <1>3 DEF Refresh
  <2>2. PICK q \in Request : req[q].pc = "free" /\ q = CHOOSE p \in Free : TRUE
    <3>1. (CHOOSE p \in Free : TRUE) \in Free
      BY <2>1
    <3> QED BY <3>1 DEF Free
  <2>3. req' = [req EXCEPT ![q] =
                   [NoRequest EXCEPT !.pc = "begin", !.who = t, !.tok = auth.held]]
    BY <2>1, <2>2
  <2> QED BY <1>1, <2>1, <2>2, <2>3, RefreshBegun
<1> QED BY <1>2, <1>3

-----------------------------------------------------------------------------
(* The invariant                                                           *)

\* Tick.
LEMMA TickSound ==
    ASSUME SessionsInv, Tick
    PROVE  SessionsInv'
<1>1. /\ clock < MaxTime /\ clock' = clock + 1
      /\ UNCHANGED <<tok, enabled, resets, req, op, login, auth, thread, budget,
                     spent, ended, cut>>
  BY DEF Tick
<1>2. SessionTypes /\ ClientInv
  BY DEF SessionsInv
<1>3. clock \in Nat /\ clock' \in 0..MaxTime /\ clock' \in Nat /\ clock <= clock'
  BY <1>1, <1>2, Numbers DEF SessionTypes
<1>4. SessionTypes'
  BY <1>1, <1>2, <1>3 DEF SessionTypes
<1>5. Grows
  BY <1>1, <1>2, TokFacts DEF Grows, Active
<1>6. Chained'
  <2>1. \A i \in 1..Len(tok) : tok[i].issued <= clock'
    BY <1>2, <1>3, TokFacts DEF SessionsInv, ServerInv, Chained
  <2> QED BY <1>1, <2>1 DEF SessionsInv, ServerInv, Chained, Active
<1>7. TailsAlive' /\ ListedSessionsEnd' /\ InRoom'
  BY <1>1 DEF SessionsInv, ServerInv, TailsAlive, ListedSessionsEnd, InRoom, Reserved,
              Active
<1>8. (\A q \in Request : Placed(q)') /\ LocksApart'
  BY <1>1, <1>3, <1>5, RequestsKept
<1>9. (\A o \in Operator : Listing(o)') /\ Holding' /\ ResetsUsedOnce'
  BY <1>1, <1>5, OperationsKept
<1>10. Explained => Explained'
  <2>1. Brought' = Brought /\ LeftBehind' = LeftBehind
    BY <1>1 DEF Brought, LeftBehind, Delivered, Abandoned
  <2>2. PICK h \in 1..Len(tok) : h = auth.held /\ h = auth'.held
    BY <1>1, <1>2 DEF ClientInv
  <2>3. tok[h].rev \in Nat
    BY <1>2, TokFacts
  <2>4. GraceOver(h) => GraceOver(h)'
    BY <1>1, <1>3, <2>3, Numbers DEF GraceOver, Working
  <2>5. Debt' \in {0, 1, 2} /\ Debt' <= Debt
    <3>1. Losses(h)' = Losses(h) /\ (Active(h)' <=> Active(h))
      BY <1>1 DEF Losses, Active
    <3>2. Losses(h) \in {0, 1, 2} /\ (~Active(h) => Losses(h) \in {1, 2})
      BY DEF Losses
    <3> QED BY <2>2, <2>4, <3>1, <3>2 DEF Debt
  <2>6. ASSUME Explained PROVE spent'.faults + Brought' >= LeftBehind' + Debt'
    <3>1. spent.faults \in Nat /\ spent.faults + Brought >= LeftBehind + Debt
      BY <1>2, <2>6 DEF SessionTypes, Explained
    <3> QED BY <1>1, <2>1, <2>5, <3>1, DebtFacts
  <2>7. ASSUME Explained PROVE ~Active(h) => tok[h].rev <= clock'
    BY <1>3, <2>2, <2>3, <2>7 DEF Explained
  <2>8. \A q \in Request : Working(q)' <=> Working(q)
    BY <1>1 DEF Working
  <2> QED BY <1>1, <2>2, <2>6, <2>7, <2>8 DEF Explained, Active
<1>11. ClientInv'
  BY <1>1, <1>2, <1>10 DEF ClientInv, Underway, Working
<1>12. OneLossForgiven'
  BY <1>1 DEF SessionsInv, OneLossForgiven
<1> QED BY <1>4, <1>6, <1>7, <1>8, <1>9, <1>11, <1>12 DEF SessionsInv, ServerInv

\* The account after its first login.
LEMMA InitSound ==
    ASSUME SessionsInit
    PROVE  SessionsInv
<1> DEFINE n == NewToken(0, 1)
<1>1. budget.toks \in 1..MaxTok /\ MaxTok >= 1 /\ budget \in Budget
  BY SessionAssumption, Numbers DEF SessionsInit
<1>2. /\ n \in Token /\ n.issued = 0 /\ n.rev = Never /\ n.next = NoTok
      /\ n.root = 1
  BY <1>1, NewTokenFacts, Numbers
<1>3. tok = <<n>>
  BY DEF SessionsInit
<1> HIDE DEF n
<1>4. tok \in Seq(Token) /\ Len(tok) = 1 /\ tok[1] = n
  BY <1>2, <1>3
<1>5. \A q \in Request : req[q] = NoRequest
  BY DEF SessionsInit
<1>6. \A o \in Operator : op[o] = NoOp
  BY DEF SessionsInit
<1>7. SessionTypes
  <2>1. req \in [Request -> Exchange] /\ op \in [Operator -> Operation]
    BY IdleFacts, NoOpFacts DEF SessionsInit
  <2>2. resets \in Seq([used: BOOLEAN, uses: Nat, exp: Nat])
    BY DEF SessionsInit
  <2>3. clock \in 0..MaxTime
    BY Numbers DEF SessionsInit
  <2>6. enabled \in BOOLEAN /\ login \in BOOLEAN
    BY DEF SessionsInit
  <2>7. auth \in [held: Nat, lock: Thread \cup {NoThread}]
    BY DEF SessionsInit
  <2>8. cut \in [read: Nat, commit: Nat]
    BY DEF SessionsInit
  <2>4. thread \in [Thread -> [pc: {"idle", "refused", "waiting", "retry"},
                               used: Nat]]
    BY Numbers DEF SessionsInit
  <2>5. spent \in [faults: Nat, ops: Nat, late: BOOLEAN]
    BY DEF SessionsInit
  <2> QED BY <1>1, <1>4, <2>1, <2>2, <2>3, <2>4, <2>5, <2>6, <2>7,
            <2>8 DEF SessionTypes
<1>8. Chained /\ TailsAlive /\ ListedSessionsEnd
  BY <1>2, <1>4, Numbers
  DEF SessionsInit, Chained, TailsAlive, ListedSessionsEnd, Active
<1>9. \A q \in Request : Placed(q)
  BY <1>4, <1>5, IdleFacts, Numbers DEF SessionsInit, Placed
<1>10. LocksApart
  BY <1>5, IdleFacts DEF LocksApart
<1>11. (\A o \in Operator : Listing(o)) /\ Holding /\ ResetsUsedOnce
  BY <1>6, NoOpFacts DEF SessionsInit, Listing, Holding, ResetsUsedOnce
<1>12. InRoom
  <2>1. WorkingSet = {} /\ RefusedSet = {} /\ ~login
    BY <1>5, IdleFacts DEF SessionsInit, WorkingSet, RefusedSet
  <2>2. Reserved = 0
    BY <2>1, ReservedFacts, FS_EmptySet
  <2> QED BY <1>1, <1>4, <2>2 DEF InRoom
<1>13. auth.held = 1 /\ spent.faults = 0 /\ ended = {}
  BY DEF SessionsInit
<1>14. Explained
  <2>1. Active(auth.held)
    BY <1>2, <1>4, <1>13 DEF Active
  <2>2. Brought = 0 /\ LeftBehind = 0 /\ Debt = 0
    BY <1>5, <2>1, IdleFacts, DebtFacts DEF Delivered, Abandoned
  <2> QED BY <1>5, <1>13, <2>1, <2>2, IdleFacts DEF Explained, Working
<1>15. ClientInv
  BY <1>4, <1>5, <1>6, <1>13, <1>14, IdleFacts DEF ClientInv, Underway, Working
<1>16. OneLossForgiven
  BY <1>13 DEF OneLossForgiven
<1> QED BY <1>7, <1>8, <1>9, <1>10, <1>11, <1>12, <1>15, <1>16
    DEF SessionsInv, ServerInv

\* No step changes anything it should not.
LEMMA NextSound ==
    ASSUME SessionsInv, [SessionsNext]_sessionVars
    PROVE  SessionsInv'
<1>1. CASE UNCHANGED sessionVars
  <2>1. UNCHANGED <<clock, tok, enabled, resets, req, op, login, auth, thread,
                    budget, spent, ended, cut>>
    BY <1>1 DEF sessionVars
  <2>2. UNCHANGED <<server, req, auth, spent>> /\ thread' = thread
    BY <2>1 DEF server
  <2>3. thread \in [Thread -> [pc: {"idle", "refused", "waiting", "retry"},
                               used: Nat]]
    BY DEF SessionsInv, SessionTypes
  <2>4. InRoom'
    BY <2>1 DEF SessionsInv, ServerInv, InRoom, Reserved
  <2> QED BY <2>2, <2>3, <2>4, ThreadOnly
<1>2. ASSUME NEW q \in Request, ServerStep(q) \/ Discard(q) PROVE SessionsInv'
  BY <1>2, ServerStepSound, DiscardSound
<1>3. ASSUME NEW t \in Thread,
             \/ Call(t) \/ ThreadStep(t)
             \/ \E arrived \in BOOLEAN : GiveUp(t, arrived)
      PROVE  SessionsInv'
  BY <1>3, CallSound, RefreshSound, ReceiveSound, RetrySound, GiveUpSound
  DEF ThreadStep
<1>4. ASSUME NEW o \in Operator, Account(o) PROVE SessionsInv'
  BY <1>4, AccountSound
<1>5. CASE LoginVerify \/ LoginCommit \/ Activate \/ Tick
  BY <1>5, LoginVerifySound, LoginCommitSound, ActivateSound, TickSound
<1> QED BY <1>1, <1>2, <1>3, <1>4, <1>5 DEF SessionsNext

\* The inductive invariant: each login is one chain whose tail is active until
\* it is ended; a request knows what it has locked; every state of the held
\* token is explained by answers that were lost or are under way.
THEOREM SessionsInvHolds == SessionsSpec => []SessionsInv
<1>1. SessionsInit => SessionsInv
  BY InitSound
<1>2. SessionsInv /\ [SessionsNext]_sessionVars => SessionsInv'
  BY NextSound
<1> QED BY <1>1, <1>2, PTL DEF SessionsSpec

\* rotate_refresh_token: however the requests, threads and operations
\* interleave, a login has one active token, its newest, until it is revoked,
\* and a family whose token was reused stays revoked.
THEOREM RotationIsSound == SessionsSpec => []RotationSound
<1>1. SessionsInv => RotationSound
  <2> SUFFICES ASSUME SessionsInv PROVE RotationSound
    OBVIOUS
  <2>1. SessionTypes /\ Chained /\ TailsAlive /\ InRoom /\ ClientInv
    BY DEF SessionsInv, ServerInv
  <2>2. Len(tok) \in Nat /\ DOMAIN tok = 1..Len(tok)
    BY <2>1, TokFacts
  <2>3. SessionsTypeOK
    <3>1. Len(tok) <= MaxTok
      <4>1. Reserved \in Nat
        BY ReservedFacts
      <4>2. Len(tok) + Reserved <= budget.toks /\ budget.toks \in 1..MaxTok
        BY <2>1, SessionAssumption DEF InRoom, SessionTypes
      <4> QED BY <2>2, <4>1, <4>2, Numbers
    <3>2. ASSUME NEW q \in Request
          PROVE  /\ req[q].tok \in 0..Len(tok) /\ req[q].locks \subseteq DOMAIN tok
                 /\ req[q].answer \in 0..Len(tok) /\ req[q].tries < Attempts
                 /\ req[q].pc = "free" <=> req[q].tok = NoTok
      <4>1. /\ Placed(q) /\ req[q].locks \in SUBSET (1..Len(tok))
            /\ req[q].answer \in 0..Len(tok) /\ req[q].tries < Attempts
        BY PlaceOf
      <4>2. CASE req[q].pc = "free"
        BY <2>2, <4>1, <4>2, IdleFacts, Numbers DEF Placed
      <4>3. CASE req[q].pc # "free"
        BY <2>2, <4>1, <4>3, Numbers DEF Placed
      <4> QED BY <4>2, <4>3
    <3>3. \A o \in Operator : op[o].kind \in
             {"none", "change", "deactivate", "confirm", "request"}
      BY <2>1 DEF SessionTypes, Operation
    <3>4. auth.held \in DOMAIN tok /\ auth.lock \in Thread \cup {NoThread}
      BY <2>1, <2>2 DEF SessionTypes, ClientInv
    <3>5. \A t \in Thread : thread[t].pc \in
             {"idle", "refused", "waiting", "retry"}
      BY <2>1 DEF SessionTypes
    <3> QED BY <2>1, <3>1, <3>2, <3>3, <3>4, <3>5 DEF SessionsTypeOK, SessionTypes
  <2>4. SingleChain
    <3> SUFFICES ASSUME NEW k \in 1..Len(tok)
                 PROVE  /\ \A i \in 1..Len(tok) :
                              Active(i) /\ tok[i].root = tok[k].root =>
                                  i = Newest(tok[k].root)
                        /\ /\ tok[k].root \notin Reused
                           /\ Newest(tok[k].root) > cut.read
                           => Active(Newest(tok[k].root))
      BY <2>2 DEF SingleChain
    <3>1. ASSUME NEW i \in 1..Len(tok), Active(i), tok[i].root = tok[k].root
          PROVE  i = Newest(tok[k].root)
      <4>1. tok[i].next = NoTok
        BY <2>1, <3>1 DEF Chained
      <4> QED BY <2>1, <3>1, <4>1, TailIsNewest
    <3>2. PICK u \in 1..Len(tok) :
             tok[u].root = tok[k].root /\ tok[u].next = NoTok
      <4>1. \A i \in 1..Len(tok) : tok[i].next \in (1..Len(tok)) \cup {NoTok}
        BY <2>1, <2>2, TokFacts DEF Chained
      <4> QED BY <2>1, <4>1, TailExists
    <3>3. Newest(tok[k].root) = u
      BY <2>1, <3>2, TailIsNewest
    <3>4. tok[k].root \notin Reused /\ u > cut.read => Active(u)
      BY <2>1, <3>2 DEF TailsAlive, Reused
    <3> QED BY <3>1, <3>3, <3>4
  <2>5. ReuseEndsFamily
    BY <2>1, <2>2 DEF TailsAlive, ReuseEndsFamily, Reused
  <2> QED BY <2>3, <2>4, <2>5 DEF RotationSound
<1> QED BY <1>1, SessionsInvHolds, PTL

\* _refresh_unless_rotated and the grace period of rotate_refresh_token: the
\* threads of a client never lose their session to reuse detection before an
\* answer was lost, and not within the grace period before two were.
THEOREM OneLossIsForgiven == SessionsSpec => []OneLossForgiven
<1>1. SessionsInv => OneLossForgiven
  BY DEF SessionsInv
<1> QED BY <1>1, SessionsInvHolds, PTL

\* revoke_user_refresh_tokens and confirm_password_reset: every session that a
\* password change or deactivation lists stays ended, and a reset token
\* changes the password at most once.
THEOREM AccountOperationsAreSound == SessionsSpec => []AccountOperationsHold
<1>1. SessionsInv => AccountOperationsHold
  <2> SUFFICES ASSUME SessionsInv PROVE AccountOperationsHold
    OBVIOUS
  <2>1. DOMAIN resets = 1..Len(resets)
    BY ResetFacts DEF SessionsInv
  <2>2. ResetOnce
    BY <2>1 DEF SessionsInv, ServerInv, ResetsUsedOnce, ResetOnce
  <2> QED BY <2>2 DEF SessionsInv, ServerInv, AccountOperationsHold
<1> QED BY <1>1, SessionsInvHolds, PTL
=============================================================================
