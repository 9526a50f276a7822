------------------------ MODULE OfflineSync_proofs ------------------------
(***************************************************************************)
(* Proofs about OfflineSync for every set of devices, records, edits and   *)
(* changes: the outbox is sound, deletes of synchronized records hold, and *)
(* a device that has caught up shows what the server holds. Three          *)
(* invariants stand on each other (WellFormed, Traced, Caught); both sides *)
(* are first reduced to what they do to one record.                        *)
(***************************************************************************)
EXTENDS OfflineSync, TLAPS, WellFoundedInduction, NaturalsInduction,
        FiniteSetTheorems

-----------------------------------------------------------------------------
(* Induction over the changes of a request                                 *)

\* A set of natural numbers that is not empty has a least element.
LEMMA LeastNat ==
    ASSUME NEW T, T \subseteq Nat, T # {}
    PROVE  \E x \in T : \A y \in T : x <= y
<1> DEFINE R == {p \in Nat \X Nat : p[1] < p[2]}
<1>1. IsWellFoundedOn(R, Nat)
  <2>1. R = OpToRel(<, Nat) BY DEF OpToRel
  <2> QED BY <2>1, NatLessThanWellFounded
<1>2. PICK x \in T : \A y \in T : ~ (<<y, x>> \in R)
  BY <1>1, WFMin
<1>3. ASSUME NEW y \in T PROVE x <= y
  <2>1. x \in Nat /\ y \in Nat
    OBVIOUS
  <2>2. ~(y < x)
    BY <2>1, <1>2
  <2> QED BY <2>1, <2>2
<1> QED BY <1>3

\* f is the run of push_changes over the first N changes.
IsRun(f, N, w, u, batch, fails) ==
    f = [n \in 0..N |-> IF n = 0 THEN [work |-> w, done |-> <<>>]
                        ELSE PushOne(w, u, f[n - 1], batch[n], fails)]

\* Every request has a run.
LEMMA RunExists ==
    ASSUME NEW w, NEW u, NEW batch, NEW fails, NEW N \in Nat
    PROVE  \E f : IsRun(f, N, w, u, batch, fails)
<1> DEFINE T == {n \in Nat : ~ \E f : IsRun(f, n, w, u, batch, fails)}
<1>1. SUFFICES ASSUME T # {} PROVE FALSE
  OBVIOUS
<1>2. PICK m \in T : \A y \in T : m <= y
  BY <1>1, LeastNat
<1>3. m \in Nat /\ ~ \E f : IsRun(f, m, w, u, batch, fails)
  OBVIOUS
<1>4. m # 0
  <2> DEFINE f == [n \in 0..0 |-> [work |-> w, done |-> <<>>]]
  <2>1. IsRun(f, 0, w, u, batch, fails)
    BY DEF IsRun
  <2> QED BY <2>1, <1>3
<1>5. m - 1 \in Nat /\ m - 1 \notin T
  <2>1. m - 1 \in Nat /\ ~(m <= m - 1)
    BY <1>3, <1>4
  <2> QED BY <2>1, <1>2
<1>6. PICK f : IsRun(f, m - 1, w, u, batch, fails)
  BY <1>5
<1> HIDE DEF T
<1> DEFINE g == [n \in 0..m |-> IF n < m THEN f[n]
                                ELSE PushOne(w, u, f[m - 1], batch[m], fails)]
<1>7. IsRun(g, m, w, u, batch, fails)
  <2>1. ASSUME NEW n \in 0..m
        PROVE  g[n] = IF n = 0 THEN [work |-> w, done |-> <<>>]
                      ELSE PushOne(w, u, g[n - 1], batch[n], fails)
    <3>1. CASE n = 0
      <4>1. 0 \in 0..(m - 1) /\ 0 < m
        BY <1>3, <1>4
      <4>2. f[0] = [work |-> w, done |-> <<>>]
        BY <4>1, <1>6 DEF IsRun
      <4> QED BY <3>1, <4>1, <4>2
    <3>2. CASE n # 0 /\ n < m
      <4>1. n \in 0..(m - 1) /\ n - 1 \in 0..m /\ n - 1 < m
        BY <1>3, <3>2
      <4>2. f[n] = PushOne(w, u, f[n - 1], batch[n], fails)
        BY <4>1, <3>2, <1>6 DEF IsRun
      <4>3. g[n] = f[n] /\ g[n - 1] = f[n - 1]
        BY <4>1, <3>2
      <4> QED BY <3>2, <4>2, <4>3
    <3>3. CASE n = m
      <4>1. m - 1 \in 0..m /\ m - 1 < m /\ m \in 0..m
        BY <1>3, <1>4
      <4>2. g[m - 1] = f[m - 1]
        BY <4>1
      <4>3. g[m] = PushOne(w, u, f[m - 1], batch[m], fails)
        BY <4>1, <1>3
      <4> QED BY <3>3, <1>4, <4>2, <4>3
    <3> QED BY <1>3, <3>1, <3>2, <3>3
  <2>2. g = [n \in 0..m |-> g[n]]
    OBVIOUS
  <2> HIDE DEF g
  <2> QED BY <2>1, <2>2 DEF IsRun
<1> QED BY <1>3, <1>7

\* What holds of the tables before the first change, and is kept by every
\* change, holds of the outcome of a request. I[n]: the outcomes of n changes
\* for which it holds.
LEMMA PushInduction ==
    ASSUME NEW w, NEW u, NEW batch, NEW fails, NEW I, Len(batch) \in Nat,
           [work |-> w, done |-> <<>>] \in I[0],
           \A n \in 1..Len(batch) : \A acc \in I[n - 1] :
              PushOne(w, u, acc, batch[n], fails) \in I[n]
    PROVE  PushChanges(w, u, batch, fails) \in I[Len(batch)]
<1> DEFINE N == Len(batch)
           run == CHOOSE f : IsRun(f, N, w, u, batch, fails)
<1>1. IsRun(run, N, w, u, batch, fails)
  BY RunExists
<1>2. PushChanges(w, u, batch, fails) = run[N]
  BY DEF PushChanges, IsRun
<1> HIDE DEF run
<1> DEFINE T == {n \in Nat : n <= N /\ run[n] \notin I[n]}
<1>3. ASSUME T # {} PROVE FALSE
  <2>1. PICK m \in T : \A y \in T : m <= y
    BY <1>3, LeastNat
  <2>2. m \in Nat /\ m <= N /\ run[m] \notin I[m]
    OBVIOUS
  <2>3. m # 0
    <3>1. run[0] = [work |-> w, done |-> <<>>]
      BY <1>1 DEF IsRun
    <3> QED BY <3>1, <2>2
  <2>4. m - 1 \in Nat /\ m - 1 \in 0..N /\ m \in 1..N /\ ~(m <= m - 1)
    BY <2>2, <2>3
  <2>5. run[m - 1] \in I[m - 1]
    BY <2>1, <2>4
  <2>6. run[m] = PushOne(w, u, run[m - 1], batch[m], fails)
    BY <1>1, <2>2, <2>3, <2>4 DEF IsRun
  <2> QED BY <2>2, <2>4, <2>5, <2>6
<1> QED BY <1>2, <1>3

-----------------------------------------------------------------------------
(* The server's tables. w and v are tables, r a record, rc a receipt.      *)

\* A row that exists has content.
ProperRow == {row \in Row : row.ver > 0 => row.val \in Val}

ProperReceipt == [user: User, pay: Payload, status: Status, kind: Kind,
                  ver: Nat, row: ProperRow]

ProperResult == [id: ChangeId, rec: Rec, status: Status, kind: Kind,
                 ver: Nat, row: ProperRow, rver: Nat, replayed: BOOLEAN]

ProperWork == [row: [Rec -> ProperRow], seq: Nat,
               rcpt: [ChangeId -> ProperReceipt \cup {NoReceipt}],
               applied: [ChangeId -> Nat]]

\* What a device sends: an insert, update or delete that the schema accepts.
ClientChange == {ch \in Change : /\ ch.pay.op \in Ops
                                 /\ ch.pay.flag = "absent"
                                 /\ ch.pay.valid}

\* The receipt stored for a change, with any failure kind.
Stored(v, u, ch, status, row) ==
    \E kind \in Kind :
        /\ status = "error" => kind # "conflict"
        /\ v.rcpt[ch.id] = [user |-> u, pay |-> ch.pay, status |-> status,
                            kind |-> kind, ver |-> row.ver, row |-> row]

\* Only the row and the receipt of a change may be touched.
Untouched(w, ch, v) ==
    /\ \A s \in Rec \ {ch.pay.rec} : v.row[s] = w.row[s]
    /\ \A i \in ChangeId \ {ch.id} : v.rcpt[i] = w.rcpt[i]

\* A change that writes its row, which it found at the version it claims.
Written(w, u, p, v) ==
    LET old == w.row[p.rec]
        new == v.row[p.rec]
    IN  /\ v.seq = w.seq + 1
        /\ new.seq = w.seq + 1
        /\ new.ver = old.ver + 1
        /\ old.ver > 0 => /\ p.base = old.ver
                          /\ new.by = old.by
                          /\ p.rec \in Owned => old.by = u
        /\ old.ver = 0 => p.op = "upsert" /\ ~new.del /\ new.by = u
        /\ p.op = "upsert" => /\ new.val = p.val
                              /\ old.ver > 0 => new.del = old.del
        /\ p.op = "delete" => new.del /\ new.val = old.val

\* What applying a new change of a device to the tables w may give.
Effect(w, u, ch, v, status) ==
    LET r == ch.pay.rec
        same == v.row[r] = w.row[r] /\ v.seq = w.seq
    IN  \/ /\ status = "error"
           /\ same
           /\ \/ v.rcpt[ch.id] = w.rcpt[ch.id]
              \/ Stored(v, u, ch, "error", NoRow)
        \/ /\ status = "conflict"
           /\ same
           /\ w.row[r].ver > 0
           /\ StaleBase(w, ch.pay)
           /\ Stored(v, u, ch, "conflict", w.row[r])
        \/ /\ status = "accepted"
           /\ same
           /\ ch.pay.op = "delete"
           /\ w.row[r].ver = 0
           /\ Stored(v, u, ch, "accepted", w.row[r])
        \/ /\ status = "accepted"
           /\ Written(w, u, ch.pay, v)
           /\ Stored(v, u, ch, "accepted", v.row[r])

\* The types of what the lemmas below compare.
LEMMA WorkFields ==
    ASSUME NEW w \in ProperWork
    PROVE  /\ w.seq \in Nat
           /\ w.row \in [Rec -> ProperRow]
           /\ \A r \in Rec : /\ w.row[r] \in ProperRow
                             /\ w.row[r] \in Row
                             /\ w.row[r].ver \in Nat
                             /\ w.row[r].seq \in Nat
           /\ w.rcpt \in [ChangeId -> ProperReceipt \cup {NoReceipt}]
           /\ w.applied \in [ChangeId -> Nat]
           /\ \A i \in ChangeId :
                 w.rcpt[i] # NoReceipt =>
                     /\ w.rcpt[i] \in ProperReceipt
                     /\ w.rcpt[i].ver \in Nat
                     /\ w.rcpt[i].row \in ProperRow
                     /\ w.rcpt[i].row.ver \in Nat
                     /\ w.rcpt[i].pay \in Payload
                     /\ w.rcpt[i].pay.rec \in Rec
                     /\ w.rcpt[i].pay.base \in Nat
<1>1. /\ w.seq \in Nat
      /\ w.row \in [Rec -> ProperRow]
      /\ w.rcpt \in [ChangeId -> ProperReceipt \cup {NoReceipt}]
      /\ w.applied \in [ChangeId -> Nat]
  BY DEF ProperWork
<1>2. \A x \in ProperRow : x \in Row /\ x.ver \in Nat /\ x.seq \in Nat
  BY DEF ProperRow, Row
<1>3. \A x \in ProperReceipt :
         /\ x.ver \in Nat
         /\ x.row \in ProperRow
         /\ x.pay \in Payload
         /\ x.pay.rec \in Rec
         /\ x.pay.base \in Nat
  BY DEF ProperReceipt, Payload
<1>4. \A r \in Rec : w.row[r] \in ProperRow
  BY <1>1
<1>5. \A i \in ChangeId : w.rcpt[i] # NoReceipt => w.rcpt[i] \in ProperReceipt
  BY <1>1
<1> QED BY <1>1, <1>2, <1>3, <1>4, <1>5

LEMMA NoRowProper == NoRow \in ProperRow
BY DEF NoRow, Row, ProperRow

\* The fields of a change that the lemmas compare.
LEMMA ChangeFields ==
    ASSUME NEW ch \in ClientChange
    PROVE  /\ ch \in Change
           /\ ch.id \in ChangeId
           /\ ch.pay \in Payload
           /\ ch.pay.rec \in Rec
           /\ ch.pay.base \in Nat
           /\ ch.pay.val \in Val
           /\ ch.pay.op \in Ops
           /\ ch.pay.flag = "absent"
           /\ ch.pay.valid
BY DEF ClientChange, Change, Payload

\* Storing a row.
LEMMA WriteRowFacts ==
    ASSUME NEW w \in ProperWork, NEW r \in Rec, NEW row \in ProperRow
    PROVE  /\ WriteRow(w, r, row) \in ProperWork
           /\ WriteRow(w, r, row).seq = w.seq + 1
           /\ WriteRow(w, r, row).rcpt = w.rcpt
           /\ WriteRow(w, r, row).row[r].seq = w.seq + 1
           /\ WriteRow(w, r, row).row[r].ver = row.ver
           /\ WriteRow(w, r, row).row[r].val = row.val
           /\ WriteRow(w, r, row).row[r].del = row.del
           /\ WriteRow(w, r, row).row[r].by = row.by
           /\ \A s \in Rec \ {r} : WriteRow(w, r, row).row[s] = w.row[s]
<1> DEFINE m == WriteRow(w, r, row)
           new == [row EXCEPT !.seq = w.seq + 1]
<1>1. /\ w.seq \in Nat
      /\ w.row \in [Rec -> ProperRow]
      /\ w.rcpt \in [ChangeId -> ProperReceipt \cup {NoReceipt}]
      /\ w.applied \in [ChangeId -> Nat]
  BY DEF ProperWork
<1>2. /\ new \in Row
      /\ new.seq = w.seq + 1
      /\ new.ver = row.ver
      /\ new.val = row.val
      /\ new.del = row.del
      /\ new.by = row.by
  BY <1>1 DEF ProperRow, Row
<1>3. new \in ProperRow
  BY <1>2 DEF ProperRow
<1>4. m = [w EXCEPT !.seq = w.seq + 1, !.row = [w.row EXCEPT ![r] = new]]
  BY DEF WriteRow
<1> HIDE DEF m, new
<1>5. /\ m.seq = w.seq + 1
      /\ m.row = [w.row EXCEPT ![r] = new]
      /\ m.rcpt = w.rcpt
      /\ m.applied = w.applied
      /\ m = [row |-> m.row, seq |-> m.seq, rcpt |-> m.rcpt,
              applied |-> m.applied]
  BY <1>4 DEF ProperWork
<1>6. m.row \in [Rec -> ProperRow] /\ m.seq \in Nat
  BY <1>1, <1>3, <1>5
<1>7. m \in ProperWork
  BY <1>1, <1>5, <1>6 DEF ProperWork
<1>8. m.row[r] = new /\ \A s \in Rec \ {r} : m.row[s] = w.row[s]
  BY <1>1, <1>5
<1> QED BY <1>2, <1>5, <1>7, <1>8 DEF m

\* Storing a receipt, after counting the change or not.
LEMMA StoreReceiptFacts ==
    ASSUME NEW w \in ProperWork, NEW u \in User, NEW ch \in Change,
           NEW status \in Status, NEW kind \in Kind, NEW row \in ProperRow,
           status = "error" => kind # "conflict"
    PROVE  /\ StoreReceipt(w, u, ch, status, kind, row) \in ProperWork
           /\ StoreReceipt(w, u, ch, status, kind, row).row = w.row
           /\ StoreReceipt(w, u, ch, status, kind, row).seq = w.seq
           /\ Stored(StoreReceipt(w, u, ch, status, kind, row), u, ch,
                     status, row)
           /\ \A i \in ChangeId \ {ch.id} :
                 StoreReceipt(w, u, ch, status, kind, row).rcpt[i] = w.rcpt[i]
<1> DEFINE m == StoreReceipt(w, u, ch, status, kind, row)
           rc == [user |-> u, pay |-> ch.pay, status |-> status,
                  kind |-> kind, ver |-> row.ver, row |-> row]
<1>1. row.ver \in Nat /\ ch.id \in ChangeId /\ ch.pay \in Payload
  BY DEF ProperRow, Row, Change
<1>2. rc \in ProperReceipt
  BY <1>1 DEF ProperReceipt
<1>3. m = [w EXCEPT !.rcpt = [w.rcpt EXCEPT ![ch.id] = rc]]
  BY DEF StoreReceipt
<1>4. rc = [user |-> u, pay |-> ch.pay, status |-> status,
            kind |-> kind, ver |-> row.ver, row |-> row]
  OBVIOUS
<1> HIDE DEF m, rc
<1>5. /\ m.row = w.row
      /\ m.seq = w.seq
      /\ m.applied = w.applied
      /\ m.rcpt = [w.rcpt EXCEPT ![ch.id] = rc]
      /\ m = [row |-> m.row, seq |-> m.seq, rcpt |-> m.rcpt,
              applied |-> m.applied]
  BY <1>3 DEF ProperWork
<1>6. /\ m.rcpt \in [ChangeId -> ProperReceipt \cup {NoReceipt}]
      /\ m.rcpt[ch.id] = rc
      /\ \A i \in ChangeId \ {ch.id} : m.rcpt[i] = w.rcpt[i]
  BY <1>1, <1>2, <1>5 DEF ProperWork
<1>7. m \in ProperWork
  BY <1>5, <1>6 DEF ProperWork
<1>8. Stored(m, u, ch, status, row)
  BY <1>4, <1>6 DEF Stored
<1> QED BY <1>5, <1>6, <1>7, <1>8 DEF m

LEMMA CountFacts ==
    ASSUME NEW w \in ProperWork, NEW ch \in Change
    PROVE  /\ Count(w, ch) \in ProperWork
           /\ Count(w, ch).row = w.row
           /\ Count(w, ch).seq = w.seq
           /\ Count(w, ch).rcpt = w.rcpt
<1> DEFINE m == Count(w, ch)
<1>1. ch.id \in ChangeId
  BY DEF Change
<1>2. /\ m.row = w.row
      /\ m.seq = w.seq
      /\ m.rcpt = w.rcpt
      /\ m.applied = [w.applied EXCEPT ![ch.id] = w.applied[ch.id] + 1]
      /\ m = [row |-> m.row, seq |-> m.seq, rcpt |-> m.rcpt,
              applied |-> m.applied]
  BY DEF Count, ProperWork
<1>3. m.applied \in [ChangeId -> Nat]
  BY <1>1, <1>2 DEF ProperWork
<1> QED BY <1>2, <1>3 DEF ProperWork

\* Accepting a change after it has made m of the tables.
LEMMA AcceptFacts ==
    ASSUME NEW m \in ProperWork, NEW u \in User, NEW ch \in Change
    PROVE  /\ Accept(m, u, ch) \in ProperWork
           /\ Accept(m, u, ch).row = m.row
           /\ Accept(m, u, ch).seq = m.seq
           /\ Stored(Accept(m, u, ch), u, ch, "accepted", m.row[ch.pay.rec])
           /\ \A i \in ChangeId \ {ch.id} : Accept(m, u, ch).rcpt[i] = m.rcpt[i]
<1> DEFINE k == Count(m, ch)
<1>1. /\ k \in ProperWork
      /\ k.row = m.row
      /\ k.seq = m.seq
      /\ k.rcpt = m.rcpt
  BY CountFacts
<1>2. m.row[ch.pay.rec] \in ProperRow
  BY WorkFields DEF Change, Payload
<1>3. Accept(m, u, ch)
      = StoreReceipt(k, u, ch, "accepted", "none", m.row[ch.pay.rec])
  BY DEF Accept
<1>4. "accepted" \in Status /\ "none" \in Kind
  BY DEF Status, Kind
<1> HIDE DEF k
<1> QED BY <1>1, <1>2, <1>3, <1>4, StoreReceiptFacts

Outcome(status, kind, v) == [status |-> status, kind |-> kind, work |-> v]

\* The outcomes of a new change of a device, and when they arise.
Outcomes(w, u, ch, o) ==
    \/ o = Outcome("error", "transient", w)
    \/ \E k \in {"permission", "validation"} :
          o = Outcome("error", k, Reject(w, u, ch, k))
    \/ /\ o = Outcome("accepted", "none", Accept(w, u, ch))
       /\ ~(w.row[ch.pay.rec].ver > 0)
       /\ ch.pay.op = "delete"
    \/ /\ o = Outcome("conflict", "conflict", Conflict(w, u, ch))
       /\ w.row[ch.pay.rec].ver > 0
       /\ StaleBase(w, ch.pay)
    \/ /\ o = Outcome("accepted", "none", Accept(SoftDelete(w, ch.pay), u, ch))
       /\ w.row[ch.pay.rec].ver > 0
       /\ ch.pay.op = "delete"
       /\ ~StaleBase(w, ch.pay)
       /\ ~NotOwner(w, u, ch.pay)
    \/ /\ o = Outcome("accepted", "none", Accept(UpdateExisting(w, ch.pay), u, ch))
       /\ w.row[ch.pay.rec].ver > 0
       /\ ch.pay.op # "delete"
       /\ ~StaleBase(w, ch.pay)
       /\ ~NotOwner(w, u, ch.pay)
    \/ /\ o = Outcome("accepted", "none", Accept(CreateNew(w, u, ch.pay), u, ch))
       /\ ~(w.row[ch.pay.rec].ver > 0)
       /\ ch.pay.op # "delete"

LEMMA ProcessNewCases ==
    ASSUME NEW w, NEW u, NEW ch \in ClientChange, NEW fails \in BOOLEAN
    PROVE  Outcomes(w, u, ch, ProcessNew(w, u, TRUE, ch, fails))
<1>1. ch.pay.op \in Ops /\ ch.pay.valid
  BY ChangeFields
<1> QED BY <1>1 DEF ProcessNew, Outcomes, Outcome

\* What a change without a receipt does to the tables (process_change).
LEMMA OutcomeKind ==
    ASSUME NEW w, NEW u, NEW ch, NEW o, Outcomes(w, u, ch, o)
    PROVE  o.status = "error" => o.kind # "conflict"
BY DEF Outcomes, Outcome

LEMMA ProcessNewEffect ==
    ASSUME NEW w \in ProperWork, NEW u \in User, NEW ch \in ClientChange,
           NEW o, Outcomes(w, u, ch, o)
    PROVE  /\ o.work \in ProperWork
           /\ o.status \in Status
           /\ o.kind \in Kind
           /\ Untouched(w, ch, o.work)
           /\ Effect(w, u, ch, o.work, o.status)
<1> DEFINE p == ch.pay
           r == ch.pay.rec
           old == w.row[ch.pay.rec]
           Out(status, kind, v) == [status |-> status, kind |-> kind, work |-> v]
<1>1. /\ ch \in Change
      /\ ch.id \in ChangeId
      /\ p \in Payload
      /\ r \in Rec
      /\ p.base \in Nat
      /\ p.val \in Val
      /\ p.op \in Ops
      /\ p.flag = "absent"
      /\ p.valid
  BY ChangeFields
<1>2. /\ old \in ProperRow
      /\ old \in Row
      /\ old.ver \in Nat
      /\ w.seq \in Nat
  BY <1>1, WorkFields
<1>3. /\ "accepted" \in Status
      /\ "conflict" \in Status
      /\ "error" \in Status
      /\ \A k \in {"none", "conflict", "permission", "validation", "transient"} :
            k \in Kind
  BY DEF Status, Kind
<1>4. \/ o = Out("error", "transient", w)
      \/ \E k \in {"permission", "validation"} :
            o = Out("error", k, Reject(w, u, ch, k))
      \/ /\ o = Out("accepted", "none", Accept(w, u, ch))
         /\ ~(old.ver > 0)
         /\ p.op = "delete"
      \/ /\ o = Out("conflict", "conflict", Conflict(w, u, ch))
         /\ old.ver > 0
         /\ StaleBase(w, p)
      \/ /\ o = Out("accepted", "none", Accept(SoftDelete(w, p), u, ch))
         /\ old.ver > 0
         /\ p.op = "delete"
         /\ ~StaleBase(w, p)
         /\ ~NotOwner(w, u, p)
      \/ /\ o = Out("accepted", "none", Accept(UpdateExisting(w, p), u, ch))
         /\ old.ver > 0
         /\ p.op # "delete"
         /\ ~StaleBase(w, p)
         /\ ~NotOwner(w, u, p)
      \/ /\ o = Out("accepted", "none", Accept(CreateNew(w, u, p), u, ch))
         /\ ~(old.ver > 0)
         /\ p.op # "delete"
  BY DEF Outcomes, Outcome
<1>5. CASE o = Out("error", "transient", w)
  BY <1>3, <1>5 DEF Effect, Untouched
<1>6. ASSUME NEW k \in {"permission", "validation"},
             o = Out("error", k, Reject(w, u, ch, k))
      PROVE  /\ o.work \in ProperWork
             /\ o.status \in Status
             /\ o.kind \in Kind
             /\ Untouched(w, ch, o.work)
             /\ Effect(w, u, ch, o.work, o.status)
  <2> DEFINE v == StoreReceipt(w, u, ch, "error", k, NoRow)
  <2>1. o.work = v /\ o.status = "error" /\ o.kind = k
    BY <1>6 DEF Reject
  <2>2. k \in Kind
    BY <1>3
  <2>3. /\ v \in ProperWork
        /\ v.row = w.row
        /\ v.seq = w.seq
        /\ Stored(v, u, ch, "error", NoRow)
        /\ \A i \in ChangeId \ {ch.id} : v.rcpt[i] = w.rcpt[i]
    BY <1>1, <1>3, <2>2, NoRowProper, StoreReceiptFacts
  <2> HIDE DEF v
  <2> QED BY <1>3, <2>1, <2>2, <2>3 DEF Effect, Untouched
<1>7. CASE /\ o = Out("accepted", "none", Accept(w, u, ch))
           /\ ~(old.ver > 0)
           /\ p.op = "delete"
  <2>1. o.work = Accept(w, u, ch) /\ o.status = "accepted" /\ o.kind = "none"
    BY <1>7
  <2>2. /\ o.work \in ProperWork
        /\ o.work.row = w.row
        /\ o.work.seq = w.seq
        /\ Stored(o.work, u, ch, "accepted", w.row[r])
        /\ \A i \in ChangeId \ {ch.id} : o.work.rcpt[i] = w.rcpt[i]
    BY <1>1, <2>1, AcceptFacts
  <2>3. old.ver = 0
    BY <1>2, <1>7
  <2> QED BY <1>3, <1>7, <2>1, <2>2, <2>3 DEF Effect, Untouched
<1>8. CASE /\ o = Out("conflict", "conflict", Conflict(w, u, ch))
           /\ old.ver > 0
           /\ StaleBase(w, p)
  <2> DEFINE v == StoreReceipt(w, u, ch, "conflict", "conflict", old)
  <2>1. o.work = v /\ o.status = "conflict" /\ o.kind = "conflict"
    BY <1>8 DEF Conflict
  <2>2. /\ v \in ProperWork
        /\ v.row = w.row
        /\ v.seq = w.seq
        /\ Stored(v, u, ch, "conflict", old)
        /\ \A i \in ChangeId \ {ch.id} : v.rcpt[i] = w.rcpt[i]
    BY <1>1, <1>2, <1>3, StoreReceiptFacts
  <2> HIDE DEF v
  <2> QED BY <1>3, <1>8, <2>1, <2>2 DEF Effect, Untouched
<1>9. ASSUME NEW row \in ProperRow,
             o = Out("accepted", "none", Accept(WriteRow(w, r, row), u, ch)),
             row.ver = old.ver + 1,
             old.ver > 0 => /\ p.base = old.ver
                            /\ row.by = old.by
                            /\ r \in Owned => old.by = u,
             old.ver = 0 => p.op = "upsert" /\ ~row.del /\ row.by = u,
             p.op = "upsert" => /\ row.val = p.val
                                /\ old.ver > 0 => row.del = old.del,
             p.op = "delete" => row.del /\ row.val = old.val
      PROVE  /\ o.work \in ProperWork
             /\ o.status \in Status
             /\ o.kind \in Kind
             /\ Untouched(w, ch, o.work)
             /\ Effect(w, u, ch, o.work, o.status)
  <2> DEFINE m == WriteRow(w, r, row)
  <2>1. /\ m \in ProperWork
        /\ m.seq = w.seq + 1
        /\ m.rcpt = w.rcpt
        /\ m.row[r].seq = w.seq + 1
        /\ m.row[r].ver = row.ver
        /\ m.row[r].val = row.val
        /\ m.row[r].del = row.del
        /\ m.row[r].by = row.by
        /\ \A s \in Rec \ {r} : m.row[s] = w.row[s]
    BY <1>1, WriteRowFacts
  <2>2. o.work = Accept(m, u, ch) /\ o.status = "accepted" /\ o.kind = "none"
    BY <1>9
  <2> HIDE DEF m
  <2>3. /\ o.work \in ProperWork
        /\ o.work.row = m.row
        /\ o.work.seq = m.seq
        /\ Stored(o.work, u, ch, "accepted", m.row[r])
        /\ \A i \in ChangeId \ {ch.id} : o.work.rcpt[i] = m.rcpt[i]
    BY <1>1, <2>1, <2>2, AcceptFacts
  <2>4. Untouched(w, ch, o.work)
    BY <2>1, <2>3 DEF Untouched
  <2>5. Written(w, u, p, o.work)
    BY <1>9, <2>1, <2>3, Zenon DEF Written
  <2>6. Effect(w, u, ch, o.work, o.status)
    BY <2>2, <2>3, <2>5 DEF Effect
  <2> QED BY <1>3, <2>2, <2>3, <2>4, <2>6
<1>10. CASE /\ o = Out("accepted", "none", Accept(SoftDelete(w, p), u, ch))
            /\ old.ver > 0
            /\ p.op = "delete"
            /\ ~StaleBase(w, p)
            /\ ~NotOwner(w, u, p)
  <2> DEFINE row == [old EXCEPT !.ver = old.ver + 1, !.del = TRUE]
  <2>1. SoftDelete(w, p) = WriteRow(w, r, row)
    BY DEF SoftDelete
  <2>2. /\ row \in Row
        /\ row.ver = old.ver + 1
        /\ row.val = old.val
        /\ row.by = old.by
        /\ row.del
    <3>1. \A n \in Nat : [old EXCEPT !.ver = n, !.del = TRUE] \in Row
      BY <1>2 DEF Row
    <3>2. row.ver = old.ver + 1 /\ row.val = old.val /\ row.by = old.by
      BY <1>2 DEF Row
    <3>3. row.del
      BY <1>2, Zenon DEF Row
    <3>4. old.ver + 1 \in Nat
      BY <1>2
    <3>5. row \in Row
      BY <3>1, <3>4, Zenon
    <3> QED BY <3>2, <3>3, <3>5, Zenon
  <2>3. row \in ProperRow
    BY <1>2, <1>10, <2>2 DEF ProperRow
  <2>4. p.base = old.ver /\ (r \in Owned => old.by = u)
    BY <1>10 DEF StaleBase, NotOwner
  <2>5. old.ver # 0 /\ p.op # "upsert"
    BY <1>2, <1>10
  <2> HIDE DEF row
  <2> QED BY <1>9, <1>10, <2>1, <2>2, <2>3, <2>4, <2>5
<1>11. CASE /\ o = Out("accepted", "none", Accept(UpdateExisting(w, p), u, ch))
            /\ old.ver > 0
            /\ p.op # "delete"
            /\ ~StaleBase(w, p)
            /\ ~NotOwner(w, u, p)
  <2> DEFINE row == [old EXCEPT !.ver = old.ver + 1, !.val = p.val,
                                !.del = old.del]
  <2>1. UpdateExisting(w, p) = WriteRow(w, r, row)
    BY <1>1 DEF UpdateExisting
  <2>2. /\ row \in Row
        /\ row.ver = old.ver + 1
        /\ row.val = p.val
        /\ row.by = old.by
        /\ row.del = old.del
    <3>1. \A n \in Nat, x \in Val, d \in BOOLEAN :
             [old EXCEPT !.ver = n, !.val = x, !.del = d] \in Row
      BY <1>2 DEF Row
    <3>2. old.del \in BOOLEAN /\ old.ver + 1 \in Nat
      BY <1>2 DEF Row
    <3>3. row.ver = old.ver + 1 /\ row.val = p.val /\ row.by = old.by
      BY <1>2 DEF Row
    <3>4. row.del = old.del
      BY <1>2, Zenon DEF Row
    <3>5. row \in Row
      BY <1>1, <3>1, <3>2
    <3> QED BY <3>3, <3>4, <3>5
  <2>3. row \in ProperRow
    BY <1>1, <2>2 DEF ProperRow
  <2>4. p.base = old.ver /\ (r \in Owned => old.by = u)
    BY <1>11 DEF StaleBase, NotOwner
  <2>5. old.ver # 0
    BY <1>2, <1>11
  <2> HIDE DEF row
  <2> QED BY <1>9, <1>11, <2>1, <2>2, <2>3, <2>4, <2>5
<1>12. CASE /\ o = Out("accepted", "none", Accept(CreateNew(w, u, p), u, ch))
            /\ ~(old.ver > 0)
            /\ p.op # "delete"
  <2> DEFINE row == [ver |-> 1, val |-> p.val, del |-> p.flag = "true",
                     by |-> u, seq |-> 0]
  <2>1. CreateNew(w, u, p) = WriteRow(w, r, row)
    BY DEF CreateNew
  <2>2. /\ row \in Row
        /\ row.ver = 1
        /\ row.val = p.val
        /\ row.by = u
        /\ ~row.del
    BY <1>1 DEF Row
  <2>3. row \in ProperRow
    BY <1>1, <2>2 DEF ProperRow
  <2>4. old.ver = 0 /\ 1 = old.ver + 1 /\ p.op = "upsert"
    BY <1>1, <1>2, <1>12 DEF Ops
  <2> HIDE DEF row
  <2> QED BY <1>9, <1>12, <2>1, <2>2, <2>3, <2>4
<1> QED BY <1>4, <1>5, <1>6, <1>7, <1>8, <1>10, <1>11, <1>12

-----------------------------------------------------------------------------
(* The tables stay sound, and every change moves them on                   *)

\* row is record r as some tables before w had it.
CopyOf(w, r, row) ==
    /\ row.ver <= w.row[r].ver
    /\ row.ver > 0 /\ row.ver = w.row[r].ver =>
          row.val = w.row[r].val /\ row.del = w.row[r].del
    /\ row.ver > 0 /\ row.del => w.row[r].del

RowSound(w, r) ==
    /\ w.row[r].seq <= w.seq
    /\ w.row[r].ver = 0 => w.row[r] = NoRow
    /\ w.row[r].ver > 0 => w.row[r].seq > 0

\* A receipt tells what became of the record.
ReceiptSound(w, rc) ==
    /\ rc.ver = rc.row.ver
    /\ rc.ver = 0 => rc.row = NoRow
    /\ CopyOf(w, rc.pay.rec, rc.row)
    /\ rc.status = "error" => rc.ver = 0 /\ rc.kind # "conflict"
    /\ rc.status = "conflict" => rc.ver > 0
    /\ rc.status = "accepted" /\ rc.pay.op = "upsert" => rc.ver > 0
    /\ rc.status = "accepted" /\ rc.pay.op = "delete" /\ rc.ver > 0 =>
          w.row[rc.pay.rec].del
    /\ rc.status = "accepted" /\ rc.ver > 0 /\ rc.pay.rec \in Owned =>
          w.row[rc.pay.rec].by = rc.user

ServerSound(w) ==
    /\ w \in ProperWork
    /\ \A r \in Rec : RowSound(w, r)
    /\ \A i \in ChangeId : w.rcpt[i] # NoReceipt => ReceiptSound(w, w.rcpt[i])

\* The tables v are w or later ones.
Advances(w, v) ==
    /\ w.seq <= v.seq
    /\ \A r \in Rec : v.row[r] # w.row[r] =>
          /\ v.row[r].ver > w.row[r].ver
          /\ v.row[r].seq > w.seq
          /\ w.row[r].ver > 0 => v.row[r].by = w.row[r].by
          /\ w.row[r].ver > 0 /\ w.row[r].del => v.row[r].del
    /\ \A i \in ChangeId : w.rcpt[i] # NoReceipt => v.rcpt[i] = w.rcpt[i]

LEMMA AdvancesReflexive ==
    ASSUME NEW w \in ProperWork
    PROVE  Advances(w, w)
BY WorkFields DEF Advances

LEMMA AdvancesTransitive ==
    ASSUME NEW w \in ProperWork, NEW v \in ProperWork, NEW m \in ProperWork,
           Advances(w, v), Advances(v, m)
    PROVE  Advances(w, m)
<1>1. w.seq <= m.seq
  BY WorkFields DEF Advances
<1>2. ASSUME NEW r \in Rec, m.row[r] # w.row[r]
      PROVE  /\ m.row[r].ver > w.row[r].ver
             /\ m.row[r].seq > w.seq
             /\ w.row[r].ver > 0 => m.row[r].by = w.row[r].by
             /\ w.row[r].ver > 0 /\ w.row[r].del => m.row[r].del
  <2>1. /\ w.row[r].ver \in Nat
        /\ v.row[r].ver \in Nat
        /\ m.row[r].ver \in Nat
        /\ v.seq \in Nat
        /\ w.seq \in Nat
        /\ m.row[r].seq \in Nat
    BY WorkFields
  <2>2. CASE v.row[r] = w.row[r]
    BY <1>2, <2>1, <2>2 DEF Advances
  <2>3. CASE m.row[r] = v.row[r]
    BY <1>2, <2>1, <2>3 DEF Advances
  <2>4. CASE v.row[r] # w.row[r] /\ m.row[r] # v.row[r]
    <3>1. /\ m.row[r].ver > w.row[r].ver
          /\ m.row[r].seq > w.seq
          /\ v.row[r].ver > 0
      BY <2>1, <2>4 DEF Advances
    <3> QED BY <2>4, <3>1 DEF Advances
  <2> QED BY <2>2, <2>3, <2>4
<1>3. \A i \in ChangeId : w.rcpt[i] # NoReceipt => m.rcpt[i] = w.rcpt[i]
  BY DEF Advances
<1> QED BY <1>1, <1>2, <1>3 DEF Advances

\* Versions do not go down.
LEMMA AdvancesVersion ==
    ASSUME NEW w \in ProperWork, NEW v \in ProperWork, Advances(w, v),
           NEW r \in Rec
    PROVE  /\ w.row[r].ver <= v.row[r].ver
           /\ w.row[r].ver = v.row[r].ver => w.row[r] = v.row[r]
<1>1. w.row[r].ver \in Nat /\ v.row[r].ver \in Nat
  BY WorkFields
<1> QED BY <1>1 DEF Advances

\* A copy of a row is a copy of every later row of the record.
LEMMA CopyKept ==
    ASSUME NEW w \in ProperWork, NEW v \in ProperWork, Advances(w, v),
           NEW r \in Rec, NEW row, row.ver \in Nat, CopyOf(w, r, row)
    PROVE  CopyOf(v, r, row)
<1>1. /\ w.row[r].ver \in Nat
      /\ v.row[r].ver \in Nat
  BY WorkFields
<1>2. CASE v.row[r] = w.row[r]
  BY <1>2 DEF CopyOf
<1>3. CASE v.row[r] # w.row[r]
  <2>1. v.row[r].ver > w.row[r].ver
    BY <1>3 DEF Advances
  <2>2. row.ver <= v.row[r].ver /\ row.ver # v.row[r].ver
    BY <1>1, <2>1 DEF CopyOf
  <2>3. row.ver > 0 /\ row.del => v.row[r].del
    BY <1>1, <1>3 DEF CopyOf, Advances
  <2> QED BY <2>2, <2>3 DEF CopyOf
<1> QED BY <1>2, <1>3

LEMMA ReceiptKept ==
    ASSUME NEW w \in ProperWork, NEW v \in ProperWork, Advances(w, v),
           NEW rc \in ProperReceipt, ReceiptSound(w, rc)
    PROVE  ReceiptSound(v, rc)
<1> DEFINE r == rc.pay.rec
<1>1. /\ r \in Rec
      /\ rc.ver \in Nat
      /\ rc.row.ver \in Nat
  BY DEF ProperReceipt, Payload, ProperRow, Row
<1>2. CopyOf(v, r, rc.row)
  BY <1>1, CopyKept DEF ReceiptSound
<1>3. w.row[r].ver \in Nat /\ v.row[r].ver \in Nat
  BY <1>1, WorkFields
<1>4. rc.ver > 0 => w.row[r].ver > 0
  BY <1>1, <1>3 DEF ReceiptSound, CopyOf
<1>5. rc.ver > 0 /\ w.row[r].del => v.row[r].del
  BY <1>1, <1>4 DEF Advances
<1>6. rc.ver > 0 => v.row[r].by = w.row[r].by
  BY <1>1, <1>4 DEF Advances
<1> QED BY <1>2, <1>5, <1>6 DEF ReceiptSound

\* The answer to change ch of user u, as long as the tables are w.
ResultSound(w, u, ch, res) ==
    /\ res \in ProperResult
    /\ res.id = ch.id
    /\ res.rec = ch.pay.rec
    /\ res.ver = res.row.ver
    /\ CopyOf(w, ch.pay.rec, res.row)
    /\ res.status = "error" => res.ver = 0 /\ res.kind # "conflict"
    /\ res.status # "error" =>
          /\ w.rcpt[ch.id] # NoReceipt
          /\ w.rcpt[ch.id].status = res.status
          /\ w.rcpt[ch.id].pay = ch.pay
    /\ res.status = "conflict" => res.row = w.rcpt[ch.id].row
    /\ res.status = "accepted" =>
          /\ w.rcpt[ch.id].ver = 0 => res.rver = 0
          /\ w.rcpt[ch.id].ver > 0 => /\ AckVersion(res) = w.rcpt[ch.id].ver
                                      /\ res.ver >= w.rcpt[ch.id].ver

\* An acceptance carries the row as it is when it is answered.
ResultFresh(w, ch, res) ==
    res.status = "accepted" /\ res.ver > 0 => res.row = w.row[ch.pay.rec]

LEMMA ResultKept ==
    ASSUME NEW w \in ProperWork, NEW v \in ProperWork, Advances(w, v),
           NEW u, NEW ch \in ClientChange, NEW res, ResultSound(w, u, ch, res)
    PROVE  ResultSound(v, u, ch, res)
<1>1. ch.id \in ChangeId /\ ch.pay.rec \in Rec
  BY ChangeFields
<1>2. res.row.ver \in Nat
  BY DEF ResultSound, ProperResult, ProperRow, Row
<1>3. CopyOf(v, ch.pay.rec, res.row)
  BY <1>1, <1>2, CopyKept DEF ResultSound
<1>4. w.rcpt[ch.id] # NoReceipt => v.rcpt[ch.id] = w.rcpt[ch.id]
  BY <1>1 DEF Advances
<1>5. /\ res.status = "conflict" => res.status # "error"
      /\ res.status = "accepted" => res.status # "error"
  OBVIOUS
<1>6. res.status # "error" => v.rcpt[ch.id] = w.rcpt[ch.id]
  BY <1>4 DEF ResultSound
<1> QED BY <1>3, <1>5, <1>6 DEF ResultSound

\* Applying a change whose identifier is new.
LEMMA EffectSound ==
    ASSUME NEW w, ServerSound(w), NEW u \in User, NEW ch \in ClientChange,
           w.rcpt[ch.id] = NoReceipt,
           NEW v \in ProperWork, NEW status, Untouched(w, ch, v),
           Effect(w, u, ch, v, status)
    PROVE  ServerSound(v) /\ Advances(w, v)
<1> DEFINE p == ch.pay
           r == ch.pay.rec
           old == w.row[ch.pay.rec]
           new == v.row[ch.pay.rec]
<1>1. /\ w \in ProperWork
      /\ \A s \in Rec : RowSound(w, s)
      /\ \A i \in ChangeId : w.rcpt[i] # NoReceipt => ReceiptSound(w, w.rcpt[i])
  BY DEF ServerSound
<1>2. /\ ch.id \in ChangeId
      /\ p \in Payload
      /\ r \in Rec
      /\ p.base \in Nat
      /\ p.op \in Ops
  BY ChangeFields
<1>3. /\ old.ver \in Nat
      /\ old.seq \in Nat
      /\ new.ver \in Nat
      /\ new.seq \in Nat
      /\ w.seq \in Nat
      /\ v.seq \in Nat
  BY <1>1, <1>2, WorkFields
<1>4. \/ new = old /\ v.seq = w.seq
      \/ Written(w, u, p, v)
  BY DEF Effect
<1>5. Advances(w, v)
  <2>1. w.seq <= v.seq
    BY <1>3, <1>4 DEF Written
  <2>2. ASSUME NEW s \in Rec, v.row[s] # w.row[s]
        PROVE  /\ v.row[s].ver > w.row[s].ver
               /\ v.row[s].seq > w.seq
               /\ w.row[s].ver > 0 => v.row[s].by = w.row[s].by
               /\ w.row[s].ver > 0 /\ w.row[s].del => v.row[s].del
    <3>1. s = r
      BY <2>2 DEF Untouched
    <3>2. Written(w, u, p, v)
      BY <1>4, <2>2, <3>1
    <3>3. new.ver > old.ver /\ new.seq > w.seq
      BY <1>3, <3>2 DEF Written
    <3>4. old.ver > 0 => new.by = old.by
      BY <3>2 DEF Written
    <3>5. old.ver > 0 /\ old.del => new.del
      BY <1>2, <3>2 DEF Written, Ops
    <3> QED BY <3>1, <3>3, <3>4, <3>5
  <2>3. \A i \in ChangeId : w.rcpt[i] # NoReceipt => v.rcpt[i] = w.rcpt[i]
    BY DEF Untouched
  <2> QED BY <2>1, <2>2, <2>3 DEF Advances
<1>6. ASSUME NEW s \in Rec
      PROVE  RowSound(v, s)
  <2>1. /\ w.row[s].ver \in Nat
        /\ w.row[s].seq \in Nat
    BY <1>1, WorkFields
  <2>2. CASE v.row[s] = w.row[s]
    BY <1>1, <1>3, <1>5, <2>1, <2>2 DEF RowSound, Advances
  <2>3. CASE v.row[s] # w.row[s]
    <3>1. s = r /\ Written(w, u, p, v)
      BY <1>4, <2>3 DEF Untouched
    <3> QED BY <1>3, <3>1 DEF RowSound, Written
  <2> QED BY <2>2, <2>3
<1>7. ASSUME NEW i \in ChangeId, v.rcpt[i] # NoReceipt
      PROVE  ReceiptSound(v, v.rcpt[i])
  <2>1. CASE w.rcpt[i] # NoReceipt
    <3>1. v.rcpt[i] = w.rcpt[i] /\ w.rcpt[i] \in ProperReceipt
      BY <1>1, <1>5, <2>1, WorkFields DEF Advances
    <3> QED BY <1>1, <1>5, <2>1, <3>1, ReceiptKept
  <2>2. CASE w.rcpt[i] = NoReceipt
    <3>1. i = ch.id
      BY <1>7, <2>2 DEF Untouched
    <3> DEFINE rc == v.rcpt[ch.id]
    <3>2. \/ Stored(v, u, ch, "error", NoRow)
          \/ /\ new = old
             /\ old.ver > 0
             /\ Stored(v, u, ch, "conflict", new)
          \/ /\ new = old
             /\ p.op = "delete"
             /\ old.ver = 0
             /\ Stored(v, u, ch, "accepted", new)
          \/ /\ Written(w, u, p, v)
             /\ Stored(v, u, ch, "accepted", new)
      BY <1>7, <3>1 DEF Effect
    <3>3. CASE Stored(v, u, ch, "error", NoRow)
      <4>1. /\ rc.ver = 0
            /\ rc.row = NoRow
            /\ rc.pay = p
            /\ rc.status = "error"
            /\ rc.kind # "conflict"
        BY <3>3 DEF Stored, NoRow
      <4>2. NoRow.ver = 0
        BY DEF NoRow
      <4> HIDE DEF rc
      <4>3. ReceiptSound(v, rc)
        BY <1>3, <4>1, <4>2 DEF ReceiptSound, CopyOf
      <4> QED BY <3>1, <4>3 DEF rc
    <3>4. ASSUME NEW st, Stored(v, u, ch, st, new)
          PROVE  /\ rc.ver = new.ver
                 /\ rc.row = new
                 /\ rc.pay = p
                 /\ rc.user = u
                 /\ rc.status = st
                 /\ CopyOf(v, r, new)
                 /\ new.ver = 0 => new = NoRow
      <4>1. /\ rc.ver = new.ver
            /\ rc.row = new
            /\ rc.pay = p
            /\ rc.user = u
            /\ rc.status = st
        BY <3>4 DEF Stored
      <4>2. CopyOf(v, r, new)
        BY <1>3 DEF CopyOf
      <4> QED BY <1>2, <1>6, <4>1, <4>2 DEF RowSound
    <3>5. CASE /\ new = old
               /\ old.ver > 0
               /\ Stored(v, u, ch, "conflict", new)
      <4>1. /\ rc.ver = new.ver
            /\ rc.row = new
            /\ rc.pay = p
            /\ rc.status = "conflict"
            /\ CopyOf(v, r, new)
            /\ rc.ver > 0
        BY <3>4, <3>5
      <4> HIDE DEF rc
      <4>2. ReceiptSound(v, rc)
        BY <1>3, <4>1 DEF ReceiptSound
      <4> QED BY <3>1, <4>2 DEF rc
    <3>6. CASE /\ new = old
               /\ p.op = "delete"
               /\ old.ver = 0
               /\ Stored(v, u, ch, "accepted", new)
      <4>1. /\ rc.ver = new.ver
            /\ rc.row = new
            /\ rc.pay = p
            /\ rc.status = "accepted"
            /\ CopyOf(v, r, new)
            /\ new = NoRow
            /\ rc.ver = 0
        BY <3>4, <3>6
      <4> HIDE DEF rc
      <4>2. ReceiptSound(v, rc)
        BY <1>3, <3>6, <4>1 DEF ReceiptSound
      <4> QED BY <3>1, <4>2 DEF rc
    <3>7. CASE /\ Written(w, u, p, v)
               /\ Stored(v, u, ch, "accepted", new)
      <4>1. /\ rc.ver = new.ver
            /\ rc.row = new
            /\ rc.pay = p
            /\ rc.user = u
            /\ rc.status = "accepted"
            /\ CopyOf(v, r, new)
        BY <3>4, <3>7
      <4>2. new.ver > 0
        BY <1>3, <3>7 DEF Written
      <4>3. p.op = "delete" => new.del
        BY <3>7 DEF Written
      <4>4. r \in Owned => new.by = u
        BY <1>3, <3>7 DEF Written
      <4> HIDE DEF rc
      <4>5. ReceiptSound(v, rc)
        BY <1>3, <4>1, <4>2, <4>3, <4>4 DEF ReceiptSound
      <4> QED BY <3>1, <4>5 DEF rc
    <3> QED BY <3>2, <3>3, <3>5, <3>6, <3>7
  <2> QED BY <2>1, <2>2
<1> QED BY <1>5, <1>6, <1>7 DEF ServerSound

\* The answer to a change applied for the first time.
LEMMA NewResultSound ==
    ASSUME NEW w, ServerSound(w), NEW u \in User, NEW ch \in ClientChange,
           w.rcpt[ch.id] = NoReceipt, NEW o, o.work \in ProperWork,
           o.status \in Status, o.kind \in Kind,
           o.status = "error" => o.kind # "conflict",
           Untouched(w, ch, o.work), Effect(w, u, ch, o.work, o.status)
    PROVE  /\ ResultSound(o.work, u, ch, NewResult(ch, o))
           /\ ResultFresh(o.work, ch, NewResult(ch, o))
<1> DEFINE v == o.work
           p == ch.pay
           new == o.work.row[ch.pay.rec]
           row == IF o.status = "error" THEN NoRow ELSE new
           res == NewResult(ch, o)
           rc == v.rcpt[ch.id]
<1>1. /\ ch.id \in ChangeId
      /\ p \in Payload
      /\ p.rec \in Rec
  BY ChangeFields
<1>2. ServerSound(v)
  BY EffectSound
<1>3. new \in ProperRow /\ new.ver \in Nat
  BY <1>1, WorkFields
<1>4. /\ NoRow \in ProperRow
      /\ NoRow.ver = 0
  BY NoRowProper DEF NoRow
<1>5. row \in ProperRow /\ row.ver \in Nat
  BY <1>3, <1>4
<1>6. res = [id |-> ch.id, rec |-> p.rec, status |-> o.status,
             kind |-> o.kind, ver |-> row.ver, row |-> row, rver |-> 0,
             replayed |-> FALSE]
  BY DEF NewResult
<1>7. /\ res \in ProperResult
      /\ res.id = ch.id
      /\ res.rec = p.rec
      /\ res.ver = row.ver
      /\ res.row = row
      /\ res.rver = 0
      /\ res.status = o.status
      /\ res.kind = o.kind
  <2> HIDE DEF row, res
  <2> QED BY <1>1, <1>5, <1>6 DEF ProperResult
<1>8. CASE o.status = "error"
  <2>1. row = NoRow
    BY <1>8
  <2>2. CopyOf(v, p.rec, row)
    BY <1>3, <1>4, <2>1 DEF CopyOf
  <2> HIDE DEF res, row
  <2> QED BY <1>4, <1>7, <1>8, <2>1, <2>2 DEF ResultSound, ResultFresh, res
<1>9. CASE o.status # "error"
  <2>1. row = new
    BY <1>9
  <2>2. CopyOf(v, p.rec, row)
    BY <1>3, <2>1 DEF CopyOf
  <2>3. Stored(v, u, ch, o.status, new)
    BY <1>9 DEF Effect
  <2>4. /\ rc.status = o.status
        /\ rc.pay = p
        /\ rc.ver = new.ver
        /\ rc.row = new
        /\ rc # NoReceipt
    <3>1. PICK k \in Kind : rc = [user |-> u, pay |-> p, status |-> o.status,
                                  kind |-> k, ver |-> new.ver, row |-> new]
      BY <2>3 DEF Stored
    <3>2. rc.status \in Status
      BY <3>1
    <3>3. rc # NoReceipt
      BY <3>2 DEF NoReceipt, Status
    <3> QED BY <3>1, <3>3
  <2>5. AckVersion(res) = new.ver
    BY <1>7, <2>1 DEF AckVersion
  <2> HIDE DEF res, row, rc
  <2>6. ResultSound(v, u, ch, res)
    BY <1>3, <1>7, <1>9, <2>1, <2>2, <2>4, <2>5 DEF ResultSound, rc
  <2>7. ResultFresh(v, ch, res)
    BY <1>7, <2>1 DEF ResultFresh
  <2> QED BY <2>6, <2>7 DEF res
<1> QED BY <1>8, <1>9

\* The answer to a change whose identifier has a receipt (replay_receipt).
LEMMA ReplaySound ==
    ASSUME NEW w, ServerSound(w), NEW u \in User, NEW ch \in ClientChange,
           w.rcpt[ch.id] # NoReceipt
    PROVE  /\ ResultSound(w, u, ch, ReplayResult(w, u, ch, w.rcpt[ch.id]))
           /\ ResultFresh(w, ch, ReplayResult(w, u, ch, w.rcpt[ch.id]))
<1> DEFINE p == ch.pay
           rc == w.rcpt[ch.id]
           row == w.row[ch.pay.rec]
           res == ReplayResult(w, u, ch, rc)
           first == ReceiptResult(ch, rc)
<1>1. /\ ch.id \in ChangeId
      /\ p \in Payload
      /\ p.rec \in Rec
  BY ChangeFields
<1>2. w \in ProperWork /\ ReceiptSound(w, rc)
  BY <1>1 DEF ServerSound
<1>3. /\ rc \in ProperReceipt
      /\ rc.ver \in Nat
      /\ rc.row \in ProperRow
      /\ rc.row.ver \in Nat
  BY <1>1, <1>2, WorkFields
<1>4. rc.status \in Status /\ rc.kind \in Kind
  BY <1>3 DEF ProperReceipt
<1>5. row \in ProperRow /\ row.ver \in Nat
  BY <1>1, <1>2, WorkFields
<1>6. /\ NoRow \in ProperRow
      /\ NoRow.ver = 0
  BY NoRowProper DEF NoRow
<1>7. CASE ~MayReplay(u, ch, rc)
  <2>1. res = [id |-> ch.id, rec |-> p.rec, status |-> "error",
               kind |-> "validation", ver |-> 0, row |-> NoRow, rver |-> 0,
               replayed |-> FALSE]
    BY <1>7 DEF ReplayResult, DuplicateError
  <2> HIDE DEF res
  <2>2. "error" \in Status /\ "validation" \in Kind
    BY DEF Status, Kind
  <2>3. /\ res \in ProperResult
        /\ res.id = ch.id
        /\ res.rec = p.rec
        /\ res.ver = 0
        /\ res.row = NoRow
        /\ res.status = "error"
        /\ res.kind # "conflict"
    BY <1>1, <1>6, <2>1, <2>2 DEF ProperResult
  <2>4. CopyOf(w, p.rec, NoRow)
    BY <1>5, <1>6 DEF CopyOf
  <2> QED BY <1>6, <2>3, <2>4 DEF ResultSound, ResultFresh, res
<1>8. CASE MayReplay(u, ch, rc)
  <2>1. rc.user = u /\ rc.pay = p
    BY <1>8 DEF MayReplay
  <2>2. res = RefreshAcceptedReplay(w, u, first)
    BY <1>8 DEF ReplayResult
  <2>3. first = [id |-> ch.id, rec |-> p.rec, status |-> rc.status,
                 kind |-> rc.kind, ver |-> rc.ver, row |-> rc.row,
                 rver |-> 0, replayed |-> TRUE]
    BY <2>1 DEF ReceiptResult
  <2> HIDE DEF res, first
  <2>4. /\ first.status = rc.status
        /\ first.kind = rc.kind
        /\ first.rec = p.rec
        /\ first.id = ch.id
        /\ first.ver = rc.ver
        /\ first.row = rc.row
        /\ first.rver = 0
        /\ first \in ProperResult
    BY <1>1, <1>3, <1>4, <2>3 DEF ProperResult
  <2>5. CASE rc.status = "accepted" /\ Visible(w, u, p.rec)
    <3>1. res = [first EXCEPT !.rver = rc.ver, !.ver = row.ver, !.row = row]
      BY <2>2, <2>4, <2>5 DEF RefreshAcceptedReplay
    <3>2. /\ res \in ProperResult
          /\ res.id = ch.id
          /\ res.rec = p.rec
          /\ res.ver = row.ver
          /\ res.row = row
          /\ res.rver = rc.ver
          /\ res.status = "accepted"
      BY <1>3, <1>5, <2>4, <2>5, <3>1 DEF ProperResult
    <3>3. CopyOf(w, p.rec, row)
      BY <1>5 DEF CopyOf
    <3>4. rc.ver > 0 => AckVersion(res) = rc.ver
      BY <3>2 DEF AckVersion
    <3>5. row.ver >= rc.ver
      BY <1>2, <1>3, <1>5, <2>1 DEF ReceiptSound, CopyOf
    <3> QED BY <2>1, <2>5, <3>2, <3>3, <3>4, <3>5
            DEF ResultSound, ResultFresh, res
  <2>6. CASE ~(rc.status = "accepted" /\ Visible(w, u, p.rec))
    <3>1. res = first
      BY <2>2, <2>4, <2>6 DEF RefreshAcceptedReplay
    <3>2. CopyOf(w, p.rec, rc.row) /\ rc.ver = rc.row.ver
      BY <1>2, <2>1 DEF ReceiptSound
    <3>3. rc.status = "accepted" => rc.ver = 0
      <4> SUFFICES ASSUME rc.status = "accepted", rc.ver > 0
                   PROVE  FALSE
        BY <1>3
      <4>1. row.ver > 0
        BY <1>3, <1>5, <3>2 DEF CopyOf
      <4>2. p.rec \in Owned => row.by = u
        BY <1>2, <2>1 DEF ReceiptSound
      <4> QED BY <2>6, <4>1, <4>2 DEF Visible
    <3>4. rc.status = "error" => rc.ver = 0 /\ rc.kind # "conflict"
      BY <1>2 DEF ReceiptSound
    <3>5. /\ res \in ProperResult
          /\ res.id = ch.id
          /\ res.rec = p.rec
          /\ res.ver = rc.ver
          /\ res.row = rc.row
          /\ res.rver = 0
          /\ res.status = rc.status
          /\ res.kind = rc.kind
      BY <2>4, <3>1
    <3>6. ResultFresh(w, ch, res)
      BY <3>3, <3>5 DEF ResultFresh
    <3>7. ResultSound(w, u, ch, res)
      BY <1>3, <2>1, <3>2, <3>3, <3>4, <3>5 DEF ResultSound
    <3> QED BY <3>6, <3>7 DEF res
  <2> QED BY <2>5, <2>6
<1> QED BY <1>7, <1>8

-----------------------------------------------------------------------------
(* A request                                                               *)

\* The changes of a request are for different records under different
\* identifiers.
GoodBatch(batch) ==
    /\ batch \in Seq(ClientChange)
    /\ \A j, k \in 1..Len(batch) : j # k =>
          /\ batch[j].id # batch[k].id
          /\ batch[j].pay.rec # batch[k].pay.rec

Answered == [change: ClientChange, result: ProperResult]

\* The receipt rc of a change that was new to the tables w: an acceptance
\* tells a version when the record was there.
NewReceipt(w, ch, rc) ==
    /\ rc.pay = ch.pay
    /\ rc.status = "accepted" /\ w.row[ch.pay.rec].ver > 0 => rc.ver > 0

\* The tables v have no other receipts than w but for those of a batch.
NewReceipts(w, v, batch) ==
    \A i \in ChangeId : v.rcpt[i] # w.rcpt[i] =>
        \E j \in 1..Len(batch) :
            i = batch[j].id /\ NewReceipt(w, batch[j], v.rcpt[i])

\* The outcome acc of the first n changes of a request, sent when the tables
\* were w.
Sofar(w, u, batch, n, acc) ==
    /\ ServerSound(acc.work)
    /\ Advances(w, acc.work)
    /\ acc.done \in Seq(Answered)
    /\ Len(acc.done) = n
    /\ \A j \in 1..n :
          /\ acc.done[j].change = batch[j]
          /\ ResultSound(acc.work, u, batch[j], acc.done[j].result)
          /\ ResultFresh(acc.work, batch[j], acc.done[j].result)
    /\ \A i \in ChangeId : acc.work.rcpt[i] # w.rcpt[i] =>
          \E j \in 1..n :
              i = batch[j].id /\ NewReceipt(w, batch[j], acc.work.rcpt[i])
    /\ \A r \in Rec : acc.work.row[r] # w.row[r] =>
          \E j \in 1..n : r = batch[j].pay.rec

\* The change ch after acc gives next: it is answered from its receipt, or
\* applied as new.
OneMore(u, acc, ch, next) ==
    \E res \in ProperResult, v \in ProperWork :
        /\ next = [work |-> v,
                   done |-> Append(acc.done, [change |-> ch, result |-> res])]
        /\ ResultSound(v, u, ch, res)
        /\ ResultFresh(v, ch, res)
        /\ \/ v = acc.work
           \/ /\ acc.work.rcpt[ch.id] = NoReceipt
              /\ Untouched(acc.work, ch, v)
              /\ Effect(acc.work, u, ch, v, res.status)

LEMMA PushOneCases ==
    ASSUME NEW w, ServerSound(w), NEW u \in User, NEW batch, GoodBatch(batch),
           NEW fails \in BOOLEAN, NEW n \in 1..Len(batch), NEW acc,
           Sofar(w, u, batch, n - 1, acc)
    PROVE  OneMore(u, acc, batch[n], PushOne(w, u, acc, batch[n], fails))
<1> DEFINE ch == batch[n]
           m == acc.work
           o == Process(w.rcpt, m, u, TRUE, acc.done, ch, fails)
<1>1. /\ Len(batch) \in Nat
      /\ n \in Nat
      /\ n - 1 \in Nat
      /\ ch \in ClientChange
  BY DEF GoodBatch
<1>2. /\ ch.id \in ChangeId
      /\ ch.pay.rec \in Rec
  BY <1>1, ChangeFields
<1>3. m \in ProperWork
  BY DEF Sofar, ServerSound
<1>4. m.rcpt[ch.id] = w.rcpt[ch.id]
  <2>1. \A j \in 1..(n - 1) : j \in 1..Len(batch) /\ j # n
    BY <1>1
  <2>2. \A j \in 1..(n - 1) : batch[j].id # ch.id
    BY <2>1 DEF GoodBatch
  <2> QED BY <1>2, <2>2 DEF Sofar
<1>5. Earlier(acc.done, ch) = {}
  <2>1. ASSUME NEW k \in 1..(n - 1)
        PROVE  acc.done[k].change.id # ch.id
    <3>1. k \in 1..Len(batch) /\ k # n
      BY <1>1
    <3> QED BY <3>1 DEF Sofar, GoodBatch
  <2> QED BY <2>1 DEF Earlier, Sofar
<1>6. PushOne(w, u, acc, ch, fails)
      = [work |-> o.work,
         done |-> Append(acc.done, [change |-> ch, result |-> o.result])]
  BY DEF PushOne
<1>7. CASE w.rcpt[ch.id] # NoReceipt
  <2> DEFINE res == ReplayResult(m, u, ch, w.rcpt[ch.id])
  <2>1. o.work = m /\ o.result = res
    BY <1>7 DEF Process
  <2>2. ResultSound(m, u, ch, res) /\ ResultFresh(m, ch, res)
    BY <1>1, <1>4, <1>7, ReplaySound DEF Sofar
  <2>3. res \in ProperResult
    BY <2>2 DEF ResultSound
  <2> HIDE DEF o, res
  <2> QED BY <1>3, <1>6, <2>1, <2>2, <2>3 DEF OneMore
<1>8. CASE w.rcpt[ch.id] = NoReceipt
  <2> DEFINE q == ProcessNew(m, u, TRUE, ch, fails)
             res == NewResult(ch, q)
  <2>1. o.work = q.work /\ o.result = res
    BY <1>5, <1>8 DEF Process
  <2>2. Outcomes(m, u, ch, q)
    BY <1>1, ProcessNewCases
  <2> HIDE DEF q
  <2>3. /\ q.work \in ProperWork
        /\ q.status \in Status
        /\ q.kind \in Kind
        /\ Untouched(m, ch, q.work)
        /\ Effect(m, u, ch, q.work, q.status)
        /\ q.status = "error" => q.kind # "conflict"
    BY <1>1, <1>3, <2>2, ProcessNewEffect, OutcomeKind
  <2>4. ResultSound(q.work, u, ch, res) /\ ResultFresh(q.work, ch, res)
    BY <1>1, <1>4, <1>8, <2>3, NewResultSound DEF Sofar
  <2>5. res \in ProperResult
    BY <2>4 DEF ResultSound
  <2>6. res.status = q.status
    BY DEF NewResult
  <2> HIDE DEF o, res
  <2> QED BY <1>4, <1>6, <1>8, <2>1, <2>3, <2>4, <2>5, <2>6 DEF OneMore
<1> QED BY <1>7, <1>8

\* The receipt a new change gets.
LEMMA EffectReceipt ==
    ASSUME NEW w \in ProperWork, NEW m \in ProperWork, Advances(w, m),
           NEW v \in ProperWork, NEW u, NEW ch \in ClientChange, NEW status,
           Effect(m, u, ch, v, status), v.rcpt[ch.id] # m.rcpt[ch.id]
    PROVE  NewReceipt(w, ch, v.rcpt[ch.id])
<1> DEFINE r == ch.pay.rec
           rc == v.rcpt[ch.id]
<1>1. r \in Rec
  BY ChangeFields
<1>2. /\ w.row[r].ver \in Nat
      /\ m.row[r].ver \in Nat
      /\ v.row[r].ver \in Nat
      /\ w.row[r].ver <= m.row[r].ver
  BY <1>1, WorkFields, AdvancesVersion
<1>3. ASSUME NEW st, NEW row, Stored(v, u, ch, st, row),
             st = "accepted" /\ w.row[r].ver > 0 => row.ver > 0
      PROVE  NewReceipt(w, ch, rc)
  <2>1. rc.pay = ch.pay /\ rc.status = st /\ rc.ver = row.ver
    BY <1>3 DEF Stored
  <2> HIDE DEF rc
  <2> QED BY <1>3, <2>1 DEF NewReceipt
<1>4. CASE \/ Stored(v, u, ch, "error", NoRow)
           \/ Stored(v, u, ch, "conflict", m.row[r])
  BY <1>3, <1>4
<1>5. CASE m.row[r].ver = 0 /\ Stored(v, u, ch, "accepted", m.row[r])
  BY <1>2, <1>3, <1>5
<1>6. CASE Written(m, u, ch.pay, v) /\ Stored(v, u, ch, "accepted", v.row[r])
  <2>1. v.row[r].ver > 0
    BY <1>2, <1>6 DEF Written
  <2> QED BY <1>3, <1>6, <2>1
<1> QED BY <1>4, <1>5, <1>6 DEF Effect

LEMMA PushOneSound ==
    ASSUME NEW w, ServerSound(w), NEW u \in User, NEW batch, GoodBatch(batch),
           NEW fails \in BOOLEAN, NEW n \in 1..Len(batch), NEW acc,
           Sofar(w, u, batch, n - 1, acc)
    PROVE  Sofar(w, u, batch, n, PushOne(w, u, acc, batch[n], fails))
<1> DEFINE ch == batch[n]
           m == acc.work
           new == PushOne(w, u, acc, ch, fails)
<1>0. OneMore(u, acc, ch, new)
  BY PushOneCases
<1>1. PICK res \in ProperResult, v \in ProperWork :
              /\ new = [work |-> v,
                        done |-> Append(acc.done, [change |-> ch,
                                                   result |-> res])]
              /\ ResultSound(v, u, ch, res)
              /\ ResultFresh(v, ch, res)
              /\ \/ v = m
                 \/ /\ m.rcpt[ch.id] = NoReceipt
                    /\ Untouched(m, ch, v)
                    /\ Effect(m, u, ch, v, res.status)
  BY <1>0 DEF OneMore
<1> HIDE DEF new
<1>2. /\ Len(batch) \in Nat
      /\ n \in Nat
      /\ n - 1 \in Nat
      /\ ch \in ClientChange
      /\ \A j \in 1..(n - 1) :
            /\ j \in 1..Len(batch)
            /\ j # n
            /\ j \in 1..n
            /\ batch[j] \in ClientChange
      /\ n \in 1..n
  BY DEF GoodBatch
<1>3. m \in ProperWork /\ w \in ProperWork /\ ServerSound(m) /\ Advances(w, m)
  BY DEF Sofar, ServerSound
<1>4. /\ \A i \in ChangeId \ {ch.id} : v.rcpt[i] = m.rcpt[i]
      /\ \A r \in Rec \ {ch.pay.rec} : v.row[r] = m.row[r]
      /\ ServerSound(v)
      /\ Advances(m, v)
  <2>1. CASE v = m
    BY <1>3, <2>1, AdvancesReflexive
  <2>2. CASE /\ m.rcpt[ch.id] = NoReceipt
             /\ Untouched(m, ch, v)
             /\ Effect(m, u, ch, v, res.status)
    BY <1>2, <1>3, <2>2, EffectSound DEF Untouched
  <2> QED BY <1>1, <2>1, <2>2
<1>5. Advances(w, v)
  BY <1>3, <1>4, AdvancesTransitive
<1>6. /\ new.work = v
      /\ new.done = Append(acc.done, [change |-> ch, result |-> res])
  BY <1>1
<1>7. /\ new.done \in Seq(Answered)
      /\ Len(new.done) = n
      /\ new.done[n] = [change |-> ch, result |-> res]
      /\ \A j \in 1..(n - 1) : new.done[j] = acc.done[j]
  <2>1. [change |-> ch, result |-> res] \in Answered
    BY <1>2 DEF Answered
  <2>2. acc.done \in Seq(Answered) /\ Len(acc.done) = n - 1
    BY DEF Sofar
  <2> QED BY <1>2, <1>6, <2>1, <2>2
<1>8. ASSUME NEW j \in 1..n
      PROVE  /\ new.done[j].change = batch[j]
             /\ ResultSound(v, u, batch[j], new.done[j].result)
             /\ ResultFresh(v, batch[j], new.done[j].result)
  <2>1. CASE j = n
    BY <1>1, <1>7, <2>1
  <2>2. CASE j # n
    <3>1. j \in 1..(n - 1) /\ j \in 1..Len(batch) /\ batch[j] \in ClientChange
      BY <1>2, <2>2
    <3>2. new.done[j] = acc.done[j]
      BY <1>7, <3>1
    <3>3. /\ acc.done[j].change = batch[j]
          /\ ResultSound(m, u, batch[j], acc.done[j].result)
          /\ ResultFresh(m, batch[j], acc.done[j].result)
      BY <3>1 DEF Sofar
    <3>4. ResultSound(v, u, batch[j], acc.done[j].result)
      BY <1>3, <1>4, <3>1, <3>3, ResultKept
    <3>5. batch[j].pay.rec \in Rec /\ batch[j].pay.rec # ch.pay.rec
      BY <2>2, <3>1, ChangeFields DEF GoodBatch
    <3>6. ResultFresh(v, batch[j], acc.done[j].result)
      BY <1>4, <3>3, <3>5 DEF ResultFresh
    <3> QED BY <3>2, <3>3, <3>4, <3>6
  <2> QED BY <2>1, <2>2
<1>9. ASSUME NEW i \in ChangeId, v.rcpt[i] # w.rcpt[i]
      PROVE  \E j \in 1..n : i = batch[j].id /\ NewReceipt(w, batch[j], v.rcpt[i])
  <2>1. CASE i = ch.id
    <3>1. m.rcpt[i] = w.rcpt[i]
      <4>1. \A j \in 1..(n - 1) : batch[j].id # i
        BY <1>2, <2>1 DEF GoodBatch
      <4> QED BY <4>1 DEF Sofar
    <3>2. /\ Effect(m, u, ch, v, res.status)
          /\ v.rcpt[i] # m.rcpt[i]
      BY <1>1, <1>9, <3>1
    <3>3. NewReceipt(w, ch, v.rcpt[i])
      BY <1>2, <1>3, <2>1, <3>2, EffectReceipt
    <3> QED BY <1>2, <2>1, <3>3
  <2>2. CASE i # ch.id
    <3>1. v.rcpt[i] = m.rcpt[i]
      BY <1>4, <2>2
    <3>2. \E j \in 1..(n - 1) :
             i = batch[j].id /\ NewReceipt(w, batch[j], m.rcpt[i])
      BY <1>9, <3>1 DEF Sofar
    <3> QED BY <1>2, <3>1, <3>2
  <2> QED BY <2>1, <2>2
<1>10. ASSUME NEW r \in Rec, v.row[r] # w.row[r]
       PROVE  \E j \in 1..n : r = batch[j].pay.rec
  <2>1. CASE r = ch.pay.rec
    BY <1>2, <2>1
  <2>2. CASE r # ch.pay.rec
    <3>1. \E j \in 1..(n - 1) : r = batch[j].pay.rec
      BY <1>4, <1>10, <2>2 DEF Sofar
    <3> QED BY <1>2, <3>1
  <2> QED BY <2>1, <2>2
<1> HIDE DEF m
<1>11. Sofar(w, u, batch, n, new)
  BY <1>4, <1>5, <1>6, <1>7, <1>8, <1>9, <1>10 DEF Sofar
<1> QED BY <1>11 DEF new

\* A request as a whole (push_changes).
LEMMA PushSound ==
    ASSUME NEW w, ServerSound(w), NEW u \in User, NEW batch, GoodBatch(batch),
           NEW fails \in BOOLEAN
    PROVE  Sofar(w, u, batch, Len(batch), PushChanges(w, u, batch, fails))
<1> DEFINE N == Len(batch)
           All == [work: ProperWork, done: Seq(Answered)]
           I == [n \in 0..N |-> {acc \in All : Sofar(w, u, batch, n, acc)}]
           a0 == [work |-> w, done |-> <<>>]
<1>1. N \in Nat /\ w \in ProperWork
  BY DEF GoodBatch, ServerSound
<1>2. a0 \in I[0]
  <2>1. a0.work = w /\ a0.done = <<>> /\ a0 \in All
    BY <1>1
  <2>2. <<>> \in Seq(Answered) /\ Len(<<>>) = 0
    OBVIOUS
  <2> HIDE DEF a0
  <2>3. Sofar(w, u, batch, 0, a0)
    BY <1>1, <2>1, <2>2, AdvancesReflexive DEF Sofar
  <2> QED BY <1>1, <2>1, <2>3
<1>3. ASSUME NEW n \in 1..N, NEW acc \in I[n - 1]
      PROVE  PushOne(w, u, acc, batch[n], fails) \in I[n]
  <2> DEFINE new == PushOne(w, u, acc, batch[n], fails)
  <2>1. n - 1 \in 0..N /\ n \in 0..N
    BY <1>1
  <2>2. Sofar(w, u, batch, n - 1, acc)
    BY <2>1
  <2>3. Sofar(w, u, batch, n, new)
    BY <2>2, PushOneSound
  <2>4. new = [work |-> new.work, done |-> new.done]
    BY DEF PushOne
  <2> HIDE DEF new
  <2>5. new.work \in ProperWork /\ new.done \in Seq(Answered)
    BY <2>3 DEF Sofar, ServerSound
  <2>6. new \in All
    BY <2>4, <2>5
  <2>7. new \in I[n]
    BY <2>1, <2>3, <2>6
  <2> QED BY <2>7 DEF new
<1> HIDE DEF I, a0
<1>4. PushChanges(w, u, batch, fails) \in I[N]
  BY <1>1, <1>2, <1>3, PushInduction DEF a0
<1> QED BY <1>1, <1>4 DEF I

-----------------------------------------------------------------------------
(* The outbox: what each operation makes of an entry and of a record       *)

\* The entry that a save or a delete adds to the outbox.
Fresh(id, r, op, base, val) ==
    [id |-> id, rec |-> r, op |-> op, base |-> base, val |-> val,
     status |-> "pending", kind |-> "none", tried |-> FALSE, srv |-> NoLocal]

\* y is x with another state of its delivery, or another base.
SameWork(x, y) ==
    /\ y \in OutboxEntry
    /\ y.id = x.id
    /\ y.rec = x.rec
    /\ y.op = x.op
    /\ y.val = x.val

LEMMA NoLocalType == NoLocal \in LocalRow
BY ClientAssumption DEF NoLocal, LocalRow

LEMMA FreshFields ==
    ASSUME NEW id \in ChangeId, NEW r \in Rec, NEW op \in Ops,
           NEW base \in Nat, NEW val \in Val
    PROVE  /\ Fresh(id, r, op, base, val) \in OutboxEntry
           /\ Fresh(id, r, op, base, val).id = id
           /\ Fresh(id, r, op, base, val).rec = r
           /\ Fresh(id, r, op, base, val).op = op
           /\ Fresh(id, r, op, base, val).base = base
           /\ Fresh(id, r, op, base, val).val = val
           /\ Fresh(id, r, op, base, val).status = "pending"
           /\ ~Fresh(id, r, op, base, val).tried
BY NoLocalType DEF Fresh, OutboxEntry, EntryStatus, Kind

LEMMA EntryFields ==
    ASSUME NEW x \in OutboxEntry
    PROVE  /\ x.id \in ChangeId
           /\ x.id \in Client \X (1..MaxId)
           /\ x.id[1] \in Client
           /\ x.id[2] \in Nat
           /\ x.rec \in Rec
           /\ x.op \in Ops
           /\ x.base \in Nat
           /\ x.val \in Val
           /\ x.srv \in LocalRow
           /\ x.srv.ver \in Nat
<1>1. x.id \in ChangeId
  BY DEF OutboxEntry
<1>2. x.id \in Client \X (1..MaxId)
  BY <1>1, OfflineAssumption
<1>3. x.id[1] \in Client /\ x.id[2] \in Nat
  BY <1>2
<1> QED BY <1>1, <1>2, <1>3 DEF OutboxEntry, LocalRow

\* Marking an entry as sent.
Sent(x) == [x EXCEPT !.tried = TRUE]

LEMMA SentFields ==
    ASSUME NEW x \in OutboxEntry
    PROVE  /\ SameWork(x, Sent(x))
           /\ Sent(x).base = x.base
           /\ Sent(x).status = x.status
           /\ Sent(x).kind = x.kind
           /\ Sent(x).srv = x.srv
           /\ Sent(x).tried
<1>1. Sent(x).tried
  BY Zenon DEF OutboxEntry, Sent
<1>2. /\ SameWork(x, Sent(x))
      /\ Sent(x).base = x.base
      /\ Sent(x).status = x.status
      /\ Sent(x).kind = x.kind
      /\ Sent(x).srv = x.srv
  BY DEF OutboxEntry, SameWork, Sent
<1> QED BY <1>1, <1>2

\* Parking an entry, or handing it to the user.
Parked(x, st, k) == [x EXCEPT !.status = st, !.kind = k, !.tried = TRUE]

LEMMA ParkedFields ==
    ASSUME NEW x \in OutboxEntry, NEW st \in EntryStatus, NEW k \in Kind
    PROVE  /\ SameWork(x, Parked(x, st, k))
           /\ Parked(x, st, k).base = x.base
           /\ Parked(x, st, k).status = st
           /\ Parked(x, st, k).kind = k
           /\ Parked(x, st, k).srv = x.srv
           /\ Parked(x, st, k).tried
<1>1. Parked(x, st, k).tried
  BY Zenon DEF OutboxEntry, Parked
<1>2. /\ SameWork(x, Parked(x, st, k))
      /\ Parked(x, st, k).base = x.base
      /\ Parked(x, st, k).status = st
      /\ Parked(x, st, k).kind = k
      /\ Parked(x, st, k).srv = x.srv
  BY DEF OutboxEntry, SameWork, Parked
<1> QED BY <1>1, <1>2

Held(x, k, row) ==
    [x EXCEPT !.status = "blocked", !.kind = k, !.tried = TRUE, !.srv = row]

LEMMA HeldFields ==
    ASSUME NEW x \in OutboxEntry, NEW k \in Kind, NEW row \in LocalRow
    PROVE  /\ SameWork(x, Held(x, k, row))
           /\ Held(x, k, row).base = x.base
           /\ Held(x, k, row).status = "blocked"
           /\ Held(x, k, row).kind = k
           /\ Held(x, k, row).srv = row
           /\ Held(x, k, row).tried
<1>1. Held(x, k, row).tried
  BY Zenon DEF OutboxEntry, Held
<1>2. /\ SameWork(x, Held(x, k, row))
      /\ Held(x, k, row).base = x.base
      /\ Held(x, k, row).status = "blocked"
      /\ Held(x, k, row).kind = k
      /\ Held(x, k, row).srv = row
  BY DEF OutboxEntry, SameWork, EntryStatus, Held
<1> QED BY <1>1, <1>2

\* Releasing an entry.
Released(x) == [x EXCEPT !.status = "pending"]

LEMMA ReleasedFields ==
    ASSUME NEW x \in OutboxEntry
    PROVE  /\ SameWork(x, Released(x))
           /\ Released(x).base = x.base
           /\ Released(x).status = "pending"
           /\ Released(x).kind = x.kind
           /\ Released(x).srv = x.srv
           /\ Released(x).tried = x.tried
BY DEF OutboxEntry, SameWork, EntryStatus, Released

\* Keeping a server row as the other side of a conflict.
Beside(x, row) == [x EXCEPT !.srv = row]

LEMMA BesideFields ==
    ASSUME NEW x \in OutboxEntry, NEW row \in LocalRow
    PROVE  /\ SameWork(x, Beside(x, row))
           /\ Beside(x, row).base = x.base
           /\ Beside(x, row).status = x.status
           /\ Beside(x, row).kind = x.kind
           /\ Beside(x, row).srv = row
           /\ Beside(x, row).tried = x.tried
BY DEF OutboxEntry, SameWork, Beside

Rebased(x, b) == [x EXCEPT !.base = b]

LEMMA RebasedFields ==
    ASSUME NEW x \in OutboxEntry, NEW b \in Nat
    PROVE  /\ SameWork(x, Rebased(x, b))
           /\ Rebased(x, b).base = b
           /\ Rebased(x, b).status = x.status
           /\ Rebased(x, b).kind = x.kind
           /\ Rebased(x, b).srv = x.srv
           /\ Rebased(x, b).tried = x.tried
BY DEF OutboxEntry, SameWork, Rebased

LEMMA RebasedFresh ==
    ASSUME NEW id \in ChangeId, NEW r \in Rec, NEW op \in Ops,
           NEW b \in Nat, NEW val \in Val, NEW base \in Nat
    PROVE  Rebased(Fresh(id, r, op, b, val), base)
             = Fresh(id, r, op, base, val)
<1> DEFINE x == Fresh(id, r, op, b, val)
           y == Rebased(x, base)
           z == Fresh(id, r, op, base, val)
<1>1. y \in OutboxEntry /\ z \in OutboxEntry
  BY FreshFields, RebasedFields DEF SameWork
<1>2. /\ y.id = z.id /\ y.rec = z.rec /\ y.op = z.op
      /\ y.base = z.base /\ y.val = z.val /\ y.status = z.status
      /\ y.kind = z.kind /\ y.srv = z.srv
  <2>1. /\ x.kind = "none" /\ z.kind = "none"
        /\ x.srv = NoLocal /\ z.srv = NoLocal
    BY DEF Fresh
  <2> HIDE DEF x, z
  <2> QED BY <2>1, FreshFields, RebasedFields DEF SameWork, x, z
<1>3. y.tried = z.tried
  BY Zenon DEF Fresh, Rebased
<1> HIDE DEF y, z
<1> QED BY <1>1, <1>2, <1>3 DEF OutboxEntry, y, z

\* An entry of a conflict that takes over a later edit.
Refreshed(x, op, val) == [x EXCEPT !.op = op, !.val = val]

LEMMA RefreshedFields ==
    ASSUME NEW x \in OutboxEntry, NEW op \in Ops, NEW val \in Val
    PROVE  /\ Refreshed(x, op, val) \in OutboxEntry
           /\ Refreshed(x, op, val).id = x.id
           /\ Refreshed(x, op, val).rec = x.rec
           /\ Refreshed(x, op, val).op = op
           /\ Refreshed(x, op, val).val = val
           /\ Refreshed(x, op, val).base = x.base
           /\ Refreshed(x, op, val).status = x.status
           /\ Refreshed(x, op, val).kind = x.kind
           /\ Refreshed(x, op, val).srv = x.srv
           /\ Refreshed(x, op, val).tried = x.tried
BY DEF Refreshed, OutboxEntry

-----------------------------------------------------------------------------
(* The local database: what each operation makes of a record               *)

LEMMA StoreFields ==
    ASSUME NEW S \in Store
    PROVE  /\ S.local \in [Rec -> LocalRow]
           /\ \A r \in Rec : /\ S.local[r] \in LocalRow
                             /\ S.local[r].ver \in Nat
                             /\ S.local[r].val \in Val
                             /\ S.local[r].del \in BOOLEAN
           /\ S.box \subseteq OutboxEntry
           /\ S.wm \in Nat
BY DEF Store, LocalRow

\* T differs from S in nothing but the row and the entries of record r.
Elsewhere(S, T, r) ==
    /\ T \in Store
    /\ \A s \in Rec \ {r} : /\ T.local[s] = S.local[s]
                            /\ EntriesOf(T, s) = EntriesOf(S, s)

LEMMA SetLocalView ==
    ASSUME NEW S \in Store, NEW r \in Rec, NEW row \in LocalRow
    PROVE  /\ SetLocal(S, r, row) \in Store
           /\ SetLocal(S, r, row).local[r] = row
           /\ \A s \in Rec \ {r} : SetLocal(S, r, row).local[s] = S.local[s]
           /\ SetLocal(S, r, row).box = S.box
           /\ SetLocal(S, r, row).wm = S.wm
<1> DEFINE T == SetLocal(S, r, row)
<1>1. /\ S.local \in [Rec -> LocalRow]
      /\ S.box \in SUBSET OutboxEntry
      /\ S.wm \in Nat
  BY DEF Store
<1>2. /\ T.local = [S.local EXCEPT ![r] = row]
      /\ T.box = S.box
      /\ T.wm = S.wm
      /\ T = [local |-> T.local, box |-> T.box, wm |-> T.wm]
  BY DEF SetLocal, Store
<1> HIDE DEF T
<1>3. /\ T.local \in [Rec -> LocalRow]
      /\ T.local[r] = row
      /\ \A s \in Rec \ {r} : T.local[s] = S.local[s]
  BY <1>1, <1>2
<1>4. T \in Store
  BY <1>1, <1>2, <1>3 DEF Store
<1> QED BY <1>2, <1>3, <1>4 DEF T

\* Replacing the outbox.
LEMMA SetBoxView ==
    ASSUME NEW S \in Store, NEW box, box \subseteq OutboxEntry
    PROVE  /\ [S EXCEPT !.box = box] \in Store
           /\ [S EXCEPT !.box = box].local = S.local
           /\ [S EXCEPT !.box = box].wm = S.wm
           /\ [S EXCEPT !.box = box].box = box
<1> DEFINE T == [S EXCEPT !.box = box]
<1>1. /\ T.local = S.local
      /\ T.box = box
      /\ T.wm = S.wm
      /\ T = [local |-> T.local, box |-> T.box, wm |-> T.wm]
  BY DEF Store
<1> HIDE DEF T
<1>2. T \in Store
  BY <1>1 DEF Store
<1> QED BY <1>1, <1>2 DEF T

\* Rewriting every entry with g.
Mapped(S, g) == [S EXCEPT !.box = {g[e] : e \in S.box}]

LEMMA UpdateView ==
    ASSUME NEW S \in Store, NEW g, NEW T, T = Mapped(S, g),
           \A e \in S.box : g[e] \in OutboxEntry /\ g[e].rec = e.rec
    PROVE  /\ T \in Store
           /\ T.local = S.local
           /\ T.wm = S.wm
           /\ T.box = {g[e] : e \in S.box}
           /\ \A r \in Rec : EntriesOf(T, r) = {g[e] : e \in EntriesOf(S, r)}
<1>1. {g[e] : e \in S.box} \subseteq OutboxEntry
  OBVIOUS
<1>2. /\ T \in Store
      /\ T.local = S.local
      /\ T.wm = S.wm
      /\ T.box = {g[e] : e \in S.box}
  BY <1>1, SetBoxView DEF Mapped
<1>3. \A r \in Rec : EntriesOf(T, r) = {g[e] : e \in EntriesOf(S, r)}
  BY <1>2 DEF EntriesOf
<1> QED BY <1>2, <1>3

LEMMA DropEntriesView ==
    ASSUME NEW S \in Store, NEW r \in Rec
    PROVE  /\ DropEntries(S, r) \in Store
           /\ DropEntries(S, r).local = S.local
           /\ DropEntries(S, r).wm = S.wm
           /\ EntriesOf(DropEntries(S, r), r) = {}
           /\ Elsewhere(S, DropEntries(S, r), r)
<1> DEFINE box == {e \in S.box : e.rec # r}
           T == DropEntries(S, r)
<1>1. box \subseteq OutboxEntry
  BY StoreFields
<1>2. /\ T \in Store
      /\ T.local = S.local
      /\ T.wm = S.wm
      /\ T.box = box
  BY <1>1, SetBoxView DEF DropEntries
<1> HIDE DEF T
<1>3. EntriesOf(T, r) = {} /\ Elsewhere(S, T, r)
  BY <1>2 DEF EntriesOf, Elsewhere
<1> QED BY <1>2, <1>3 DEF T

\* Replacing whatever is queued for a record.
Put(S, r, y) == [S EXCEPT !.box = DropEntries(S, r).box \cup {y}]

LEMMA PutView ==
    ASSUME NEW S \in Store, NEW r \in Rec, NEW y \in OutboxEntry, y.rec = r
    PROVE  /\ Put(S, r, y) \in Store
           /\ Put(S, r, y).local = S.local
           /\ Put(S, r, y).wm = S.wm
           /\ Put(S, r, y).box = {e \in S.box : e.rec # r} \cup {y}
           /\ EntriesOf(Put(S, r, y), r) = {y}
           /\ Elsewhere(S, Put(S, r, y), r)
<1> DEFINE T == Put(S, r, y)
<1>1. /\ DropEntries(S, r).box \subseteq OutboxEntry
      /\ DropEntries(S, r).box = {e \in S.box : e.rec # r}
  <2>1. {e \in S.box : e.rec # r} \subseteq OutboxEntry
    BY StoreFields
  <2>2. DropEntries(S, r).box = {e \in S.box : e.rec # r}
    BY <2>1, SetBoxView DEF DropEntries
  <2> QED BY <2>1, <2>2
<1>2. /\ T \in Store
      /\ T.local = S.local
      /\ T.wm = S.wm
      /\ T.box = {e \in S.box : e.rec # r} \cup {y}
  BY <1>1, SetBoxView DEF Put
<1> HIDE DEF T
<1>3. EntriesOf(T, r) = {y}
  BY <1>2 DEF EntriesOf
<1>4. Elsewhere(S, T, r)
  BY <1>2 DEF EntriesOf, Elsewhere
<1> QED BY <1>2, <1>3, <1>4 DEF T

\* At most one entry for a record, and identifiers that tell entries apart.
Distinct(S) ==
    \A x, y \in S.box : x.rec = y.rec \/ x.id = y.id => x = y

LEMMA OnlyEntry ==
    ASSUME NEW S \in Store, Distinct(S), NEW r \in Rec,
           NEW x \in EntriesOf(S, r)
    PROVE  /\ EntriesOf(S, r) = {x}
           /\ Oldest(EntriesOf(S, r)) = x
           /\ x \in OutboxEntry
           /\ x.rec = r
           /\ x \in S.box
<1>1. x \in S.box /\ x.rec = r /\ x \in OutboxEntry
  BY StoreFields DEF EntriesOf
<1>2. EntriesOf(S, r) = {x}
  BY <1>1 DEF EntriesOf, Distinct
<1>3. Oldest({x}) = x
  <2>1. x.id[2] <= x.id[2]
    BY <1>1, EntryFields
  <2> QED BY <2>1 DEF Oldest
<1> QED BY <1>1, <1>2, <1>3

\* Setting the row of a record leaves its entries alone.
LEMMA SameBoxView ==
    ASSUME NEW S, NEW T, T.box = S.box
    PROVE  /\ \A r : EntriesOf(T, r) = EntriesOf(S, r)
           /\ Distinct(T) <=> Distinct(S)
BY DEF EntriesOf, Distinct

\* The base of the first unacknowledged edit, which its replacement keeps.
KeptBase(x) == IF x.base = 0 /\ CreateMayExist(x) THEN 1 ELSE x.base

\* The two ways to queue an entry: over whatever is queued, and keeping the
\* base of what is queued.
Forced(S, id, r, op, base, val) == ReplaceEntry(S, id, r, op, base, val, TRUE)
Enqueue(S, id, r, op, base, val) == ReplaceEntry(S, id, r, op, base, val, FALSE)

LEMMA ForceIs ==
    ASSUME NEW S, NEW id, NEW r, NEW op, NEW base, NEW val
    PROVE  Forced(S, id, r, op, base, val)
             = Put(S, r, Fresh(id, r, op, base, val))
BY Zenon DEF Forced, ReplaceEntry, Put, Fresh

RefreshIn(S, id, op, val) ==
    [S EXCEPT !.box = {IF e.id = id THEN Refreshed(e, op, val) ELSE e :
                         e \in S.box}]

LEMMA EnqueueNone ==
    ASSUME NEW S, NEW id, NEW r, NEW op, NEW base, NEW val,
           EntriesOf(S, r) = {}
    PROVE  Enqueue(S, id, r, op, base, val)
             = Put(S, r, Fresh(id, r, op, base, val))
BY Zenon DEF Enqueue, ReplaceEntry, Put, Fresh

LEMMA EnqueueOver ==
    ASSUME NEW S, NEW id, NEW r, NEW op, NEW base, NEW val,
           EntriesOf(S, r) # {}, NEW x, Oldest(EntriesOf(S, r)) = x,
           ~IsConflict(x)
    PROVE  Enqueue(S, id, r, op, base, val)
             = Put(S, r, Fresh(id, r, op, KeptBase(x), val))
BY Zenon DEF Enqueue, ReplaceEntry, Put, Fresh, KeptBase

LEMMA EnqueueConflict ==
    ASSUME NEW S, NEW id, NEW r, NEW op, NEW base, NEW val,
           EntriesOf(S, r) # {}, NEW x, Oldest(EntriesOf(S, r)) = x,
           IsConflict(x)
    PROVE  Enqueue(S, id, r, op, base, val) = RefreshIn(S, x.id, op, val)
BY Zenon DEF Enqueue, ReplaceEntry, UpdateEntries, RefreshIn, Refreshed

\* What an operation on record r makes of the database S: T, with row loc and
\* entries E for r, and nothing else but the watermark changed.
Becomes(S, T, r, loc, E) ==
    /\ Elsewhere(S, T, r)
    /\ T.local[r] = loc
    /\ EntriesOf(T, r) = E

LEMMA ForceView ==
    ASSUME NEW S \in Store, NEW id \in ChangeId, NEW r \in Rec, NEW op \in Ops,
           NEW base \in Nat, NEW val \in Val
    PROVE  /\ Forced(S, id, r, op, base, val).local = S.local
           /\ Forced(S, id, r, op, base, val).wm = S.wm
           /\ Becomes(S, Forced(S, id, r, op, base, val), r, S.local[r],
                      {Fresh(id, r, op, base, val)})
<1> DEFINE y == Fresh(id, r, op, base, val)
<1>1. y \in OutboxEntry /\ y.rec = r
  BY FreshFields
<1>2. Forced(S, id, r, op, base, val) = Put(S, r, y)
  BY ForceIs
<1> HIDE DEF y
<1>3. /\ Put(S, r, y).local = S.local
      /\ Put(S, r, y).wm = S.wm
      /\ EntriesOf(Put(S, r, y), r) = {y}
      /\ Elsewhere(S, Put(S, r, y), r)
  BY <1>1, PutView
<1> QED BY <1>2, <1>3 DEF Becomes, y

LEMMA RefreshView ==
    ASSUME NEW S \in Store, Distinct(S), NEW r \in Rec, NEW op \in Ops,
           NEW val \in Val, NEW x \in EntriesOf(S, r)
    PROVE  /\ RefreshIn(S, x.id, op, val).local = S.local
           /\ RefreshIn(S, x.id, op, val).wm = S.wm
           /\ Becomes(S, RefreshIn(S, x.id, op, val), r, S.local[r],
                      {Refreshed(x, op, val)})
<1> DEFINE T == RefreshIn(S, x.id, op, val)
           g == [e \in S.box |-> IF e.id = x.id THEN Refreshed(e, op, val)
                                 ELSE e]
<1>1. /\ EntriesOf(S, r) = {x}
      /\ x \in OutboxEntry
      /\ x.rec = r
      /\ x \in S.box
  BY OnlyEntry
<1>2. T = Mapped(S, g)
  BY Zenon DEF RefreshIn, Mapped
<1>3. \A e \in S.box : g[e] \in OutboxEntry /\ g[e].rec = e.rec
  <2> SUFFICES ASSUME NEW e \in S.box
               PROVE  g[e] \in OutboxEntry /\ g[e].rec = e.rec
    OBVIOUS
  <2>1. e \in OutboxEntry
    BY StoreFields
  <2>2. Refreshed(e, op, val) \in OutboxEntry /\ Refreshed(e, op, val).rec = e.rec
    BY <2>1, RefreshedFields
  <2>3. g[e] = IF e.id = x.id THEN Refreshed(e, op, val) ELSE e
    OBVIOUS
  <2> HIDE DEF g
  <2> QED BY <2>1, <2>2, <2>3
<1>4. g[x] = Refreshed(x, op, val)
  BY <1>1
<1>5. \A e \in S.box : e.rec # r => g[e] = e
  BY <1>1 DEF Distinct
<1> HIDE DEF g, T
<1>6. /\ T \in Store
      /\ T.local = S.local
      /\ T.wm = S.wm
      /\ \A s \in Rec : EntriesOf(T, s) = {g[e] : e \in EntriesOf(S, s)}
  BY <1>2, <1>3, UpdateView
<1>7. EntriesOf(T, r) = {Refreshed(x, op, val)}
  BY <1>1, <1>4, <1>6
<1>8. ASSUME NEW s \in Rec \ {r}
      PROVE  EntriesOf(T, s) = EntriesOf(S, s)
  <2>1. \A e \in EntriesOf(S, s) : g[e] = e
    BY <1>5 DEF EntriesOf
  <2> QED BY <1>6, <2>1
<1>9. Elsewhere(S, T, r)
  BY <1>6, <1>8 DEF Elsewhere
<1> QED BY <1>6, <1>7, <1>9 DEF Becomes, T

\* What a save or a delete makes of the entries E of a record
\* (_replace_outbox_entry).
Queues(E, F, id, r, op, base, val) ==
    \/ E = {} /\ F = {Fresh(id, r, op, base, val)}
    \/ \E x \in E : /\ ~IsConflict(x)
                    /\ F = {Fresh(id, r, op, KeptBase(x), val)}
    \/ \E x \in E : IsConflict(x) /\ F = {Refreshed(x, op, val)}

LEMMA EnqueueView ==
    ASSUME NEW S \in Store, Distinct(S), NEW id \in ChangeId, NEW r \in Rec,
           NEW op \in Ops, NEW base \in Nat, NEW val \in Val
    PROVE  /\ Enqueue(S, id, r, op, base, val).local = S.local
           /\ Enqueue(S, id, r, op, base, val).wm = S.wm
           /\ \E F : /\ Becomes(S, Enqueue(S, id, r, op, base, val), r,
                                S.local[r], F)
                     /\ Queues(EntriesOf(S, r), F, id, r, op, base, val)
<1> DEFINE T == Enqueue(S, id, r, op, base, val)
<1>1. ASSUME NEW b \in Nat, T = Put(S, r, Fresh(id, r, op, b, val))
      PROVE  /\ T.local = S.local
             /\ T.wm = S.wm
             /\ Becomes(S, T, r, S.local[r], {Fresh(id, r, op, b, val)})
  <2> DEFINE y == Fresh(id, r, op, b, val)
  <2>1. y \in OutboxEntry /\ y.rec = r
    BY FreshFields
  <2>2. T = Put(S, r, y)
    BY <1>1
  <2> HIDE DEF y, T
  <2>3. /\ Put(S, r, y).local = S.local
        /\ Put(S, r, y).wm = S.wm
        /\ EntriesOf(Put(S, r, y), r) = {y}
        /\ Elsewhere(S, Put(S, r, y), r)
    BY <2>1, PutView
  <2> QED BY <2>2, <2>3 DEF Becomes, y
<1>2. CASE EntriesOf(S, r) = {}
  <2>1. T = Put(S, r, Fresh(id, r, op, base, val))
    BY <1>2, EnqueueNone
  <2> HIDE DEF T
  <2> QED BY <1>1, <1>2, <2>1 DEF Queues, T
<1>3. ASSUME NEW x \in EntriesOf(S, r)
      PROVE  /\ T.local = S.local
             /\ T.wm = S.wm
             /\ \E F : /\ Becomes(S, T, r, S.local[r], F)
                       /\ Queues(EntriesOf(S, r), F, id, r, op, base, val)
  <2>1. /\ EntriesOf(S, r) = {x}
        /\ Oldest(EntriesOf(S, r)) = x
        /\ x \in OutboxEntry
    BY OnlyEntry
  <2>2. EntriesOf(S, r) # {}
    BY <2>1
  <2>3. CASE ~IsConflict(x)
    <3>1. T = Put(S, r, Fresh(id, r, op, KeptBase(x), val))
      BY <2>1, <2>2, <2>3, EnqueueOver
    <3>2. KeptBase(x) \in Nat
      BY <2>1, EntryFields DEF KeptBase
    <3> HIDE DEF T
    <3> QED BY <1>1, <2>3, <3>1, <3>2 DEF Queues, T
  <2>4. CASE IsConflict(x)
    <3>1. T = RefreshIn(S, x.id, op, val)
      BY <2>1, <2>2, <2>4, EnqueueConflict
    <3>2. /\ T.local = S.local
          /\ T.wm = S.wm
          /\ Becomes(S, T, r, S.local[r], {Refreshed(x, op, val)})
      BY <3>1, RefreshView
    <3>3. Queues(EntriesOf(S, r), {Refreshed(x, op, val)}, id, r, op, base,
                 val)
      BY <2>4 DEF Queues
    <3> HIDE DEF T
    <3> QED BY <3>2, <3>3
  <2> QED BY <2>3, <2>4
<1> QED BY <1>2, <1>3

LEMMA BecomesThen ==
    ASSUME NEW S, NEW T, NEW U, NEW r, NEW loc, NEW E, NEW row, NEW F,
           Becomes(S, T, r, loc, E), Becomes(T, U, r, row, F)
    PROVE  Becomes(S, U, r, row, F)
BY DEF Becomes, Elsewhere

LEMMA SetLocalBecomes ==
    ASSUME NEW S \in Store, NEW r \in Rec, NEW row \in LocalRow
    PROVE  /\ Becomes(S, SetLocal(S, r, row), r, row, EntriesOf(S, r))
           /\ SetLocal(S, r, row).box = S.box
           /\ SetLocal(S, r, row).wm = S.wm
BY SetLocalView DEF Becomes, Elsewhere, EntriesOf

Overridden(e, base) ==
    IF e.status \in {"pending", "retry"} THEN Rebased(e, base) ELSE e

LEMMA OverrideView ==
    ASSUME NEW S \in Store, NEW r \in Rec, NEW base \in Nat
    PROVE  /\ OverrideBase(S, r, base).wm = S.wm
           /\ Becomes(S, OverrideBase(S, r, base), r, S.local[r],
                      {Overridden(e, base) : e \in EntriesOf(S, r)})
<1> DEFINE T == OverrideBase(S, r, base)
           g == [e \in S.box |-> IF e.rec = r THEN Overridden(e, base) ELSE e]
<1>1. T = Mapped(S, g)
  <2>1. {IF e.rec = r /\ e.status \in {"pending", "retry"}
         THEN [e EXCEPT !.base = base] ELSE e : e \in S.box}
        = {g[e] : e \in S.box}
    BY Zenon DEF Overridden, Rebased
  <2> QED BY <2>1, Zenon DEF OverrideBase, UpdateEntries, Mapped
<1>2. \A e \in S.box : g[e] \in OutboxEntry /\ g[e].rec = e.rec
  <2> SUFFICES ASSUME NEW e \in S.box
               PROVE  g[e] \in OutboxEntry /\ g[e].rec = e.rec
    OBVIOUS
  <2>1. e \in OutboxEntry
    BY StoreFields
  <2>2. Rebased(e, base) \in OutboxEntry /\ Rebased(e, base).rec = e.rec
    BY <2>1, RebasedFields DEF SameWork
  <2>3. g[e] = IF e.rec = r THEN Overridden(e, base) ELSE e
    OBVIOUS
  <2> HIDE DEF g
  <2> QED BY <2>1, <2>2, <2>3 DEF Overridden
<1>3. \A e \in S.box : e.rec # r => g[e] = e
  OBVIOUS
<1>4. \A e \in EntriesOf(S, r) : g[e] = Overridden(e, base)
  BY DEF EntriesOf
<1> HIDE DEF g, T
<1>5. /\ T \in Store
      /\ T.local = S.local
      /\ T.wm = S.wm
      /\ \A s \in Rec : EntriesOf(T, s) = {g[e] : e \in EntriesOf(S, s)}
  BY <1>1, <1>2, UpdateView
<1>6. EntriesOf(T, r) = {Overridden(e, base) : e \in EntriesOf(S, r)}
  BY <1>4, <1>5
<1>7. ASSUME NEW s \in Rec \ {r}
      PROVE  EntriesOf(T, s) = EntriesOf(S, s)
  <2>1. \A e \in EntriesOf(S, s) : g[e] = e
    BY <1>3 DEF EntriesOf
  <2> QED BY <1>5, <2>1
<1> QED BY <1>5, <1>6, <1>7 DEF Becomes, Elsewhere, T

LocalAt(ver, val) == [ver |-> ver, val |-> val, del |-> FALSE]

LEMMA LocalAtType ==
    ASSUME NEW ver \in Nat, NEW val \in Val
    PROVE  LocalAt(ver, val) \in LocalRow
BY DEF LocalAt, LocalRow

\* A new record.
LEMMA CreateView ==
    ASSUME NEW S \in Store, Distinct(S), NEW id \in ChangeId, NEW r \in Rec,
           NEW val \in Val
    PROVE  /\ CreateLocal(S, id, r, val).wm = S.wm
           /\ \E F : /\ Becomes(S, CreateLocal(S, id, r, val), r,
                                LocalAt(0, val), F)
                     /\ Queues(EntriesOf(S, r), F, id, r, "upsert", 0, val)
<1> DEFINE loc == LocalAt(0, val)
           T == SetLocal(S, r, loc)
           U == CreateLocal(S, id, r, val)
<1>1. loc \in LocalRow
  BY LocalAtType
<1>2. U = Enqueue(T, id, r, "upsert", 0, val)
  BY Zenon DEF CreateLocal, Enqueue, LocalAt
<1> HIDE DEF loc, T, U
<1>3. /\ Becomes(S, T, r, loc, EntriesOf(S, r))
      /\ T.box = S.box
      /\ T.wm = S.wm
  BY <1>1, SetLocalBecomes DEF T
<1>4. /\ T \in Store
      /\ Distinct(T)
      /\ T.local[r] = loc
      /\ EntriesOf(T, r) = EntriesOf(S, r)
  BY <1>3, SameBoxView DEF Becomes, Elsewhere
<1>5. "upsert" \in Ops /\ 0 \in Nat
  BY DEF Ops
<1>6. /\ U.wm = T.wm
      /\ \E F : /\ Becomes(T, U, r, T.local[r], F)
                /\ Queues(EntriesOf(T, r), F, id, r, "upsert", 0, val)
  BY <1>2, <1>4, <1>5, EnqueueView
<1>7. PICK F : /\ Becomes(T, U, r, loc, F)
               /\ Queues(EntriesOf(S, r), F, id, r, "upsert", 0, val)
  BY <1>4, <1>6
<1>8. Becomes(S, U, r, loc, F)
  BY <1>3, <1>7, BecomesThen
<1> QED BY <1>3, <1>6, <1>7, <1>8 DEF loc, U

\* What a save makes of the entries E of a record.
Saves(E, F, id, r, base, val) ==
    \/ /\ \A x \in E : ~IsConflict(x)
       /\ \E b \in Nat : /\ r \notin Unversioned => b = base
                         /\ F = {Fresh(id, r, "upsert", b, val)}
    \/ \E x \in E : IsConflict(x) /\ F = {Refreshed(x, "upsert", val)}

LEMMA SaveView ==
    ASSUME NEW S \in Store, Distinct(S), NEW id \in ChangeId, NEW r \in Rec,
           NEW base \in Nat, NEW val \in Val
    PROVE  /\ SaveLocal(S, id, r, base, val).wm = S.wm
           /\ \E F : /\ Becomes(S, SaveLocal(S, id, r, base, val), r,
                                LocalAt(S.local[r].ver, val), F)
                     /\ Saves(EntriesOf(S, r), F, id, r, base, val)
<1> DEFINE ver == S.local[r].ver
           loc == LocalAt(ver, val)
           T == SetLocal(S, r, loc)
           U == Enqueue(T, id, r, "upsert", ver, val)
           V == SaveLocal(S, id, r, base, val)
<1>1. V = IF r \in Unversioned THEN U ELSE OverrideBase(U, r, base)
  BY Zenon DEF SaveLocal, Enqueue, LocalAt
<1>2. ver \in Nat
  BY StoreFields
<1>3. loc \in LocalRow
  BY <1>2, LocalAtType
<1>4. "upsert" \in Ops
  BY DEF Ops
<1> HIDE DEF ver, loc, T, V
<1>5. /\ Becomes(S, T, r, loc, EntriesOf(S, r))
      /\ T.box = S.box
      /\ T.wm = S.wm
  BY <1>3, SetLocalBecomes DEF T
<1>6. /\ T \in Store
      /\ Distinct(T)
      /\ T.local[r] = loc
      /\ EntriesOf(T, r) = EntriesOf(S, r)
  BY <1>5, SameBoxView DEF Becomes, Elsewhere
<1>7. /\ U.wm = T.wm
      /\ \E F : /\ Becomes(T, U, r, T.local[r], F)
                /\ Queues(EntriesOf(T, r), F, id, r, "upsert", ver, val)
  BY <1>2, <1>4, <1>6, EnqueueView
<1> HIDE DEF U
<1>8. PICK F : /\ Becomes(T, U, r, loc, F)
               /\ Queues(EntriesOf(S, r), F, id, r, "upsert", ver, val)
  BY <1>6, <1>7
<1>9. Becomes(S, U, r, loc, F)
  BY <1>5, <1>8, BecomesThen
<1>10. \/ /\ \A x \in EntriesOf(S, r) : ~IsConflict(x)
          /\ \E b \in Nat : F = {Fresh(id, r, "upsert", b, val)}
       \/ \E x \in EntriesOf(S, r) :
             IsConflict(x) /\ F = {Refreshed(x, "upsert", val)}
  <2>1. CASE EntriesOf(S, r) = {}
    BY <1>2, <1>8, <2>1 DEF Queues
  <2>2. ASSUME NEW x \in EntriesOf(S, r)
        PROVE  \/ /\ \A z \in EntriesOf(S, r) : ~IsConflict(z)
                  /\ \E b \in Nat : F = {Fresh(id, r, "upsert", b, val)}
               \/ \E z \in EntriesOf(S, r) :
                     IsConflict(z) /\ F = {Refreshed(z, "upsert", val)}
    <3>1. EntriesOf(S, r) = {x} /\ x \in OutboxEntry
      BY OnlyEntry
    <3>2. KeptBase(x) \in Nat
      BY <3>1, EntryFields DEF KeptBase
    <3> QED BY <1>8, <3>1, <3>2 DEF Queues
  <2> QED BY <2>1, <2>2
<1>11. CASE r \in Unversioned
  <2>1. V = U
    BY <1>1, <1>11
  <2>2. Saves(EntriesOf(S, r), F, id, r, base, val)
    BY <1>10, <1>11 DEF Saves
  <2> QED BY <1>5, <1>7, <1>9, <2>1, <2>2 DEF loc, ver, V
<1>12. CASE r \notin Unversioned
  <2> DEFINE G == {Overridden(e, base) : e \in F}
  <2>1. V = OverrideBase(U, r, base)
    BY <1>1, <1>12
  <2>2. U \in Store /\ U.local[r] = loc /\ EntriesOf(U, r) = F
    BY <1>9 DEF Becomes, Elsewhere
  <2>3. V.wm = U.wm /\ Becomes(U, V, r, loc, G)
    BY <2>1, <2>2, OverrideView
  <2>4. Becomes(S, V, r, loc, G)
    BY <1>9, <2>3, BecomesThen
  <2>5. ASSUME \A x \in EntriesOf(S, r) : ~IsConflict(x),
               NEW b \in Nat, F = {Fresh(id, r, "upsert", b, val)}
        PROVE  Saves(EntriesOf(S, r), G, id, r, base, val)
    <3> DEFINE y == Fresh(id, r, "upsert", b, val)
    <3>1. y.status = "pending"
      BY <1>4, FreshFields
    <3>2. Rebased(y, base) = Fresh(id, r, "upsert", base, val)
      BY <1>4, RebasedFresh
    <3>3. F = {y}
      BY <2>5
    <3> HIDE DEF y
    <3>4. G = {Overridden(y, base)}
      BY <3>3
    <3>5. Overridden(y, base) = Fresh(id, r, "upsert", base, val)
      BY <3>1, <3>2 DEF Overridden
    <3> HIDE DEF G
    <3> QED BY <2>5, <3>4, <3>5 DEF Saves
  <2>6. ASSUME NEW x \in EntriesOf(S, r), IsConflict(x),
               F = {Refreshed(x, "upsert", val)}
        PROVE  Saves(EntriesOf(S, r), G, id, r, base, val)
    <3>1. x \in OutboxEntry
      BY OnlyEntry
    <3>2. Refreshed(x, "upsert", val).status = "blocked"
      BY <1>4, <2>6, <3>1, RefreshedFields DEF IsConflict
    <3>3. Overridden(Refreshed(x, "upsert", val), base)
          = Refreshed(x, "upsert", val)
      BY <3>2 DEF Overridden
    <3>4. G = {Refreshed(x, "upsert", val)}
      BY <2>6, <3>3
    <3> QED BY <2>6, <3>4 DEF Saves
  <2>7. Saves(EntriesOf(S, r), G, id, r, base, val)
    BY <1>10, <2>5, <2>6
  <2> QED BY <1>5, <1>7, <2>3, <2>4, <2>7 DEF loc, ver, V
<1> QED BY <1>11, <1>12

\* What deleting a record with row loc makes of its entries E.
Deletes(E, F, id, r, loc) ==
    \/ /\ loc.ver >= 1
       /\ Queues(E, F, id, r, "delete", loc.ver, {})
    \/ /\ loc.ver = 0
       /\ F = {Fresh(id, r, "delete", 1, {})}
       /\ \E x \in E : CreateMayExist(x)
    \/ /\ loc.ver = 0
       /\ F = {}
       /\ \A x \in E : ~CreateMayExist(x)

LocalGone(loc) == [loc EXCEPT !.del = TRUE]

LEMMA LocalGoneFields ==
    ASSUME NEW loc \in LocalRow
    PROVE  /\ LocalGone(loc) \in LocalRow
           /\ LocalGone(loc).ver = loc.ver
           /\ LocalGone(loc).val = loc.val
           /\ LocalGone(loc).del
<1>1. LocalGone(loc).del
  BY Zenon DEF LocalRow, LocalGone
<1>2. /\ LocalGone(loc) \in LocalRow
      /\ LocalGone(loc).ver = loc.ver
      /\ LocalGone(loc).val = loc.val
  BY DEF LocalRow, LocalGone
<1> QED BY <1>1, <1>2

LEMMA EmptyVal == {} \in Val
BY ClientAssumption

LEMMA DeleteView ==
    ASSUME NEW S \in Store, Distinct(S), NEW id \in ChangeId, NEW r \in Rec
    PROVE  /\ DeleteLocal(S, id, r).wm = S.wm
           /\ \E F : /\ Becomes(S, DeleteLocal(S, id, r), r,
                                LocalGone(S.local[r]), F)
                     /\ Deletes(EntriesOf(S, r), F, id, r, S.local[r])
<1> DEFINE old == S.local[r]
           loc == LocalGone(old)
           T == SetLocal(S, r, loc)
           V == DeleteLocal(S, id, r)
<1>1. V = IF old.ver >= 1 THEN Enqueue(T, id, r, "delete", old.ver, {})
          ELSE IF HasOpen(S, r) /\ CreateMayExist(Oldest(EntriesOf(S, r)))
          THEN Forced(T, id, r, "delete", 1, {})
          ELSE DropEntries(T, r)
  BY Zenon DEF DeleteLocal, Enqueue, Forced, LocalGone
<1>2. old \in LocalRow /\ old.ver \in Nat
  BY StoreFields
<1>3. loc \in LocalRow
  BY <1>2, LocalGoneFields
<1>4. "delete" \in Ops /\ {} \in Val /\ 1 \in Nat
  BY EmptyVal DEF Ops
<1> HIDE DEF old, loc, T, V
<1>5. /\ Becomes(S, T, r, loc, EntriesOf(S, r))
      /\ T.box = S.box
      /\ T.wm = S.wm
  BY <1>3, SetLocalBecomes DEF T
<1>6. /\ T \in Store
      /\ Distinct(T)
      /\ T.local[r] = loc
      /\ EntriesOf(T, r) = EntriesOf(S, r)
  BY <1>5, SameBoxView DEF Becomes, Elsewhere
<1>7. CASE old.ver >= 1
  <2> DEFINE U == Enqueue(T, id, r, "delete", old.ver, {})
  <2>1. V = U
    BY <1>1, <1>7
  <2>2. /\ U.wm = T.wm
        /\ \E F : /\ Becomes(T, U, r, T.local[r], F)
                  /\ Queues(EntriesOf(T, r), F, id, r, "delete", old.ver, {})
    BY <1>2, <1>4, <1>6, EnqueueView
  <2> HIDE DEF U
  <2>3. PICK F : /\ Becomes(T, U, r, loc, F)
                 /\ Queues(EntriesOf(S, r), F, id, r, "delete", old.ver, {})
    BY <1>6, <2>2
  <2>4. Becomes(S, U, r, loc, F)
    BY <1>5, <2>3, BecomesThen
  <2>5. Deletes(EntriesOf(S, r), F, id, r, old)
    BY <1>7, <2>3 DEF Deletes
  <2> QED BY <1>5, <2>1, <2>2, <2>4, <2>5 DEF loc, old, V
<1>8. CASE /\ ~(old.ver >= 1)
           /\ HasOpen(S, r)
           /\ CreateMayExist(Oldest(EntriesOf(S, r)))
  <2> DEFINE U == Forced(T, id, r, "delete", 1, {})
             y == Fresh(id, r, "delete", 1, {})
  <2>1. V = U
    BY <1>1, <1>8
  <2>2. PICK x : x \in EntriesOf(S, r)
    BY <1>8 DEF HasOpen
  <2>3. Oldest(EntriesOf(S, r)) = x
    BY <2>2, OnlyEntry
  <2>4. U.wm = T.wm /\ Becomes(T, U, r, T.local[r], {y})
    BY <1>4, <1>6, ForceView
  <2> HIDE DEF U
  <2>5. Becomes(S, U, r, loc, {y})
    BY <1>5, <1>6, <2>4, BecomesThen
  <2>6. Deletes(EntriesOf(S, r), {y}, id, r, old)
    BY <1>2, <1>8, <2>2, <2>3 DEF Deletes
  <2> QED BY <1>5, <2>1, <2>4, <2>5, <2>6 DEF loc, old, V
<1>9. CASE /\ ~(old.ver >= 1)
           /\ ~(/\ HasOpen(S, r)
                /\ CreateMayExist(Oldest(EntriesOf(S, r))))
  <2> DEFINE U == DropEntries(T, r)
  <2>1. V = U
    BY <1>1, <1>9
  <2>2. /\ U.wm = T.wm
        /\ U.local = T.local
        /\ Elsewhere(T, U, r)
        /\ EntriesOf(U, r) = {}
    BY <1>6, DropEntriesView
  <2> HIDE DEF U
  <2>3. Becomes(T, U, r, loc, {})
    BY <1>6, <2>2 DEF Becomes
  <2>4. Becomes(S, U, r, loc, {})
    BY <1>5, <2>3, BecomesThen
  <2>5. ASSUME NEW x \in EntriesOf(S, r)
        PROVE  ~CreateMayExist(x)
    <3>1. Oldest(EntriesOf(S, r)) = x
      BY OnlyEntry
    <3> QED BY <1>9, <3>1 DEF HasOpen
  <2>6. Deletes(EntriesOf(S, r), {}, id, r, old)
    BY <1>2, <1>9, <2>5 DEF Deletes
  <2> QED BY <1>5, <2>1, <2>2, <2>4, <2>6 DEF loc, old, V
<1> QED BY <1>7, <1>8, <1>9

\* Taking one entry out.
LEMMA DropIdView ==
    ASSUME NEW S \in Store, Distinct(S), NEW r \in Rec,
           NEW x \in EntriesOf(S, r)
    PROVE  /\ DropId(S, x.id).wm = S.wm
           /\ Becomes(S, DropId(S, x.id), r, S.local[r], {})
<1> DEFINE box == {e \in S.box : e.id # x.id}
           T == DropId(S, x.id)
<1>1. box \subseteq OutboxEntry
  BY StoreFields
<1>2. /\ T \in Store
      /\ T.local = S.local
      /\ T.wm = S.wm
      /\ T.box = box
  BY <1>1, SetBoxView DEF DropId
<1> HIDE DEF T
<1>3. EntriesOf(S, r) = {x} /\ x.rec = r /\ x \in S.box
  BY OnlyEntry
<1>4. EntriesOf(T, r) = {}
  BY <1>2, <1>3 DEF EntriesOf
<1>5. \A s \in Rec \ {r} : EntriesOf(T, s) = EntriesOf(S, s)
  BY <1>2, <1>3 DEF EntriesOf, Distinct
<1> QED BY <1>2, <1>4, <1>5 DEF Becomes, Elsewhere, T

LEMMA AsLocalType ==
    ASSUME NEW row, row \in ProperRow \/ row \in LocalRow
    PROVE  /\ AsLocal(row) \in LocalRow
           /\ AsLocal(row).ver = row.ver
           /\ row.ver > 0 => /\ AsLocal(row).val = row.val
                             /\ AsLocal(row).del = row.del
           /\ row.ver = 0 => AsLocal(row) = NoLocal
<1>1. CASE row.ver = 0
  BY <1>1, NoLocalType DEF AsLocal, NoLocal
<1>2. CASE row.ver # 0
  <2>1. row.ver \in Nat /\ row.val \in Val /\ row.del \in BOOLEAN
    BY <1>2 DEF ProperRow, Row, LocalRow
  <2>2. AsLocal(row) = [ver |-> row.ver, val |-> row.val, del |-> row.del]
    BY <1>2 DEF AsLocal
  <2> QED BY <1>2, <2>1, <2>2 DEF LocalRow
<1> QED BY <1>1, <1>2

LEMMA AsLocalSame ==
    ASSUME NEW row \in LocalRow, row.ver >= 1
    PROVE  AsLocal(row) = row
<1>1. row.ver # 0 /\ row = [ver |-> row.ver, val |-> row.val, del |-> row.del]
  BY DEF LocalRow
<1> QED BY <1>1 DEF AsLocal

\* A server row for a record: its cached row when nothing is queued, the
\* other side of a conflict when one is.
Faced(e, row) == IF IsConflict(e) THEN Beside(e, AsLocal(row)) ELSE e

RowTo(loc, E, row) == IF E = {} THEN AsLocal(row) ELSE loc

LEMMA ApplyRowView ==
    ASSUME NEW S \in Store, NEW r \in Rec, NEW row, AsLocal(row) \in LocalRow
    PROVE  /\ ApplyRow(S, r, row).wm = S.wm
           /\ Becomes(S, ApplyRow(S, r, row), r,
                      RowTo(S.local[r], EntriesOf(S, r), row),
                      {Faced(e, row) : e \in EntriesOf(S, r)})
<1> DEFINE T == ApplyRow(S, r, row)
           loc == AsLocal(row)
<1>1. CASE EntriesOf(S, r) = {}
  <2>1. T = SetLocal(S, r, loc)
    BY <1>1 DEF ApplyRow, HasOpen
  <2> HIDE DEF T, loc
  <2>2. /\ Becomes(S, T, r, loc, {})
        /\ T.wm = S.wm
    BY <1>1, <2>1, SetLocalBecomes DEF loc
  <2>3. RowTo(S.local[r], EntriesOf(S, r), row) = loc
    BY <1>1 DEF RowTo, loc
  <2>4. {Faced(e, row) : e \in EntriesOf(S, r)} = {}
    BY <1>1
  <2> QED BY <2>2, <2>3, <2>4 DEF T
<1>2. CASE EntriesOf(S, r) # {}
  <2> DEFINE g == [e \in S.box |-> IF e.rec = r THEN Faced(e, row) ELSE e]
  <2>1. T = Mapped(S, g)
    <3>1. {IF e.rec = r /\ IsConflict(e) THEN [e EXCEPT !.srv = AsLocal(row)]
           ELSE e : e \in S.box}
          = {g[e] : e \in S.box}
      BY Zenon DEF Faced, Beside
    <3> QED BY <1>2, <3>1, Zenon DEF ApplyRow, HasOpen, UpdateEntries, Mapped
  <2>2. \A e \in S.box : g[e] \in OutboxEntry /\ g[e].rec = e.rec
    <3> SUFFICES ASSUME NEW e \in S.box
                 PROVE  g[e] \in OutboxEntry /\ g[e].rec = e.rec
      OBVIOUS
    <3>1. e \in OutboxEntry
      BY StoreFields
    <3>2. Beside(e, loc) \in OutboxEntry /\ Beside(e, loc).rec = e.rec
      BY <3>1, BesideFields DEF SameWork
    <3>3. g[e] = IF e.rec = r THEN Faced(e, row) ELSE e
      OBVIOUS
    <3> HIDE DEF g
    <3> QED BY <3>1, <3>2, <3>3 DEF Faced
  <2>3. \A e \in S.box : e.rec # r => g[e] = e
    OBVIOUS
  <2>4. \A e \in EntriesOf(S, r) : g[e] = Faced(e, row)
    BY DEF EntriesOf
  <2> HIDE DEF g, T
  <2>5. /\ T \in Store
        /\ T.local = S.local
        /\ T.wm = S.wm
        /\ \A s \in Rec : EntriesOf(T, s) = {g[e] : e \in EntriesOf(S, s)}
    BY <2>1, <2>2, UpdateView
  <2>6. EntriesOf(T, r) = {Faced(e, row) : e \in EntriesOf(S, r)}
    BY <2>4, <2>5
  <2>7. ASSUME NEW s \in Rec \ {r}
        PROVE  EntriesOf(T, s) = EntriesOf(S, s)
    <3>1. \A e \in EntriesOf(S, s) : g[e] = e
      BY <2>3 DEF EntriesOf
    <3> QED BY <2>5, <3>1
  <2>8. RowTo(S.local[r], EntriesOf(S, r), row) = S.local[r]
    BY <1>2 DEF RowTo
  <2> QED BY <2>5, <2>6, <2>7, <2>8 DEF Becomes, Elsewhere, T
<1> QED BY <1>1, <1>2

\* The wm of a database.
LEMMA SetWmView ==
    ASSUME NEW S \in Store, NEW n \in Nat
    PROVE  /\ [S EXCEPT !.wm = n] \in Store
           /\ [S EXCEPT !.wm = n].wm = n
           /\ [S EXCEPT !.wm = n].box = S.box
           /\ [S EXCEPT !.wm = n].local = S.local
BY DEF Store

LEMMA SameTablesView ==
    ASSUME NEW S, NEW T, NEW U \in Store, NEW r, NEW loc, NEW E,
           Becomes(S, T, r, loc, E), U.box = T.box, U.local = T.local
    PROVE  Becomes(S, U, r, loc, E)
BY DEF Becomes, Elsewhere, EntriesOf

LEMMA LargerNat ==
    ASSUME NEW m \in Nat, NEW n \in Nat
    PROVE  /\ Larger(m, n) \in Nat
           /\ Larger(m, n) >= m
           /\ Larger(m, n) >= n
           /\ Larger(m, n) = m \/ Larger(m, n) = n
BY DEF Larger

LEMMA KeepMineView ==
    ASSUME NEW S \in Store, NEW id \in ChangeId, NEW x \in S.box
    PROVE  /\ KeepMine(S, x, id).wm = S.wm
           /\ Becomes(S, KeepMine(S, x, id), x.rec, S.local[x.rec],
                      {Fresh(id, x.rec, x.op,
                             Larger(x.srv.ver, S.local[x.rec].ver), x.val)})
<1> DEFINE b == Larger(x.srv.ver, S.local[x.rec].ver)
<1>1. x \in OutboxEntry
  BY StoreFields
<1>2. /\ x.rec \in Rec
      /\ x.op \in Ops
      /\ x.val \in Val
      /\ x.srv.ver \in Nat
  BY <1>1, EntryFields
<1>3. b \in Nat
  BY <1>2, StoreFields, LargerNat
<1>4. KeepMine(S, x, id) = Forced(S, id, x.rec, x.op, b, x.val)
  BY Zenon DEF KeepMine, Forced
<1> HIDE DEF b
<1>5. ASSUME NEW r \in Rec, NEW op \in Ops, NEW val \in Val
      PROVE  /\ Forced(S, id, r, op, b, val).wm = S.wm
             /\ Becomes(S, Forced(S, id, r, op, b, val), r, S.local[r],
                        {Fresh(id, r, op, b, val)})
  BY <1>3, <1>5, ForceView
<1>6. /\ Forced(S, id, x.rec, x.op, b, x.val).wm = S.wm
      /\ Becomes(S, Forced(S, id, x.rec, x.op, b, x.val), x.rec,
                 S.local[x.rec], {Fresh(id, x.rec, x.op, b, x.val)})
  BY <1>2, <1>5, Zenon
<1> QED BY <1>4, <1>6 DEF b

LEMMA UseServerView ==
    ASSUME NEW S \in Store, Distinct(S), NEW x \in S.box, CanUseServer(S, x)
    PROVE  /\ UseServer(S, x).wm = 0
           /\ Becomes(S, UseServer(S, x), x.rec, x.srv, {})
<1> DEFINE r == x.rec
           T == DropId(S, x.id)
           U == ApplyRow(T, r, x.srv)
           V == UseServer(S, x)
<1>1. x \in OutboxEntry
  BY StoreFields
<1>2. /\ r \in Rec
      /\ x.srv \in LocalRow
  BY <1>1, EntryFields
<1>3. AsLocal(x.srv) = x.srv
  BY <1>2, AsLocalSame DEF CanUseServer
<1>4. x \in EntriesOf(S, r)
  BY DEF EntriesOf
<1>5. T.wm = S.wm /\ Becomes(S, T, r, S.local[r], {})
  BY <1>2, <1>4, DropIdView
<1> HIDE DEF T
<1>6. T \in Store /\ EntriesOf(T, r) = {}
  BY <1>5 DEF Becomes, Elsewhere
<1>7. /\ U.wm = T.wm
      /\ Becomes(T, U, r, RowTo(T.local[r], EntriesOf(T, r), x.srv),
                 {Faced(e, x.srv) : e \in EntriesOf(T, r)})
  BY <1>2, <1>3, <1>6, ApplyRowView
<1>8. /\ RowTo(T.local[r], EntriesOf(T, r), x.srv) = x.srv
      /\ {Faced(e, x.srv) : e \in EntriesOf(T, r)} = {}
  BY <1>3, <1>6 DEF RowTo
<1> HIDE DEF U
<1>9. Becomes(S, U, r, x.srv, {})
  BY <1>5, <1>7, <1>8, BecomesThen
<1>10. U \in Store
  BY <1>9 DEF Becomes, Elsewhere
<1>11. V = [U EXCEPT !.wm = 0]
  BY Zenon DEF UseServer, U, T
<1>12. /\ V \in Store
       /\ V.wm = 0
       /\ V.box = U.box
       /\ V.local = U.local
  BY <1>10, <1>11, SetWmView
<1> HIDE DEF V
<1> QED BY <1>9, <1>12, SameTablesView DEF V

LEMMA MergeView ==
    ASSUME NEW S \in Store, Distinct(S), NEW id \in ChangeId, NEW x \in S.box,
           CanMerge(S, x)
    PROVE  /\ Merge(S, x, id).wm = 0
           /\ x.val \cup x.srv.val \in Val
           /\ \E loc \in LocalRow :
                 /\ loc.ver = x.srv.ver
                 /\ loc.val = x.val \cup x.srv.val
                 /\ ~loc.del
                 /\ Becomes(S, Merge(S, x, id), x.rec, loc,
                            {Fresh(id, x.rec, "upsert", x.srv.ver,
                                   x.val \cup x.srv.val)})
<1> DEFINE r == x.rec
           val == x.val \cup x.srv.val
           T == UseServer(S, x)
           loc == [T.local[r] EXCEPT !.val = val]
           U == SetLocal(T, r, loc)
           V == Merge(S, x, id)
           W == Forced(U, id, r, "upsert", x.srv.ver, val)
<1>1. x \in OutboxEntry
  BY StoreFields
<1>2. /\ r \in Rec
      /\ x.srv \in LocalRow
      /\ x.srv.ver \in Nat
  BY <1>1, EntryFields
<1>3. val \in Val
  BY <1>1, <1>2, ClientAssumption DEF OutboxEntry, LocalRow
<1>4. T.wm = 0 /\ Becomes(S, T, r, x.srv, {})
  BY UseServerView DEF CanMerge, CanUseServer
<1>5. V = W
  BY Zenon DEF Merge, Forced
<1> HIDE DEF T, V
<1>6. T \in Store /\ T.local[r] = x.srv
  BY <1>4 DEF Becomes, Elsewhere
<1>7. loc \in LocalRow /\ loc.ver = x.srv.ver /\ loc.val = val
  <2> HIDE DEF val
  <2> QED BY <1>2, <1>3, <1>6 DEF LocalRow
<1>8. ~loc.del
  <2>1. loc.del = x.srv.del
    <3> HIDE DEF val
    <3> QED BY <1>2, <1>6 DEF LocalRow
  <2> QED BY <2>1, Zenon DEF CanMerge
<1> HIDE DEF loc
<1>9. /\ U.wm = T.wm
      /\ Becomes(T, U, r, loc, EntriesOf(T, r))
  BY <1>2, <1>6, <1>7, SetLocalBecomes
<1> HIDE DEF U
<1>10. U \in Store /\ U.local[r] = loc
  BY <1>9 DEF Becomes, Elsewhere
<1>11. "upsert" \in Ops
  BY DEF Ops
<1> HIDE DEF val
<1>12. /\ W.wm = U.wm
       /\ Becomes(U, W, r, U.local[r],
                  {Fresh(id, r, "upsert", x.srv.ver, val)})
  BY <1>2, <1>3, <1>10, <1>11, ForceView
<1> HIDE DEF W
<1>13. Becomes(T, W, r, loc, {Fresh(id, r, "upsert", x.srv.ver, val)})
  BY <1>9, <1>10, <1>12, BecomesThen
<1>14. Becomes(S, W, r, loc, {Fresh(id, r, "upsert", x.srv.ver, val)})
  BY <1>4, <1>13, BecomesThen
<1>15. W.wm = 0
  BY <1>4, <1>9, <1>12
<1> QED BY <1>3, <1>5, <1>7, <1>8, <1>14, <1>15 DEF V, val

\* An operation that replaces each entry by one for the same work.
LEMMA MappedView ==
    ASSUME NEW S \in Store, Distinct(S), NEW g, NEW T, T = Mapped(S, g),
           \A e \in S.box : SameWork(e, g[e])
    PROVE  /\ T \in Store
           /\ T.local = S.local
           /\ T.wm = S.wm
           /\ \A r \in Rec : EntriesOf(S, r) = {} => EntriesOf(T, r) = {}
           /\ \A r \in Rec : \A x \in EntriesOf(S, r) :
                 EntriesOf(S, r) = {x} /\ EntriesOf(T, r) = {g[x]}
<1>1. \A e \in S.box : g[e] \in OutboxEntry /\ g[e].rec = e.rec
  BY DEF SameWork
<1>2. /\ T \in Store
      /\ T.local = S.local
      /\ T.wm = S.wm
      /\ \A r \in Rec : EntriesOf(T, r) = {g[e] : e \in EntriesOf(S, r)}
  BY <1>1, UpdateView
<1>3. ASSUME NEW r \in Rec, NEW x \in EntriesOf(S, r)
      PROVE  EntriesOf(S, r) = {x} /\ EntriesOf(T, r) = {g[x]}
  <2>1. EntriesOf(S, r) = {x}
    BY OnlyEntry
  <2> QED BY <1>2, <2>1
<1> QED BY <1>2, <1>3

\* y is x after a change of its delivery state: not into a conflict.
Touched(x, y) ==
    /\ SameWork(x, y)
    /\ y.base = x.base
    /\ IsConflict(y) => IsConflict(x) /\ y.srv = x.srv
    /\ x.tried => y.tried
    /\ ~y.tried => y.status = x.status \/ y.status = "pending"

LEMMA TouchedReflexive ==
    ASSUME NEW x \in OutboxEntry
    PROVE  Touched(x, x)
BY DEF Touched, SameWork

\* The entries E of a record after the entries with identifiers in ids have
\* been marked as sent, parked, released or blocked.
Touches(E, F, ids) ==
    \/ E = {} /\ F = {}
    \/ \E x, y : /\ E = {x}
                 /\ F = {y}
                 /\ Touched(x, y)
                 /\ x.id \in ids => y.tried
                 /\ x.id \notin ids /\ y.tried => x.tried
                 /\ IsConflict(x) /\ x.id \notin ids => y = x

TouchesBy(S, g, ids) ==
    \A e \in S.box : /\ Touched(e, g[e])
                     /\ e.id \in ids => g[e].tried
                     /\ e.id \notin ids /\ g[e].tried => e.tried
                     /\ IsConflict(e) /\ e.id \notin ids => g[e] = e

LEMMA TouchesAll ==
    ASSUME NEW S \in Store, Distinct(S), NEW g, NEW T, T = Mapped(S, g),
           NEW ids, TouchesBy(S, g, ids)
    PROVE  /\ T \in Store
           /\ T.local = S.local
           /\ T.wm = S.wm
           /\ \A r \in Rec : Touches(EntriesOf(S, r), EntriesOf(T, r), ids)
<1>1. \A e \in S.box : SameWork(e, g[e])
  BY DEF TouchesBy, Touched
<1>2. /\ T \in Store
      /\ T.local = S.local
      /\ T.wm = S.wm
      /\ \A r \in Rec : EntriesOf(S, r) = {} => EntriesOf(T, r) = {}
      /\ \A r \in Rec : \A x \in EntriesOf(S, r) :
            EntriesOf(S, r) = {x} /\ EntriesOf(T, r) = {g[x]}
  BY <1>1, MappedView
<1>3. ASSUME NEW r \in Rec
      PROVE  Touches(EntriesOf(S, r), EntriesOf(T, r), ids)
  <2>1. CASE EntriesOf(S, r) = {}
    BY <1>2, <2>1 DEF Touches
  <2>2. ASSUME NEW x \in EntriesOf(S, r)
        PROVE  Touches(EntriesOf(S, r), EntriesOf(T, r), ids)
    <3>1. EntriesOf(S, r) = {x} /\ EntriesOf(T, r) = {g[x]} /\ x \in S.box
      BY <1>2 DEF EntriesOf
    <3> QED BY <3>1 DEF Touches, TouchesBy
  <2> QED BY <2>1, <2>2
<1> QED BY <1>2, <1>3

LEMMA MarkAttemptedView ==
    ASSUME NEW S \in Store, Distinct(S), NEW ids
    PROVE  /\ MarkAttempted(S, ids) \in Store
           /\ MarkAttempted(S, ids).local = S.local
           /\ MarkAttempted(S, ids).wm = S.wm
           /\ \A r \in Rec :
                 Touches(EntriesOf(S, r), EntriesOf(MarkAttempted(S, ids), r),
                         ids)
<1> DEFINE g == [e \in S.box |-> IF e.id \in ids THEN Sent(e) ELSE e]
           T == MarkAttempted(S, ids)
<1>1. T = Mapped(S, g)
  <2>1. {IF e.id \in ids THEN [e EXCEPT !.tried = TRUE] ELSE e : e \in S.box}
        = {g[e] : e \in S.box}
    BY Zenon DEF Sent
  <2> QED BY <2>1, Zenon DEF MarkAttempted, UpdateEntries, Mapped
<1>2. ASSUME NEW e \in S.box
      PROVE  /\ Touched(e, g[e])
             /\ e.id \in ids => g[e].tried
             /\ e.id \notin ids /\ g[e].tried => e.tried
             /\ IsConflict(e) /\ e.id \notin ids => g[e] = e
  <2>1. e \in OutboxEntry
    BY StoreFields
  <2>2. g[e] = IF e.id \in ids THEN Sent(e) ELSE e
    OBVIOUS
  <2> HIDE DEF g
  <2>3. CASE e.id \notin ids
    BY <2>1, <2>2, <2>3, TouchedReflexive
  <2>4. CASE e.id \in ids
    <3>1. g[e] = Sent(e)
      BY <2>2, <2>4
    <3> QED BY <2>1, <2>4, <3>1, SentFields DEF Touched, IsConflict
  <2> QED BY <2>3, <2>4
<1>3. TouchesBy(S, g, ids)
  BY <1>2 DEF TouchesBy
<1> HIDE DEF g, T
<1>4. /\ T \in Store
      /\ T.local = S.local
      /\ T.wm = S.wm
      /\ \A r \in Rec : Touches(EntriesOf(S, r), EntriesOf(T, r), ids)
  BY <1>1, <1>3, TouchesAll
<1> QED BY <1>4 DEF T

LEMMA DeferView ==
    ASSUME NEW S \in Store, Distinct(S), NEW ids
    PROVE  /\ Defer(S, ids) \in Store
           /\ Defer(S, ids).local = S.local
           /\ Defer(S, ids).wm = S.wm
           /\ \A r \in Rec :
                 Touches(EntriesOf(S, r), EntriesOf(Defer(S, ids), r), ids)
<1> DEFINE g == [e \in S.box |-> IF e.id \in ids
                                 THEN Parked(e, "retry", "transient") ELSE e]
           T == Defer(S, ids)
<1>1. T = Mapped(S, g)
  <2>1. {IF e.id \in ids
         THEN [e EXCEPT !.status = "retry", !.kind = "transient",
                        !.tried = TRUE] ELSE e : e \in S.box}
        = {g[e] : e \in S.box}
    BY Zenon DEF Parked
  <2> QED BY <2>1, Zenon DEF Defer, UpdateEntries, Mapped
<1>2. ASSUME NEW e \in S.box
      PROVE  /\ Touched(e, g[e])
             /\ e.id \in ids => g[e].tried
             /\ e.id \notin ids /\ g[e].tried => e.tried
             /\ IsConflict(e) /\ e.id \notin ids => g[e] = e
  <2>1. e \in OutboxEntry
    BY StoreFields
  <2>2. g[e] = IF e.id \in ids THEN Parked(e, "retry", "transient") ELSE e
    OBVIOUS
  <2> HIDE DEF g
  <2>3. CASE e.id \notin ids
    BY <2>1, <2>2, <2>3, TouchedReflexive
  <2>4. CASE e.id \in ids
    <3>1. g[e] = Parked(e, "retry", "transient")
      BY <2>2, <2>4
    <3>2. "retry" \in EntryStatus /\ "transient" \in Kind
      BY DEF EntryStatus, Kind
    <3> QED BY <2>1, <2>4, <3>1, <3>2, ParkedFields DEF Touched, IsConflict
  <2> QED BY <2>3, <2>4
<1>3. TouchesBy(S, g, ids)
  BY <1>2 DEF TouchesBy
<1> HIDE DEF g, T
<1>4. /\ T \in Store
      /\ T.local = S.local
      /\ T.wm = S.wm
      /\ \A r \in Rec : Touches(EntriesOf(S, r), EntriesOf(T, r), ids)
  BY <1>1, <1>3, TouchesAll
<1> QED BY <1>4 DEF T

\* A refused batch (FailBatch).
Refuse(S, ids) ==
    UpdateEntries(S, LAMBDA e : e.id \in ids,
                  LAMBDA e : [e EXCEPT !.status = "blocked",
                                       !.kind = "authentication",
                                       !.tried = TRUE])

LEMMA RefuseView ==
    ASSUME NEW S \in Store, Distinct(S), NEW ids
    PROVE  /\ Refuse(S, ids) \in Store
           /\ Refuse(S, ids).local = S.local
           /\ Refuse(S, ids).wm = S.wm
           /\ \A r \in Rec :
                 Touches(EntriesOf(S, r), EntriesOf(Refuse(S, ids), r), ids)
<1> DEFINE g == [e \in S.box |-> IF e.id \in ids
                                 THEN Parked(e, "blocked", "authentication")
                                 ELSE e]
           T == Refuse(S, ids)
<1>1. T = Mapped(S, g)
  <2>1. {IF e.id \in ids
         THEN [e EXCEPT !.status = "blocked", !.kind = "authentication",
                        !.tried = TRUE] ELSE e : e \in S.box}
        = {g[e] : e \in S.box}
    BY Zenon DEF Parked
  <2> QED BY <2>1, Zenon DEF Refuse, UpdateEntries, Mapped
<1>2. ASSUME NEW e \in S.box
      PROVE  /\ Touched(e, g[e])
             /\ e.id \in ids => g[e].tried
             /\ e.id \notin ids /\ g[e].tried => e.tried
             /\ IsConflict(e) /\ e.id \notin ids => g[e] = e
  <2>1. e \in OutboxEntry
    BY StoreFields
  <2>2. g[e] = IF e.id \in ids THEN Parked(e, "blocked", "authentication")
               ELSE e
    OBVIOUS
  <2> HIDE DEF g
  <2>3. CASE e.id \notin ids
    BY <2>1, <2>2, <2>3, TouchedReflexive
  <2>4. CASE e.id \in ids
    <3>1. g[e] = Parked(e, "blocked", "authentication")
      BY <2>2, <2>4
    <3>2. "blocked" \in EntryStatus /\ "authentication" \in Kind
      BY DEF EntryStatus, Kind
    <3> QED BY <2>1, <2>4, <3>1, <3>2, ParkedFields DEF Touched, IsConflict
  <2> QED BY <2>3, <2>4
<1>3. TouchesBy(S, g, ids)
  BY <1>2 DEF TouchesBy
<1> HIDE DEF g, T
<1>4. /\ T \in Store
      /\ T.local = S.local
      /\ T.wm = S.wm
      /\ \A r \in Rec : Touches(EntriesOf(S, r), EntriesOf(T, r), ids)
  BY <1>1, <1>3, TouchesAll
<1> QED BY <1>4 DEF T

LEMMA ReleaseView ==
    ASSUME NEW S \in Store, Distinct(S)
    PROVE  /\ ReleaseAuthentication(S) \in Store
           /\ ReleaseAuthentication(S).local = S.local
           /\ ReleaseAuthentication(S).wm = S.wm
           /\ \A r \in Rec :
                 Touches(EntriesOf(S, r),
                         EntriesOf(ReleaseAuthentication(S), r), {})
<1> DEFINE g == [e \in S.box |-> IF e.status = "blocked"
                                    /\ e.kind = "authentication"
                                 THEN Released(e) ELSE e]
           T == ReleaseAuthentication(S)
<1>1. T = Mapped(S, g)
  <2>1. {IF e.status = "blocked" /\ e.kind = "authentication"
         THEN [e EXCEPT !.status = "pending"] ELSE e : e \in S.box}
        = {g[e] : e \in S.box}
    BY Zenon DEF Released
  <2> QED BY <2>1, Zenon DEF ReleaseAuthentication, UpdateEntries, Mapped
<1>2. ASSUME NEW e \in S.box
      PROVE  /\ Touched(e, g[e])
             /\ e.id \in {} => g[e].tried
             /\ e.id \notin {} /\ g[e].tried => e.tried
             /\ IsConflict(e) /\ e.id \notin {} => g[e] = e
  <2>1. e \in OutboxEntry
    BY StoreFields
  <2>2. g[e] = IF e.status = "blocked" /\ e.kind = "authentication"
               THEN Released(e) ELSE e
    OBVIOUS
  <2> HIDE DEF g
  <2>3. CASE ~(e.status = "blocked" /\ e.kind = "authentication")
    <3>1. g[e] = e
      BY <2>2, <2>3
    <3> QED BY <2>1, <3>1, TouchedReflexive
  <2>4. CASE e.status = "blocked" /\ e.kind = "authentication"
    <3>1. g[e] = Released(e)
      BY <2>2, <2>4
    <3>2. ~IsConflict(e) /\ ~IsConflict(Released(e))
      BY <2>1, <2>4, ReleasedFields DEF IsConflict
    <3>3. e.tried <=> Released(e).tried
      BY <2>1, ReleasedFields
    <3> QED BY <2>1, <3>1, <3>2, <3>3, ReleasedFields DEF Touched
  <2> QED BY <2>3, <2>4
<1>3. TouchesBy(S, g, {})
  BY <1>2 DEF TouchesBy
<1> HIDE DEF g, T
<1>4. /\ T \in Store
      /\ T.local = S.local
      /\ T.wm = S.wm
      /\ \A r \in Rec : Touches(EntriesOf(S, r), EntriesOf(T, r), {})
  BY <1>1, <1>3, TouchesAll
<1> QED BY <1>4 DEF T

\* The entry with identifier id is blocked with a failure kind and a row.
Holds(E, F, id, k, row) ==
    \/ E = {} /\ F = {}
    \/ \E x : /\ E = {x}
              /\ F = {IF x.id = id THEN Held(x, k, row) ELSE x}

LEMMA BlockView ==
    ASSUME NEW S \in Store, Distinct(S), NEW id, NEW k \in Kind, NEW row,
           AsLocal(row) \in LocalRow
    PROVE  /\ Block(S, id, k, row) \in Store
           /\ Block(S, id, k, row).local = S.local
           /\ Block(S, id, k, row).wm = S.wm
           /\ \A r \in Rec :
                 Holds(EntriesOf(S, r), EntriesOf(Block(S, id, k, row), r), id,
                       k, AsLocal(row))
<1> DEFINE loc == AsLocal(row)
           g == [e \in S.box |-> IF e.id = id THEN Held(e, k, loc) ELSE e]
           T == Block(S, id, k, row)
<1>1. T = Mapped(S, g)
  <2>1. {IF e.id = id
         THEN [e EXCEPT !.status = "blocked", !.kind = k, !.tried = TRUE,
                        !.srv = AsLocal(row)] ELSE e : e \in S.box}
        = {g[e] : e \in S.box}
    BY Zenon DEF Held
  <2> QED BY <2>1, Zenon DEF Block, UpdateEntries, Mapped
<1>2. \A e \in S.box : g[e] = IF e.id = id THEN Held(e, k, loc) ELSE e
  OBVIOUS
<1> HIDE DEF g, T, loc
<1>3. \A e \in S.box : SameWork(e, g[e])
  <2> SUFFICES ASSUME NEW e \in S.box
               PROVE  SameWork(e, g[e])
    OBVIOUS
  <2>1. e \in OutboxEntry
    BY StoreFields
  <2>2. SameWork(e, Held(e, k, loc))
    BY <2>1, HeldFields DEF loc
  <2>3. SameWork(e, e)
    BY <2>1 DEF SameWork
  <2> QED BY <1>2, <2>2, <2>3
<1>4. /\ T \in Store
      /\ T.local = S.local
      /\ T.wm = S.wm
      /\ \A r \in Rec : EntriesOf(S, r) = {} => EntriesOf(T, r) = {}
      /\ \A r \in Rec : \A x \in EntriesOf(S, r) :
            EntriesOf(S, r) = {x} /\ EntriesOf(T, r) = {g[x]}
  BY <1>1, <1>3, MappedView
<1>5. ASSUME NEW r \in Rec
      PROVE  Holds(EntriesOf(S, r), EntriesOf(T, r), id, k, loc)
  <2>1. CASE EntriesOf(S, r) = {}
    BY <1>4, <2>1 DEF Holds
  <2>2. ASSUME NEW x \in EntriesOf(S, r)
        PROVE  Holds(EntriesOf(S, r), EntriesOf(T, r), id, k, loc)
    <3>1. /\ EntriesOf(S, r) = {x}
          /\ EntriesOf(T, r) = {IF x.id = id THEN Held(x, k, loc) ELSE x}
      BY <1>2, <1>4 DEF EntriesOf
    <3> QED BY <3>1 DEF Holds
  <2> QED BY <2>1, <2>2
<1> QED BY <1>4, <1>5 DEF T, loc

LEMMA HoldsTouches ==
    ASSUME NEW E \in SUBSET OutboxEntry, NEW F, NEW id, NEW k \in Kind,
           NEW row \in LocalRow, Holds(E, F, id, k, row), k # "conflict"
    PROVE  Touches(E, F, {id})
<1>1. CASE E = {} /\ F = {}
  BY <1>1 DEF Touches
<1>2. ASSUME NEW x, E = {x}, F = {IF x.id = id THEN Held(x, k, row) ELSE x}
      PROVE  Touches(E, F, {id})
  <2>1. x \in OutboxEntry
    BY <1>2
  <2>2. CASE x.id # id
    <3>1. F = {x}
      BY <1>2, <2>2
    <3> QED BY <1>2, <2>1, <2>2, <3>1, TouchedReflexive DEF Touches
  <2>3. CASE x.id = id
    <3> DEFINE y == Held(x, k, row)
    <3>1. F = {y}
      BY <1>2, <2>3
    <3>2. Touched(x, y) /\ y.tried
      BY <2>1, HeldFields DEF Touched, IsConflict
    <3> HIDE DEF y
    <3> QED BY <1>2, <2>3, <3>1, <3>2 DEF Touches
  <2> QED BY <2>2, <2>3
<1> QED BY <1>1, <1>2 DEF Holds

LEMMA DropAnyView ==
    ASSUME NEW S \in Store, NEW id
    PROVE  /\ DropId(S, id) \in Store
           /\ DropId(S, id).local = S.local
           /\ DropId(S, id).wm = S.wm
           /\ \A r \in Rec : EntriesOf(DropId(S, id), r)
                               = {e \in EntriesOf(S, r) : e.id # id}
<1> DEFINE box == {e \in S.box : e.id # id}
           T == DropId(S, id)
<1>1. box \subseteq OutboxEntry
  BY StoreFields
<1>2. /\ T \in Store
      /\ T.local = S.local
      /\ T.wm = S.wm
      /\ T.box = box
  BY <1>1, SetBoxView DEF DropId
<1> HIDE DEF T
<1>3. \A r \in Rec : EntriesOf(T, r) = {e \in EntriesOf(S, r) : e.id # id}
  BY <1>2 DEF EntriesOf
<1> QED BY <1>2, <1>3 DEF T

\* What settling a result makes of the entries of a record.
Settles(E, F, res) ==
    \/ res.status = "accepted" /\ F = {e \in E : e.id # res.id}
    \/ /\ res.status = "conflict"
       /\ Holds(E, F, res.id, "conflict", AsLocal(res.row))
    \/ res.status = "error" /\ Touches(E, F, {res.id})

LEMMA SettleView ==
    ASSUME NEW S \in Store, Distinct(S), NEW res \in ProperResult,
           res.status = "error" => res.kind # "conflict"
    PROVE  /\ Settle(S, res) \in Store
           /\ Settle(S, res).local = S.local
           /\ Settle(S, res).wm = S.wm
           /\ \A r \in Rec :
                 Settles(EntriesOf(S, r), EntriesOf(Settle(S, res), r), res)
<1> DEFINE T == Settle(S, res)
<1>1. /\ res.status \in Status
      /\ res.kind \in Kind
      /\ res.row \in ProperRow
  BY DEF ProperResult
<1>2. /\ AsLocal(res.row) \in LocalRow
      /\ AsLocal(NoRow) \in LocalRow
  BY <1>1, AsLocalType, NoRowProper
<1>3. CASE res.status = "accepted"
  <2>1. T = DropId(S, res.id)
    BY <1>3 DEF Settle
  <2> QED BY <1>3, <2>1, DropAnyView DEF Settles
<1>4. CASE res.status = "conflict"
  <2>1. T = Block(S, res.id, "conflict", res.row)
    BY <1>4 DEF Settle
  <2>2. "conflict" \in Kind
    BY DEF Kind
  <2> HIDE DEF T
  <2> QED BY <1>2, <1>4, <2>1, <2>2, BlockView DEF Settles, T
<1>5. CASE res.status = "error" /\ res.kind = "transient"
  <2>1. T = Defer(S, {res.id})
    BY <1>5 DEF Settle
  <2> HIDE DEF T
  <2> QED BY <1>5, <2>1, DeferView DEF Settles, T
<1>6. CASE res.status = "error" /\ res.kind # "transient"
  <2>1. T = Block(S, res.id, res.kind, NoRow)
    BY <1>6 DEF Settle
  <2> HIDE DEF T
  <2>2. /\ T \in Store
        /\ T.local = S.local
        /\ T.wm = S.wm
        /\ \A r \in Rec : Holds(EntriesOf(S, r), EntriesOf(T, r), res.id,
                                res.kind, AsLocal(NoRow))
    BY <1>1, <1>2, <2>1, BlockView
  <2>3. \A r \in Rec : EntriesOf(S, r) \in SUBSET OutboxEntry
    BY StoreFields DEF EntriesOf
  <2>4. res.kind # "conflict"
    BY <1>6
  <2>5. ASSUME NEW r \in Rec
        PROVE  Touches(EntriesOf(S, r), EntriesOf(T, r), {res.id})
    BY <1>1, <1>2, <2>2, <2>3, <2>4, HoldsTouches
  <2> QED BY <1>6, <2>2, <2>5 DEF Settles, T
<1> QED BY <1>1, <1>3, <1>4, <1>5, <1>6 DEF Status

Raised(loc, v) == [loc EXCEPT !.ver = Larger(loc.ver, v)]

LEMMA RaisedFields ==
    ASSUME NEW loc \in LocalRow, NEW v \in Nat
    PROVE  /\ Raised(loc, v) \in LocalRow
           /\ Raised(loc, v).ver = Larger(loc.ver, v)
           /\ Raised(loc, v).val = loc.val
           /\ Raised(loc, v).del = loc.del
<1>1. loc.ver \in Nat
  BY DEF LocalRow
<1>2. Larger(loc.ver, v) \in Nat
  BY <1>1, LargerNat
<1> QED BY <1>2 DEF LocalRow, Raised

Waits(x) == x.status \in {"pending", "retry"}

\* The answer to a change whose entry is gone: a change queued since moves
\* onto the version v it produced.
MovesOn(loc, E, row, F, v) ==
    \/ row = loc /\ F = E /\ \A x \in E : ~Waits(x)
    \/ \E x : /\ E = {x}
              /\ Waits(x)
              /\ row = Raised(loc, v)
              /\ F = {Rebased(x, Larger(x.base, v))}

LEMMA AdvanceView ==
    ASSUME NEW S \in Store, Distinct(S), NEW res, res.rec \in Rec,
           AckVersion(res) \in Nat
    PROVE  /\ AdvanceReplacement(S, res).wm = S.wm
           /\ \E row, F :
                 /\ Becomes(S, AdvanceReplacement(S, res), res.rec, row, F)
                 /\ MovesOn(S.local[res.rec], EntriesOf(S, res.rec), row, F,
                            AckVersion(res))
<1> DEFINE r == res.rec
           v == AckVersion(res)
           old == S.local[r]
           waiting == {e \in EntriesOf(S, r) : e.status \in {"pending", "retry"}}
           T == SetLocal(S, r, Raised(old, v))
           U == AdvanceReplacement(S, res)
<1>1. old \in LocalRow
  BY StoreFields
<1>2. CASE waiting = {}
  <2>1. U = S
    BY <1>2 DEF AdvanceReplacement
  <2>2. \A x \in EntriesOf(S, r) : ~Waits(x)
    BY <1>2 DEF Waits
  <2>3. MovesOn(old, EntriesOf(S, r), old, EntriesOf(S, r), v)
    BY <2>2 DEF MovesOn
  <2>4. Becomes(S, S, r, old, EntriesOf(S, r))
    BY DEF Becomes, Elsewhere
  <2> HIDE DEF U, old
  <2> QED BY <2>1, <2>3, <2>4 DEF U, old
<1>3. ASSUME NEW x \in EntriesOf(S, r), Waits(x)
      PROVE  /\ U.wm = S.wm
             /\ \E row, F : /\ Becomes(S, U, r, row, F)
                            /\ MovesOn(old, EntriesOf(S, r), row, F, v)
  <2> DEFINE g == [e \in T.box |-> IF e.id = x.id
                                   THEN Rebased(e, Larger(e.base, v)) ELSE e]
             y == Rebased(x, Larger(x.base, v))
  <2>1. /\ EntriesOf(S, r) = {x}
        /\ x \in OutboxEntry
        /\ x.rec = r
        /\ x \in S.box
    BY OnlyEntry
  <2>2. waiting = {x} /\ waiting # {}
    BY <1>3, <2>1 DEF Waits
  <2>3. Oldest(waiting) = x
    <3>1. Oldest(EntriesOf(S, r)) = x
      BY OnlyEntry
    <3> QED BY <2>1, <2>2, <3>1
  <2>4. U = Mapped(T, g)
    <3>1. {IF e.id = x.id THEN [e EXCEPT !.base = Larger(e.base, v)]
           ELSE e : e \in T.box}
          = {g[e] : e \in T.box}
      BY Zenon DEF Rebased
    <3>2. U = [T EXCEPT !.box =
                  {IF e.id = Oldest(waiting).id
                   THEN [e EXCEPT !.base = Larger(e.base, v)]
                   ELSE e : e \in T.box}]
      BY <2>2, Zenon DEF AdvanceReplacement, UpdateEntries, Raised
    <3> HIDE DEF waiting, T, U, g
    <3> QED BY <2>3, <3>1, <3>2, Zenon DEF Mapped
  <2>5. \A e \in T.box : g[e] = IF e.id = x.id
                                THEN Rebased(e, Larger(e.base, v)) ELSE e
    OBVIOUS
  <2>6. /\ Becomes(S, T, r, Raised(old, v), EntriesOf(S, r))
        /\ T.box = S.box
        /\ T.wm = S.wm
    BY <1>1, RaisedFields, SetLocalBecomes
  <2> HIDE DEF T, U, g
  <2>7. /\ T \in Store
        /\ Distinct(T)
        /\ T.local[r] = Raised(old, v)
        /\ EntriesOf(T, r) = {x}
    BY <2>1, <2>6, SameBoxView DEF Becomes, Elsewhere
  <2>8. \A e \in T.box : SameWork(e, g[e])
    <3> SUFFICES ASSUME NEW e \in T.box
                 PROVE  SameWork(e, g[e])
      OBVIOUS
    <3>1. e \in OutboxEntry /\ e.base \in Nat
      BY <2>7, StoreFields, EntryFields
    <3>2. Larger(e.base, v) \in Nat
      BY <3>1, LargerNat
    <3>3. SameWork(e, Rebased(e, Larger(e.base, v)))
      BY <3>1, <3>2, RebasedFields
    <3>4. SameWork(e, e)
      BY <3>1 DEF SameWork
    <3> QED BY <2>5, <3>3, <3>4
  <2>9. /\ U \in Store
        /\ U.local = T.local
        /\ U.wm = T.wm
        /\ \A s \in Rec : EntriesOf(T, s) = {} => EntriesOf(U, s) = {}
        /\ \A s \in Rec : \A z \in EntriesOf(T, s) :
              EntriesOf(T, s) = {z} /\ EntriesOf(U, s) = {g[z]}
    BY <2>4, <2>7, <2>8, MappedView
  <2>10. EntriesOf(U, r) = {y}
    <3>1. g[x] = y
      BY <2>1, <2>5, <2>6
    <3> QED BY <2>7, <2>9, <3>1
  <2>11. ASSUME NEW s \in Rec \ {r}
         PROVE  EntriesOf(U, s) = EntriesOf(T, s)
    <3>1. \A z \in EntriesOf(T, s) : g[z] = z
      BY <2>1, <2>5, <2>6, <2>7 DEF EntriesOf, Distinct
    <3>2. CASE EntriesOf(T, s) = {}
      BY <2>9, <3>2
    <3>3. ASSUME NEW z \in EntriesOf(T, s)
          PROVE  EntriesOf(U, s) = EntriesOf(T, s)
      BY <2>9, <3>1, <3>3
    <3> QED BY <3>2, <3>3
  <2>12. Becomes(T, U, r, Raised(old, v), {y})
    BY <2>7, <2>9, <2>10, <2>11 DEF Becomes, Elsewhere
  <2>13. Becomes(S, U, r, Raised(old, v), {y})
    BY <2>6, <2>12, BecomesThen
  <2>14. MovesOn(old, EntriesOf(S, r), Raised(old, v), {y}, v)
    BY <1>3, <2>1 DEF MovesOn
  <2> HIDE DEF y
  <2> QED BY <2>6, <2>9, <2>13, <2>14
<1>4. waiting = {} \/ \E x \in EntriesOf(S, r) : Waits(x)
  BY DEF Waits
<1> QED BY <1>2, <1>3, <1>4

\* One accepted result.
Acks(loc, E, row, F, res) ==
    \/ /\ \E x : E = {x} /\ x.id = res.id
       /\ row = AsLocal(res.row)
       /\ F = {}
    \/ /\ \A x \in E : x.id # res.id
       /\ MovesOn(loc, E, row, F, AckVersion(res))

LEMMA AckOneView ==
    ASSUME NEW S \in Store, Distinct(S), NEW res \in ProperResult,
           \A x \in S.box : x.id = res.id => x.rec = res.rec
    PROVE  /\ AcknowledgeOne(S, res).wm = S.wm
           /\ \E row, F :
                 /\ Becomes(S, AcknowledgeOne(S, res), res.rec, row, F)
                 /\ Acks(S.local[res.rec], EntriesOf(S, res.rec), row, F, res)
<1> DEFINE r == res.rec
           U == AcknowledgeOne(S, res)
<1>1. /\ r \in Rec
      /\ res.row \in ProperRow
      /\ AckVersion(res) \in Nat
  BY DEF ProperResult, AckVersion
<1>2. AsLocal(res.row) \in LocalRow
  BY <1>1, AsLocalType
<1>3. CASE ~HasId(S, res.id)
  <2>1. U = AdvanceReplacement(S, res)
    BY <1>3 DEF AcknowledgeOne
  <2>2. \A x \in EntriesOf(S, r) : x.id # res.id
    BY <1>3 DEF HasId, EntriesOf
  <2>3. /\ U.wm = S.wm
        /\ \E row, F : /\ Becomes(S, U, r, row, F)
                       /\ MovesOn(S.local[r], EntriesOf(S, r), row, F,
                                  AckVersion(res))
    BY <1>1, <2>1, AdvanceView
  <2> HIDE DEF U
  <2> QED BY <2>2, <2>3 DEF Acks, U
<1>4. CASE HasId(S, res.id)
  <2>1. PICK x \in S.box : x.id = res.id
    BY <1>4 DEF HasId
  <2>2. x \in EntriesOf(S, r)
    BY <2>1 DEF EntriesOf
  <2>3. EntriesOf(S, r) = {x}
    BY <1>1, <2>2, OnlyEntry
  <2> DEFINE T == DropId(S, x.id)
  <2>4. U = ApplyRow(T, r, res.row)
    BY <1>4, <2>1 DEF AcknowledgeOne
  <2>5. T.wm = S.wm /\ Becomes(S, T, r, S.local[r], {})
    BY <1>1, <2>2, DropIdView
  <2> HIDE DEF T, U
  <2>6. T \in Store /\ EntriesOf(T, r) = {}
    BY <2>5 DEF Becomes, Elsewhere
  <2>7. /\ U.wm = T.wm
        /\ Becomes(T, U, r, RowTo(T.local[r], EntriesOf(T, r), res.row),
                   {Faced(e, res.row) : e \in EntriesOf(T, r)})
    BY <1>1, <1>2, <2>4, <2>6, ApplyRowView
  <2>8. /\ RowTo(T.local[r], EntriesOf(T, r), res.row) = AsLocal(res.row)
        /\ {Faced(e, res.row) : e \in EntriesOf(T, r)} = {}
    BY <2>6 DEF RowTo
  <2>9. Becomes(S, U, r, AsLocal(res.row), {})
    BY <2>5, <2>7, <2>8, BecomesThen
  <2>10. Acks(S.local[r], EntriesOf(S, r), AsLocal(res.row), {}, res)
    BY <2>1, <2>3 DEF Acks
  <2> QED BY <2>5, <2>7, <2>9, <2>10 DEF U
<1> QED BY <1>3, <1>4

-----------------------------------------------------------------------------
(* Operations on every record                                              *)

LEMMA PerRecordView ==
    ASSUME NEW S \in Store, NEW f, \A r \in Rec : f[r] \in Store
    PROVE  /\ PerRecord(S, f) \in Store
           /\ PerRecord(S, f).wm = S.wm
           /\ \A r \in Rec : /\ PerRecord(S, f).local[r] = f[r].local[r]
                             /\ EntriesOf(PerRecord(S, f), r)
                                  = EntriesOf(f[r], r)
<1> DEFINE loc == [r \in Rec |-> f[r].local[r]]
           box == UNION {EntriesOf(f[r], r) : r \in Rec}
           T == PerRecord(S, f)
<1>1. loc \in [Rec -> LocalRow]
  BY StoreFields
<1>2. box \subseteq OutboxEntry
  <2> SUFFICES ASSUME NEW r \in Rec, NEW e \in EntriesOf(f[r], r)
               PROVE  e \in OutboxEntry
    OBVIOUS
  <2> QED BY StoreFields DEF EntriesOf
<1>3. \A r \in Rec : loc[r] = f[r].local[r]
  OBVIOUS
<1>4. T = [S EXCEPT !.local = loc, !.box = box]
  BY DEF PerRecord
<1>5. ASSUME NEW r \in Rec
      PROVE  {e \in box : e.rec = r} = EntriesOf(f[r], r)
  <2>1. ASSUME NEW e \in box, e.rec = r
        PROVE  e \in EntriesOf(f[r], r)
    <3>1. PICK s \in Rec : e \in EntriesOf(f[s], s)
      OBVIOUS
    <3>2. s = r
      BY <2>1, <3>1 DEF EntriesOf
    <3> QED BY <3>1, <3>2
  <2>2. ASSUME NEW e \in EntriesOf(f[r], r)
        PROVE  e \in box /\ e.rec = r
    BY DEF EntriesOf
  <2> QED BY <2>1, <2>2
<1> HIDE DEF loc, box, T
<1>6. /\ T.local = loc
      /\ T.box = box
      /\ T.wm = S.wm
      /\ T = [local |-> T.local, box |-> T.box, wm |-> T.wm]
  BY <1>4 DEF Store
<1>7. T \in Store
  BY <1>1, <1>2, <1>6 DEF Store
<1>8. \A r \in Rec : EntriesOf(T, r) = EntriesOf(f[r], r)
  BY <1>5, <1>6 DEF EntriesOf
<1> QED BY <1>3, <1>6, <1>7, <1>8 DEF T

\* The results of one answer: at most one for a record.
OnePerRecord(results) ==
    \A j, k \in DOMAIN results : results[j].rec = results[k].rec => j = k

\* What the accepted results of an answer make of record r.
AcksIn(results, r, loc, E, row, F) ==
    \/ /\ \A k \in DOMAIN results :
             ~(HasState(results[k]) /\ results[k].rec = r)
       /\ row = loc
       /\ F = E
    \/ \E k \in DOMAIN results :
          /\ HasState(results[k])
          /\ results[k].rec = r
          /\ Acks(loc, E, row, F, results[k])

LEMMA AcknowledgeView ==
    ASSUME NEW S \in Store, Distinct(S), NEW results \in Seq(ProperResult),
           OnePerRecord(results),
           \A k \in DOMAIN results : \A x \in S.box :
              x.id = results[k].id => x.rec = results[k].rec
    PROVE  /\ Acknowledge(S, results) \in Store
           /\ Acknowledge(S, results).wm = S.wm
           /\ \A r \in Rec :
                 AcksIn(results, r, S.local[r], EntriesOf(S, r),
                        Acknowledge(S, results).local[r],
                        EntriesOf(Acknowledge(S, results), r))
<1> DEFINE acks(r) == {k \in DOMAIN results :
                          HasState(results[k]) /\ results[k].rec = r}
           f == [r \in Rec |->
                   IF acks(r) = {} THEN S
                   ELSE AcknowledgeOne(S, results[CHOOSE k \in acks(r) : TRUE])]
           T == Acknowledge(S, results)
<1>1. T = PerRecord(S, f)
  BY DEF Acknowledge
<1>2. ASSUME NEW r \in Rec
      PROVE  /\ f[r] \in Store
             /\ AcksIn(results, r, S.local[r], EntriesOf(S, r),
                       f[r].local[r], EntriesOf(f[r], r))
  <2>1. CASE acks(r) = {}
    <3>1. f[r] = S
      BY <2>1
    <3>2. \A k \in DOMAIN results :
             ~(HasState(results[k]) /\ results[k].rec = r)
      BY <2>1
    <3> HIDE DEF f
    <3> QED BY <3>1, <3>2 DEF AcksIn
  <2>2. CASE acks(r) # {}
    <3> DEFINE k == CHOOSE j \in acks(r) : TRUE
               res == results[k]
    <3>1. f[r] = AcknowledgeOne(S, res)
      BY <2>2
    <3>2. k \in acks(r)
      BY <2>2
    <3> HIDE DEF f, k
    <3>3. k \in DOMAIN results /\ HasState(res) /\ res.rec = r
      BY <3>2
    <3>4. res \in ProperResult
      BY <3>3
    <3>5. \A x \in S.box : x.id = res.id => x.rec = res.rec
      BY <3>3
    <3> HIDE DEF res
    <3>6. PICK row, F :
             /\ Becomes(S, AcknowledgeOne(S, res), res.rec, row, F)
             /\ Acks(S.local[res.rec], EntriesOf(S, res.rec), row, F, res)
      BY <3>4, <3>5, AckOneView
    <3>7. /\ f[r] \in Store
          /\ f[r].local[r] = row
          /\ EntriesOf(f[r], r) = F
      BY <3>1, <3>3, <3>6 DEF Becomes, Elsewhere
    <3>8. Acks(S.local[r], EntriesOf(S, r), row, F, results[k])
      BY <3>3, <3>6 DEF res
    <3>9. HasState(results[k]) /\ results[k].rec = r
      BY <3>3 DEF res
    <3> QED BY <3>3, <3>7, <3>8, <3>9 DEF AcksIn
  <2> QED BY <2>1, <2>2
<1> HIDE DEF f, T
<1>3. /\ T \in Store
      /\ T.wm = S.wm
      /\ \A r \in Rec : /\ T.local[r] = f[r].local[r]
                        /\ EntriesOf(T, r) = EntriesOf(f[r], r)
  BY <1>1, <1>2, PerRecordView
<1>4. \A r \in Rec : AcksIn(results, r, S.local[r], EntriesOf(S, r),
                            T.local[r], EntriesOf(T, r))
  BY <1>2, <1>3
<1> QED BY <1>3, <1>4 DEF T

\* What a pull makes of record r.
Pulls(got, loc, E, row, F) ==
    \/ got = NoRow /\ row = loc /\ F = E
    \/ /\ got # NoRow
       /\ row = RowTo(loc, E, got)
       /\ F = {Faced(e, got) : e \in E}

LEMMA ApplyPullView ==
    ASSUME NEW S \in Store, NEW rows \in [Rec -> ProperRow], NEW snap \in Nat
    PROVE  /\ ApplyPull(S, rows, snap) \in Store
           /\ ApplyPull(S, rows, snap).wm = snap
           /\ \A r \in Rec :
                 Pulls(rows[r], S.local[r], EntriesOf(S, r),
                       ApplyPull(S, rows, snap).local[r],
                       EntriesOf(ApplyPull(S, rows, snap), r))
<1> DEFINE f == [r \in Rec |-> IF rows[r] = NoRow THEN S
                               ELSE ApplyRow(S, r, rows[r])]
           T == PerRecord(S, f)
           U == ApplyPull(S, rows, snap)
<1>1. U = [T EXCEPT !.wm = snap]
  BY DEF ApplyPull
<1>2. ASSUME NEW r \in Rec
      PROVE  /\ f[r] \in Store
             /\ Pulls(rows[r], S.local[r], EntriesOf(S, r),
                      f[r].local[r], EntriesOf(f[r], r))
  <2>1. f[r] = IF rows[r] = NoRow THEN S ELSE ApplyRow(S, r, rows[r])
    OBVIOUS
  <2> HIDE DEF f
  <2>2. CASE rows[r] = NoRow
    BY <2>1, <2>2 DEF Pulls
  <2>3. CASE rows[r] # NoRow
    <3>1. AsLocal(rows[r]) \in LocalRow
      BY AsLocalType
    <3>2. Becomes(S, f[r], r, RowTo(S.local[r], EntriesOf(S, r), rows[r]),
                  {Faced(e, rows[r]) : e \in EntriesOf(S, r)})
      BY <2>1, <2>3, <3>1, ApplyRowView
    <3> QED BY <2>3, <3>2 DEF Becomes, Elsewhere, Pulls
  <2> QED BY <2>2, <2>3
<1> HIDE DEF f
<1>3. /\ T \in Store
      /\ \A r \in Rec : /\ T.local[r] = f[r].local[r]
                        /\ EntriesOf(T, r) = EntriesOf(f[r], r)
  BY <1>2, PerRecordView
<1> HIDE DEF T
<1>4. /\ U \in Store
      /\ U.wm = snap
      /\ U.box = T.box
      /\ U.local = T.local
  BY <1>1, <1>3, SetWmView
<1> HIDE DEF U
<1>5. \A r \in Rec : EntriesOf(U, r) = EntriesOf(T, r)
  BY <1>4, SameBoxView
<1>6. \A r \in Rec : Pulls(rows[r], S.local[r], EntriesOf(S, r), U.local[r],
                           EntriesOf(U, r))
  BY <1>2, <1>3, <1>4, <1>5
<1> QED BY <1>4, <1>6 DEF U

-----------------------------------------------------------------------------
(* The first invariant: databases, batches and answers are well formed     *)

\* An entry for work that the cached row shows.
Shows(loc, x) ==
    /\ x.op = "upsert" => ~loc.del /\ loc.val = x.val /\ x.val # {}
    /\ x.op = "delete" => loc.del /\ x.val = {}

\* An identifier that device c has handed out, n being the last one's number.
IdOf(c, n, id) == id[1] = c /\ id[2] <= n

StoreSound(S, c, n) ==
    /\ S \in Store
    /\ Distinct(S)
    /\ \A x \in S.box : IdOf(c, n, x.id) /\ Shows(S.local[x.rec], x)

\* A batch, on the way or answered, of a device with database S.
BatchSound(S, c, n, batch) ==
    /\ GoodBatch(batch)
    /\ \A k \in DOMAIN batch :
          /\ IdOf(c, n, batch[k].id)
          /\ \A x \in S.box : x.id = batch[k].id => x.rec = batch[k].pay.rec

PassSound(w, S, c, n, p) ==
    /\ p \in Pass
    /\ BatchSound(S, c, n, p.batch)
    /\ p.results \in Seq(ProperResult)
    /\ p.results = <<>> \/ Len(p.results) = Len(p.batch)
    /\ \A k \in DOMAIN p.results : ResultSound(w, c, p.batch[k], p.results[k])
    /\ p.todo \subseteq DOMAIN p.results
    /\ p.rows \in [Rec -> ProperRow]

WellFormed ==
    /\ TypeOK
    /\ ServerSound(srv)
    /\ \A c \in Client : /\ StoreSound(cl[c], c, used[c])
                         /\ PassSound(srv, cl[c], c, used[c], pass[c])
    /\ \A m \in late : BatchSound(cl[m.user], m.user, used[m.user], m.batch)

\* One record of a device: row loc and entries E become row and F, while the
\* numbers n + 1 to m are handed out.
FreshId(c, n, m, id) == id[1] = c /\ n < id[2] /\ id[2] <= m

RecordStep(c, n, m, E, row, F) ==
    /\ \A y, z \in F : y = z
    /\ \A y \in F : /\ Shows(row, y)
                    /\ \/ \E x \in E : x.id = y.id
                       \/ FreshId(c, n, m, y.id)

\* The other records keep their entries when an identifier is handed out.
StoreStep(S, T, c, n, m) ==
    /\ T \in Store
    /\ \A r \in Rec : RecordStep(c, n, m, EntriesOf(S, r), T.local[r],
                                 EntriesOf(T, r))
    /\ \A r \in Rec : \A y \in EntriesOf(T, r) :
          \/ \E x \in EntriesOf(S, r) : x.id = y.id
          \/ \A s \in Rec \ {r} : EntriesOf(T, s) = EntriesOf(S, s)

LEMMA StoreStepSound ==
    ASSUME NEW c \in Client, NEW n \in Nat, NEW m \in Nat, n <= m,
           NEW S, StoreSound(S, c, n), NEW T, StoreStep(S, T, c, n, m)
    PROVE  StoreSound(T, c, m)
<1>1. S \in Store /\ Distinct(S) /\ T \in Store
  BY DEF StoreSound, StoreStep
<1>2. \A x \in S.box \cup T.box : /\ x \in OutboxEntry
                                  /\ x.rec \in Rec
                                  /\ x.id[2] \in Nat
  BY <1>1, StoreFields, EntryFields
<1>3. \A x \in T.box : x \in EntriesOf(T, x.rec)
  BY DEF EntriesOf
<1>4. ASSUME NEW x \in T.box
      PROVE  IdOf(c, m, x.id) /\ Shows(T.local[x.rec], x)
  <2>1. /\ Shows(T.local[x.rec], x)
        /\ \/ \E z \in EntriesOf(S, x.rec) : z.id = x.id
           \/ FreshId(c, n, m, x.id)
    BY <1>2, <1>3 DEF StoreStep, RecordStep
  <2>2. ASSUME NEW z \in EntriesOf(S, x.rec), z.id = x.id
        PROVE  IdOf(c, m, x.id)
    <3>1. z \in S.box
      BY DEF EntriesOf
    <3>2. x.id[1] = c /\ x.id[2] <= n
      BY <2>2, <3>1 DEF StoreSound, IdOf
    <3> QED BY <1>2, <3>2 DEF IdOf
  <2> QED BY <2>1, <2>2 DEF FreshId, IdOf
<1>5. ASSUME NEW x \in T.box, NEW y \in T.box, x.rec = y.rec
      PROVE  x = y
  BY <1>2, <1>3, <1>5 DEF StoreStep, RecordStep
<1>6. ASSUME NEW x \in T.box, NEW y \in T.box, x.id = y.id, x.rec # y.rec
      PROVE  ~\E z \in EntriesOf(S, y.rec) : z.id = y.id
  <2> SUFFICES ASSUME NEW z \in EntriesOf(S, y.rec), z.id = y.id
               PROVE  FALSE
    OBVIOUS
  <2>1. z \in S.box /\ z.rec = y.rec
    BY DEF EntriesOf
  <2>2. \E v \in EntriesOf(S, x.rec) : v.id = x.id
    <3>1. CASE \A s \in Rec \ {x.rec} : EntriesOf(T, s) = EntriesOf(S, s)
      <4>1. z.id[2] <= n
        BY <2>1 DEF StoreSound, IdOf
      <4>2. ~FreshId(c, n, m, x.id)
        BY <1>2, <1>6, <2>1, <4>1 DEF FreshId
      <4> QED BY <1>2, <1>3, <4>2 DEF StoreStep, RecordStep
    <3>2. CASE ~\A s \in Rec \ {x.rec} : EntriesOf(T, s) = EntriesOf(S, s)
      BY <1>2, <1>3, <3>2 DEF StoreStep
    <3> QED BY <3>1, <3>2
  <2>3. PICK v \in EntriesOf(S, x.rec) : v.id = x.id
    BY <2>2
  <2>4. v \in S.box /\ v.rec = x.rec
    BY DEF EntriesOf
  <2>5. v = z
    BY <1>1, <1>6, <2>1, <2>3, <2>4 DEF Distinct
  <2> QED BY <1>6, <2>1, <2>4, <2>5
<1>7. ASSUME NEW x \in T.box, NEW y \in T.box, x.id = y.id
      PROVE  x.rec = y.rec
  <2> SUFFICES ASSUME x.rec # y.rec
               PROVE  FALSE
    OBVIOUS
  <2>1. /\ ~\E z \in EntriesOf(S, y.rec) : z.id = y.id
        /\ ~\E z \in EntriesOf(S, x.rec) : z.id = x.id
    BY <1>6, <1>7
  <2>2. EntriesOf(T, x.rec) = EntriesOf(S, x.rec)
    BY <1>2, <1>3, <2>1 DEF StoreStep
  <2> QED BY <1>3, <2>1, <2>2
<1>8. Distinct(T)
  BY <1>5, <1>7 DEF Distinct
<1> QED BY <1>1, <1>4, <1>8 DEF StoreSound

LEMMA StoreStepBatch ==
    ASSUME NEW c \in Client, NEW n \in Nat, NEW m \in Nat, n <= m,
           NEW S \in Store, NEW T, StoreStep(S, T, c, n, m),
           NEW batch, BatchSound(S, c, n, batch)
    PROVE  BatchSound(T, c, m, batch)
<1>1. T \in Store
  BY DEF StoreStep
<1>2. ASSUME NEW k \in DOMAIN batch
      PROVE  /\ IdOf(c, m, batch[k].id)
             /\ \A x \in T.box : x.id = batch[k].id => x.rec = batch[k].pay.rec
  <2>1. batch[k].id[2] \in Nat /\ batch[k].pay.rec \in Rec
    <3>1. batch[k] \in ClientChange
      BY DEF BatchSound, GoodBatch
    <3>2. batch[k].id \in ChangeId /\ batch[k].pay.rec \in Rec
      BY <3>1, ChangeFields
    <3> QED BY <3>2, OfflineAssumption
  <2>2. /\ batch[k].id[1] = c
        /\ batch[k].id[2] <= n
        /\ \A x \in S.box : x.id = batch[k].id => x.rec = batch[k].pay.rec
    BY DEF BatchSound, IdOf
  <2>3. IdOf(c, m, batch[k].id)
    BY <2>1, <2>2 DEF IdOf
  <2>4. ASSUME NEW x \in T.box, x.id = batch[k].id
        PROVE  x.rec = batch[k].pay.rec
    <3>1. x.rec \in Rec /\ x \in EntriesOf(T, x.rec)
      BY <1>1, StoreFields, EntryFields DEF EntriesOf
    <3>2. ~FreshId(c, n, m, x.id)
      BY <2>1, <2>2, <2>4 DEF FreshId
    <3>3. PICK z \in EntriesOf(S, x.rec) : z.id = x.id
      BY <3>1, <3>2 DEF StoreStep, RecordStep
    <3> QED BY <2>2, <2>4, <3>3 DEF EntriesOf
  <2> QED BY <2>3, <2>4
<1> QED BY <1>2 DEF BatchSound

\* What a database keeps for one record.
ViewSound(r, loc, E) ==
    /\ loc \in LocalRow
    /\ E \subseteq OutboxEntry
    /\ \A x, y \in E : x = y
    /\ \A x \in E : x.rec = r /\ Shows(loc, x)

LEMMA StoreView ==
    ASSUME NEW c, NEW n, NEW S, StoreSound(S, c, n), NEW r \in Rec
    PROVE  ViewSound(r, S.local[r], EntriesOf(S, r))
<1>1. S \in Store
  BY DEF StoreSound
<1> QED BY <1>1, StoreFields DEF StoreSound, ViewSound, EntriesOf, Distinct

LEMMA SameRecordStep ==
    ASSUME NEW r, NEW loc, NEW E, ViewSound(r, loc, E), NEW c, NEW n, NEW m
    PROVE  RecordStep(c, n, m, E, loc, E)
BY DEF ViewSound, RecordStep

LEMMA OneRecordStep ==
    ASSUME NEW c, NEW n, NEW m, NEW S, StoreSound(S, c, n), NEW r \in Rec,
           NEW T, NEW row, NEW F, Becomes(S, T, r, row, F),
           RecordStep(c, n, m, EntriesOf(S, r), row, F)
    PROVE  StoreStep(S, T, c, n, m)
<1>1. /\ T \in Store
      /\ T.local[r] = row
      /\ EntriesOf(T, r) = F
      /\ \A s \in Rec \ {r} : /\ T.local[s] = S.local[s]
                              /\ EntriesOf(T, s) = EntriesOf(S, s)
  BY DEF Becomes, Elsewhere
<1>2. ASSUME NEW s \in Rec
      PROVE  RecordStep(c, n, m, EntriesOf(S, s), T.local[s], EntriesOf(T, s))
  <2>1. CASE s = r
    BY <1>1, <2>1
  <2>2. CASE s # r
    BY <1>1, <2>2, StoreView, SameRecordStep
  <2> QED BY <2>1, <2>2
<1>3. ASSUME NEW s \in Rec, NEW y \in EntriesOf(T, s)
      PROVE  \/ \E x \in EntriesOf(S, s) : x.id = y.id
             \/ \A q \in Rec \ {s} : EntriesOf(T, q) = EntriesOf(S, q)
  BY <1>1
<1> QED BY <1>1, <1>2, <1>3 DEF StoreStep

LEMMA AllRecordsStep ==
    ASSUME NEW c, NEW n \in Nat, NEW S, NEW T \in Store,
           \A r \in Rec : RecordStep(c, n, n, EntriesOf(S, r), T.local[r],
                                     EntriesOf(T, r))
    PROVE  StoreStep(S, T, c, n, n)
<1>1. ASSUME NEW r \in Rec, NEW y \in EntriesOf(T, r)
      PROVE  \E x \in EntriesOf(S, r) : x.id = y.id
  <2>1. y.id[2] \in Nat
    BY StoreFields, EntryFields DEF EntriesOf
  <2>2. ~FreshId(c, n, n, y.id)
    BY <2>1 DEF FreshId
  <2> QED BY <2>2 DEF RecordStep
<1> QED BY <1>1 DEF StoreStep

LEMMA FreshStep ==
    ASSUME NEW c, NEW n, NEW m, NEW id \in ChangeId, FreshId(c, n, m, id),
           NEW r \in Rec, NEW op \in Ops, NEW base \in Nat, NEW val \in Val,
           NEW E, NEW row,
           op = "upsert" => ~row.del /\ row.val = val /\ val # {},
           op = "delete" => row.del /\ val = {}
    PROVE  RecordStep(c, n, m, E, row, {Fresh(id, r, op, base, val)})
<1> DEFINE y == Fresh(id, r, op, base, val)
<1>1. y.id = id /\ y.op = op /\ y.val = val
  BY FreshFields
<1> HIDE DEF y
<1>2. RecordStep(c, n, m, E, row, {y})
  BY <1>1 DEF RecordStep, Shows
<1> QED BY <1>2 DEF y

LEMMA RefreshStep ==
    ASSUME NEW c, NEW n, NEW m, NEW op \in Ops, NEW val \in Val,
           NEW E \in SUBSET OutboxEntry, NEW x \in E, NEW row,
           op = "upsert" => ~row.del /\ row.val = val /\ val # {},
           op = "delete" => row.del /\ val = {}
    PROVE  RecordStep(c, n, m, E, row, {Refreshed(x, op, val)})
<1> DEFINE y == Refreshed(x, op, val)
<1>1. y.id = x.id /\ y.op = op /\ y.val = val
  BY RefreshedFields
<1> HIDE DEF y
<1>2. RecordStep(c, n, m, E, row, {y})
  BY <1>1 DEF RecordStep, Shows
<1> QED BY <1>2 DEF y

LEMMA QueuesStep ==
    ASSUME NEW c, NEW n, NEW m, NEW id \in ChangeId, FreshId(c, n, m, id),
           NEW r \in Rec, NEW op \in Ops, NEW base \in Nat, NEW val \in Val,
           NEW E \in SUBSET OutboxEntry, NEW row, NEW F,
           op = "upsert" => ~row.del /\ row.val = val /\ val # {},
           op = "delete" => row.del /\ val = {},
           Queues(E, F, id, r, op, base, val)
    PROVE  RecordStep(c, n, m, E, row, F)
<1>1. CASE E = {} /\ F = {Fresh(id, r, op, base, val)}
  BY <1>1, FreshStep
<1>2. ASSUME NEW x \in E, F = {Fresh(id, r, op, KeptBase(x), val)}
      PROVE  RecordStep(c, n, m, E, row, F)
  <2>1. KeptBase(x) \in Nat
    BY EntryFields DEF KeptBase
  <2> QED BY <1>2, <2>1, FreshStep
<1>3. ASSUME NEW x \in E, F = {Refreshed(x, op, val)}
      PROVE  RecordStep(c, n, m, E, row, F)
  BY <1>3, RefreshStep
<1> QED BY <1>1, <1>2, <1>3 DEF Queues

LEMMA SavesStep ==
    ASSUME NEW c, NEW n, NEW m, NEW id \in ChangeId, FreshId(c, n, m, id),
           NEW r \in Rec, NEW base \in Nat, NEW val \in Val, val # {},
           NEW E \in SUBSET OutboxEntry, NEW ver, NEW F,
           Saves(E, F, id, r, base, val)
    PROVE  RecordStep(c, n, m, E, LocalAt(ver, val), F)
<1> DEFINE row == LocalAt(ver, val)
<1>1. row.val = val
  BY DEF LocalAt
<1>2. ~row.del
  BY Zenon DEF LocalAt
<1>3. "upsert" \in Ops /\ "upsert" # "delete"
  BY DEF Ops
<1> HIDE DEF row
<1>4. ASSUME NEW b \in Nat, F = {Fresh(id, r, "upsert", b, val)}
      PROVE  RecordStep(c, n, m, E, row, F)
  BY <1>1, <1>2, <1>3, <1>4, FreshStep
<1>5. ASSUME NEW x \in E, F = {Refreshed(x, "upsert", val)}
      PROVE  RecordStep(c, n, m, E, row, F)
  BY <1>1, <1>2, <1>3, <1>5, RefreshStep
<1> QED BY <1>4, <1>5 DEF Saves, row

LEMMA DeletesStep ==
    ASSUME NEW c, NEW n, NEW m, NEW id \in ChangeId, FreshId(c, n, m, id),
           NEW r \in Rec, NEW E \in SUBSET OutboxEntry, NEW loc \in LocalRow,
           NEW F, Deletes(E, F, id, r, loc)
    PROVE  RecordStep(c, n, m, E, LocalGone(loc), F)
<1> DEFINE row == LocalGone(loc)
<1>1. row.del
  BY LocalGoneFields
<1>2. /\ "delete" \in Ops
      /\ "delete" # "upsert"
      /\ {} \in Val
      /\ 1 \in Nat
      /\ loc.ver \in Nat
  BY EmptyVal DEF Ops, LocalRow
<1> HIDE DEF row
<1>3. ASSUME Queues(E, F, id, r, "delete", loc.ver, {})
      PROVE  RecordStep(c, n, m, E, row, F)
  BY <1>1, <1>2, <1>3, QueuesStep
<1>4. ASSUME F = {Fresh(id, r, "delete", 1, {})}
      PROVE  RecordStep(c, n, m, E, row, F)
  BY <1>1, <1>2, <1>4, FreshStep
<1>5. ASSUME F = {}
      PROVE  RecordStep(c, n, m, E, row, F)
  BY <1>5 DEF RecordStep
<1> QED BY <1>3, <1>4, <1>5 DEF Deletes, row

LEMMA NoEntriesStep ==
    ASSUME NEW c, NEW n, NEW m, NEW E, NEW row
    PROVE  RecordStep(c, n, m, E, row, {})
BY DEF RecordStep

\* The entry of a record is replaced by one for the same work, and the row
\* keeps its content.
LEMMA SameWorkStep ==
    ASSUME NEW r, NEW loc, NEW E, ViewSound(r, loc, E), NEW row,
           row.val = loc.val, row.del <=> loc.del, NEW c, NEW n, NEW m,
           NEW x \in E, NEW y, SameWork(x, y)
    PROVE  RecordStep(c, n, m, E, row, {y})
BY DEF ViewSound, RecordStep, Shows, SameWork

LEMMA TouchesStep ==
    ASSUME NEW r, NEW loc, NEW E, ViewSound(r, loc, E), NEW F, NEW ids,
           Touches(E, F, ids), NEW c, NEW n, NEW m
    PROVE  RecordStep(c, n, m, E, loc, F)
<1>1. CASE F = {}
  BY <1>1, NoEntriesStep
<1>2. ASSUME NEW x, NEW y, E = {x}, F = {y}, Touched(x, y)
      PROVE  RecordStep(c, n, m, E, loc, F)
  <2>1. x \in E /\ SameWork(x, y)
    BY <1>2 DEF Touched
  <2> QED BY <1>2, <2>1, SameWorkStep
<1> QED BY <1>1, <1>2 DEF Touches

LEMMA HoldsStep ==
    ASSUME NEW r, NEW loc, NEW E, ViewSound(r, loc, E), NEW F, NEW id,
           NEW k \in Kind, NEW row \in LocalRow, Holds(E, F, id, k, row),
           NEW c, NEW n, NEW m
    PROVE  RecordStep(c, n, m, E, loc, F)
<1>1. CASE F = {}
  BY <1>1, NoEntriesStep
<1>2. ASSUME NEW x, E = {x}, F = {IF x.id = id THEN Held(x, k, row) ELSE x}
      PROVE  RecordStep(c, n, m, E, loc, F)
  <2>1. x \in E /\ x \in OutboxEntry
    BY <1>2 DEF ViewSound
  <2>2. SameWork(x, Held(x, k, row)) /\ SameWork(x, x)
    BY <2>1, HeldFields DEF SameWork
  <2> QED BY <1>2, <2>1, <2>2, SameWorkStep
<1> QED BY <1>1, <1>2 DEF Holds

LEMMA SettlesStep ==
    ASSUME NEW r, NEW loc, NEW E, ViewSound(r, loc, E), NEW F,
           NEW res \in ProperResult, Settles(E, F, res), NEW c, NEW n, NEW m
    PROVE  RecordStep(c, n, m, E, loc, F)
<1>1. CASE F = {e \in E : e.id # res.id}
  BY <1>1 DEF RecordStep, ViewSound
<1>2. CASE Holds(E, F, res.id, "conflict", AsLocal(res.row))
  <2>1. "conflict" \in Kind /\ AsLocal(res.row) \in LocalRow
    BY AsLocalType DEF Kind, ProperResult
  <2> QED BY <1>2, <2>1, HoldsStep
<1>3. CASE Touches(E, F, {res.id})
  BY <1>3, TouchesStep
<1> QED BY <1>1, <1>2, <1>3 DEF Settles

LEMMA AcksStep ==
    ASSUME NEW r, NEW loc, NEW E, ViewSound(r, loc, E), NEW row, NEW F,
           NEW res \in ProperResult, Acks(loc, E, row, F, res),
           NEW c, NEW n, NEW m
    PROVE  RecordStep(c, n, m, E, row, F)
<1> DEFINE v == AckVersion(res)
<1>1. v \in Nat
  BY DEF ProperResult, AckVersion
<1> HIDE DEF v
<1>2. CASE F = {}
  BY <1>2, NoEntriesStep
<1>3. CASE row = loc /\ F = E
  BY <1>3, SameRecordStep
<1>4. ASSUME NEW x, E = {x}, row = Raised(loc, v),
             F = {Rebased(x, Larger(x.base, v))}
      PROVE  RecordStep(c, n, m, E, row, F)
  <2>1. x \in E /\ x \in OutboxEntry /\ x.base \in Nat /\ loc \in LocalRow
    BY <1>4, EntryFields DEF ViewSound
  <2>2. Larger(x.base, v) \in Nat
    BY <1>1, <2>1, LargerNat
  <2>3. SameWork(x, Rebased(x, Larger(x.base, v)))
    BY <2>1, <2>2, RebasedFields
  <2>4. row.val = loc.val /\ (row.del <=> loc.del)
    BY <1>1, <1>4, <2>1, RaisedFields
  <2> QED BY <1>4, <2>1, <2>3, <2>4, SameWorkStep
<1> QED BY <1>2, <1>3, <1>4 DEF Acks, MovesOn, v

LEMMA PullsStep ==
    ASSUME NEW r, NEW loc, NEW E, ViewSound(r, loc, E), NEW row, NEW F,
           NEW got \in ProperRow, Pulls(got, loc, E, row, F),
           NEW c, NEW n, NEW m
    PROVE  RecordStep(c, n, m, E, row, F)
<1>1. CASE row = loc /\ F = E
  BY <1>1, SameRecordStep
<1>2. CASE row = RowTo(loc, E, got) /\ F = {Faced(e, got) : e \in E}
  <2>1. CASE E = {}
    <3>1. F = {}
      BY <1>2, <2>1
    <3> QED BY <3>1, NoEntriesStep
  <2>2. ASSUME NEW x \in E
        PROVE  RecordStep(c, n, m, E, row, F)
    <3>1. E = {x} /\ x \in OutboxEntry
      BY DEF ViewSound
    <3>2. row = loc /\ F = {Faced(x, got)}
      BY <1>2, <3>1 DEF RowTo
    <3>3. SameWork(x, Faced(x, got))
      BY <3>1, BesideFields, AsLocalType DEF Faced, SameWork
    <3> QED BY <3>2, <3>3, SameWorkStep
  <2> QED BY <2>1, <2>2
<1> QED BY <1>1, <1>2 DEF Pulls

LEMMA SameStoreStep ==
    ASSUME NEW c, NEW n, NEW m, NEW S, StoreSound(S, c, n)
    PROVE  StoreStep(S, S, c, n, m)
<1>1. \A r \in Rec : RecordStep(c, n, m, EntriesOf(S, r), S.local[r],
                                EntriesOf(S, r))
  BY StoreView, SameRecordStep
<1> QED BY <1>1 DEF StoreStep, StoreSound

LEMMA PassKept ==
    ASSUME NEW c \in Client, NEW n \in Nat, NEW m \in Nat, n <= m,
           NEW S, StoreSound(S, c, n), NEW T, StoreStep(S, T, c, n, m),
           NEW w, NEW v, ServerSound(w), ServerSound(v), Advances(w, v),
           NEW p, PassSound(w, S, c, n, p)
    PROVE  PassSound(v, T, c, m, p)
<1>1. BatchSound(T, c, m, p.batch)
  BY StoreStepBatch DEF PassSound, StoreSound
<1>2. \A k \in DOMAIN p.results : ResultSound(v, c, p.batch[k], p.results[k])
  <2> SUFFICES ASSUME NEW k \in DOMAIN p.results
               PROVE  ResultSound(v, c, p.batch[k], p.results[k])
    OBVIOUS
  <2>1. p.results # <<>>
    BY DEF PassSound
  <2>2. k \in DOMAIN p.batch
    BY <2>1 DEF PassSound, BatchSound, GoodBatch
  <2>3. p.batch[k] \in ClientChange
    BY <2>2 DEF PassSound, BatchSound, GoodBatch
  <2>4. w \in ProperWork /\ v \in ProperWork
    BY DEF ServerSound
  <2> QED BY <2>3, <2>4, ResultKept DEF PassSound
<1> QED BY <1>1, <1>2 DEF PassSound

LEMMA ProperTypes ==
    /\ ProperWork \subseteq Work
    /\ ProperResult \subseteq Result
<1>1. ProperRow \subseteq Row
  BY DEF ProperRow
<1>2. ProperReceipt \subseteq Receipt
  BY <1>1 DEF ProperReceipt, Receipt
<1>3. ProperResult \subseteq Result
  BY <1>1 DEF ProperResult, Result
<1>4. ASSUME NEW w \in ProperWork
      PROVE  w \in Work
  <2>1. /\ w.row \in [Rec -> Row]
        /\ w.rcpt \in [ChangeId -> Receipt \cup {NoReceipt}]
    BY <1>1, <1>2 DEF ProperWork
  <2> QED BY <2>1 DEF ProperWork, Work
<1> QED BY <1>3, <1>4

LEMMA UserIsClient == User = Client
BY OfflineAssumption

\* A step of one device, with the server's tables and the requests on the
\* way.
LEMMA DeviceStep ==
    ASSUME WellFormed, NEW c \in Client, NEW T, NEW m \in 0..MaxId,
           used[c] <= m,
           cl' = [cl EXCEPT ![c] = T],
           used' = [used EXCEPT ![c] = m],
           StoreStep(cl[c], T, c, used[c], m),
           NEW p, pass' = [pass EXCEPT ![c] = p],
           PassSound(srv', T, c, m, p),
           ServerSound(srv'), Advances(srv, srv'),
           \A q \in late' : \/ q \in late
                            \/ q = [user |-> c, batch |-> pass[c].batch],
           editor' \in [Client -> Editor],
           free' \subseteq Edit,
           faults' \in 0..MaxFaults,
           scope' = scope,
           delayed' \in 0..scope.late,
           gone' \subseteq Edit,
           unseen' \subseteq Edit,
           dead' \subseteq Client \X Rec \X BOOLEAN
    PROVE  WellFormed'
<1>1. /\ cl \in [Client -> Store]
      /\ pass \in [Client -> Pass]
      /\ used \in [Client -> 0..MaxId]
      /\ \A d \in Client : used[d] \in Nat
      /\ m \in Nat
  BY OfflineAssumption DEF WellFormed, TypeOK
<1>2. /\ cl'[c] = T
      /\ used'[c] = m
      /\ pass'[c] = p
      /\ \A d \in Client \ {c} : /\ cl'[d] = cl[d]
                                 /\ used'[d] = used[d]
                                 /\ pass'[d] = pass[d]
  BY <1>1
<1>3. \A d \in Client : StoreStep(cl[d], cl'[d], d, used[d], used'[d])
  <2> SUFFICES ASSUME NEW d \in Client
               PROVE  StoreStep(cl[d], cl'[d], d, used[d], used'[d])
    OBVIOUS
  <2>1. CASE d = c
    BY <1>2, <2>1
  <2>2. CASE d # c
    <3>1. StoreSound(cl[d], d, used[d])
      BY DEF WellFormed
    <3> QED BY <1>2, <2>2, <3>1, SameStoreStep
  <2> QED BY <2>1, <2>2
<1>4. \A d \in Client : used[d] <= used'[d] /\ used'[d] \in Nat
  <2> SUFFICES ASSUME NEW d \in Client
               PROVE  used[d] <= used'[d] /\ used'[d] \in Nat
    OBVIOUS
  <2>1. CASE d = c
    BY <1>1, <1>2, <2>1
  <2>2. CASE d # c
    BY <1>1, <1>2, <2>2
  <2> QED BY <2>1, <2>2
<1>5. ASSUME NEW d \in Client
      PROVE  StoreSound(cl'[d], d, used'[d])
  <2>1. StoreSound(cl[d], d, used[d])
    BY DEF WellFormed
  <2> QED BY <1>1, <1>3, <1>4, <2>1, StoreStepSound
<1>6. ASSUME NEW d \in Client
      PROVE  PassSound(srv', cl'[d], d, used'[d], pass'[d])
  <2>1. CASE d = c
    BY <1>2, <2>1
  <2>2. CASE d # c
    <3>1. /\ StoreSound(cl[d], d, used[d])
          /\ PassSound(srv, cl[d], d, used[d], pass[d])
          /\ ServerSound(srv)
      BY DEF WellFormed
    <3>2. PassSound(srv', cl'[d], d, used'[d], pass[d])
      BY <1>1, <1>3, <1>4, <3>1, PassKept
    <3> QED BY <1>2, <2>2, <3>2
  <2> QED BY <2>1, <2>2
<1>7. ASSUME NEW q \in late'
      PROVE  /\ q \in [user: User, batch: Seq(Change)]
             /\ BatchSound(cl'[q.user], q.user, used'[q.user], q.batch)
  <2>1. q.user \in Client /\ q \in [user: User, batch: Seq(Change)]
    <3>1. CASE q \in late
      BY <3>1, UserIsClient DEF WellFormed, TypeOK
    <3>2. CASE q = [user |-> c, batch |-> pass[c].batch]
      <4>1. pass[c].batch \in Seq(Change)
        BY <1>1 DEF Pass
      <4> QED BY <3>2, <4>1, UserIsClient
    <3> QED BY <3>1, <3>2
  <2>2. BatchSound(cl[q.user], q.user, used[q.user], q.batch)
    <3>1. CASE q \in late
      BY <3>1 DEF WellFormed
    <3>2. CASE q = [user |-> c, batch |-> pass[c].batch]
      <4>1. BatchSound(cl[c], c, used[c], pass[c].batch)
        BY DEF WellFormed, PassSound
      <4> QED BY <3>2, <4>1
    <3> QED BY <3>1, <3>2
  <2>3. cl[q.user] \in Store
    BY <1>1, <2>1
  <2> QED BY <1>1, <1>3, <1>4, <2>1, <2>2, <2>3, StoreStepBatch
<1>8. TypeOK'
  <2>1. srv' \in Work
    BY ProperTypes DEF ServerSound
  <2>2. T \in Store /\ p \in Pass
    BY DEF StoreStep, PassSound
  <2>3. /\ cl' \in [Client -> Store]
        /\ pass' \in [Client -> Pass]
        /\ used' \in [Client -> 0..MaxId]
    BY <1>1, <2>2
  <2>4. late' \subseteq [user: User, batch: Seq(Change)]
    BY <1>7
  <2>5. scope' \in Scope /\ delayed' \in 0..scope'.late
    BY DEF WellFormed, TypeOK
  <2> QED BY <2>1, <2>3, <2>4, <2>5 DEF TypeOK
<1>9. \A d \in Client : /\ StoreSound(cl'[d], d, used'[d])
                        /\ PassSound(srv', cl'[d], d, used'[d], pass'[d])
  BY <1>5, <1>6
<1>10. \A q \in late' :
          BatchSound(cl'[q.user], q.user, used'[q.user], q.batch)
  BY <1>7
<1> QED BY <1>8, <1>9, <1>10 DEF WellFormed

-----------------------------------------------------------------------------
(* Selecting a batch                                                       *)

LEMMA BoxFinite ==
    ASSUME NEW c, NEW n \in Nat, NEW S, StoreSound(S, c, n)
    PROVE  IsFiniteSet(S.box)
<1> DEFINE f == [x \in S.box |-> x.id[2]]
<1>1. ASSUME NEW x \in S.box
      PROVE  /\ x.id \in Client \X (1..MaxId)
             /\ x.id[2] \in 0..n
             /\ x.id = <<c, x.id[2]>>
  <2>1. x \in OutboxEntry /\ IdOf(c, n, x.id)
    BY StoreFields DEF StoreSound
  <2>2. x.id \in Client \X (1..MaxId) /\ x.id[2] \in Nat
    BY <2>1, EntryFields
  <2> QED BY <2>1, <2>2 DEF IdOf
<1>2. f \in [S.box -> 0..n]
  BY <1>1
<1>3. ASSUME NEW x \in S.box, NEW y \in S.box, f[x] = f[y]
      PROVE  x = y
  <2>1. x.id = y.id
    BY <1>1, <1>3
  <2> QED BY <2>1 DEF StoreSound, Distinct
<1>4. f \in Injection(S.box, 0..n)
  <2> HIDE DEF f
  <2> QED BY <1>2, <1>3 DEF Injection, IsInjective
<1>5. IsFiniteSet(0..n)
  BY FS_Interval
<1> HIDE DEF f
<1> QED BY <1>4, <1>5, FS_Injection

LEMMA AsChangeFields ==
    ASSUME NEW x \in OutboxEntry
    PROVE  /\ AsChange(x) \in ClientChange
           /\ AsChange(x).id = x.id
           /\ AsChange(x).pay.rec = x.rec
           /\ AsChange(x).pay.op = x.op
           /\ AsChange(x).pay.base = x.base
           /\ AsChange(x).pay.val = x.val
<1> DEFINE pay == [rec |-> x.rec, op |-> x.op, base |-> x.base,
                   val |-> x.val, flag |-> "absent", valid |-> TRUE]
<1>1. /\ x.id \in ChangeId
      /\ x.rec \in Rec
      /\ x.op \in Ops
      /\ x.base \in Nat
      /\ x.val \in Val
  BY EntryFields
<1>2. "absent" \in Flag
  BY DEF Flag
<1>3. pay \in Payload
  BY <1>1, <1>2 DEF Payload
<1>4. /\ pay.rec = x.rec
      /\ pay.op = x.op
      /\ pay.base = x.base
      /\ pay.val = x.val
      /\ pay.flag = "absent"
  OBVIOUS
<1>5. pay.valid
  BY Zenon
<1>6. AsChange(x) = [id |-> x.id, pay |-> pay]
  BY DEF AsChange
<1> HIDE DEF pay
<1>7. AsChange(x).id = x.id /\ AsChange(x).pay = pay /\ AsChange(x) \in Change
  BY <1>1, <1>3, <1>6 DEF Change
<1>8. AsChange(x) \in ClientChange
  BY <1>1, <1>4, <1>5, <1>7 DEF ClientChange
<1> QED BY <1>4, <1>7, <1>8

\* The batch of a pass: entries of the outbox that are not blocked.
Selected(todo) == [k \in DOMAIN todo |-> AsChange(todo[k])]

LEMMA PendingFacts ==
    ASSUME NEW c, NEW n \in Nat, NEW S, StoreSound(S, c, n), NEW due,
           NEW limit \in Nat, NEW todo \in PendingChanges(S, due, limit)
    PROVE  /\ todo \in Seq(S.box)
           /\ \A j, k \in DOMAIN todo : j # k => todo[j] # todo[k]
           /\ \A k \in DOMAIN todo : todo[k].status \in {"pending", "retry"}
<1> DEFINE ready == Ready(S, due)
           N == IF limit <= Cardinality(ready) THEN limit
                ELSE Cardinality(ready)
<1>1. ready \subseteq S.box
      /\ \A e \in ready : e.status \in {"pending", "retry"}
  BY DEF Ready
<1>2. IsFiniteSet(ready)
  BY <1>1, BoxFinite, FS_Subset
<1>3. N \in Nat
  BY <1>2, FS_CardinalityType
<1>4. /\ todo \in [1..N -> ready]
      /\ \A j, k \in 1..N : j < k => todo[j].id[2] < todo[k].id[2]
  BY DEF PendingChanges
<1> HIDE DEF N, ready
<1>5. todo \in Seq(S.box) /\ DOMAIN todo = 1..N
  BY <1>1, <1>3, <1>4
<1>6. ASSUME NEW j \in 1..N, NEW k \in 1..N, j # k
      PROVE  todo[j] # todo[k]
  <2>1. todo[j].id[2] \in Nat /\ todo[k].id[2] \in Nat
    BY <1>1, <1>4, StoreFields, EntryFields DEF StoreSound
  <2>2. todo[j].id[2] # todo[k].id[2]
    BY <1>3, <1>4, <1>6, <2>1
  <2> QED BY <2>2
<1> QED BY <1>1, <1>4, <1>5, <1>6

LEMMA SelectedSound ==
    ASSUME NEW c, NEW n \in Nat, NEW S, StoreSound(S, c, n), NEW due,
           NEW limit \in Nat, NEW todo \in PendingChanges(S, due, limit)
    PROVE  /\ BatchSound(S, c, n, Selected(todo))
           /\ todo \in Seq(S.box)
           /\ DOMAIN Selected(todo) = DOMAIN todo
           /\ \A k \in DOMAIN todo :
                 /\ Selected(todo)[k] = AsChange(todo[k])
                 /\ todo[k] \in S.box
                 /\ todo[k] \in OutboxEntry
                 /\ todo[k].status \in {"pending", "retry"}
<1> DEFINE batch == Selected(todo)
<1>1. /\ todo \in Seq(S.box)
      /\ \A j, k \in DOMAIN todo : j # k => todo[j] # todo[k]
      /\ \A k \in DOMAIN todo : todo[k].status \in {"pending", "retry"}
  BY PendingFacts
<1>2. /\ DOMAIN batch = DOMAIN todo
      /\ \A k \in DOMAIN todo : batch[k] = AsChange(todo[k])
  BY DEF Selected
<1>3. \A k \in DOMAIN todo : todo[k] \in S.box /\ todo[k] \in OutboxEntry
  BY <1>1, StoreFields DEF StoreSound
<1>4. \A k \in DOMAIN todo : /\ batch[k] \in ClientChange
                             /\ batch[k].id = todo[k].id
                             /\ batch[k].pay.rec = todo[k].rec
  BY <1>2, <1>3, AsChangeFields
<1>5. batch \in Seq(ClientChange) /\ DOMAIN batch = 1..Len(batch)
  <2>1. PICK N \in Nat : DOMAIN todo = 1..N
    BY <1>1
  <2>2. batch \in [1..N -> ClientChange]
    <3>1. batch = [k \in 1..N |-> AsChange(todo[k])]
      BY <2>1 DEF Selected
    <3>2. \A k \in 1..N : AsChange(todo[k]) \in ClientChange
      BY <1>3, <2>1, AsChangeFields
    <3> QED BY <3>1, <3>2
  <2> HIDE DEF batch
  <2> QED BY <2>2
<1> HIDE DEF batch
<1>6. ASSUME NEW j \in 1..Len(batch), NEW k \in 1..Len(batch), j # k
      PROVE  batch[j].id # batch[k].id /\ batch[j].pay.rec # batch[k].pay.rec
  <2>1. j \in DOMAIN todo /\ k \in DOMAIN todo
    BY <1>2, <1>5
  <2>2. todo[j] # todo[k]
    BY <1>1, <1>6, <2>1
  <2> QED BY <1>3, <1>4, <2>1, <2>2 DEF StoreSound, Distinct
<1>7. GoodBatch(batch)
  BY <1>5, <1>6 DEF GoodBatch
<1>8. ASSUME NEW k \in DOMAIN batch
      PROVE  /\ IdOf(c, n, batch[k].id)
             /\ \A x \in S.box : x.id = batch[k].id => x.rec = batch[k].pay.rec
  BY <1>2, <1>3, <1>4 DEF StoreSound, Distinct
<1>9. BatchSound(S, c, n, batch)
  BY <1>7, <1>8 DEF BatchSound
<1> QED BY <1>1, <1>2, <1>3, <1>9 DEF batch

-----------------------------------------------------------------------------
(* Every step keeps the first invariant                                    *)

LEMMA ScopeFields ==
    ASSUME TypeOK
    PROVE  /\ scope.devices \subseteq Client
           /\ scope.records \subseteq Rec
           /\ scope.ids \in 1..MaxId
           /\ scope.late \in Nat
           /\ scope.batch \in Nat
           /\ MaxId \in Nat
           /\ MaxFaults \in Nat
           /\ \A c \in Client : used[c] \in 0..MaxId /\ used[c] \in Nat
BY OfflineAssumption DEF TypeOK

\* A window's step hands out identifiers and leaves the pass alone.
LEMMA WindowSound ==
    ASSUME WellFormed, NEW c \in Client, NEW T, NEW ed \in Editor,
           NEW ids \in Nat, Window(c, T, ed, ids),
           StoreStep(cl[c], T, c, used[c], used[c] + ids),
           free' \subseteq Edit, gone' \subseteq Edit, unseen' \subseteq Edit,
           dead' \subseteq Client \X Rec \X BOOLEAN
    PROVE  WellFormed'
<1>1. TypeOK /\ ServerSound(srv)
  BY DEF WellFormed
<1>2. /\ scope.ids \in 1..MaxId
      /\ MaxId \in Nat
      /\ used[c] \in Nat
  BY <1>1, ScopeFields
<1>3. /\ used[c] + ids \in 0..MaxId
      /\ used[c] <= used[c] + ids
      /\ used[c] + ids \in Nat
  BY <1>2 DEF Window
<1>4. /\ cl' = [cl EXCEPT ![c] = T]
      /\ editor' = [editor EXCEPT ![c] = ed]
      /\ srv' = srv
      /\ pass' = pass
      /\ late' = late
      /\ faults' = faults
      /\ delayed' = delayed
      /\ scope' = scope
  BY DEF Window
<1>5. used' = [used EXCEPT ![c] = used[c] + ids]
  BY DEF Window
<1>6. pass' = [pass EXCEPT ![c] = pass[c]]
  BY <1>1, <1>4 DEF TypeOK
<1>7. Advances(srv, srv)
  BY <1>1, AdvancesReflexive DEF ServerSound
<1>8. PassSound(srv, T, c, used[c] + ids, pass[c])
  <2>1. StoreSound(cl[c], c, used[c]) /\ PassSound(srv, cl[c], c, used[c], pass[c])
    BY DEF WellFormed
  <2> QED BY <1>1, <1>2, <1>3, <1>7, <2>1, PassKept
<1>9. editor' \in [Client -> Editor]
  BY <1>1, <1>4 DEF TypeOK
<1>10. faults' \in 0..MaxFaults /\ delayed' \in 0..scope.late
  BY <1>1, <1>4 DEF TypeOK
<1>11. PassSound(srv', T, c, used[c] + ids, pass[c])
  BY <1>4, <1>8
<1>12. ServerSound(srv') /\ Advances(srv, srv')
  BY <1>1, <1>4, <1>7
<1>13. \A q \in late' : \/ q \in late
                        \/ q = [user |-> c, batch |-> pass[c].batch]
  BY <1>4
<1> QED BY <1>3, <1>4, <1>5, <1>6, <1>9, <1>10, <1>11, <1>12, <1>13, DeviceStep

\* A step of the pass hands out no identifier.
LEMMA WorkerSound ==
    ASSUME WellFormed, NEW c \in Client, NEW T, NEW p, Worker(c, T, p),
           StoreStep(cl[c], T, c, used[c], used[c]),
           PassSound(srv', T, c, used[c], p),
           ServerSound(srv'), Advances(srv, srv'),
           \A q \in late' : \/ q \in late
                            \/ q = [user |-> c, batch |-> pass[c].batch],
           editor' \in [Client -> Editor],
           faults' \in 0..MaxFaults,
           delayed' \in 0..scope.late
    PROVE  WellFormed'
<1>1. TypeOK
  BY DEF WellFormed
<1>2. used[c] \in 0..MaxId /\ used[c] \in Nat /\ used[c] <= used[c]
  BY <1>1, ScopeFields
<1>3. /\ cl' = [cl EXCEPT ![c] = T]
      /\ pass' = [pass EXCEPT ![c] = p]
      /\ used' = used
      /\ free' = free
      /\ scope' = scope
      /\ gone' = gone
      /\ unseen' = unseen
      /\ dead' = dead
  BY DEF Worker, history
<1>4. used' = [used EXCEPT ![c] = used[c]]
  BY <1>1, <1>3 DEF TypeOK
<1>5. /\ free' \subseteq Edit
      /\ gone' \subseteq Edit
      /\ unseen' \subseteq Edit
      /\ dead' \subseteq Client \X Rec \X BOOLEAN
  BY <1>1, <1>3 DEF TypeOK
<1> QED BY <1>2, <1>3, <1>4, <1>5, DeviceStep

LEMMA EmptyBatch ==
    ASSUME NEW S, NEW c, NEW n
    PROVE  BatchSound(S, c, n, <<>>)
BY DEF BatchSound, GoodBatch

LEMMA NoPassSound ==
    ASSUME NEW w, NEW S, NEW c, NEW n
    PROVE  PassSound(w, S, c, n, NoPass)
<1>1. NoRow \in ProperRow /\ NoRow \in Row
  BY NoRowProper DEF ProperRow
<1>2. NoRows \in [Rec -> ProperRow] /\ NoRows \in [Rec -> Row]
  BY <1>1 DEF NoRows
<1>3. /\ NoPass \in Pass
      /\ NoPass.batch = <<>>
      /\ NoPass.results = <<>>
      /\ NoPass.todo = {}
      /\ NoPass.rows = NoRows
  BY <1>2 DEF NoPass, Pass
<1> QED BY <1>2, <1>3, EmptyBatch DEF PassSound

LEMMA InitWellFormed == Init => WellFormed
<1> SUFFICES ASSUME Init
             PROVE  WellFormed
  OBVIOUS
<1>1. InitWork \in ProperWork
  BY NoRowProper DEF InitWork, ProperWork
<1>2. ServerSound(srv)
  <2>1. \A r \in Rec : RowSound(srv, r)
    <3>1. srv.seq = 0 /\ \A r \in Rec : srv.row[r] = NoRow
      BY DEF Init, InitWork
    <3>2. NoRow.ver = 0 /\ NoRow.seq = 0
      BY DEF NoRow
    <3>3. ASSUME NEW r \in Rec
          PROVE  RowSound(srv, r)
      <4>1. srv.row[r] = NoRow /\ srv.row[r].ver = 0 /\ srv.row[r].seq = 0
        BY <3>1, <3>2
      <4> QED BY <3>1, <4>1 DEF RowSound
    <3> QED BY <3>3
  <2>2. \A i \in ChangeId : srv.rcpt[i] = NoReceipt
    BY DEF Init, InitWork
  <2> QED BY <1>1, <2>1, <2>2 DEF Init, ServerSound
<1>3. /\ InitStore \in Store
      /\ InitStore.box = {}
  BY NoLocalType, OfflineAssumption DEF InitStore, Store
<1>4. NoPass \in Pass
  BY NoPassSound DEF PassSound
<1>5. Closed \in Editor
  BY DEF Editor
<1>6. TypeOK
  <2>1. srv \in Work
    BY <1>2, ProperTypes DEF ServerSound
  <2>2. delayed \in 0..scope.late /\ scope \in Scope
    BY OfflineAssumption DEF Init
  <2> QED BY <1>3, <1>4, <1>5, <2>1, <2>2, OfflineAssumption DEF TypeOK, Init
<1>7. \A c \in Client : StoreSound(cl[c], c, used[c])
  BY <1>3 DEF Init, StoreSound, Distinct
<1>8. \A c \in Client : PassSound(srv, cl[c], c, used[c], pass[c])
  BY NoPassSound DEF Init
<1> QED BY <1>2, <1>6, <1>7, <1>8 DEF WellFormed, Init

LEMMA OpenForm ==
    ASSUME TypeOK, NEW c \in Client, editor[c] # Closed
    PROVE  /\ editor[c] \in [rec: Rec, base: Nat, val: Val]
           /\ editor[c].rec \in Rec
           /\ editor[c].base \in Nat
           /\ editor[c].val \in Val
BY DEF TypeOK, Editor

LEMMA EditorType ==
    ASSUME NEW r \in Rec, NEW base \in Nat, NEW val \in Val
    PROVE  [rec |-> r, base |-> base, val |-> val] \in Editor
BY DEF Editor

LEMMA EditVal ==
    ASSUME NEW val \in Val, NEW e \in Edit
    PROVE  /\ {e} \in Val
           /\ val \cup {e} \in Val
           /\ val \subseteq Edit
BY ClientAssumption

\* The identifier a window's step hands out.
LEMMA NewIdFresh ==
    ASSUME TypeOK, NEW c \in Client, NEW k \in Nat \ {0}, NEW ids \in Nat,
           k <= ids, used[c] + ids <= scope.ids
    PROVE  /\ <<c, used[c] + k>> \in ChangeId
           /\ FreshId(c, used[c], used[c] + ids, <<c, used[c] + k>>)
<1>1. used[c] \in Nat /\ scope.ids \in 1..MaxId /\ MaxId \in Nat
  BY ScopeFields
<1>2. used[c] + k \in 1..MaxId
  BY <1>1
<1> QED BY <1>1, <1>2, OfflineAssumption DEF FreshId

LEMMA CreateWellFormed ==
    ASSUME WellFormed, NEW c \in Client, NEW r \in Rec, NEW e \in Edit,
           Create(c, r, e)
    PROVE  WellFormed'
<1> DEFINE T == CreateLocal(cl[c], NewId(c), r, {e})
           ed == [rec |-> r, base |-> 0, val |-> {e}]
<1>1. /\ Window(c, T, ed, 1)
      /\ free' = free \ {e}
      /\ UNCHANGED history
  BY DEF Create
<1>2. TypeOK /\ StoreSound(cl[c], c, used[c])
  BY DEF WellFormed
<1>3. {e} \in Val /\ {e} # {}
  BY EmptyVal, EditVal
<1>4. /\ NewId(c) \in ChangeId
      /\ FreshId(c, used[c], used[c] + 1, NewId(c))
  BY <1>1, <1>2, NewIdFresh DEF NewId, Window
<1>5. PICK F : /\ Becomes(cl[c], T, r, LocalAt(0, {e}), F)
               /\ Queues(EntriesOf(cl[c], r), F, NewId(c), r, "upsert", 0, {e})
  BY <1>2, <1>3, <1>4, CreateView DEF StoreSound
<1>6. LocalAt(0, {e}).val = {e}
  BY DEF LocalAt
<1>7. ~LocalAt(0, {e}).del
  BY Zenon DEF LocalAt
<1>8. "upsert" \in Ops /\ "upsert" # "delete" /\ 0 \in Nat
  BY DEF Ops
<1>9. EntriesOf(cl[c], r) \in SUBSET OutboxEntry
  BY <1>2, StoreView DEF ViewSound
<1> DEFINE id == NewId(c)
           row == LocalAt(0, {e})
<1> HIDE DEF T, id, row
<1>10. RecordStep(c, used[c], used[c] + 1, EntriesOf(cl[c], r), row, F)
  BY <1>3, <1>4, <1>5, <1>6, <1>7, <1>8, <1>9, QueuesStep DEF id, row
<1>11. StoreStep(cl[c], T, c, used[c], used[c] + 1)
  BY <1>2, <1>5, <1>10, OneRecordStep DEF row
<1>12. ed \in Editor
  BY <1>3, EditorType
<1>13. /\ free' \subseteq Edit
       /\ gone' \subseteq Edit
       /\ unseen' \subseteq Edit
       /\ dead' \subseteq Client \X Rec \X BOOLEAN
  BY <1>1, <1>2 DEF TypeOK, history
<1> QED BY <1>1, <1>11, <1>12, <1>13, WindowSound

LEMMA OpenWellFormed ==
    ASSUME WellFormed, NEW c \in Client, NEW r \in Rec, Open(c, r)
    PROVE  WellFormed'
<1> DEFINE ed == [rec |-> r, base |-> cl[c].local[r].ver,
                  val |-> cl[c].local[r].val]
<1>1. TypeOK /\ StoreSound(cl[c], c, used[c])
  BY DEF WellFormed
<1>2. Window(c, cl[c], ed, 0)
  BY DEF Open
<1>3. cl[c] \in Store /\ srv \in ProperWork
  BY <1>1 DEF StoreSound, WellFormed, ServerSound
<1>4. /\ cl[c].local[r].ver \in Nat
      /\ cl[c].local[r].val \in Val
  BY <1>3, StoreFields
<1>5. ed \in Editor
  BY <1>4, EditorType
<1>6. used[c] + 0 = used[c]
  BY <1>1, ScopeFields
<1>7. StoreStep(cl[c], cl[c], c, used[c], used[c] + 0)
  BY <1>1, SameStoreStep
<1>8. Content(r) \subseteq Edit
  <2>1. srv.row[r] \in ProperRow /\ srv.row[r].ver \in Nat
    BY <1>3, WorkFields
  <2>2. srv.row[r].ver # 0 => srv.row[r].val \in Val
    BY <2>1 DEF ProperRow
  <2> QED BY <2>2, ClientAssumption DEF Content
<1>9. /\ free' \subseteq Edit
      /\ gone' \subseteq Edit
      /\ unseen' \subseteq Edit
      /\ dead' \subseteq Client \X Rec \X BOOLEAN
  <2>1. free' = free /\ gone' = gone /\ dead' = dead
    BY DEF Open
  <2>2. unseen' \subseteq unseen \cup Content(r)
    BY DEF Open
  <2> QED BY <1>1, <1>8, <2>1, <2>2 DEF TypeOK
<1> QED BY <1>2, <1>5, <1>7, <1>9, WindowSound

LEMMA CloseWellFormed ==
    ASSUME WellFormed, NEW c \in Client, Close(c)
    PROVE  WellFormed'
<1>1. TypeOK /\ StoreSound(cl[c], c, used[c])
  BY DEF WellFormed
<1>2. Window(c, cl[c], Closed, 0) /\ free' = free /\ UNCHANGED history
  BY DEF Close
<1>3. Closed \in Editor
  BY DEF Editor
<1>4. StoreStep(cl[c], cl[c], c, used[c], used[c] + 0)
  BY <1>1, SameStoreStep
<1>5. /\ free' \subseteq Edit
      /\ gone' \subseteq Edit
      /\ unseen' \subseteq Edit
      /\ dead' \subseteq Client \X Rec \X BOOLEAN
  BY <1>1, <1>2 DEF TypeOK, history
<1> QED BY <1>2, <1>3, <1>4, <1>5, WindowSound

LEMMA SaveStoreStep ==
    ASSUME NEW c, NEW n, NEW m, NEW S, StoreSound(S, c, n),
           NEW id \in ChangeId, FreshId(c, n, m, id), NEW r \in Rec,
           NEW base \in Nat, NEW val \in Val, val # {}
    PROVE  StoreStep(S, SaveLocal(S, id, r, base, val), c, n, m)
<1> DEFINE T == SaveLocal(S, id, r, base, val)
<1>1. PICK F : /\ Becomes(S, T, r, LocalAt(S.local[r].ver, val), F)
               /\ Saves(EntriesOf(S, r), F, id, r, base, val)
  BY SaveView DEF StoreSound
<1>2. EntriesOf(S, r) \in SUBSET OutboxEntry
  BY StoreView DEF ViewSound
<1> HIDE DEF T
<1>3. RecordStep(c, n, m, EntriesOf(S, r), LocalAt(S.local[r].ver, val), F)
  BY <1>1, <1>2, SavesStep
<1>4. StoreStep(S, T, c, n, m)
  BY <1>1, <1>3, OneRecordStep
<1> QED BY <1>4 DEF T

LEMMA DeleteStoreStep ==
    ASSUME NEW c, NEW n, NEW m, NEW S, StoreSound(S, c, n),
           NEW id \in ChangeId, FreshId(c, n, m, id), NEW r \in Rec
    PROVE  StoreStep(S, DeleteLocal(S, id, r), c, n, m)
<1> DEFINE T == DeleteLocal(S, id, r)
<1>1. PICK F : /\ Becomes(S, T, r, LocalGone(S.local[r]), F)
               /\ Deletes(EntriesOf(S, r), F, id, r, S.local[r])
  BY DeleteView DEF StoreSound
<1>2. EntriesOf(S, r) \in SUBSET OutboxEntry /\ S.local[r] \in LocalRow
  BY StoreView DEF ViewSound
<1> HIDE DEF T
<1>3. RecordStep(c, n, m, EntriesOf(S, r), LocalGone(S.local[r]), F)
  BY <1>1, <1>2, DeletesStep
<1>4. StoreStep(S, T, c, n, m)
  BY <1>1, <1>3, OneRecordStep
<1> QED BY <1>4 DEF T

LEMMA SaveWellFormed ==
    ASSUME WellFormed, NEW c \in Client, NEW e \in Edit, Save(c, e)
    PROVE  WellFormed'
<1> DEFINE old == editor[c]
           val == old.val \cup {e}
           ed == [old EXCEPT !.val = val]
           T == SaveLocal(cl[c], NewId(c), old.rec, old.base, val)
<1>1. TypeOK /\ StoreSound(cl[c], c, used[c])
  BY DEF WellFormed
<1>2. /\ old # Closed
      /\ Window(c, T, ed, 1)
      /\ free' = free \ {e}
      /\ UNCHANGED history
  BY DEF Save
<1>3. /\ old \in [rec: Rec, base: Nat, val: Val]
      /\ old.rec \in Rec
      /\ old.base \in Nat
      /\ old.val \in Val
  BY <1>1, <1>2, OpenForm
<1>4. val \in Val /\ val # {}
  BY <1>3, EditVal
<1> HIDE DEF val
<1>5. /\ NewId(c) \in ChangeId
      /\ FreshId(c, used[c], used[c] + 1, NewId(c))
  BY <1>1, <1>2, NewIdFresh DEF NewId, Window
<1>6. ed \in Editor
  BY <1>3, <1>4 DEF Editor
<1>7. StoreStep(cl[c], T, c, used[c], used[c] + 1)
  BY <1>1, <1>3, <1>4, <1>5, SaveStoreStep
<1>8. /\ free' \subseteq Edit
      /\ gone' \subseteq Edit
      /\ unseen' \subseteq Edit
      /\ dead' \subseteq Client \X Rec \X BOOLEAN
  BY <1>1, <1>2 DEF TypeOK, history
<1> QED BY <1>2, <1>6, <1>7, <1>8, WindowSound

LEMMA DeleteWellFormed ==
    ASSUME WellFormed, NEW c \in Client, Delete(c)
    PROVE  WellFormed'
<1> DEFINE r == editor[c].rec
           T == DeleteLocal(cl[c], NewId(c), r)
<1>1. TypeOK /\ StoreSound(cl[c], c, used[c])
  BY DEF WellFormed
<1>2. /\ editor[c] # Closed
      /\ Window(c, T, Closed, 1)
      /\ gone' = gone \cup cl[c].local[r].val
      /\ dead' = dead \cup {Tombstone(c, r)}
      /\ free' = free
      /\ unseen' = unseen
  BY DEF Delete
<1>3. r \in Rec
  BY <1>1, <1>2, OpenForm
<1>4. /\ NewId(c) \in ChangeId
      /\ FreshId(c, used[c], used[c] + 1, NewId(c))
  BY <1>1, <1>2, NewIdFresh DEF NewId, Window
<1>5. StoreStep(cl[c], T, c, used[c], used[c] + 1)
  BY <1>1, <1>3, <1>4, DeleteStoreStep
<1>6. cl[c].local[r].val \subseteq Edit
  BY <1>1, <1>3, StoreFields, ClientAssumption DEF StoreSound
<1>7. Tombstone(c, r) \in Client \X Rec \X BOOLEAN
  <2> DEFINE b == cl[c].local[r].ver > 0
  <2>1. b \in BOOLEAN
    OBVIOUS
  <2>2. Tombstone(c, r) = <<c, r, b>>
    BY DEF Tombstone
  <2> HIDE DEF b, r
  <2> QED BY <1>3, <2>1, <2>2
<1>8. Closed \in Editor
  BY DEF Editor
<1>9. /\ free' \subseteq Edit
      /\ gone' \subseteq Edit
      /\ unseen' \subseteq Edit
      /\ dead' \subseteq Client \X Rec \X BOOLEAN
  BY <1>1, <1>2, <1>6, <1>7 DEF TypeOK
<1> QED BY <1>2, <1>5, <1>8, <1>9, WindowSound

LEMMA RecordStepThen ==
    ASSUME NEW c, NEW n \in Nat, NEW m \in Nat, NEW k \in Nat, n <= m, m <= k,
           NEW E, NEW loc, NEW D \in SUBSET OutboxEntry,
           RecordStep(c, n, m, E, loc, D),
           NEW row, NEW F \in SUBSET OutboxEntry,
           RecordStep(c, m, k, D, row, F)
    PROVE  RecordStep(c, n, k, E, row, F)
<1>1. ASSUME NEW y \in F
      PROVE  (\E x \in E : x.id = y.id) \/ FreshId(c, n, k, y.id)
  <2>1. y.id[2] \in Nat
    BY EntryFields
  <2>2. CASE FreshId(c, m, k, y.id)
    BY <2>1, <2>2 DEF FreshId
  <2>3. ASSUME NEW z \in D, z.id = y.id
        PROVE  (\E x \in E : x.id = y.id) \/ FreshId(c, n, k, y.id)
    <3>1. (\E x \in E : x.id = z.id) \/ FreshId(c, n, m, z.id)
      BY DEF RecordStep
    <3> QED BY <2>1, <2>3, <3>1 DEF FreshId
  <2> QED BY <2>2, <2>3 DEF RecordStep
<1> QED BY <1>1 DEF RecordStep

LEMMA DeleteDirtyWellFormed ==
    ASSUME WellFormed, NEW c \in Client, NEW e \in Edit, DeleteDirty(c, e)
    PROVE  WellFormed'
<1> DEFINE old == editor[c]
           r == old.rec
           n == used[c]
           val == old.val \cup {e}
           S == cl[c]
           T == DeleteLocal(S, NewId(c), r)
           U == SaveLocal(T, <<c, n + 2>>, r, old.base, val)
<1>1. TypeOK /\ StoreSound(S, c, n) /\ n \in Nat
  BY ScopeFields DEF WellFormed
<1>2. /\ old # Closed
      /\ Window(c, U, Closed, 2)
      /\ gone' = gone \cup S.local[r].val
      /\ free' = free \ {e}
      /\ unseen' = unseen
      /\ dead' = dead
  BY DEF DeleteDirty
<1>3. r \in Rec /\ old.base \in Nat /\ old.val \in Val
  BY <1>1, <1>2, OpenForm
<1>4. val \in Val /\ val # {}
  BY <1>3, EditVal
<1>5. n + 2 <= scope.ids
  BY <1>2 DEF Window
<1>6. /\ <<c, n + 1>> \in ChangeId
      /\ FreshId(c, n, n + 2, <<c, n + 1>>)
      /\ <<c, n + 2>> \in ChangeId
      /\ FreshId(c, n, n + 2, <<c, n + 2>>)
  <2>1. 1 \in Nat \ {0} /\ 2 \in Nat \ {0} /\ 2 \in Nat /\ 1 <= 2 /\ 2 <= 2
    OBVIOUS
  <2>2. /\ <<c, used[c] + 1>> \in ChangeId
        /\ FreshId(c, used[c], used[c] + 2, <<c, used[c] + 1>>)
    BY <1>1, <1>5, <2>1, NewIdFresh
  <2>3. /\ <<c, used[c] + 2>> \in ChangeId
        /\ FreshId(c, used[c], used[c] + 2, <<c, used[c] + 2>>)
    BY <1>1, <1>5, <2>1, NewIdFresh
  <2> QED BY <2>2, <2>3
<1>7. FreshId(c, n, n + 1, <<c, n + 1>>) /\ FreshId(c, n + 1, n + 2, <<c, n + 2>>)
  BY <1>1 DEF FreshId
<1>8. NewId(c) = <<c, n + 1>>
  BY DEF NewId
<1> HIDE DEF n, val, r
<1>9. PICK D : /\ Becomes(S, T, r, LocalGone(S.local[r]), D)
               /\ Deletes(EntriesOf(S, r), D, <<c, n + 1>>, r, S.local[r])
  BY <1>1, <1>3, <1>6, <1>8, DeleteView DEF StoreSound
<1>10. EntriesOf(S, r) \in SUBSET OutboxEntry /\ S.local[r] \in LocalRow
  BY <1>1, <1>3, StoreView DEF ViewSound
<1>11. RecordStep(c, n, n + 1, EntriesOf(S, r), LocalGone(S.local[r]), D)
  BY <1>3, <1>6, <1>7, <1>9, <1>10, DeletesStep
<1> HIDE DEF T
<1>12. StoreStep(S, T, c, n, n + 1)
  BY <1>1, <1>3, <1>9, <1>11, OneRecordStep
<1>13. n + 1 \in Nat /\ n + 2 \in Nat /\ n <= n + 1 /\ n + 1 <= n + 2
  BY <1>1
<1>14. StoreSound(T, c, n + 1)
  BY <1>1, <1>12, <1>13, StoreStepSound
<1>15. /\ EntriesOf(T, r) = D
       /\ EntriesOf(T, r) \in SUBSET OutboxEntry
  BY <1>3, <1>9, <1>14, StoreView DEF ViewSound, Becomes
<1>16. PICK F : /\ Becomes(T, U, r, LocalAt(T.local[r].ver, val), F)
                /\ Saves(EntriesOf(T, r), F, <<c, n + 2>>, r, old.base, val)
  BY <1>3, <1>4, <1>6, <1>14, SaveView DEF StoreSound
<1>17. RecordStep(c, n + 1, n + 2, D, LocalAt(T.local[r].ver, val), F)
  BY <1>3, <1>4, <1>6, <1>7, <1>15, <1>16, SavesStep
<1> HIDE DEF U
<1>18. U \in Store /\ F = EntriesOf(U, r) /\ F \in SUBSET OutboxEntry
  <2>1. U \in Store /\ F = EntriesOf(U, r)
    BY <1>16 DEF Becomes, Elsewhere
  <2> QED BY <2>1, StoreFields DEF EntriesOf
<1>19. RecordStep(c, n, n + 2, EntriesOf(S, r), LocalAt(T.local[r].ver, val), F)
  BY <1>1, <1>11, <1>13, <1>15, <1>17, <1>18, RecordStepThen
<1>20. Becomes(S, U, r, LocalAt(T.local[r].ver, val), F)
  BY <1>9, <1>16, BecomesThen
<1>21. StoreStep(S, U, c, n, n + 2)
  BY <1>1, <1>3, <1>19, <1>20, OneRecordStep
<1>22. S.local[r].val \subseteq Edit
  BY <1>1, <1>3, StoreFields, ClientAssumption DEF StoreSound
<1>23. Closed \in Editor
  BY DEF Editor
<1>24. /\ free' \subseteq Edit
       /\ gone' \subseteq Edit
       /\ unseen' \subseteq Edit
       /\ dead' \subseteq Client \X Rec \X BOOLEAN
  BY <1>1, <1>2, <1>22 DEF TypeOK
<1> QED BY <1>2, <1>21, <1>23, <1>24, WindowSound DEF n

LEMMA LoginWellFormed ==
    ASSUME WellFormed, NEW c \in Client, Login(c)
    PROVE  WellFormed'
<1> DEFINE S == cl[c]
           T == ReleaseAuthentication(S)
<1>1. TypeOK /\ StoreSound(S, c, used[c]) /\ used[c] \in Nat
  BY ScopeFields DEF WellFormed
<1>2. Window(c, T, editor[c], 0) /\ free' = free /\ UNCHANGED history
  BY DEF Login
<1>3. /\ T \in Store
      /\ T.local = S.local
      /\ \A r \in Rec : Touches(EntriesOf(S, r), EntriesOf(T, r), {})
  BY <1>1, ReleaseView DEF StoreSound
<1> HIDE DEF T
<1>4. \A r \in Rec : RecordStep(c, used[c], used[c], EntriesOf(S, r),
                                T.local[r], EntriesOf(T, r))
  BY <1>1, <1>3, StoreView, TouchesStep
<1>5. StoreStep(S, T, c, used[c], used[c])
  BY <1>1, <1>3, <1>4, AllRecordsStep
<1>6. used[c] + 0 = used[c] /\ editor[c] \in Editor
  BY <1>1 DEF TypeOK
<1>7. /\ free' \subseteq Edit
      /\ gone' \subseteq Edit
      /\ unseen' \subseteq Edit
      /\ dead' \subseteq Client \X Rec \X BOOLEAN
  BY <1>1, <1>2 DEF TypeOK, history
<1> QED BY <1>2, <1>5, <1>6, <1>7, WindowSound

\* The parts of a conflict's entry, and of the work left after it.
LEMMA EntrySound ==
    ASSUME NEW c, NEW n, NEW S, StoreSound(S, c, n), NEW x \in S.box
    PROVE  /\ x \in OutboxEntry
           /\ x.rec \in Rec
           /\ x.op \in Ops
           /\ x.val \in Val
           /\ x.val \subseteq Edit
           /\ x.srv \in LocalRow
           /\ x.srv.ver \in Nat
           /\ x.srv.val \in Val
           /\ x.srv.val \subseteq Edit
           /\ Shows(S.local[x.rec], x)
           /\ S.local[x.rec].ver \in Nat
<1>1. S \in Store /\ x \in OutboxEntry
  BY StoreFields DEF StoreSound
<1>2. x.srv.val \in Val /\ x.srv \in LocalRow
  BY <1>1, EntryFields DEF LocalRow
<1> QED BY <1>1, <1>2, EntryFields, StoreFields, ClientAssumption DEF StoreSound

LEMMA KeepMineWellFormed ==
    ASSUME WellFormed, NEW c \in Client, NEW x \in cl[c].box,
           ResolveKeepMine(c, x)
    PROVE  WellFormed'
<1> DEFINE S == cl[c]
           n == used[c]
           T == KeepMine(S, x, NewId(c))
           b == Larger(x.srv.ver, S.local[x.rec].ver)
<1>1. TypeOK /\ StoreSound(S, c, n)
  BY DEF WellFormed
<1>2. /\ Window(c, T, editor[c], 1)
      /\ gone' = gone \cup (x.srv.val \ x.val)
      /\ free' = free
      /\ unseen' = unseen
      /\ dead' = dead
  BY DEF ResolveKeepMine
<1>3. /\ NewId(c) \in ChangeId
      /\ FreshId(c, n, n + 1, NewId(c))
  BY <1>1, <1>2, NewIdFresh DEF NewId, Window
<1>4. /\ x.rec \in Rec
      /\ x.op \in Ops
      /\ x.val \in Val
      /\ x.srv.val \subseteq Edit
      /\ b \in Nat
      /\ Shows(S.local[x.rec], x)
  BY <1>1, EntrySound, LargerNat
<1>5. Becomes(S, T, x.rec, S.local[x.rec],
              {Fresh(NewId(c), x.rec, x.op, b, x.val)})
  BY <1>1, <1>3, KeepMineView DEF StoreSound
<1> HIDE DEF T, b
<1>6. RecordStep(c, n, n + 1, EntriesOf(S, x.rec), S.local[x.rec],
                 {Fresh(NewId(c), x.rec, x.op, b, x.val)})
  BY <1>3, <1>4, FreshStep DEF Shows
<1>7. StoreStep(S, T, c, n, n + 1)
  BY <1>1, <1>4, <1>5, <1>6, OneRecordStep
<1>8. editor[c] \in Editor
  BY <1>1 DEF TypeOK
<1>9. /\ free' \subseteq Edit
      /\ gone' \subseteq Edit
      /\ unseen' \subseteq Edit
      /\ dead' \subseteq Client \X Rec \X BOOLEAN
  BY <1>1, <1>2, <1>4 DEF TypeOK
<1> QED BY <1>2, <1>7, <1>8, <1>9, WindowSound

LEMMA UseServerWellFormed ==
    ASSUME WellFormed, NEW c \in Client, NEW x \in cl[c].box,
           ResolveUseServer(c, x)
    PROVE  WellFormed'
<1> DEFINE S == cl[c]
           n == used[c]
           T == UseServer(S, x)
<1>1. TypeOK /\ StoreSound(S, c, n) /\ n \in Nat
  BY ScopeFields DEF WellFormed
<1>2. /\ CanUseServer(S, x)
      /\ Window(c, T, editor[c], 0)
      /\ gone' = gone \cup (x.val \ x.srv.val)
      /\ dead' \subseteq dead
      /\ free' = free
      /\ unseen' = unseen
  BY DEF ResolveUseServer
<1>3. x.rec \in Rec /\ x.val \subseteq Edit
  BY <1>1, EntrySound
<1>4. Becomes(S, T, x.rec, x.srv, {})
  BY <1>1, <1>2, UseServerView DEF StoreSound
<1> HIDE DEF T
<1>5. StoreStep(S, T, c, n, n)
  BY <1>1, <1>3, <1>4, NoEntriesStep, OneRecordStep
<1>6. n + 0 = n /\ editor[c] \in Editor
  BY <1>1 DEF TypeOK
<1>7. /\ free' \subseteq Edit
      /\ gone' \subseteq Edit
      /\ unseen' \subseteq Edit
      /\ dead' \subseteq Client \X Rec \X BOOLEAN
  BY <1>1, <1>2, <1>3 DEF TypeOK
<1> QED BY <1>2, <1>5, <1>6, <1>7, WindowSound

LEMMA MergeWellFormed ==
    ASSUME WellFormed, NEW c \in Client, NEW x \in cl[c].box,
           ResolveMerge(c, x)
    PROVE  WellFormed'
<1> DEFINE S == cl[c]
           n == used[c]
           T == Merge(S, x, NewId(c))
           val == x.val \cup x.srv.val
<1>1. TypeOK /\ StoreSound(S, c, n)
  BY DEF WellFormed
<1>2. /\ CanMerge(S, x)
      /\ Window(c, T, editor[c], 1)
      /\ unseen' \subseteq unseen \cup val
      /\ free' = free
      /\ gone' = gone
      /\ dead' = dead
  BY DEF ResolveMerge
<1>3. /\ NewId(c) \in ChangeId
      /\ FreshId(c, n, n + 1, NewId(c))
  BY <1>1, <1>2, NewIdFresh DEF NewId, Window
<1>4. /\ x.rec \in Rec
      /\ x.val \subseteq Edit
      /\ x.srv.val \subseteq Edit
      /\ x.srv.ver \in Nat
      /\ Shows(S.local[x.rec], x)
  BY <1>1, EntrySound
<1>5. PICK loc \in LocalRow :
         /\ loc.val = val
         /\ ~loc.del
         /\ Becomes(S, T, x.rec, loc,
                    {Fresh(NewId(c), x.rec, "upsert", x.srv.ver, val)})
  BY <1>1, <1>2, <1>3, MergeView DEF StoreSound
<1>6. val \in Val /\ val # {}
  <2>1. x.val # {}
    BY <1>2, <1>4 DEF CanMerge, Shows
  <2> QED BY <1>4, <2>1, ClientAssumption
<1>7. "upsert" \in Ops /\ "upsert" # "delete"
  BY DEF Ops
<1> HIDE DEF T, val
<1>8. RecordStep(c, n, n + 1, EntriesOf(S, x.rec), loc,
                 {Fresh(NewId(c), x.rec, "upsert", x.srv.ver, val)})
  BY <1>3, <1>4, <1>5, <1>6, <1>7, FreshStep
<1>9. StoreStep(S, T, c, n, n + 1)
  BY <1>1, <1>4, <1>5, <1>8, OneRecordStep
<1>10. editor[c] \in Editor
  BY <1>1 DEF TypeOK
<1>11. /\ free' \subseteq Edit
       /\ gone' \subseteq Edit
       /\ unseen' \subseteq Edit
       /\ dead' \subseteq Client \X Rec \X BOOLEAN
  BY <1>1, <1>2, <1>6, ClientAssumption DEF TypeOK
<1> QED BY <1>2, <1>9, <1>10, <1>11, WindowSound

LEMMA StillServer ==
    ASSUME WellFormed
    PROVE  /\ srv \in ProperWork
           /\ ServerSound(srv)
           /\ Advances(srv, srv)
BY AdvancesReflexive DEF WellFormed, ServerSound

\* A step of the pass that leaves the server, the requests on the way and the
\* form alone.
LEMMA QuietWorkerSound ==
    ASSUME WellFormed, NEW c \in Client, NEW T, NEW p, Worker(c, T, p),
           StoreStep(cl[c], T, c, used[c], used[c]),
           PassSound(srv, T, c, used[c], p),
           srv' = srv, late' = late, delayed' = delayed,
           editor' \in [Client -> Editor], faults' \in 0..MaxFaults
    PROVE  WellFormed'
<1>1. ServerSound(srv') /\ Advances(srv, srv') /\ PassSound(srv', T, c, used[c], p)
  BY StillServer
<1>2. \A q \in late' : \/ q \in late
                       \/ q = [user |-> c, batch |-> pass[c].batch]
  OBVIOUS
<1>3. delayed' \in 0..scope.late
  BY DEF WellFormed, TypeOK
<1> QED BY <1>1, <1>2, <1>3, WorkerSound

LEMMA FaultType ==
    ASSUME TypeOK, NEW n \in Nat, Fault(n)
    PROVE  faults' \in 0..MaxFaults
BY ScopeFields DEF TypeOK, Fault

PassPc == {"idle", "selected", "failed", "denied", "answered", "acked",
           "settled", "downloaded", "done"}

LEMMA PassFields ==
    ASSUME NEW w, NEW S, NEW c, NEW n, NEW p, PassSound(w, S, c, n, p)
    PROVE  /\ p \in Pass
           /\ p.pc \in PassPc
           /\ p.batch \in Seq(Change)
           /\ p.batch \in Seq(ClientChange)
           /\ p.results \in Seq(Result)
           /\ p.results \in Seq(ProperResult)
           /\ p.todo \subseteq Nat
           /\ p.rows \in [Rec -> Row]
           /\ p.rows \in [Rec -> ProperRow]
           /\ p.snap \in Nat
BY DEF PassSound, Pass, PassPc, BatchSound, GoodBatch

\* The record a step of the pass leaves.
MadePass(pc, batch, results, todo, rows, snap) ==
    [pc |-> pc, batch |-> batch, results |-> results, todo |-> todo,
     rows |-> rows, snap |-> snap]

LEMMA MadePassFields ==
    ASSUME NEW pc \in PassPc, NEW batch \in Seq(Change),
           NEW results \in Seq(Result), NEW todo \in SUBSET Nat,
           NEW rows \in [Rec -> Row], NEW snap \in Nat
    PROVE  /\ MadePass(pc, batch, results, todo, rows, snap) \in Pass
           /\ MadePass(pc, batch, results, todo, rows, snap).pc = pc
           /\ MadePass(pc, batch, results, todo, rows, snap).batch = batch
           /\ MadePass(pc, batch, results, todo, rows, snap).results = results
           /\ MadePass(pc, batch, results, todo, rows, snap).todo = todo
           /\ MadePass(pc, batch, results, todo, rows, snap).rows = rows
           /\ MadePass(pc, batch, results, todo, rows, snap).snap = snap
BY DEF MadePass, Pass, PassPc

Repulled(p, pc, rows, snap) ==
    [p EXCEPT !.pc = pc, !.rows = rows, !.snap = snap]

LEMMA PassUpdates ==
    ASSUME NEW p \in Pass, NEW pc, NEW batch, NEW results, NEW todo
    PROVE  /\ [p EXCEPT !.pc = pc, !.batch = batch]
              = MadePass(pc, batch, p.results, p.todo, p.rows, p.snap)
           /\ [p EXCEPT !.pc = pc, !.results = results]
              = MadePass(pc, p.batch, results, p.todo, p.rows, p.snap)
           /\ [p EXCEPT !.pc = pc]
              = MadePass(pc, p.batch, p.results, p.todo, p.rows, p.snap)
           /\ [p EXCEPT !.pc = pc, !.todo = todo]
              = MadePass(pc, p.batch, p.results, todo, p.rows, p.snap)
<1>1. p = MadePass(p.pc, p.batch, p.results, p.todo, p.rows, p.snap)
  BY DEF MadePass, Pass
<1> DEFINE q == [p EXCEPT !.pc = pc]
<1>2. q = MadePass(pc, p.batch, p.results, p.todo, p.rows, p.snap)
  BY <1>1 DEF MadePass
<1> HIDE DEF q
<1>3. /\ [q EXCEPT !.batch = batch]
         = MadePass(pc, batch, p.results, p.todo, p.rows, p.snap)
      /\ [q EXCEPT !.results = results]
         = MadePass(pc, p.batch, results, p.todo, p.rows, p.snap)
      /\ [q EXCEPT !.todo = todo]
         = MadePass(pc, p.batch, p.results, todo, p.rows, p.snap)
  BY <1>2 DEF MadePass
<1> QED BY <1>2, <1>3, Zenon DEF q

LEMMA RepulledIs ==
    ASSUME NEW p \in Pass, NEW pc, NEW rows, NEW snap
    PROVE  Repulled(p, pc, rows, snap)
             = MadePass(pc, p.batch, p.results, p.todo, rows, snap)
<1> DEFINE q == [p EXCEPT !.pc = pc]
           u == [q EXCEPT !.rows = rows]
<1>1. p = MadePass(p.pc, p.batch, p.results, p.todo, p.rows, p.snap)
  BY DEF MadePass, Pass
<1>2. q = MadePass(pc, p.batch, p.results, p.todo, p.rows, p.snap)
  BY <1>1 DEF MadePass
<1> HIDE DEF q
<1>3. u = MadePass(pc, p.batch, p.results, p.todo, rows, p.snap)
  BY <1>2 DEF MadePass
<1> HIDE DEF u
<1>4. [u EXCEPT !.snap = snap]
      = MadePass(pc, p.batch, p.results, p.todo, rows, snap)
  BY <1>3 DEF MadePass
<1> QED BY <1>4, Zenon DEF q, u, Repulled

LEMMA SelectWellFormed ==
    ASSUME WellFormed, NEW c \in Client, NEW due, Select(c, due)
    PROVE  WellFormed'
<1> DEFINE S == cl[c]
           n == used[c]
<1>1. TypeOK /\ StoreSound(S, c, n) /\ n \in Nat
  BY ScopeFields DEF WellFormed
<1>2. PICK todo \in PendingChanges(S, due, scope.batch) :
         Worker(c, S, [NoPass EXCEPT !.pc = IF todo = <<>> THEN "settled"
                                            ELSE "selected",
                                     !.batch = Selected(todo)])
  BY DEF Select, Selected
<1> DEFINE pc == IF todo = <<>> THEN "settled" ELSE "selected"
           batch == Selected(todo)
           p == [NoPass EXCEPT !.pc = pc, !.batch = batch]
<1>3. scope.batch \in Nat
  BY <1>1, ScopeFields
<1>4. BatchSound(S, c, n, batch)
  BY <1>1, <1>3, SelectedSound
<1>5. pc \in PassPc
  BY DEF PassPc
<1>6. Worker(c, S, p)
  BY <1>2
<1>7. PassSound(srv, S, c, n, NoPass)
  BY NoPassSound
<1> HIDE DEF pc, batch
<1>8. batch \in Seq(Change)
  BY <1>4, ChangeFields DEF BatchSound, GoodBatch, ClientChange
<1>9. /\ p \in Pass
      /\ p.batch = batch
      /\ p.results = NoPass.results
      /\ p.todo = NoPass.todo
      /\ p.rows = NoPass.rows
  <2> DEFINE q == NoPass
  <2>1. /\ q \in Pass
        /\ q.results \in Seq(Result)
        /\ q.todo \in SUBSET Nat
        /\ q.rows \in [Rec -> Row]
        /\ q.snap \in Nat
    BY <1>7, PassFields
  <2>2. p = MadePass(pc, batch, q.results, q.todo, q.rows, q.snap)
    BY <2>1, PassUpdates
  <2> HIDE DEF p, q
  <2>3. /\ p \in Pass
        /\ p.batch = batch
        /\ p.results = q.results
        /\ p.todo = q.todo
        /\ p.rows = q.rows
    BY <1>5, <1>8, <2>1, <2>2, MadePassFields
  <2> QED BY <2>3 DEF q
<1>10. NoPass.results = <<>> /\ NoPass.todo = {}
  BY DEF NoPass
<1> HIDE DEF p
<1>11. PassSound(srv, S, c, n, p)
  BY <1>4, <1>7, <1>9, <1>10 DEF PassSound
<1>12. StoreStep(S, S, c, n, n)
  BY <1>1, SameStoreStep
<1>13. /\ srv' = srv
       /\ editor' = editor
       /\ late' = late
       /\ faults' = faults
       /\ delayed' = delayed
  BY DEF Select
<1>14. editor' \in [Client -> Editor] /\ faults' \in 0..MaxFaults
  BY <1>1, <1>13 DEF TypeOK
<1> QED BY <1>6, <1>11, <1>12, <1>13, <1>14, QuietWorkerSound

LEMMA TouchesStoreStep ==
    ASSUME NEW c, NEW n \in Nat, NEW S, StoreSound(S, c, n), NEW T \in Store,
           T.local = S.local, NEW ids,
           \A r \in Rec : Touches(EntriesOf(S, r), EntriesOf(T, r), ids)
    PROVE  StoreStep(S, T, c, n, n)
<1>1. \A r \in Rec : RecordStep(c, n, n, EntriesOf(S, r), T.local[r],
                                EntriesOf(T, r))
  BY StoreView, TouchesStep
<1> QED BY <1>1, AllRecordsStep

LEMMA AttemptStep ==
    ASSUME NEW c, NEW n \in Nat, NEW S, StoreSound(S, c, n), NEW ids
    PROVE  StoreStep(S, MarkAttempted(S, ids), c, n, n)
BY MarkAttemptedView, TouchesStoreStep DEF StoreSound

LEMMA AnswerSound ==
    ASSUME NEW w, ServerSound(w), NEW u \in User, NEW batch, GoodBatch(batch),
           NEW fails \in BOOLEAN, NEW o, o = PushChanges(w, u, batch, fails)
    PROVE  /\ ServerSound(o.work)
           /\ Advances(w, o.work)
           /\ Results(o.done) \in Seq(ProperResult)
           /\ Len(Results(o.done)) = Len(batch)
           /\ DOMAIN Results(o.done) = DOMAIN batch
           /\ DOMAIN batch = 1..Len(batch)
           /\ NewReceipts(w, o.work, batch)
           /\ \A k \in DOMAIN batch :
                 /\ ResultSound(o.work, u, batch[k], Results(o.done)[k])
                 /\ ResultFresh(o.work, batch[k], Results(o.done)[k])
<1> DEFINE res == Results(o.done)
           N == Len(batch)
<1>1. Sofar(w, u, batch, N, o)
  BY PushSound
<1>2. batch \in Seq(ClientChange) /\ N \in Nat /\ DOMAIN batch = 1..N
  BY DEF GoodBatch
<1>3. o.done \in Seq(Answered) /\ Len(o.done) = N /\ DOMAIN o.done = 1..N
  BY <1>1 DEF Sofar
<1>4. /\ DOMAIN res = 1..N
      /\ \A k \in 1..N : res[k] = o.done[k].result
  BY <1>3 DEF Results
<1>5. \A k \in 1..N : res[k] \in ProperResult
  <2>1. \A k \in 1..N : o.done[k] \in Answered
    BY <1>3
  <2>2. \A d \in Answered : d.result \in ProperResult
    BY DEF Answered
  <2> HIDE DEF res
  <2> QED BY <1>4, <2>1, <2>2
<1>6. res \in Seq(ProperResult) /\ Len(res) = N
  <2>1. res = [k \in 1..N |-> o.done[k].result]
    BY <1>3 DEF Results
  <2>2. res \in [1..N -> ProperResult]
    BY <1>4, <1>5, <2>1
  <2> HIDE DEF res
  <2> QED BY <1>2, <2>2
<1> HIDE DEF res
<1>7. \A k \in 1..N : /\ ResultSound(o.work, u, batch[k], res[k])
                      /\ ResultFresh(o.work, batch[k], res[k])
  BY <1>1, <1>4 DEF Sofar
<1>8. NewReceipts(w, o.work, batch)
  BY <1>1 DEF Sofar, NewReceipts
<1> QED BY <1>1, <1>2, <1>4, <1>6, <1>7, <1>8 DEF Sofar, res

LEMMA PushWellFormed ==
    ASSUME WellFormed, NEW c \in Client, NEW fails \in BOOLEAN, Push(c, fails)
    PROVE  WellFormed'
<1> DEFINE S == cl[c]
           n == used[c]
           p == pass[c]
           o == PushChanges(srv, c, p.batch, fails)
           res == Results(o.done)
           T == MarkAttempted(S, BatchIds(c))
           q == [p EXCEPT !.pc = "answered", !.results = res]
<1>1. /\ TypeOK
      /\ StoreSound(S, c, n)
      /\ n \in Nat
      /\ PassSound(srv, S, c, n, p)
      /\ BatchSound(S, c, n, p.batch)
      /\ GoodBatch(p.batch)
      /\ ServerSound(srv)
  BY ScopeFields DEF WellFormed, PassSound, BatchSound
<1>2. /\ Fault(IF fails THEN 1 ELSE 0)
      /\ srv' = o.work
      /\ Worker(c, T, q)
      /\ editor' = editor
      /\ late' = late
      /\ delayed' = delayed
  BY DEF Push
<1>3. /\ ServerSound(o.work)
      /\ Advances(srv, o.work)
      /\ res \in Seq(ProperResult)
      /\ Len(res) = Len(p.batch)
      /\ DOMAIN res = DOMAIN p.batch
      /\ \A k \in DOMAIN p.batch : ResultSound(o.work, c, p.batch[k], res[k])
  BY <1>1, AnswerSound, UserIsClient
<1> HIDE DEF T, o, res
<1>4. StoreStep(S, T, c, n, n)
  BY <1>1, AttemptStep DEF T
<1>5. BatchSound(T, c, n, p.batch)
  BY <1>1, <1>4, StoreStepBatch DEF StoreSound
<1>6. /\ q \in Pass
      /\ q.batch = p.batch
      /\ q.results = res
      /\ q.todo = p.todo
      /\ q.rows = p.rows
  <2>1. /\ p \in Pass
        /\ p.batch \in Seq(Change)
        /\ p.todo \in SUBSET Nat
        /\ p.rows \in [Rec -> Row]
        /\ p.snap \in Nat
    BY <1>1, PassFields
  <2>2. "answered" \in PassPc /\ res \in Seq(Result)
    BY <1>3, ProperTypes DEF PassPc
  <2>3. q = MadePass("answered", p.batch, res, p.todo, p.rows, p.snap)
    BY <2>1, PassUpdates
  <2> HIDE DEF q, p
  <2> QED BY <2>1, <2>2, <2>3, MadePassFields
<1> HIDE DEF q
<1>7. p.todo \subseteq DOMAIN res
  <2>1. p.results = <<>> => DOMAIN p.results = {}
    OBVIOUS
  <2>2. /\ p.todo \subseteq DOMAIN p.results
        /\ p.results = <<>> \/ Len(p.results) = Len(p.batch)
        /\ p.results \in Seq(ProperResult)
    BY <1>1 DEF PassSound
  <2>3. p.results # <<>> => DOMAIN p.results = DOMAIN res
    BY <1>3, <2>2
  <2> QED BY <2>1, <2>2, <2>3
<1>8. PassSound(srv', T, c, n, q)
  <2>1. p.rows \in [Rec -> ProperRow]
    BY <1>1, PassFields
  <2> QED BY <1>2, <1>3, <1>5, <1>6, <1>7, <2>1 DEF PassSound
<1>9. faults' \in 0..MaxFaults
  <2>1. (IF fails THEN 1 ELSE 0) \in Nat
    OBVIOUS
  <2> QED BY <1>1, <1>2, <2>1, FaultType
<1>10. editor' \in [Client -> Editor] /\ delayed' \in 0..scope.late
  BY <1>1, <1>2 DEF TypeOK
<1>11. \A m \in late' : \/ m \in late
                        \/ m = [user |-> c, batch |-> p.batch]
  BY <1>2
<1> QED BY <1>2, <1>3, <1>4, <1>8, <1>9, <1>10, <1>11, WorkerSound

\* A step that keeps the pass but for where it is.
LEMMA MovedPass ==
    ASSUME NEW w, NEW v, NEW S, NEW T, NEW c \in Client, NEW n \in Nat,
           StoreSound(S, c, n), StoreStep(S, T, c, n, n),
           ServerSound(w), ServerSound(v), Advances(w, v),
           NEW p, PassSound(w, S, c, n, p), NEW pc \in PassPc
    PROVE  PassSound(v, T, c, n, [p EXCEPT !.pc = pc])
<1> DEFINE q == [p EXCEPT !.pc = pc]
<1>1. PassSound(v, T, c, n, p)
  <2>1. n <= n
    OBVIOUS
  <2> QED BY <2>1, PassKept
<1>2. q = MadePass(pc, p.batch, p.results, p.todo, p.rows, p.snap)
  BY PassFields, PassUpdates
<1> HIDE DEF q
<1>3. /\ q \in Pass
      /\ q.batch = p.batch
      /\ q.results = p.results
      /\ q.todo = p.todo
      /\ q.rows = p.rows
  BY <1>1, <1>2, PassFields, MadePassFields
<1>4. PassSound(v, T, c, n, q)
  BY <1>1, <1>3 DEF PassSound
<1> QED BY <1>4 DEF q

LEMMA PushFailsWellFormed ==
    ASSUME WellFormed, NEW c \in Client, NEW outcome, PushFails(c, outcome)
    PROVE  WellFormed'
<1> DEFINE S == cl[c]
           n == used[c]
           p == pass[c]
           T == MarkAttempted(S, BatchIds(c))
           pc == IF outcome = "denied" THEN "denied" ELSE "failed"
           q == [p EXCEPT !.pc = pc]
<1>1. /\ TypeOK
      /\ StoreSound(S, c, n)
      /\ n \in Nat
      /\ PassSound(srv, S, c, n, p)
      /\ GoodBatch(p.batch)
      /\ ServerSound(srv)
  BY ScopeFields DEF WellFormed, PassSound, BatchSound
<1>2. /\ Fault(1)
      /\ Worker(c, T, q)
      /\ editor' = editor
      /\ \/ srv' = srv
         \/ srv' = PushChanges(srv, c, p.batch, FALSE).work
  BY DEF PushFails
<1>3. /\ \A m \in late' : \/ m \in late
                          \/ m = [user |-> c, batch |-> p.batch]
      /\ delayed' \in 0..scope.late
  <2>1. /\ delayed \in 0..scope.late
        /\ scope.late \in Nat
    BY <1>1, ScopeFields DEF TypeOK
  <2>2. CASE outcome = "late"
    BY <2>1, <2>2 DEF PushFails
  <2>3. CASE outcome # "late"
    BY <2>1, <2>3 DEF PushFails
  <2> QED BY <2>2, <2>3
<1>4. ServerSound(srv') /\ Advances(srv, srv')
  <2>1. CASE srv' = srv
    BY <2>1, StillServer
  <2>2. CASE srv' = PushChanges(srv, c, p.batch, FALSE).work
    BY <1>1, <2>2, AnswerSound, UserIsClient
  <2> QED BY <1>2, <2>1, <2>2
<1>5. pc \in PassPc
  BY DEF PassPc
<1> HIDE DEF T, pc
<1>6. StoreStep(S, T, c, n, n)
  BY <1>1, AttemptStep DEF T
<1>7. PassSound(srv', T, c, n, q)
  BY <1>1, <1>4, <1>5, <1>6, MovedPass
<1>8. faults' \in 0..MaxFaults
  BY <1>1, <1>2, FaultType
<1>9. editor' \in [Client -> Editor]
  BY <1>1, <1>2 DEF TypeOK
<1> QED BY <1>2, <1>3, <1>4, <1>6, <1>7, <1>8, <1>9, WorkerSound

LEMMA LateDeliveryWellFormed ==
    ASSUME WellFormed, NEW m \in late, LateDelivery(m)
    PROVE  WellFormed'
<1>1. TypeOK /\ ServerSound(srv)
  BY DEF WellFormed
<1>2. /\ srv' = PushChanges(srv, m.user, m.batch, FALSE).work
      /\ late' \subseteq late
      /\ cl' = cl
      /\ pass' = pass
      /\ editor' = editor
      /\ used' = used
      /\ free' = free
      /\ faults' = faults
      /\ delayed' = delayed
      /\ scope' = scope
      /\ gone' = gone
      /\ unseen' = unseen
      /\ dead' = dead
  BY DEF LateDelivery, history
<1>3. m.user \in User /\ GoodBatch(m.batch)
  BY <1>1 DEF TypeOK, WellFormed, BatchSound
<1>4. ServerSound(srv') /\ Advances(srv, srv')
  BY <1>1, <1>2, <1>3, AnswerSound
<1>5. ASSUME NEW c \in Client
      PROVE  /\ StoreSound(cl'[c], c, used'[c])
             /\ PassSound(srv', cl'[c], c, used'[c], pass'[c])
  <2>1. /\ StoreSound(cl[c], c, used[c])
        /\ PassSound(srv, cl[c], c, used[c], pass[c])
        /\ used[c] \in Nat
        /\ used[c] <= used[c]
    BY <1>1, ScopeFields DEF WellFormed
  <2>2. StoreStep(cl[c], cl[c], c, used[c], used[c])
    BY <2>1, SameStoreStep
  <2>3. PassSound(srv', cl[c], c, used[c], pass[c])
    BY <1>1, <1>4, <2>1, <2>2, PassKept
  <2> QED BY <1>2, <2>1, <2>3
<1>6. \A q \in late' : BatchSound(cl'[q.user], q.user, used'[q.user], q.batch)
  BY <1>2 DEF WellFormed
<1>7. TypeOK'
  <2>1. srv' \in Work
    BY <1>4, ProperTypes DEF ServerSound
  <2> QED BY <1>1, <1>2, <2>1 DEF TypeOK
<1> QED BY <1>4, <1>5, <1>6, <1>7 DEF WellFormed

LEMMA FailBatchWellFormed ==
    ASSUME WellFormed, NEW c \in Client, FailBatch(c)
    PROVE  WellFormed'
<1> DEFINE S == cl[c]
           n == used[c]
           ids == BatchIds(c)
<1>1. TypeOK /\ StoreSound(S, c, n) /\ n \in Nat
  BY ScopeFields DEF WellFormed
<1>2. PICK T : Worker(c, T, NoPass) /\ (T = Defer(S, ids) \/ T = Refuse(S, ids))
  BY DEF FailBatch, Refuse
<1>3. /\ T \in Store
      /\ T.local = S.local
      /\ \A r \in Rec : Touches(EntriesOf(S, r), EntriesOf(T, r), ids)
  BY <1>1, <1>2, DeferView, RefuseView DEF StoreSound
<1>4. StoreStep(S, T, c, n, n)
  BY <1>1, <1>3, TouchesStoreStep
<1>5. PassSound(srv, T, c, n, NoPass)
  BY NoPassSound
<1>6. /\ srv' = srv
      /\ editor' = editor
      /\ late' = late
      /\ faults' = faults
      /\ delayed' = delayed
  BY DEF FailBatch
<1>7. editor' \in [Client -> Editor] /\ faults' \in 0..MaxFaults
  BY <1>1, <1>6 DEF TypeOK
<1> QED BY <1>2, <1>4, <1>5, <1>6, <1>7, QuietWorkerSound

\* The results of an answer belong to the batch's changes, one for one.
LEMMA ResultsOfBatch ==
    ASSUME NEW w, NEW S, NEW c, NEW n, NEW p, PassSound(w, S, c, n, p)
    PROVE  /\ p.results \in Seq(ProperResult)
           /\ DOMAIN p.results \subseteq DOMAIN p.batch
           /\ p.results # <<>> => DOMAIN p.results = DOMAIN p.batch
           /\ OnePerRecord(p.results)
           /\ \A k \in DOMAIN p.results : \A x \in S.box :
                 x.id = p.results[k].id => x.rec = p.results[k].rec
           /\ \A k \in DOMAIN p.results :
                 /\ p.results[k] \in ProperResult
                 /\ p.results[k].id = p.batch[k].id
                 /\ p.results[k].rec = p.batch[k].pay.rec
                 /\ p.batch[k] \in ClientChange
                 /\ ResultSound(w, c, p.batch[k], p.results[k])
<1>1. /\ p.results \in Seq(ProperResult)
      /\ p.batch \in Seq(ClientChange)
      /\ p.results = <<>> \/ Len(p.results) = Len(p.batch)
  BY DEF PassSound, BatchSound, GoodBatch
<1>2. /\ DOMAIN p.results \subseteq DOMAIN p.batch
      /\ DOMAIN p.batch = 1..Len(p.batch)
      /\ p.results # <<>> => DOMAIN p.results = DOMAIN p.batch
  BY <1>1
<1>3. ASSUME NEW k \in DOMAIN p.results
      PROVE  /\ p.results[k] \in ProperResult
             /\ p.results[k].id = p.batch[k].id
             /\ p.results[k].rec = p.batch[k].pay.rec
             /\ p.batch[k] \in ClientChange
             /\ ResultSound(w, c, p.batch[k], p.results[k])
  <2>1. ResultSound(w, c, p.batch[k], p.results[k])
    BY DEF PassSound
  <2> QED BY <1>1, <1>2, <2>1 DEF ResultSound
<1>4. OnePerRecord(p.results)
  BY <1>2, <1>3 DEF OnePerRecord, PassSound, BatchSound, GoodBatch
<1>5. \A k \in DOMAIN p.results : \A x \in S.box :
         x.id = p.results[k].id => x.rec = p.results[k].rec
  BY <1>2, <1>3 DEF PassSound, BatchSound
<1> QED BY <1>1, <1>2, <1>3, <1>4, <1>5

LEMMA AcknowledgeStep ==
    ASSUME NEW w, NEW c, NEW n \in Nat, NEW S, StoreSound(S, c, n),
           NEW p, PassSound(w, S, c, n, p)
    PROVE  StoreStep(S, Acknowledge(S, p.results), c, n, n)
<1> DEFINE T == Acknowledge(S, p.results)
<1>1. /\ T \in Store
      /\ \A r \in Rec : AcksIn(p.results, r, S.local[r], EntriesOf(S, r),
                               T.local[r], EntriesOf(T, r))
  BY ResultsOfBatch, AcknowledgeView DEF StoreSound
<1> HIDE DEF T
<1>2. ASSUME NEW r \in Rec
      PROVE  RecordStep(c, n, n, EntriesOf(S, r), T.local[r], EntriesOf(T, r))
  <2>1. ViewSound(r, S.local[r], EntriesOf(S, r))
    BY StoreView
  <2>2. CASE T.local[r] = S.local[r] /\ EntriesOf(T, r) = EntriesOf(S, r)
    BY <2>1, <2>2, SameRecordStep
  <2>3. ASSUME NEW k \in DOMAIN p.results,
               Acks(S.local[r], EntriesOf(S, r), T.local[r], EntriesOf(T, r),
                    p.results[k])
        PROVE  RecordStep(c, n, n, EntriesOf(S, r), T.local[r], EntriesOf(T, r))
    <3>1. p.results[k] \in ProperResult
      BY ResultsOfBatch
    <3> QED BY <2>1, <2>3, <3>1, AcksStep
  <2> QED BY <1>1, <2>2, <2>3 DEF AcksIn
<1>3. StoreStep(S, T, c, n, n)
  BY <1>1, <1>2, AllRecordsStep
<1> QED BY <1>3 DEF T

LEMMA SettleStep ==
    ASSUME NEW w, NEW c, NEW n \in Nat, NEW S, StoreSound(S, c, n),
           NEW p, PassSound(w, S, c, n, p), NEW k \in DOMAIN p.results
    PROVE  StoreStep(S, Settle(S, p.results[k]), c, n, n)
<1> DEFINE res == p.results[k]
           T == Settle(S, res)
<1>1. res \in ProperResult /\ (res.status = "error" => res.kind # "conflict")
  BY ResultsOfBatch DEF ResultSound
<1> HIDE DEF res
<1>2. /\ T \in Store
      /\ T.local = S.local
      /\ \A r \in Rec : Settles(EntriesOf(S, r), EntriesOf(T, r), res)
  BY <1>1, SettleView DEF StoreSound
<1> HIDE DEF T
<1>3. \A r \in Rec : RecordStep(c, n, n, EntriesOf(S, r), T.local[r],
                                EntriesOf(T, r))
  BY <1>1, <1>2, StoreView, SettlesStep
<1>4. StoreStep(S, T, c, n, n)
  BY <1>2, <1>3, AllRecordsStep
<1> QED BY <1>4 DEF T, res

\* A pass that goes on with the results todo.
LEMMA TodoPass ==
    ASSUME NEW w, NEW S, NEW T, NEW c \in Client, NEW n \in Nat,
           StoreSound(S, c, n), StoreStep(S, T, c, n, n), ServerSound(w),
           NEW p, PassSound(w, S, c, n, p), NEW pc \in PassPc,
           NEW todo, todo \subseteq DOMAIN p.results
    PROVE  PassSound(w, T, c, n, [p EXCEPT !.pc = pc, !.todo = todo])
<1> DEFINE q == [p EXCEPT !.pc = pc, !.todo = todo]
<1>1. PassSound(w, T, c, n, p)
  <2>1. n <= n /\ Advances(w, w)
    BY AdvancesReflexive DEF ServerSound
  <2> QED BY <2>1, PassKept
<1>2. q = MadePass(pc, p.batch, p.results, todo, p.rows, p.snap)
  BY PassFields, PassUpdates
<1>3. todo \in SUBSET Nat
  BY PassFields
<1> HIDE DEF q
<1>4. /\ q \in Pass
      /\ q.batch = p.batch
      /\ q.results = p.results
      /\ q.todo = todo
      /\ q.rows = p.rows
  BY <1>1, <1>2, <1>3, PassFields, MadePassFields
<1>5. PassSound(w, T, c, n, q)
  BY <1>1, <1>4 DEF PassSound
<1> QED BY <1>5 DEF q

LEMMA AcknowledgeWellFormed ==
    ASSUME WellFormed, NEW c \in Client, AcknowledgeResults(c)
    PROVE  WellFormed'
<1> DEFINE S == cl[c]
           n == used[c]
           p == pass[c]
           T == Acknowledge(S, p.results)
           todo == Unsettled(p.results)
           q == [p EXCEPT !.pc = AfterAnswer(todo), !.todo = todo]
<1>1. /\ TypeOK
      /\ StoreSound(S, c, n)
      /\ n \in Nat
      /\ PassSound(srv, S, c, n, p)
      /\ ServerSound(srv)
  BY ScopeFields DEF WellFormed
<1>2. /\ Worker(c, T, q)
      /\ srv' = srv
      /\ editor' = editor
      /\ late' = late
      /\ faults' = faults
      /\ delayed' = delayed
  BY DEF AcknowledgeResults
<1>3. StoreStep(S, T, c, n, n)
  BY <1>1, AcknowledgeStep
<1>4. AfterAnswer(todo) \in PassPc /\ todo \subseteq DOMAIN p.results
  BY DEF AfterAnswer, PassPc, Unsettled
<1>5. PassSound(srv, T, c, n, q)
  BY <1>1, <1>3, <1>4, TodoPass
<1>6. editor' \in [Client -> Editor] /\ faults' \in 0..MaxFaults
  BY <1>1, <1>2 DEF TypeOK
<1> QED BY <1>2, <1>3, <1>5, <1>6, QuietWorkerSound

LEMMA SettleWellFormed ==
    ASSUME WellFormed, NEW c \in Client, NEW k, SettleResult(c, k)
    PROVE  WellFormed'
<1> DEFINE S == cl[c]
           n == used[c]
           p == pass[c]
           T == Settle(S, p.results[k])
           todo == p.todo \ {k}
           q == [p EXCEPT !.pc = AfterAnswer(todo), !.todo = todo]
<1>1. /\ TypeOK
      /\ StoreSound(S, c, n)
      /\ n \in Nat
      /\ PassSound(srv, S, c, n, p)
      /\ ServerSound(srv)
  BY ScopeFields DEF WellFormed
<1>2. /\ k \in p.todo
      /\ Worker(c, T, q)
      /\ srv' = srv
      /\ editor' = editor
      /\ late' = late
      /\ faults' = faults
      /\ delayed' = delayed
  BY DEF SettleResult
<1>3. k \in DOMAIN p.results /\ todo \subseteq DOMAIN p.results
  BY <1>1, <1>2 DEF PassSound
<1>4. StoreStep(S, T, c, n, n)
  BY <1>1, <1>3, SettleStep
<1>5. AfterAnswer(todo) \in PassPc
  BY DEF AfterAnswer, PassPc
<1>6. PassSound(srv, T, c, n, q)
  BY <1>1, <1>3, <1>4, <1>5, TodoPass
<1>7. editor' \in [Client -> Editor] /\ faults' \in 0..MaxFaults
  BY <1>1, <1>2 DEF TypeOK
<1> QED BY <1>2, <1>4, <1>6, <1>7, QuietWorkerSound

\* A pass that goes on with the rows of a pull.
LEMMA PulledPass ==
    ASSUME NEW w, NEW S, NEW T, NEW c \in Client, NEW n \in Nat,
           StoreSound(S, c, n), StoreStep(S, T, c, n, n), ServerSound(w),
           NEW p, PassSound(w, S, c, n, p), NEW pc \in PassPc,
           NEW rows \in [Rec -> ProperRow], NEW snap \in Nat
    PROVE  PassSound(w, T, c, n,
                     [p EXCEPT !.pc = pc, !.rows = rows, !.snap = snap])
<1> DEFINE q == [p EXCEPT !.pc = pc, !.rows = rows, !.snap = snap]
<1>1. PassSound(w, T, c, n, p)
  <2>1. n <= n /\ Advances(w, w)
    BY AdvancesReflexive DEF ServerSound
  <2> QED BY <2>1, PassKept
<1>2. q = MadePass(pc, p.batch, p.results, p.todo, rows, snap)
  <2>1. Repulled(p, pc, rows, snap)
        = MadePass(pc, p.batch, p.results, p.todo, rows, snap)
    <3>1. p \in Pass
      BY PassFields
    <3> QED BY <3>1, RepulledIs, Zenon
  <2> QED BY <2>1, Zenon DEF Repulled
<1>3. rows \in [Rec -> Row]
  BY DEF ProperRow
<1> HIDE DEF q
<1>4. /\ q \in Pass
      /\ q.batch = p.batch
      /\ q.results = p.results
      /\ q.todo = p.todo
      /\ q.rows = rows
  BY <1>1, <1>2, <1>3, PassFields, MadePassFields
<1>5. PassSound(w, T, c, n, q)
  BY <1>1, <1>4 DEF PassSound
<1> QED BY <1>5 DEF q

LEMMA NoRowsProper == NoRows \in [Rec -> ProperRow]
BY NoRowProper DEF NoRows

\* What a pull from watermark wm returns.
Pulled(w, wm) ==
    [r \in Rec |-> IF r \in PullSet(w, wm, w.seq) THEN w.row[r] ELSE NoRow]

LEMMA PulledProper ==
    ASSUME NEW w \in ProperWork, NEW wm
    PROVE  Pulled(w, wm) \in [Rec -> ProperRow]
BY WorkFields, NoRowProper DEF Pulled

LEMMA DownloadWellFormed ==
    ASSUME WellFormed, NEW c \in Client, Download(c)
    PROVE  WellFormed'
<1> DEFINE S == cl[c]
           n == used[c]
           p == pass[c]
           rows == Pulled(srv, S.wm)
           q == [p EXCEPT !.pc = "downloaded", !.rows = rows, !.snap = srv.seq]
<1>1. /\ TypeOK
      /\ StoreSound(S, c, n)
      /\ n \in Nat
      /\ PassSound(srv, S, c, n, p)
      /\ ServerSound(srv)
      /\ srv \in ProperWork
  BY ScopeFields DEF WellFormed, ServerSound
<1>2. /\ Worker(c, S, q)
      /\ srv' = srv
      /\ editor' = editor
      /\ late' = late
      /\ faults' = faults
      /\ delayed' = delayed
  BY DEF Download, Pulled
<1>3. StoreStep(S, S, c, n, n)
  BY <1>1, SameStoreStep
<1>4. /\ "downloaded" \in PassPc
      /\ rows \in [Rec -> ProperRow]
      /\ srv.seq \in Nat
  BY <1>1, PulledProper, WorkFields DEF PassPc
<1>5. PassSound(srv, S, c, n, q)
  BY <1>1, <1>3, <1>4, PulledPass
<1>6. editor' \in [Client -> Editor] /\ faults' \in 0..MaxFaults
  BY <1>1, <1>2 DEF TypeOK
<1> QED BY <1>2, <1>3, <1>5, <1>6, QuietWorkerSound

LEMMA PullFailsWellFormed ==
    ASSUME WellFormed, NEW c \in Client, PullFails(c)
    PROVE  WellFormed'
<1> DEFINE S == cl[c]
           n == used[c]
           p == pass[c]
           q == [p EXCEPT !.pc = "done", !.rows = NoRows, !.snap = 0]
<1>1. /\ TypeOK
      /\ StoreSound(S, c, n)
      /\ n \in Nat
      /\ PassSound(srv, S, c, n, p)
      /\ ServerSound(srv)
  BY ScopeFields DEF WellFormed
<1>2. /\ Fault(1)
      /\ Worker(c, S, q)
      /\ srv' = srv
      /\ editor' = editor
      /\ late' = late
      /\ delayed' = delayed
  BY DEF PullFails
<1>3. StoreStep(S, S, c, n, n)
  BY <1>1, SameStoreStep
<1>4. "done" \in PassPc
  BY DEF PassPc
<1>5. PassSound(srv, S, c, n, q)
  BY <1>1, <1>3, <1>4, NoRowsProper, PulledPass
<1>6. editor' \in [Client -> Editor] /\ faults' \in 0..MaxFaults
  BY <1>1, <1>2, FaultType DEF TypeOK
<1> QED BY <1>2, <1>3, <1>5, <1>6, QuietWorkerSound

LEMMA ApplyPullStep ==
    ASSUME NEW c, NEW n \in Nat, NEW S, StoreSound(S, c, n),
           NEW rows \in [Rec -> ProperRow], NEW snap \in Nat
    PROVE  StoreStep(S, ApplyPull(S, rows, snap), c, n, n)
<1> DEFINE T == ApplyPull(S, rows, snap)
<1>1. /\ T \in Store
      /\ \A r \in Rec : Pulls(rows[r], S.local[r], EntriesOf(S, r),
                              T.local[r], EntriesOf(T, r))
  BY ApplyPullView DEF StoreSound
<1> HIDE DEF T
<1>2. \A r \in Rec : RecordStep(c, n, n, EntriesOf(S, r), T.local[r],
                                EntriesOf(T, r))
  <2> SUFFICES ASSUME NEW r \in Rec
               PROVE  RecordStep(c, n, n, EntriesOf(S, r), T.local[r],
                                 EntriesOf(T, r))
    OBVIOUS
  <2>1. rows[r] \in ProperRow /\ ViewSound(r, S.local[r], EntriesOf(S, r))
    BY StoreView
  <2> QED BY <1>1, <2>1, PullsStep
<1>3. StoreStep(S, T, c, n, n)
  BY <1>1, <1>2, AllRecordsStep
<1> QED BY <1>3 DEF T

LEMMA ApplyDownloadWellFormed ==
    ASSUME WellFormed, NEW c \in Client, ApplyDownload(c)
    PROVE  WellFormed'
<1> DEFINE S == cl[c]
           n == used[c]
           p == pass[c]
           T == ApplyPull(S, p.rows, p.snap)
           q == [p EXCEPT !.pc = "done", !.rows = NoRows, !.snap = 0]
<1>1. /\ TypeOK
      /\ StoreSound(S, c, n)
      /\ n \in Nat
      /\ PassSound(srv, S, c, n, p)
      /\ ServerSound(srv)
  BY ScopeFields DEF WellFormed
<1>2. /\ Worker(c, T, q)
      /\ srv' = srv
      /\ editor' = editor
      /\ late' = late
      /\ faults' = faults
      /\ delayed' = delayed
  BY DEF ApplyDownload
<1>3. p.rows \in [Rec -> ProperRow] /\ p.snap \in Nat
  BY <1>1, PassFields
<1>4. StoreStep(S, T, c, n, n)
  BY <1>1, <1>3, ApplyPullStep
<1>5. "done" \in PassPc
  BY DEF PassPc
<1>6. PassSound(srv, T, c, n, q)
  BY <1>1, <1>4, <1>5, NoRowsProper, PulledPass
<1>7. editor' \in [Client -> Editor] /\ faults' \in 0..MaxFaults
  BY <1>1, <1>2 DEF TypeOK
<1> QED BY <1>2, <1>4, <1>6, <1>7, QuietWorkerSound

\* The version a form moves to is the one it had or that of an accepted
\* result for a change with its base.
LEMMA FollowedCases ==
    ASSUME WellFormed, NEW c \in Client, NEW r, NEW b
    PROVE  \/ Followed(c, r, b) = b
           \/ \E k \in DOMAIN pass[c].results :
                 /\ pass[c].results[k].status = "accepted"
                 /\ AckVersion(pass[c].results[k]) > 0
                 /\ pass[c].results[k].rec = r
                 /\ pass[c].batch[k].pay.base = b
                 /\ Followed(c, r, b) = AckVersion(pass[c].results[k])
<1> DEFINE p == pass[c]
           acks == {k \in DOMAIN p.results :
                       /\ p.results[k].status = "accepted"
                       /\ AckVersion(p.results[k]) > 0
                       /\ p.results[k].rec = r
                       /\ p.batch[k].pay.base = b}
           first == CHOOSE k \in acks : \A j \in acks : k <= j
<1>1. Followed(c, r, b) = IF acks = {} THEN b ELSE AckVersion(p.results[first])
  BY DEF Followed
<1>2. acks \subseteq Nat
  <2>1. PassSound(srv, cl[c], c, used[c], p)
    BY DEF WellFormed
  <2>2. p.results \in Seq(ProperResult)
    BY <2>1, PassFields
  <2> QED BY <2>2
<1>3. acks # {} => first \in acks
  BY <1>2, LeastNat
<1> HIDE DEF first
<1> QED BY <1>1, <1>3

LEMMA FinishWellFormed ==
    ASSUME WellFormed, NEW c \in Client, Finish(c)
    PROVE  WellFormed'
<1> DEFINE S == cl[c]
           n == used[c]
           p == pass[c]
           ed == editor[c]
<1>1. /\ TypeOK
      /\ StoreSound(S, c, n)
      /\ PassSound(srv, S, c, n, p)
  BY DEF WellFormed
<1>2. /\ Worker(c, S, NoPass)
      /\ srv' = srv
      /\ late' = late
      /\ faults' = faults
      /\ delayed' = delayed
  BY DEF Finish
<1>3. StoreStep(S, S, c, n, n) /\ PassSound(srv, S, c, n, NoPass)
  BY <1>1, SameStoreStep, NoPassSound
<1>4. editor' \in [Client -> Editor]
  <2>1. CASE ed = Closed
    BY <1>1, <2>1 DEF TypeOK, Finish
  <2>2. CASE ed # Closed
    <3> DEFINE b == Followed(c, ed.rec, ed.base)
    <3>1. ed \in [rec: Rec, base: Nat, val: Val] /\ ed.base \in Nat
      BY <1>1, <2>2, OpenForm
    <3>2. \A k \in DOMAIN p.results : AckVersion(p.results[k]) \in Nat
      BY <1>1, ResultsOfBatch DEF ProperResult, AckVersion
    <3>3. b \in Nat
      BY <3>1, <3>2, FollowedCases
    <3>4. editor' = [editor EXCEPT ![c] = [ed EXCEPT !.base = b]]
      BY <2>2 DEF Finish
    <3> HIDE DEF b
    <3>5. [ed EXCEPT !.base = b] \in Editor
      BY <3>1, <3>3 DEF Editor
    <3> QED BY <1>1, <3>4, <3>5 DEF TypeOK
  <2> QED BY <2>1, <2>2
<1>5. faults' \in 0..MaxFaults
  BY <1>1, <1>2 DEF TypeOK
<1> QED BY <1>2, <1>3, <1>4, <1>5, QuietWorkerSound

LEMMA CrashWellFormed ==
    ASSUME WellFormed, NEW c \in Client, Crash(c)
    PROVE  WellFormed'
<1>1. TypeOK /\ StoreSound(cl[c], c, used[c])
  BY DEF WellFormed
<1>2. /\ Fault(1)
      /\ Worker(c, cl[c], NoPass)
      /\ editor' = [editor EXCEPT ![c] = Closed]
      /\ srv' = srv
      /\ late' = late
      /\ delayed' = delayed
  BY DEF Crash
<1>3. /\ StoreStep(cl[c], cl[c], c, used[c], used[c])
      /\ PassSound(srv, cl[c], c, used[c], NoPass)
  BY <1>1, SameStoreStep, NoPassSound
<1>4. editor' \in [Client -> Editor]
  BY <1>1, <1>2 DEF TypeOK, Editor
<1>5. faults' \in 0..MaxFaults
  BY <1>1, <1>2, FaultType
<1> QED BY <1>2, <1>3, <1>4, <1>5, QuietWorkerSound

LEMMA StepWellFormed ==
    ASSUME WellFormed, [Next]_vars
    PROVE  WellFormed'
<1>1. scope.devices \subseteq Client /\ scope.records \subseteq Rec
  BY ScopeFields DEF WellFormed
<1>2. ASSUME NEW c \in Client, Edits(c)
      PROVE  WellFormed'
  <2>1. ASSUME NEW r \in scope.records, NEW e \in Edit, Create(c, r, e)
        PROVE  WellFormed'
    BY <1>1, <2>1, CreateWellFormed
  <2>2. ASSUME NEW r \in Rec, Open(c, r)
        PROVE  WellFormed'
    BY <2>2, OpenWellFormed
  <2>3. CASE Close(c)
    BY <2>3, CloseWellFormed
  <2>4. ASSUME NEW e \in Edit, Save(c, e)
        PROVE  WellFormed'
    BY <2>4, SaveWellFormed
  <2>5. CASE Delete(c)
    BY <2>5, DeleteWellFormed
  <2>6. ASSUME NEW e \in Edit, DeleteDirty(c, e)
        PROVE  WellFormed'
    BY <2>6, DeleteDirtyWellFormed
  <2>7. ASSUME NEW x \in cl[c].box,
               ResolveKeepMine(c, x) \/ ResolveUseServer(c, x)
               \/ ResolveMerge(c, x)
        PROVE  WellFormed'
    BY <2>7, KeepMineWellFormed, UseServerWellFormed, MergeWellFormed
  <2> QED BY <1>2, <2>1, <2>2, <2>3, <2>4, <2>5, <2>6, <2>7 DEF Edits
<1>3. ASSUME NEW c \in Client, PassStep(c)
      PROVE  WellFormed'
  <2>1. ASSUME NEW due, Select(c, due)
        PROVE  WellFormed'
    BY <2>1, SelectWellFormed
  <2>2. ASSUME NEW fails \in BOOLEAN, Push(c, fails)
        PROVE  WellFormed'
    BY <2>2, PushWellFormed
  <2>3. ASSUME NEW k, SettleResult(c, k)
        PROVE  WellFormed'
    BY <2>3, SettleWellFormed
  <2> QED BY <1>3, <2>1, <2>2, <2>3, FailBatchWellFormed,
             AcknowledgeWellFormed, DownloadWellFormed,
             ApplyDownloadWellFormed, FinishWellFormed DEF PassStep
<1>4. ASSUME NEW c \in Client, Faults(c)
      PROVE  WellFormed'
  BY <1>4, PushFailsWellFormed, PullFailsWellFormed, CrashWellFormed DEF Faults
<1>5. CASE UNCHANGED vars
  <2>1. /\ srv' = srv
        /\ cl' = cl
        /\ pass' = pass
        /\ editor' = editor
        /\ late' = late
        /\ used' = used
        /\ free' = free
        /\ faults' = faults
        /\ delayed' = delayed
        /\ scope' = scope
        /\ gone' = gone
        /\ unseen' = unseen
        /\ dead' = dead
    BY <1>5 DEF vars, history
  <2> QED BY <2>1 DEF WellFormed, TypeOK
<1> QED BY <1>1, <1>2, <1>3, <1>4, <1>5, LoginWellFormed,
           LateDeliveryWellFormed DEF Next

LEMMA WellFormedAlways == Spec => []WellFormed
<1>1. WellFormed /\ [Next]_vars => WellFormed'
  BY StepWellFormed
<1> QED BY InitWellFormed, <1>1, PTL DEF Spec

LEMMA WellFormedOutbox == WellFormed => OutboxSound
<1> SUFFICES ASSUME WellFormed
             PROVE  OutboxSound
  OBVIOUS
<1>1. OneEntryPerRecord
  BY DEF WellFormed, StoreSound, Distinct, OneEntryPerRecord
<1>2. QueuedIsShown
  <2> SUFFICES ASSUME NEW c \in Client, NEW x \in cl[c].box
               PROVE  Shown(c, x.rec) = IF x.op = "delete" THEN {} ELSE x.val
    BY DEF QueuedIsShown
  <2>1. StoreSound(cl[c], c, used[c])
    BY DEF WellFormed
  <2>2. x.op \in Ops /\ Shows(cl[c].local[x.rec], x)
    BY <2>1, EntrySound
  <2> QED BY <2>2 DEF Shown, Shows, Ops
<1> QED BY <1>1, <1>2 DEF OutboxSound, WellFormed

\* What the client's database promises its users, for any number of devices,
\* records, edits and faults: the outbox holds at most one entry for a
\* record, and that entry is what the record's cached row shows, through any
\* interleaving of the window's saves, deletes and resolutions with the
\* background pass (_replace_outbox_entry, _apply_pull_entities).
THEOREM OutboxAlwaysSound == Spec => []OutboxSound
BY WellFormedAlways, WellFormedOutbox, PTL

-----------------------------------------------------------------------------
(* The second invariant: what became of a delete                           *)

\* The records device c's user deleted before the server had confirmed them,
\* and after.
Unsynced(dd, c) == {r \in Rec : <<c, r, FALSE>> \in dd}
Synced(dd, c) == {r \in Rec : <<c, r, TRUE>> \in dd}

Accepted(w, id) == w.rcpt[id] # NoReceipt /\ w.rcpt[id].status = "accepted"
Rejected(w, id) == w.rcpt[id] # NoReceipt /\ w.rcpt[id].status = "conflict"

Exists(w, r) == w.row[r].ver > 0

\* Accepting the queued delete x of a record the server has deletes it.
Firm(w, r, x) == Exists(w, r) /\ (Accepted(w, x.id) => w.row[r].del)

\* An entry of record r on a device whose form shows record ed.
EntryTraced(w, ed, un, r, x) ==
    /\ IsConflict(x) => Rejected(w, x.id) /\ Exists(w, r)
    /\ x.op = "delete" => ed # r /\ (r \in un \/ Firm(w, r, x))

DeleteWaits(w, r, E) == \E x \in E : x.op = "delete" /\ Firm(w, r, x)

\* Record r on a device: a delete of a confirmed record has reached the
\* server or is queued.
Traces(w, ed, un, sy, r, loc, E) ==
    /\ loc.ver > 0 => Exists(w, r)
    /\ \A x \in E : EntryTraced(w, ed, un, r, x)
    /\ r \in sy => Exists(w, r) /\ (w.row[r].del \/ DeleteWaits(w, r, E))

\* An entry asks for what its change asked for, unless it was rejected: only
\* then can its operation have been changed under the same identifier.
OpsMatch(w, S, batch) ==
    \A k \in DOMAIN batch : \A x \in S.box :
        x.id = batch[k].id => x.op = batch[k].pay.op \/ Rejected(w, x.id)

RowsKnown(w, rows) == \A r \in Rec : rows[r].ver > 0 => Exists(w, r)

DeviceTraced(w, S, p, ed, un, sy) ==
    /\ OpsMatch(w, S, p.batch)
    /\ RowsKnown(w, p.rows)
    /\ \A r \in Rec : Traces(w, ed, un, sy, r, S.local[r], EntriesOf(S, r))

ReceiptsUsed(w) ==
    \A id \in ChangeId : w.rcpt[id] # NoReceipt => id[2] <= used[id[1]]

TracedBy(w) ==
    /\ ReceiptsUsed(w)
    /\ \A m \in late : OpsMatch(w, cl[m.user], m.batch)
    /\ \A c \in Client : DeviceTraced(w, cl[c], pass[c], editor[c].rec,
                                      Unsynced(dead, c), Synced(dead, c))

Traced == WellFormed /\ TracedBy(srv)

\* The server's steps.
LEMMA ReceiptsGrow ==
    ASSUME NEW w \in ProperWork, NEW v \in ProperWork, Advances(w, v),
           NEW id \in ChangeId
    PROVE  /\ Rejected(w, id) => Rejected(v, id)
           /\ Accepted(w, id) => Accepted(v, id)
           /\ w.rcpt[id] # NoReceipt /\ Accepted(v, id) => Accepted(w, id)
BY DEF Advances, Rejected, Accepted

LEMMA ExistsKept ==
    ASSUME NEW w \in ProperWork, NEW v \in ProperWork, Advances(w, v),
           NEW r \in Rec, Exists(w, r)
    PROVE  /\ Exists(v, r)
           /\ w.row[r].del => v.row[r].del
<1>1. w.row[r].ver \in Nat /\ v.row[r].ver \in Nat /\ w.row[r].ver <= v.row[r].ver
  BY WorkFields, AdvancesVersion
<1>2. w.row[r].del => v.row[r].del
  BY DEF Advances, Exists
<1> QED BY <1>1, <1>2 DEF Exists

\* The changes of a batch that an entry of record r may have sent.
SentBy(w, x, r, batch) ==
    \A k \in 1..Len(batch) : x.id = batch[k].id =>
        r = batch[k].pay.rec /\ (x.op = batch[k].pay.op \/ Rejected(w, x.id))

LEMMA FirmKept ==
    ASSUME NEW w, ServerSound(w), NEW v, ServerSound(v), Advances(w, v),
           NEW batch, NewReceipts(w, v, batch), NEW r \in Rec,
           NEW x \in OutboxEntry, SentBy(w, x, r, batch), x.op = "delete",
           Firm(w, r, x)
    PROVE  Firm(v, r, x)
<1>1. /\ w \in ProperWork
      /\ v \in ProperWork
      /\ x.id \in ChangeId
  BY EntryFields DEF ServerSound
<1>2. Exists(v, r)
  BY <1>1, ExistsKept DEF Firm
<1>3. ASSUME Accepted(v, x.id) PROVE v.row[r].del
  <2>1. CASE Accepted(w, x.id)
    BY <1>1, <2>1, ExistsKept DEF Firm
  <2>2. CASE ~Accepted(w, x.id)
    <3>1. w.rcpt[x.id] = NoReceipt
      BY <1>1, <1>3, <2>2, ReceiptsGrow
    <3>2. v.rcpt[x.id] # w.rcpt[x.id]
      BY <1>3, <3>1 DEF Accepted
    <3>3. PICK j \in 1..Len(batch) : /\ x.id = batch[j].id
                                     /\ NewReceipt(w, batch[j], v.rcpt[x.id])
      BY <1>1, <3>2 DEF NewReceipts
    <3>4. /\ batch[j].pay.rec = r
          /\ batch[j].pay.op = "delete"
      BY <3>1, <3>3 DEF SentBy, Rejected
    <3>5. /\ v.rcpt[x.id].pay = batch[j].pay
          /\ v.rcpt[x.id].status = "accepted"
          /\ v.rcpt[x.id].ver > 0
      BY <1>3, <3>3, <3>4 DEF NewReceipt, Accepted, Firm, Exists
    <3>6. ReceiptSound(v, v.rcpt[x.id])
      BY <1>1, <1>3 DEF ServerSound, Accepted
    <3> QED BY <3>4, <3>5, <3>6 DEF ReceiptSound
  <2> QED BY <2>1, <2>2
<1> QED BY <1>2, <1>3 DEF Firm

LEMMA TracesKept ==
    ASSUME NEW w, ServerSound(w), NEW v, ServerSound(v), Advances(w, v),
           NEW batch, NewReceipts(w, v, batch), NEW r \in Rec,
           NEW E \in SUBSET OutboxEntry, \A x \in E : SentBy(w, x, r, batch),
           NEW ed, NEW un, NEW sy, NEW loc, Traces(w, ed, un, sy, r, loc, E)
    PROVE  Traces(v, ed, un, sy, r, loc, E)
<1>1. w \in ProperWork /\ v \in ProperWork
  BY DEF ServerSound
<1>2. Exists(w, r) => Exists(v, r) /\ (w.row[r].del => v.row[r].del)
  BY <1>1, ExistsKept
<1>3. ASSUME NEW x \in E
      PROVE  /\ EntryTraced(v, ed, un, r, x)
             /\ x.op = "delete" /\ Firm(w, r, x) => Firm(v, r, x)
  <2>1. EntryTraced(w, ed, un, r, x)
    BY DEF Traces
  <2>2. Rejected(w, x.id) => Rejected(v, x.id)
    BY <1>1, EntryFields, ReceiptsGrow
  <2>3. x.op = "delete" /\ Firm(w, r, x) => Firm(v, r, x)
    BY FirmKept
  <2> QED BY <1>2, <2>1, <2>2, <2>3 DEF EntryTraced
<1>4. DeleteWaits(w, r, E) => DeleteWaits(v, r, E)
  BY <1>3 DEF DeleteWaits
<1> QED BY <1>2, <1>3, <1>4 DEF Traces

LEMMA OpsMatchKept ==
    ASSUME NEW w \in ProperWork, NEW v \in ProperWork, Advances(w, v),
           NEW S \in Store, NEW batch, OpsMatch(w, S, batch)
    PROVE  OpsMatch(v, S, batch)
<1>1. \A x \in S.box : Rejected(w, x.id) => Rejected(v, x.id)
  BY StoreFields, EntryFields, ReceiptsGrow
<1> QED BY <1>1 DEF OpsMatch

\* A request of device u, handled now.
LEMMA ServerTraced ==
    ASSUME WellFormed, TracedBy(srv), NEW v, ServerSound(v), Advances(srv, v),
           NEW u \in Client, NEW batch, NewReceipts(srv, v, batch),
           BatchSound(cl[u], u, used[u], batch), OpsMatch(srv, cl[u], batch)
    PROVE  TracedBy(v)
<1>1. /\ srv \in ProperWork
      /\ v \in ProperWork
      /\ ServerSound(srv)
      /\ batch \in Seq(ClientChange)
      /\ DOMAIN batch = 1..Len(batch)
      /\ \A m \in late : m.user \in Client
  BY UserIsClient DEF ServerSound, WellFormed, BatchSound, GoodBatch, TypeOK
<1>2. \A c \in Client : StoreSound(cl[c], c, used[c]) /\ cl[c] \in Store
  BY DEF WellFormed, StoreSound
<1>3. ReceiptsUsed(v)
  <2> SUFFICES ASSUME NEW id \in ChangeId, v.rcpt[id] # NoReceipt
               PROVE  id[2] <= used[id[1]]
    BY DEF ReceiptsUsed
  <2>1. CASE v.rcpt[id] = srv.rcpt[id]
    BY <2>1 DEF TracedBy, ReceiptsUsed
  <2>2. CASE v.rcpt[id] # srv.rcpt[id]
    <3>1. PICK j \in 1..Len(batch) : id = batch[j].id
      BY <2>2 DEF NewReceipts
    <3> QED BY <1>1, <3>1 DEF BatchSound, IdOf
  <2> QED BY <2>1, <2>2
<1>4. \A m \in late : OpsMatch(v, cl[m.user], m.batch)
  BY <1>1, <1>2, OpsMatchKept DEF TracedBy
<1>5. ASSUME NEW c \in Client
      PROVE  DeviceTraced(v, cl[c], pass[c], editor[c].rec,
                          Unsynced(dead, c), Synced(dead, c))
  <2> DEFINE S == cl[c]
             ed == editor[c].rec
             un == Unsynced(dead, c)
             sy == Synced(dead, c)
  <2>1. DeviceTraced(srv, S, pass[c], ed, un, sy)
    BY DEF TracedBy
  <2>2. OpsMatch(v, S, pass[c].batch)
    BY <1>1, <1>2, <2>1, OpsMatchKept DEF DeviceTraced
  <2>3. RowsKnown(v, pass[c].rows)
    BY <1>1, <2>1, ExistsKept DEF DeviceTraced, RowsKnown
  <2>4. ASSUME NEW r \in Rec
        PROVE  Traces(v, ed, un, sy, r, S.local[r], EntriesOf(S, r))
    <3> DEFINE E == EntriesOf(S, r)
    <3>1. E \in SUBSET OutboxEntry
      BY <1>2, StoreFields DEF EntriesOf
    <3>2. ASSUME NEW x \in E PROVE SentBy(srv, x, r, batch)
      <4>1. x \in S.box /\ x.rec = r /\ x.id[1] = c
        BY <1>2 DEF EntriesOf, StoreSound, IdOf
      <4>2. SUFFICES ASSUME NEW k \in 1..Len(batch), x.id = batch[k].id
                     PROVE  /\ r = batch[k].pay.rec
                            /\ x.op = batch[k].pay.op \/ Rejected(srv, x.id)
        BY DEF SentBy
      <4>3. c = u
        BY <1>1, <4>1, <4>2 DEF BatchSound, IdOf
      <4> QED BY <1>1, <4>1, <4>2, <4>3 DEF BatchSound, OpsMatch
    <3>3. Traces(srv, ed, un, sy, r, S.local[r], E)
      BY <2>1 DEF DeviceTraced
    <3> HIDE DEF E, S, ed, un, sy
    <3> QED BY <1>1, <3>1, <3>2, <3>3, TracesKept DEF E
  <2> QED BY <2>2, <2>3, <2>4 DEF DeviceTraced
<1> QED BY <1>3, <1>4, <1>5 DEF TracedBy

\* The entries E of a record become F while numbers above n are handed out.
KeepsOps(w, n, E, F) ==
    \A y \in F : \/ \E x \in E : /\ x.id = y.id
                                 /\ y.op = x.op \/ Rejected(w, y.id)
                 \/ n < y.id[2]

LEMMA OpsKept ==
    ASSUME NEW w, NEW c, NEW n \in Nat, NEW S \in Store, NEW T \in Store,
           \A r \in Rec : KeepsOps(w, n, EntriesOf(S, r), EntriesOf(T, r)),
           NEW batch, BatchSound(S, c, n, batch), OpsMatch(w, S, batch)
    PROVE  OpsMatch(w, T, batch)
<1> SUFFICES ASSUME NEW k \in DOMAIN batch, NEW y \in T.box,
                    y.id = batch[k].id
             PROVE  y.op = batch[k].pay.op \/ Rejected(w, y.id)
  BY DEF OpsMatch
<1>1. /\ y.rec \in Rec
      /\ y.id[2] \in Nat
      /\ y \in EntriesOf(T, y.rec)
  BY StoreFields, EntryFields DEF EntriesOf
<1>2. y.id[2] <= n
  BY DEF BatchSound, IdOf
<1>3. PICK x \in EntriesOf(S, y.rec) : /\ x.id = y.id
                                       /\ y.op = x.op \/ Rejected(w, y.id)
  BY <1>1, <1>2 DEF KeepsOps
<1>4. x \in S.box
  BY DEF EntriesOf
<1> QED BY <1>3, <1>4 DEF OpsMatch

\* A step of device c, the server's tables being those after it.
LEMMA TracedStep ==
    ASSUME WellFormed, TracedBy(srv'), WellFormed', NEW c \in Client,
           \A d \in Client \ {c} : /\ cl'[d] = cl[d]
                                   /\ pass'[d] = pass[d]
                                   /\ editor'[d] = editor[d]
                                   /\ Unsynced(dead', d) = Unsynced(dead, d)
                                   /\ Synced(dead', d) = Synced(dead, d),
           \A d \in Client : used[d] <= used'[d],
           \A q \in late' : \/ q \in late
                            \/ q = [user |-> c, batch |-> pass[c].batch],
           \A r \in Rec : KeepsOps(srv', used[c], EntriesOf(cl[c], r),
                                   EntriesOf(cl'[c], r)),
           pass'[c].batch = pass[c].batch
              \/ OpsMatch(srv', cl'[c], pass'[c].batch),
           RowsKnown(srv', pass'[c].rows),
           \A r \in Rec : Traces(srv', editor'[c].rec, Unsynced(dead', c),
                                 Synced(dead', c), r, cl'[c].local[r],
                                 EntriesOf(cl'[c], r))
    PROVE  Traced'
<1>1. /\ \A d \in Client : /\ cl[d] \in Store
                           /\ cl'[d] \in Store
                           /\ used[d] \in Nat
                           /\ used'[d] \in Nat
                           /\ BatchSound(cl[d], d, used[d], pass[d].batch)
      /\ \A m \in late : m.user \in Client
  <2>1. /\ \A d \in Client : used[d] \in Nat
        /\ \A m \in late : m.user \in Client
    BY ScopeFields, UserIsClient DEF WellFormed, TypeOK
  <2>2. \A d \in Client : used'[d] \in Nat
    BY OfflineAssumption DEF WellFormed, TypeOK
  <2> QED BY <2>1, <2>2 DEF WellFormed, StoreSound, PassSound
<1>2. ASSUME NEW batch, BatchSound(cl[c], c, used[c], batch),
             OpsMatch(srv', cl[c], batch)
      PROVE  OpsMatch(srv', cl'[c], batch)
  BY <1>1, <1>2, OpsKept
<1>3. OpsMatch(srv', cl[c], pass[c].batch)
  BY DEF TracedBy, DeviceTraced
<1>4. OpsMatch(srv', cl'[c], pass'[c].batch)
  BY <1>1, <1>2, <1>3
<1>5. ASSUME NEW m \in late'
      PROVE  OpsMatch(srv', cl'[m.user], m.batch)
  <2>1. CASE m = [user |-> c, batch |-> pass[c].batch]
    BY <1>1, <1>2, <1>3, <2>1
  <2>2. CASE m \in late
    <3>1. /\ OpsMatch(srv', cl[m.user], m.batch)
          /\ BatchSound(cl[m.user], m.user, used[m.user], m.batch)
          /\ m.user \in Client
      BY <1>1, <2>2 DEF TracedBy, WellFormed
    <3>2. CASE m.user = c
      BY <1>2, <3>1, <3>2
    <3>3. CASE m.user # c
      BY <3>1, <3>3
    <3> QED BY <3>2, <3>3
  <2> QED BY <2>1, <2>2
<1>6. ASSUME NEW d \in Client
      PROVE  DeviceTraced(srv', cl'[d], pass'[d], editor'[d].rec,
                          Unsynced(dead', d), Synced(dead', d))
  <2>1. CASE d = c
    BY <1>4, <2>1 DEF DeviceTraced
  <2>2. CASE d # c
    BY <2>2 DEF TracedBy
  <2> QED BY <2>1, <2>2
<1>7. ASSUME NEW id \in ChangeId, srv'.rcpt[id] # NoReceipt
      PROVE  id[2] <= used'[id[1]]
  <2>1. id[2] \in Nat /\ id[1] \in Client
    BY OfflineAssumption
  <2>2. id[2] <= used[id[1]]
    BY <1>7 DEF TracedBy, ReceiptsUsed
  <2> QED BY <1>1, <2>1, <2>2
<1> QED BY <1>5, <1>6, <1>7 DEF Traced, TracedBy, ReceiptsUsed

-----------------------------------------------------------------------------
(* Following a delete through what an operation makes of a record          *)

LEMMA SameWorkTraces ==
    ASSUME NEW w, NEW ed, NEW un, NEW sy, NEW r, NEW loc, NEW x,
           Traces(w, ed, un, sy, r, loc, {x}),
           NEW y, SameWork(x, y),
           IsConflict(y) => Rejected(w, y.id) /\ Exists(w, r),
           NEW row, row.ver > 0 => Exists(w, r), NEW n
    PROVE  /\ Traces(w, ed, un, sy, r, row, {y})
           /\ KeepsOps(w, n, {x}, {y})
<1>1. y.id = x.id /\ y.op = x.op
  BY DEF SameWork
<1>2. EntryTraced(w, ed, un, r, x)
  BY DEF Traces
<1>3. EntryTraced(w, ed, un, r, y)
  BY <1>1, <1>2 DEF EntryTraced, Firm
<1>4. DeleteWaits(w, r, {x}) => DeleteWaits(w, r, {y})
  BY <1>1 DEF DeleteWaits, Firm
<1>5. Traces(w, ed, un, sy, r, row, {y})
  BY <1>3, <1>4 DEF Traces
<1>6. KeepsOps(w, n, {x}, {y})
  BY <1>1 DEF KeepsOps
<1> QED BY <1>5, <1>6

\* The entries of conflicts are those of changes the server has rejected.
ConflictsTraced(w, r, E) ==
    \A x \in E : IsConflict(x) => Rejected(w, x.id) /\ Exists(w, r)

LEMMA NoneTraces ==
    ASSUME NEW w, NEW n, NEW E
    PROVE  /\ KeepsOps(w, n, E, {})
           /\ KeepsOps(w, n, E, E)
BY DEF KeepsOps

LEMMA TouchesTraces ==
    ASSUME NEW w, NEW ed, NEW un, NEW sy, NEW r, NEW loc, NEW E,
           Traces(w, ed, un, sy, r, loc, E), NEW F, NEW ids,
           Touches(E, F, ids), NEW n
    PROVE  /\ Traces(w, ed, un, sy, r, loc, F)
           /\ KeepsOps(w, n, E, F)
<1>1. CASE E = {} /\ F = {}
  BY <1>1, NoneTraces
<1>2. ASSUME NEW x, NEW y, E = {x}, F = {y}, Touched(x, y)
      PROVE  /\ Traces(w, ed, un, sy, r, loc, F)
             /\ KeepsOps(w, n, E, F)
  <2>1. SameWork(x, y) /\ (IsConflict(y) => IsConflict(x)) /\ y.id = x.id
    BY <1>2 DEF Touched, SameWork
  <2>2. IsConflict(y) => Rejected(w, y.id) /\ Exists(w, r)
    BY <1>2, <2>1 DEF Traces, EntryTraced
  <2>3. loc.ver > 0 => Exists(w, r)
    BY DEF Traces
  <2> QED BY <1>2, <2>1, <2>2, <2>3, SameWorkTraces
<1> QED BY <1>1, <1>2 DEF Touches

\* A new entry, under an identifier the server has not seen.
LEMMA FreshTraces ==
    ASSUME NEW w, NEW c, NEW n, NEW m, NEW id \in ChangeId,
           FreshId(c, n, m, id), w.rcpt[id] = NoReceipt, NEW r \in Rec,
           NEW op \in Ops, NEW base \in Nat, NEW val \in Val, NEW E,
           NEW ed, NEW un, NEW sy, NEW row, row.ver > 0 => Exists(w, r),
           op = "delete" => ed # r /\ (r \in un \/ Exists(w, r)),
           r \in sy => Exists(w, r) /\ (w.row[r].del \/ op = "delete")
    PROVE  /\ Traces(w, ed, un, sy, r, row, {Fresh(id, r, op, base, val)})
           /\ KeepsOps(w, n, E, {Fresh(id, r, op, base, val)})
<1> DEFINE y == Fresh(id, r, op, base, val)
<1>1. y.id = id /\ y.op = op /\ y.status = "pending"
  BY FreshFields
<1> HIDE DEF y
<1>2. ~IsConflict(y) /\ ~Accepted(w, y.id)
  BY <1>1 DEF IsConflict, Accepted
<1>3. EntryTraced(w, ed, un, r, y)
  BY <1>1, <1>2 DEF EntryTraced, Firm
<1>4. op = "delete" /\ Exists(w, r) => DeleteWaits(w, r, {y})
  BY <1>1, <1>2 DEF DeleteWaits, Firm
<1>5. Traces(w, ed, un, sy, r, row, {y})
  BY <1>3, <1>4 DEF Traces
<1>6. KeepsOps(w, n, E, {y})
  BY <1>1 DEF KeepsOps, FreshId
<1> QED BY <1>5, <1>6 DEF y

\* The entry of a conflict under another operation: the server has rejected
\* its identifier, and will not accept it.
LEMMA RefreshTraces ==
    ASSUME NEW w, NEW n, NEW op \in Ops, NEW val \in Val,
           NEW E \in SUBSET OutboxEntry, NEW x \in E, IsConflict(x), NEW r,
           Rejected(w, x.id), Exists(w, r),
           NEW ed, NEW un, NEW sy, NEW row,
           op = "delete" => ed # r,
           r \in sy => w.row[r].del \/ op = "delete"
    PROVE  /\ Traces(w, ed, un, sy, r, row, {Refreshed(x, op, val)})
           /\ KeepsOps(w, n, E, {Refreshed(x, op, val)})
<1> DEFINE y == Refreshed(x, op, val)
<1>1. y.id = x.id /\ y.op = op
  BY RefreshedFields
<1> HIDE DEF y
<1>2. Rejected(w, y.id) /\ ~Accepted(w, y.id)
  BY <1>1 DEF Rejected, Accepted
<1>3. EntryTraced(w, ed, un, r, y)
  BY <1>1, <1>2 DEF EntryTraced, Firm
<1>4. op = "delete" => DeleteWaits(w, r, {y})
  BY <1>1, <1>2 DEF DeleteWaits, Firm
<1>5. Traces(w, ed, un, sy, r, row, {y})
  BY <1>2, <1>3, <1>4 DEF Traces
<1>6. KeepsOps(w, n, E, {y})
  BY <1>1, <1>2 DEF KeepsOps
<1> QED BY <1>5, <1>6 DEF y

LEMMA QueuesTraces ==
    ASSUME NEW w, NEW c, NEW n, NEW m, NEW id \in ChangeId,
           FreshId(c, n, m, id), w.rcpt[id] = NoReceipt, NEW r \in Rec,
           NEW op \in Ops, NEW base \in Nat, NEW val \in Val,
           NEW E \in SUBSET OutboxEntry, NEW F,
           Queues(E, F, id, r, op, base, val),
           ConflictsTraced(w, r, E),
           NEW ed, NEW un, NEW sy, NEW row, row.ver > 0 => Exists(w, r),
           op = "delete" => ed # r /\ (r \in un \/ Exists(w, r)),
           r \in sy => Exists(w, r) /\ (w.row[r].del \/ op = "delete")
    PROVE  /\ Traces(w, ed, un, sy, r, row, F)
           /\ KeepsOps(w, n, E, F)
<1>1. ASSUME NEW b \in Nat, F = {Fresh(id, r, op, b, val)}
      PROVE  /\ Traces(w, ed, un, sy, r, row, F)
             /\ KeepsOps(w, n, E, F)
  BY <1>1, FreshTraces
<1>2. ASSUME NEW x \in E PROVE KeptBase(x) \in Nat
  BY EntryFields DEF KeptBase
<1>3. ASSUME NEW x \in E, IsConflict(x), F = {Refreshed(x, op, val)}
      PROVE  /\ Traces(w, ed, un, sy, r, row, F)
             /\ KeepsOps(w, n, E, F)
  BY <1>3, RefreshTraces DEF ConflictsTraced
<1> QED BY <1>1, <1>2, <1>3 DEF Queues

LEMMA SavesTraces ==
    ASSUME NEW w, NEW c, NEW n, NEW m, NEW id \in ChangeId,
           FreshId(c, n, m, id), w.rcpt[id] = NoReceipt, NEW r \in Rec,
           NEW base \in Nat, NEW val \in Val,
           NEW E \in SUBSET OutboxEntry, NEW F, Saves(E, F, id, r, base, val),
           ConflictsTraced(w, r, E),
           NEW ed, NEW un, NEW sy, NEW row, row.ver > 0 => Exists(w, r),
           r \in sy => Exists(w, r) /\ w.row[r].del
    PROVE  /\ Traces(w, ed, un, sy, r, row, F)
           /\ KeepsOps(w, n, E, F)
<1>0. "upsert" \in Ops /\ "upsert" # "delete"
  BY DEF Ops
<1>1. ASSUME NEW b \in Nat, F = {Fresh(id, r, "upsert", b, val)}
      PROVE  /\ Traces(w, ed, un, sy, r, row, F)
             /\ KeepsOps(w, n, E, F)
  BY <1>0, <1>1, FreshTraces
<1>2. ASSUME NEW x \in E, IsConflict(x), F = {Refreshed(x, "upsert", val)}
      PROVE  /\ Traces(w, ed, un, sy, r, row, F)
             /\ KeepsOps(w, n, E, F)
  BY <1>0, <1>2, RefreshTraces DEF ConflictsTraced
<1> QED BY <1>1, <1>2 DEF Saves

Confirmed(loc) == loc.ver > 0

\* A delete of a record with row loc may be queued on a device that then shows
\* the record ed.
DeleteFits(w, ed, un, sy, r, loc) ==
    /\ ed # r
    /\ Confirmed(loc) => Exists(w, r)
    /\ ~Confirmed(loc) => r \in un
    /\ r \in sy => Confirmed(loc) \/ (Exists(w, r) /\ w.row[r].del)

\* Deleting a record that no queued delete is for.
LEMMA DeletesTraces ==
    ASSUME NEW w, NEW c, NEW n, NEW m, NEW id \in ChangeId,
           FreshId(c, n, m, id), w.rcpt[id] = NoReceipt, NEW r \in Rec,
           NEW E \in SUBSET OutboxEntry, NEW loc \in LocalRow, NEW F,
           Deletes(E, F, id, r, loc),
           ConflictsTraced(w, r, E),
           NEW ed, NEW un, NEW sy, DeleteFits(w, ed, un, sy, r, loc)
    PROVE  /\ Traces(w, ed, un, sy, r, LocalGone(loc), F)
           /\ KeepsOps(w, n, E, F)
<1> DEFINE row == LocalGone(loc)
<1>0. /\ "delete" \in Ops
      /\ {} \in Val
      /\ loc.ver \in Nat
      /\ 1 \in Nat
      /\ row.ver = loc.ver
      /\ Confirmed(loc) <=> loc.ver > 0
      /\ ed # r
      /\ Confirmed(loc) => Exists(w, r)
      /\ ~Confirmed(loc) => r \in un
      /\ r \in sy => Confirmed(loc) \/ (Exists(w, r) /\ w.row[r].del)
  BY EmptyVal, LocalGoneFields DEF Ops, LocalRow, Confirmed, DeleteFits
<1> HIDE DEF row
<1>1. CASE loc.ver >= 1 /\ Queues(E, F, id, r, "delete", loc.ver, {})
  <2>1. Exists(w, r) /\ (row.ver > 0 => Exists(w, r))
    BY <1>0, <1>1
  <2>2. PICK op \in Ops, val \in Val, b \in Nat :
          op = "delete" /\ val = {} /\ b = loc.ver
    BY <1>0
  <2>3. Queues(E, F, id, r, op, b, val)
    BY <1>1, <2>2
  <2>4. /\ op = "delete" => ed # r /\ (r \in un \/ Exists(w, r))
        /\ r \in sy => Exists(w, r) /\ (w.row[r].del \/ op = "delete")
    BY <1>0, <2>1, <2>2
  <2>5. /\ Traces(w, ed, un, sy, r, row, F)
        /\ KeepsOps(w, n, E, F)
    <3>1. ASSUME NEW k \in Nat, F = {Fresh(id, r, op, k, val)}
          PROVE  /\ Traces(w, ed, un, sy, r, row, F)
                 /\ KeepsOps(w, n, E, F)
      BY <2>1, <2>4, <3>1, FreshTraces
    <3>2. ASSUME NEW x \in E PROVE KeptBase(x) \in Nat
      BY EntryFields DEF KeptBase
    <3>3. ASSUME NEW x \in E, IsConflict(x), F = {Refreshed(x, op, val)}
          PROVE  /\ Traces(w, ed, un, sy, r, row, F)
                 /\ KeepsOps(w, n, E, F)
      BY <2>4, <3>3, RefreshTraces DEF ConflictsTraced
    <3> QED BY <2>3, <3>1, <3>2, <3>3 DEF Queues
  <2> QED BY <2>5 DEF row
<1>2. CASE loc.ver = 0 /\ F = {Fresh(id, r, "delete", 1, {})}
  <2>1. PICK op \in Ops, val \in Val, b \in Nat :
          op = "delete" /\ val = {} /\ b = 1
    BY <1>0
  <2>2. F = {Fresh(id, r, op, b, val)}
    BY <1>2, <2>1
  <2>3. /\ row.ver > 0 => Exists(w, r)
        /\ op = "delete" => ed # r /\ (r \in un \/ Exists(w, r))
        /\ r \in sy => Exists(w, r) /\ (w.row[r].del \/ op = "delete")
    BY <1>0, <1>2, <2>1
  <2>4. /\ Traces(w, ed, un, sy, r, row, F)
        /\ KeepsOps(w, n, E, F)
    BY <2>2, <2>3, FreshTraces
  <2> QED BY <2>4 DEF row
<1>3. CASE loc.ver = 0 /\ F = {}
  <2>1. Traces(w, ed, un, sy, r, row, F)
    BY <1>0, <1>3 DEF Traces
  <2> QED BY <1>3, <2>1, NoneTraces DEF row
<1> QED BY <1>1, <1>2, <1>3 DEF Deletes

\* What a result tells of the server.
LEMMA ResultTells ==
    ASSUME NEW w, ServerSound(w), NEW u, NEW ch \in ClientChange, NEW res,
           ResultSound(w, u, ch, res)
    PROVE  /\ res.ver \in Nat
           /\ AckVersion(res) \in Nat
           /\ res.row \in ProperRow
           /\ res.row.ver = res.ver
           /\ res.ver > 0 => Exists(w, res.rec)
           /\ res.status = "accepted" => Accepted(w, res.id)
           /\ res.status = "conflict" => Rejected(w, res.id)
           /\ res.status = "conflict" => Exists(w, res.rec)
<1>1. /\ w \in ProperWork
      /\ ch.id \in ChangeId
      /\ ch.pay.rec \in Rec
  BY ChangeFields DEF ServerSound
<1>2. w.row[ch.pay.rec].ver \in Nat
  BY <1>1, WorkFields
<1>3. /\ res.ver \in Nat
      /\ res.row \in ProperRow
      /\ res.row.ver = res.ver
      /\ res.rec = ch.pay.rec
      /\ res.id = ch.id
      /\ CopyOf(w, res.rec, res.row)
  BY DEF ResultSound, ProperResult
<1>4. AckVersion(res) \in Nat
  BY DEF ResultSound, ProperResult, AckVersion
<1>5. res.ver > 0 => Exists(w, res.rec)
  BY <1>2, <1>3 DEF CopyOf, Exists
<1>6. /\ res.status = "accepted" => Accepted(w, res.id)
      /\ res.status = "conflict" => Rejected(w, res.id)
  BY <1>3 DEF ResultSound, Accepted, Rejected
<1>7. ASSUME res.status = "conflict" PROVE Exists(w, res.rec)
  <2>1. /\ w.rcpt[ch.id] # NoReceipt
        /\ w.rcpt[ch.id].status = "conflict"
        /\ res.row = w.rcpt[ch.id].row
    BY <1>7 DEF ResultSound
  <2>2. ReceiptSound(w, w.rcpt[ch.id])
    BY <1>1, <2>1 DEF ServerSound
  <2>3. res.ver > 0
    BY <1>3, <2>1, <2>2 DEF ReceiptSound
  <2> QED BY <1>5, <2>3
<1> QED BY <1>3, <1>4, <1>5, <1>6, <1>7

LEMMA AcksTraces ==
    ASSUME NEW w, NEW ed, NEW un, NEW sy, NEW r, NEW loc,
           NEW E \in SUBSET OutboxEntry, loc \in LocalRow,
           Traces(w, ed, un, sy, r, loc, E), NEW row, NEW F, NEW res,
           Acks(loc, E, row, F, res), Exists(w, r), Accepted(w, res.id),
           AckVersion(res) \in Nat, NEW n
    PROVE  /\ Traces(w, ed, un, sy, r, row, F)
           /\ KeepsOps(w, n, E, F)
<1>1. ASSUME NEW x, E = {x}, x.id = res.id, F = {}
      PROVE  /\ Traces(w, ed, un, sy, r, row, F)
             /\ KeepsOps(w, n, E, F)
  <2>1. DeleteWaits(w, r, E) => w.row[r].del
    BY <1>1 DEF DeleteWaits, Firm
  <2> QED BY <1>1, <2>1, NoneTraces DEF Traces
<1>2. CASE row = loc /\ F = E
  BY <1>2, NoneTraces
<1>3. ASSUME NEW x, E = {x}, F = {Rebased(x, Larger(x.base, AckVersion(res)))}
      PROVE  /\ Traces(w, ed, un, sy, r, row, F)
             /\ KeepsOps(w, n, E, F)
  <2> DEFINE b == Larger(x.base, AckVersion(res))
             y == Rebased(x, b)
  <2>1. x \in OutboxEntry /\ b \in Nat
    BY <1>3, EntryFields, LargerNat
  <2> HIDE DEF b
  <2>2. SameWork(x, y) /\ y.status = x.status /\ y.kind = x.kind
    BY <2>1, RebasedFields
  <2> HIDE DEF y
  <2>3. IsConflict(y) => Rejected(w, y.id)
    BY <1>3, <2>2 DEF IsConflict, SameWork, Traces, EntryTraced
  <2>4. F = {y}
    BY <1>3 DEF y, b
  <2> QED BY <1>3, <2>2, <2>3, <2>4, SameWorkTraces
<1> QED BY <1>1, <1>2, <1>3 DEF Acks, MovesOn

LEMMA SettlesTraces ==
    ASSUME NEW w, NEW ed, NEW un, NEW sy, NEW r, NEW loc,
           NEW E \in SUBSET OutboxEntry,
           Traces(w, ed, un, sy, r, loc, E), NEW F, NEW res,
           Settles(E, F, res), AsLocal(res.row) \in LocalRow,
           res.status = "accepted" => Accepted(w, res.id),
           res.status = "conflict" => Rejected(w, res.id),
           res.status = "conflict" /\ (\E x \in E : x.id = res.id)
              => Exists(w, r), NEW n
    PROVE  /\ Traces(w, ed, un, sy, r, loc, F)
           /\ KeepsOps(w, n, E, F)
<1>1. CASE res.status = "accepted" /\ F = {e \in E : e.id # res.id}
  <2>1. DeleteWaits(w, r, E) => w.row[r].del \/ DeleteWaits(w, r, F)
    BY <1>1 DEF DeleteWaits, Firm
  <2>2. Traces(w, ed, un, sy, r, loc, F)
    BY <1>1, <2>1 DEF Traces
  <2> QED BY <1>1, <2>2 DEF KeepsOps
<1>2. CASE res.status = "error" /\ Touches(E, F, {res.id})
  BY <1>2, TouchesTraces
<1>3. CASE res.status = "conflict"
           /\ Holds(E, F, res.id, "conflict", AsLocal(res.row))
  <2>1. CASE E = {} /\ F = {}
    BY <2>1, NoneTraces
  <2>2. ASSUME NEW x, E = {x},
               F = {IF x.id = res.id
                    THEN Held(x, "conflict", AsLocal(res.row)) ELSE x}
        PROVE  /\ Traces(w, ed, un, sy, r, loc, F)
               /\ KeepsOps(w, n, E, F)
    <3>1. CASE x.id # res.id
      BY <2>2, <3>1, NoneTraces
    <3>2. CASE x.id = res.id
      <4> DEFINE y == Held(x, "conflict", AsLocal(res.row))
      <4>1. x \in OutboxEntry /\ "conflict" \in Kind
        BY <2>2 DEF Kind
      <4>2. SameWork(x, y)
        BY <4>1, HeldFields
      <4>3. F = {y}
        BY <2>2, <3>2
      <4> HIDE DEF y
      <4>4. Rejected(w, y.id) /\ Exists(w, r) /\ E = {x}
        BY <1>3, <2>2, <3>2, <4>2 DEF SameWork
      <4> QED BY <4>2, <4>3, <4>4, SameWorkTraces
    <3> QED BY <3>1, <3>2
  <2> QED BY <1>3, <2>1, <2>2 DEF Holds
<1> QED BY <1>1, <1>2, <1>3 DEF Settles

LEMMA PullsTraces ==
    ASSUME NEW w, NEW ed, NEW un, NEW sy, NEW r, NEW loc, NEW E,
           ViewSound(r, loc, E),
           Traces(w, ed, un, sy, r, loc, E), NEW row, NEW F,
           NEW got \in ProperRow, Pulls(got, loc, E, row, F),
           got.ver > 0 => Exists(w, r), NEW n
    PROVE  /\ Traces(w, ed, un, sy, r, row, F)
           /\ KeepsOps(w, n, E, F)
<1>1. CASE row = loc /\ F = E
  BY <1>1, NoneTraces
<1>2. CASE E = {} /\ got # NoRow
  <2>1. row = AsLocal(got) /\ F = {}
    BY <1>2 DEF Pulls, RowTo
  <2>2. row.ver = got.ver
    BY <2>1, AsLocalType
  <2>3. Traces(w, ed, un, sy, r, row, F)
    BY <1>2, <2>1, <2>2 DEF Traces
  <2> QED BY <2>1, <2>3, NoneTraces
<1>3. CASE E # {} /\ got # NoRow
  <2>1. PICK x : x \in OutboxEntry /\ E = {x}
    BY <1>3 DEF ViewSound
  <2>2. row = loc /\ F = {Faced(x, got)}
    BY <1>3, <2>1 DEF Pulls, RowTo
  <2>3. AsLocal(got) \in LocalRow
    BY AsLocalType
  <2>4. /\ SameWork(x, Faced(x, got))
        /\ IsConflict(Faced(x, got)) => IsConflict(x)
    BY <2>1, <2>3, BesideFields DEF Faced, SameWork
  <2>5. EntryTraced(w, ed, un, r, x) /\ (row.ver > 0 => Exists(w, r))
    BY <2>1, <2>2 DEF Traces
  <2>6. IsConflict(Faced(x, got)) =>
           Rejected(w, Faced(x, got).id) /\ Exists(w, r)
    BY <2>4, <2>5 DEF EntryTraced, SameWork
  <2> QED BY <2>1, <2>2, <2>4, <2>5, <2>6, SameWorkTraces
<1> QED BY <1>1, <1>2, <1>3 DEF Pulls

-----------------------------------------------------------------------------
(* Every step keeps the second invariant                                   *)

\* Record r of a device with database S, as it is before a step and as it is
\* after one that leaves S as T, the form on ed and the tombstones dd.
RecordTraced(w, dd, c, n, ed, S, T, r) ==
    /\ Traces(w, ed, Unsynced(dd, c), Synced(dd, c), r, T.local[r],
              EntriesOf(T, r))
    /\ KeepsOps(w, n, EntriesOf(S, r), EntriesOf(T, r))

OthersDead(dd, c) ==
    \A d \in Client \ {c} : /\ Unsynced(dd, d) = Unsynced(dead, d)
                            /\ Synced(dd, d) = Synced(dead, d)

LEMMA WindowTraced ==
    ASSUME Traced, WellFormed', NEW c \in Client, NEW T, NEW ed \in Editor,
           NEW ids \in Nat, Window(c, T, ed, ids), OthersDead(dead', c),
           \A r \in Rec : RecordTraced(srv, dead', c, used[c], ed.rec, cl[c],
                                       T, r)
    PROVE  Traced'
<1>1. /\ WellFormed
      /\ TracedBy(srv)
      /\ TypeOK
      /\ cl \in [Client -> Store]
      /\ editor \in [Client -> Editor]
      /\ used \in [Client -> 0..MaxId]
      /\ \A d \in Client : used[d] \in Nat
  BY ScopeFields DEF Traced, WellFormed, TypeOK
<1>2. /\ srv' = srv
      /\ pass' = pass
      /\ late' = late
      /\ \A d \in Client \ {c} : /\ cl'[d] = cl[d]
                                 /\ editor'[d] = editor[d]
                                 /\ used'[d] = used[d]
      /\ cl'[c] = T
      /\ editor'[c] = ed
      /\ used'[c] = used[c] + ids
  BY <1>1 DEF Window
<1>3. \A d \in Client : used[d] <= used'[d]
  BY <1>1, <1>2
<1>4. /\ TracedBy(srv')
      /\ RowsKnown(srv', pass'[c].rows)
  BY <1>1, <1>2 DEF TracedBy, DeviceTraced
<1>5. \A r \in Rec : KeepsOps(srv', used[c], EntriesOf(cl[c], r),
                              EntriesOf(cl'[c], r))
  BY <1>2 DEF RecordTraced
<1>6. \A r \in Rec : Traces(srv', editor'[c].rec, Unsynced(dead', c),
                            Synced(dead', c), r, cl'[c].local[r],
                            EntriesOf(cl'[c], r))
  BY <1>2 DEF RecordTraced
<1>7. /\ \A d \in Client \ {c} : /\ cl'[d] = cl[d]
                                 /\ pass'[d] = pass[d]
                                 /\ editor'[d] = editor[d]
                                 /\ Unsynced(dead', d) = Unsynced(dead, d)
                                 /\ Synced(dead', d) = Synced(dead, d)
      /\ \A q \in late' : \/ q \in late
                          \/ q = [user |-> c, batch |-> pass[c].batch]
      /\ pass'[c].batch = pass[c].batch
  BY <1>2 DEF OthersDead
<1> QED BY <1>1, <1>3, <1>4, <1>5, <1>6, <1>7, TracedStep

\* A step of the pass.
LEMMA WorkerTraced ==
    ASSUME Traced, WellFormed', TracedBy(srv'), NEW c \in Client, NEW T, NEW p,
           Worker(c, T, p),
           \A q \in late' : \/ q \in late
                            \/ q = [user |-> c, batch |-> pass[c].batch],
           \A d \in Client \ {c} : editor'[d] = editor[d],
           p.batch = pass[c].batch \/ OpsMatch(srv', T, p.batch),
           RowsKnown(srv', p.rows),
           \A r \in Rec : RecordTraced(srv', dead, c, used[c], editor'[c].rec,
                                       cl[c], T, r)
    PROVE  Traced'
<1>1. /\ WellFormed
      /\ cl \in [Client -> Store]
      /\ pass \in [Client -> Pass]
      /\ \A d \in Client : used[d] \in Nat
  BY ScopeFields DEF Traced, WellFormed, TypeOK
<1>2. /\ used' = used
      /\ dead' = dead
      /\ \A d \in Client \ {c} : cl'[d] = cl[d] /\ pass'[d] = pass[d]
      /\ cl'[c] = T
      /\ pass'[c] = p
  BY <1>1 DEF Worker, history
<1>3. \A d \in Client : used[d] <= used'[d]
  BY <1>1, <1>2
<1>4. RowsKnown(srv', pass'[c].rows)
  BY <1>2
<1>5. \A r \in Rec : KeepsOps(srv', used[c], EntriesOf(cl[c], r),
                              EntriesOf(cl'[c], r))
  BY <1>2 DEF RecordTraced
<1>6. \A r \in Rec : Traces(srv', editor'[c].rec, Unsynced(dead', c),
                            Synced(dead', c), r, cl'[c].local[r],
                            EntriesOf(cl'[c], r))
  BY <1>2 DEF RecordTraced
<1>7. /\ \A d \in Client \ {c} : /\ cl'[d] = cl[d]
                                 /\ pass'[d] = pass[d]
                                 /\ editor'[d] = editor[d]
                                 /\ Unsynced(dead', d) = Unsynced(dead, d)
                                 /\ Synced(dead', d) = Synced(dead, d)
      /\ pass'[c].batch = pass[c].batch
            \/ OpsMatch(srv', cl'[c], pass'[c].batch)
  BY <1>2
<1> QED BY <1>1, <1>3, <1>4, <1>5, <1>6, <1>7, TracedStep

\* What the invariant says of one record of one device.
LEMMA TracedView ==
    ASSUME Traced, NEW c \in Client
    PROVE  /\ WellFormed
           /\ TracedBy(srv)
           /\ ServerSound(srv)
           /\ StoreSound(cl[c], c, used[c])
           /\ PassSound(srv, cl[c], c, used[c], pass[c])
           /\ cl[c] \in Store
           /\ Distinct(cl[c])
           /\ used[c] \in Nat
           /\ OpsMatch(srv, cl[c], pass[c].batch)
           /\ RowsKnown(srv, pass[c].rows)
           /\ \A r \in Rec :
                 /\ ViewSound(r, cl[c].local[r], EntriesOf(cl[c], r))
                 /\ EntriesOf(cl[c], r) \in SUBSET OutboxEntry
                 /\ cl[c].local[r] \in LocalRow
                 /\ Traces(srv, editor[c].rec, Unsynced(dead, c),
                           Synced(dead, c), r, cl[c].local[r],
                           EntriesOf(cl[c], r))
<1>1. /\ WellFormed
      /\ TracedBy(srv)
      /\ ServerSound(srv)
      /\ StoreSound(cl[c], c, used[c])
      /\ PassSound(srv, cl[c], c, used[c], pass[c])
      /\ cl[c] \in Store
      /\ Distinct(cl[c])
      /\ used[c] \in Nat
  BY ScopeFields DEF Traced, WellFormed, StoreSound
<1>2. /\ OpsMatch(srv, cl[c], pass[c].batch)
      /\ RowsKnown(srv, pass[c].rows)
      /\ \A r \in Rec : Traces(srv, editor[c].rec, Unsynced(dead, c),
                               Synced(dead, c), r, cl[c].local[r],
                               EntriesOf(cl[c], r))
  BY <1>1 DEF TracedBy, DeviceTraced
<1>3. \A r \in Rec : ViewSound(r, cl[c].local[r], EntriesOf(cl[c], r))
  BY <1>1, StoreView
<1> QED BY <1>1, <1>2, <1>3 DEF ViewSound

\* A record that a step leaves alone.
LEMMA RestTraced ==
    ASSUME Traced, NEW c \in Client, NEW T, NEW s \in Rec, NEW ed, NEW dd,
           T.local[s] = cl[c].local[s],
           EntriesOf(T, s) = EntriesOf(cl[c], s),
           ed \in Rec => ed = editor[c].rec \/ ed # s,
           s \in Unsynced(dd, c) <=> s \in Unsynced(dead, c),
           s \in Synced(dd, c) <=> s \in Synced(dead, c), NEW n
    PROVE  RecordTraced(srv, dd, c, n, ed, cl[c], T, s)
<1> DEFINE E == EntriesOf(cl[c], s)
           loc == cl[c].local[s]
           un == Unsynced(dead, c)
           sy == Synced(dead, c)
           ud == Unsynced(dd, c)
           sd == Synced(dd, c)
<1>1. Traces(srv, editor[c].rec, un, sy, s, loc, E)
  BY TracedView
<1>2. KeepsOps(srv, n, E, E)
  BY NoneTraces
<1> HIDE DEF E, loc, un, sy, ud, sd
<1>3. \A x \in E : EntryTraced(srv, editor[c].rec, un, s, x)
  BY <1>1 DEF Traces
<1>4. \A x \in E : EntryTraced(srv, ed, ud, s, x)
  BY <1>3 DEF EntryTraced, ud, un
<1>5. Traces(srv, ed, ud, sd, s, loc, E)
  BY <1>1, <1>4 DEF Traces, sd, sy
<1> QED BY <1>2, <1>5 DEF RecordTraced, E, loc, ud, sd

\* A step of the window on record r.
DeadElsewhere(dd, c, r) ==
    \A s \in Rec \ {r} :
        /\ s \in Unsynced(dd, c) <=> s \in Unsynced(dead, c)
        /\ s \in Synced(dd, c) <=> s \in Synced(dead, c)

LEMMA OneRecordTraced ==
    ASSUME Traced, NEW c \in Client, NEW T, NEW r \in Rec, NEW row, NEW F,
           Becomes(cl[c], T, r, row, F), NEW ed, NEW dd,
           ed \in Rec => ed = editor[c].rec \/ ed = r,
           DeadElsewhere(dd, c, r), NEW n,
           Traces(srv, ed, Unsynced(dd, c), Synced(dd, c), r, row, F),
           KeepsOps(srv, n, EntriesOf(cl[c], r), F)
    PROVE  \A s \in Rec : RecordTraced(srv, dd, c, n, ed, cl[c], T, s)
<1> SUFFICES ASSUME NEW s \in Rec
             PROVE  RecordTraced(srv, dd, c, n, ed, cl[c], T, s)
  OBVIOUS
<1>1. CASE s = r
  BY <1>1 DEF RecordTraced, Becomes
<1>2. CASE s # r
  <2>1. /\ T.local[s] = cl[c].local[s]
        /\ EntriesOf(T, s) = EntriesOf(cl[c], s)
        /\ ed \in Rec => ed = editor[c].rec \/ ed # s
        /\ s \in Unsynced(dd, c) <=> s \in Unsynced(dead, c)
        /\ s \in Synced(dd, c) <=> s \in Synced(dead, c)
    BY <1>2 DEF Becomes, Elsewhere, DeadElsewhere
  <2> QED BY <2>1, RestTraced
<1> QED BY <1>1, <1>2

LEMMA SameDead ==
    ASSUME NEW c, NEW r
    PROVE  /\ DeadElsewhere(dead, c, r)
           /\ OthersDead(dead, c)
BY DEF DeadElsewhere, OthersDead

\* An identifier the device hands out has no receipt.
LEMMA NewIdUnseen ==
    ASSUME Traced, NEW c \in Client, NEW k \in Nat \ {0},
           <<c, used[c] + k>> \in ChangeId
    PROVE  srv.rcpt[<<c, used[c] + k>>] = NoReceipt
<1>1. used[c] \in Nat
  BY TracedView
<1> DEFINE id == <<c, used[c] + k>>
<1>2. id[1] = c /\ id[2] = used[c] + k
  OBVIOUS
<1>3. ~(id[2] <= used[id[1]])
  BY <1>1, <1>2
<1>4. id \in ChangeId /\ ReceiptsUsed(srv)
  BY DEF Traced, TracedBy
<1> HIDE DEF id
<1> QED BY <1>3, <1>4 DEF ReceiptsUsed, id

\* A record whose entries are no deletes: if it was deleted after the server
\* confirmed it, the server has deleted it.
LEMMA NoDeleteQueued ==
    ASSUME NEW w, NEW ed, NEW un, NEW sy, NEW r, NEW loc, NEW E,
           Traces(w, ed, un, sy, r, loc, E),
           \A x \in E : x.op # "delete"
    PROVE  /\ ConflictsTraced(w, r, E)
           /\ loc.ver > 0 => Exists(w, r)
           /\ r \in sy => Exists(w, r) /\ w.row[r].del
BY DEF Traces, DeleteWaits, ConflictsTraced, EntryTraced

\* The form does not show a record with a queued delete.
LEMMA FormQueuesNoDelete ==
    ASSUME NEW w, NEW ed, NEW un, NEW sy, NEW loc, NEW E,
           Traces(w, ed, un, sy, ed, loc, E)
    PROVE  \A x \in E : x.op # "delete"
BY DEF Traces, EntryTraced

LEMMA OneId ==
    ASSUME Traced, NEW c \in Client, used[c] + 1 <= scope.ids
    PROVE  /\ NewId(c) \in ChangeId
           /\ FreshId(c, used[c], used[c] + 1, NewId(c))
           /\ srv.rcpt[NewId(c)] = NoReceipt
<1>1. TypeOK
  BY DEF Traced, WellFormed
<1>2. 1 \in Nat \ {0} /\ 1 \in Nat /\ 1 <= 1
  OBVIOUS
<1>3. /\ <<c, used[c] + 1>> \in ChangeId
      /\ FreshId(c, used[c], used[c] + 1, <<c, used[c] + 1>>)
  BY <1>1, <1>2, NewIdFresh
<1>4. srv.rcpt[<<c, used[c] + 1>>] = NoReceipt
  BY <1>2, <1>3, NewIdUnseen
<1> QED BY <1>3, <1>4 DEF NewId

\* A record whose cached row is not deleted has no queued delete.
LEMMA ShownQueuesNoDelete ==
    ASSUME NEW r, NEW loc, NEW E, ViewSound(r, loc, E), ~loc.del
    PROVE  \A x \in E : x.op # "delete"
BY DEF ViewSound, Shows

LEMMA CreateTraced ==
    ASSUME Traced, NEW c \in Client, NEW r \in Rec, NEW e \in Edit,
           Create(c, r, e)
    PROVE  Traced'
<1> DEFINE id == NewId(c)
           T == CreateLocal(cl[c], id, r, {e})
           ed == [rec |-> r, base |-> 0, val |-> {e}]
           E == EntriesOf(cl[c], r)
           row == LocalAt(0, {e})
           un == Unsynced(dead, c)
           sy == Synced(dead, c)
<1>1. /\ Window(c, T, ed, 1)
      /\ dead' = dead
      /\ cl[c].local[r] = NoLocal
  BY DEF Create, history
<1>2. WellFormed'
  BY CreateWellFormed DEF Traced
<1>3. /\ {e} \in Val
      /\ 0 \in Nat
      /\ 1 \in Nat
      /\ "upsert" \in Ops
      /\ "upsert" # "delete"
  BY EmptyVal, EditVal DEF Ops
<1>4. /\ id \in ChangeId
      /\ FreshId(c, used[c], used[c] + 1, id)
      /\ srv.rcpt[id] = NoReceipt
  BY <1>1, OneId DEF Window
<1>5. /\ cl[c] \in Store
      /\ Distinct(cl[c])
      /\ ViewSound(r, cl[c].local[r], E)
      /\ E \in SUBSET OutboxEntry
      /\ Traces(srv, editor[c].rec, un, sy, r, cl[c].local[r], E)
  BY TracedView
<1>6. PICK F : /\ Becomes(cl[c], T, r, row, F)
               /\ Queues(E, F, id, r, "upsert", 0, {e})
  BY <1>3, <1>4, <1>5, CreateView
<1>7. ~NoLocal.del
  BY Zenon DEF NoLocal
<1>8. row.ver = 0 /\ ed.rec = r /\ ed \in Editor
  BY <1>3, EditorType DEF LocalAt
<1> HIDE DEF id, T, ed, E, row, un, sy
<1>9. \A x \in E : x.op # "delete"
  BY <1>1, <1>5, <1>7, ShownQueuesNoDelete
<1>10. /\ ConflictsTraced(srv, r, E)
       /\ r \in sy => Exists(srv, r) /\ srv.row[r].del
  BY <1>5, <1>9, NoDeleteQueued
<1>11. /\ Traces(srv, r, un, sy, r, row, F)
       /\ KeepsOps(srv, used[c], E, F)
  <2>1. PICK op \in Ops, val \in Val, b \in Nat :
          op = "upsert" /\ val = {e} /\ b = 0
    BY <1>3
  <2>2. Queues(E, F, id, r, op, b, val)
    BY <1>6, <2>1
  <2>3. /\ op = "delete" => r # r /\ (r \in un \/ Exists(srv, r))
        /\ r \in sy => Exists(srv, r) /\ (srv.row[r].del \/ op = "delete")
        /\ row.ver > 0 => Exists(srv, r)
    BY <1>8, <1>10, <2>1
  <2> QED BY <1>4, <1>5, <1>10, <2>2, <2>3, QueuesTraces
<1>12. DeadElsewhere(dead', c, r) /\ OthersDead(dead', c)
  BY <1>1, SameDead
<1>13. \A s \in Rec : RecordTraced(srv, dead', c, used[c], ed.rec, cl[c], T, s)
  BY <1>1, <1>6, <1>8, <1>11, <1>12, OneRecordTraced DEF E, un, sy
<1> QED BY <1>1, <1>2, <1>3, <1>8, <1>12, <1>13, WindowTraced

LEMMA OpenTraced ==
    ASSUME Traced, NEW c \in Client, NEW r \in Rec, Open(c, r)
    PROVE  Traced'
<1> DEFINE S == cl[c]
           ed == [rec |-> r, base |-> S.local[r].ver, val |-> S.local[r].val]
           E == EntriesOf(S, r)
           un == Unsynced(dead, c)
           sy == Synced(dead, c)
<1>1. /\ Window(c, S, ed, 0)
      /\ dead' = dead
      /\ ~S.local[r].del
  BY DEF Open
<1>2. WellFormed'
  BY OpenWellFormed DEF Traced
<1>3. /\ S \in Store
      /\ ViewSound(r, S.local[r], E)
      /\ Traces(srv, editor[c].rec, un, sy, r, S.local[r], E)
  BY TracedView
<1>4. ed.rec = r /\ ed \in Editor /\ 0 \in Nat
  BY <1>3, StoreFields, EditorType
<1>5. \A x \in E : x.op # "delete"
  BY <1>1, <1>3, ShownQueuesNoDelete
<1>6. Traces(srv, r, un, sy, r, S.local[r], E)
  BY <1>3, <1>5 DEF Traces, EntryTraced
<1>7. KeepsOps(srv, used[c], E, E)
  BY NoneTraces
<1>8. DeadElsewhere(dead', c, r) /\ OthersDead(dead', c)
  BY <1>1, SameDead
<1>9. Becomes(S, S, r, S.local[r], E)
  BY <1>3 DEF Becomes, Elsewhere
<1> HIDE DEF ed
<1>10. \A s \in Rec : RecordTraced(srv, dead', c, used[c], ed.rec, cl[c], S, s)
  BY <1>1, <1>4, <1>6, <1>7, <1>8, <1>9, OneRecordTraced
<1> QED BY <1>1, <1>2, <1>4, <1>8, <1>10, WindowTraced

LEMMA ClosedForm == Closed \in Editor /\ Closed.rec \notin Rec
BY EngineAssumption DEF Editor, Closed

LEMMA CloseTraced ==
    ASSUME Traced, NEW c \in Client, Close(c)
    PROVE  Traced'
<1>1. Window(c, cl[c], Closed, 0) /\ dead' = dead
  BY DEF Close, history
<1>2. WellFormed'
  BY CloseWellFormed DEF Traced
<1>3. Closed \in Editor /\ Closed.rec \notin Rec /\ 0 \in Nat
  BY ClosedForm
<1>4. \A s \in Rec : RecordTraced(srv, dead', c, used[c], Closed.rec, cl[c],
                                  cl[c], s)
  BY <1>1, <1>3, RestTraced
<1>5. OthersDead(dead', c)
  BY <1>1, SameDead
<1> QED BY <1>1, <1>2, <1>3, <1>4, <1>5, WindowTraced

LEMMA SaveTraced ==
    ASSUME Traced, NEW c \in Client, NEW e \in Edit, Save(c, e)
    PROVE  Traced'
<1> DEFINE old == editor[c]
           r == old.rec
           val == old.val \cup {e}
           ed == [old EXCEPT !.val = val]
           id == NewId(c)
           T == SaveLocal(cl[c], id, r, old.base, val)
           E == EntriesOf(cl[c], r)
           row == LocalAt(cl[c].local[r].ver, val)
           un == Unsynced(dead, c)
           sy == Synced(dead, c)
<1>1. /\ old # Closed
      /\ Window(c, T, ed, 1)
      /\ dead' = dead
  BY DEF Save, history
<1>2. WellFormed' /\ TypeOK
  BY SaveWellFormed DEF Traced, WellFormed
<1>3. /\ old \in [rec: Rec, base: Nat, val: Val]
      /\ r \in Rec
      /\ old.base \in Nat
      /\ old.val \in Val
  BY <1>1, <1>2, OpenForm
<1>4. val \in Val
  BY <1>3, EditVal
<1>5. /\ id \in ChangeId
      /\ FreshId(c, used[c], used[c] + 1, id)
      /\ srv.rcpt[id] = NoReceipt
  BY <1>1, OneId DEF Window
<1>6. /\ cl[c] \in Store
      /\ Distinct(cl[c])
      /\ E \in SUBSET OutboxEntry
      /\ Traces(srv, r, un, sy, r, cl[c].local[r], E)
  BY <1>3, TracedView
<1> HIDE DEF val
<1>7. /\ ed \in Editor
      /\ ed.rec = r
      /\ row.ver = cl[c].local[r].ver
      /\ 1 \in Nat
  BY <1>3, <1>4 DEF Editor, LocalAt
<1>8. PICK F : /\ Becomes(cl[c], T, r, row, F)
               /\ Saves(E, F, id, r, old.base, val)
  BY <1>3, <1>4, <1>5, <1>6, SaveView
<1> DEFINE base == old.base
<1> HIDE DEF id, T, ed, E, row, un, sy, base
<1>9. \A x \in E : x.op # "delete"
  BY <1>6, FormQueuesNoDelete
<1>10. /\ ConflictsTraced(srv, r, E)
       /\ row.ver > 0 => Exists(srv, r)
       /\ r \in sy => Exists(srv, r) /\ srv.row[r].del
  BY <1>6, <1>7, <1>9, NoDeleteQueued
<1>11. base \in Nat /\ Saves(E, F, id, r, base, val)
  BY <1>3, <1>8 DEF base
<1>12. /\ Traces(srv, r, un, sy, r, row, F)
       /\ KeepsOps(srv, used[c], E, F)
  <2> HIDE DEF r, old
  <2> QED BY <1>3, <1>4, <1>5, <1>6, <1>10, <1>11, SavesTraces
<1>13. DeadElsewhere(dead', c, r) /\ OthersDead(dead', c)
  BY <1>1, SameDead
<1>14. \A s \in Rec : RecordTraced(srv, dead', c, used[c], ed.rec, cl[c], T, s)
  BY <1>1, <1>3, <1>7, <1>8, <1>12, <1>13, OneRecordTraced DEF E, un, sy
<1> QED BY <1>1, <1>2, <1>7, <1>13, <1>14, WindowTraced

\* A record that is deleted on device c, and one whose server copy is taken.
LEMMA TombstoneAdded ==
    ASSUME NEW c, NEW r \in Rec, NEW b \in BOOLEAN, NEW dd,
           dd = dead \cup {<<c, r, b>>}
    PROVE  /\ DeadElsewhere(dd, c, r)
           /\ OthersDead(dd, c)
           /\ ~b => r \in Unsynced(dd, c)
           /\ r \in Synced(dd, c) => b \/ r \in Synced(dead, c)
<1>1. ASSUME NEW d, NEW s, NEW k, d # c \/ s # r
      PROVE  <<d, s, k>> \in dd <=> <<d, s, k>> \in dead
  <2>1. <<d, s, k>> # <<c, r, b>>
    BY <1>1, Zenon
  <2> QED BY <2>1, Zenon
<1>2. ASSUME NEW d, NEW s \in Rec, d # c \/ s # r
      PROVE  /\ s \in Unsynced(dd, d) <=> s \in Unsynced(dead, d)
             /\ s \in Synced(dd, d) <=> s \in Synced(dead, d)
  BY <1>1, <1>2, Zenon DEF Unsynced, Synced
<1>3. DeadElsewhere(dd, c, r)
  BY <1>2, Zenon DEF DeadElsewhere
<1>4. OthersDead(dd, c)
  <2> SUFFICES ASSUME NEW d \in Client \ {c}
               PROVE  /\ Unsynced(dd, d) = Unsynced(dead, d)
                      /\ Synced(dd, d) = Synced(dead, d)
    BY DEF OthersDead
  <2>1. d # c
    OBVIOUS
  <2>2. \A s \in Rec : /\ s \in Unsynced(dd, d) <=> s \in Unsynced(dead, d)
                       /\ s \in Synced(dd, d) <=> s \in Synced(dead, d)
    BY <1>2, <2>1
  <2>3. /\ Unsynced(dd, d) \subseteq Rec
        /\ Synced(dd, d) \subseteq Rec
        /\ Unsynced(dead, d) \subseteq Rec
        /\ Synced(dead, d) \subseteq Rec
    BY Zenon DEF Unsynced, Synced
  <2> QED BY <2>2, <2>3
<1>5. ASSUME ~b PROVE r \in Unsynced(dd, c)
  <2>1. b = FALSE
    BY <1>5
  <2>2. <<c, r, FALSE>> \in dd
    BY <2>1, Zenon
  <2> QED BY <2>2, Zenon DEF Unsynced
<1>6. ASSUME r \in Synced(dd, c), ~b PROVE r \in Synced(dead, c)
  <2>1. <<c, r, TRUE>> \in dd
    BY <1>6, Zenon DEF Synced
  <2>2. b # TRUE
    BY <1>6
  <2>3. <<c, r, TRUE>> # <<c, r, b>>
    BY <2>2, Zenon
  <2>4. <<c, r, TRUE>> \in dead
    BY <2>1, <2>3, Zenon
  <2> QED BY <2>4, Zenon DEF Synced
<1> QED BY <1>3, <1>4, <1>5, <1>6

LEMMA TombstonesDropped ==
    ASSUME NEW c, NEW r \in Rec, NEW dd,
           dd = {t \in dead : t[1] # c \/ t[2] # r}
    PROVE  /\ DeadElsewhere(dd, c, r)
           /\ OthersDead(dd, c)
           /\ r \notin Synced(dd, c)
           /\ r \notin Unsynced(dd, c)
<1>0. ASSUME NEW d, NEW s, NEW k
      PROVE  <<d, s, k>>[1] = d /\ <<d, s, k>>[2] = s
  OBVIOUS
<1>1. ASSUME NEW d, NEW s, NEW k
      PROVE  <<d, s, k>> \in dd
               <=> <<d, s, k>> \in dead /\ (d # c \/ s # r)
  BY <1>0, Zenon
<1>2. ASSUME NEW d, NEW s \in Rec, d # c \/ s # r
      PROVE  /\ s \in Unsynced(dd, d) <=> s \in Unsynced(dead, d)
             /\ s \in Synced(dd, d) <=> s \in Synced(dead, d)
  BY <1>1, <1>2, Zenon DEF Unsynced, Synced
<1>3. DeadElsewhere(dd, c, r)
  BY <1>2, Zenon DEF DeadElsewhere
<1>4. OthersDead(dd, c)
  <2> SUFFICES ASSUME NEW d \in Client \ {c}
               PROVE  /\ Unsynced(dd, d) = Unsynced(dead, d)
                      /\ Synced(dd, d) = Synced(dead, d)
    BY DEF OthersDead
  <2>1. d # c
    OBVIOUS
  <2>2. \A s \in Rec : /\ s \in Unsynced(dd, d) <=> s \in Unsynced(dead, d)
                       /\ s \in Synced(dd, d) <=> s \in Synced(dead, d)
    BY <1>2, <2>1
  <2>3. /\ Unsynced(dd, d) \subseteq Rec
        /\ Synced(dd, d) \subseteq Rec
        /\ Unsynced(dead, d) \subseteq Rec
        /\ Synced(dead, d) \subseteq Rec
    BY Zenon DEF Unsynced, Synced
  <2> QED BY <2>2, <2>3
<1>5. r \notin Synced(dd, c) /\ r \notin Unsynced(dd, c)
  BY <1>1, Zenon DEF Synced, Unsynced
<1> QED BY <1>3, <1>4, <1>5

LEMMA DeleteTraced ==
    ASSUME Traced, NEW c \in Client, Delete(c)
    PROVE  Traced'
<1> DEFINE r == editor[c].rec
           id == NewId(c)
           T == DeleteLocal(cl[c], id, r)
           E == EntriesOf(cl[c], r)
           loc == cl[c].local[r]
           b == loc.ver > 0
           un == Unsynced(dead', c)
           sy == Synced(dead', c)
<1>1. /\ editor[c] # Closed
      /\ Window(c, T, Closed, 1)
      /\ dead' = dead \cup {<<c, r, b>>}
  BY DEF Delete, Tombstone
<1>2. WellFormed' /\ TypeOK
  BY DeleteWellFormed DEF Traced, WellFormed
<1>3. r \in Rec /\ 1 \in Nat
  BY <1>1, <1>2, OpenForm
<1>4. /\ id \in ChangeId
      /\ FreshId(c, used[c], used[c] + 1, id)
      /\ srv.rcpt[id] = NoReceipt
  BY <1>1, OneId DEF Window
<1>5. /\ cl[c] \in Store
      /\ Distinct(cl[c])
      /\ E \in SUBSET OutboxEntry
      /\ loc \in LocalRow
      /\ Traces(srv, r, Unsynced(dead, c), Synced(dead, c), r, loc, E)
  BY <1>3, TracedView
<1>6. PICK F : /\ Becomes(cl[c], T, r, LocalGone(loc), F)
               /\ Deletes(E, F, id, r, loc)
  BY <1>3, <1>4, <1>5, DeleteView
<1>7. loc.ver \in Nat /\ b \in BOOLEAN
  BY <1>5 DEF LocalRow
<1>8. b <=> loc.ver > 0
  OBVIOUS
<1> HIDE DEF r, id, T, E, loc, b
<1>9. /\ DeadElsewhere(dead', c, r)
      /\ OthersDead(dead', c)
      /\ ~b => r \in un
      /\ r \in sy => b \/ r \in Synced(dead, c)
  BY <1>1, <1>3, <1>7, TombstoneAdded
<1> HIDE DEF un, sy
<1>10. \A x \in E : x.op # "delete"
  BY <1>5, FormQueuesNoDelete
<1>11. /\ ConflictsTraced(srv, r, E)
       /\ loc.ver > 0 => Exists(srv, r)
       /\ r \in Synced(dead, c) => Exists(srv, r) /\ srv.row[r].del
  BY <1>5, <1>10, NoDeleteQueued
<1>12. DeleteFits(srv, Closed.rec, un, sy, r, loc)
  BY <1>3, <1>8, <1>9, <1>11, ClosedForm DEF Confirmed, DeleteFits
<1>13. /\ Traces(srv, Closed.rec, un, sy, r, LocalGone(loc), F)
       /\ KeepsOps(srv, used[c], E, F)
  BY <1>3, <1>4, <1>5, <1>6, <1>11, <1>12, DeletesTraces
<1>14. \A s \in Rec : RecordTraced(srv, dead', c, used[c], Closed.rec, cl[c], T, s)
  BY <1>3, <1>6, <1>9, <1>13, ClosedForm, OneRecordTraced DEF E, un, sy
<1> QED BY <1>1, <1>2, <1>3, <1>9, <1>14, ClosedForm, WindowTraced

LEMMA KeepsOpsThen ==
    ASSUME NEW w, NEW n \in Nat, NEW m \in Nat, n <= m, NEW E,
           NEW D \in SUBSET OutboxEntry, NEW F \in SUBSET OutboxEntry,
           KeepsOps(w, n, E, D), KeepsOps(w, m, D, F)
    PROVE  KeepsOps(w, n, E, F)
<1> SUFFICES ASSUME NEW y \in F
             PROVE  \/ \E x \in E : /\ x.id = y.id
                                    /\ y.op = x.op \/ Rejected(w, y.id)
                    \/ n < y.id[2]
  BY DEF KeepsOps
<1>1. y.id[2] \in Nat
  BY EntryFields
<1>2. CASE m < y.id[2]
  BY <1>1, <1>2
<1>3. ASSUME NEW z \in D, z.id = y.id, y.op = z.op \/ Rejected(w, y.id)
      PROVE  \/ \E x \in E : /\ x.id = y.id
                             /\ y.op = x.op \/ Rejected(w, y.id)
             \/ n < y.id[2]
  <2>1. \/ \E x \in E : /\ x.id = z.id
                        /\ z.op = x.op \/ Rejected(w, z.id)
        \/ n < z.id[2]
    BY DEF KeepsOps
  <2> QED BY <1>3, <2>1
<1> QED BY <1>2, <1>3 DEF KeepsOps

LEMMA DeleteDirtyTraced ==
    ASSUME Traced, NEW c \in Client, NEW e \in Edit, DeleteDirty(c, e)
    PROVE  Traced'
<1> DEFINE old == editor[c]
           r == old.rec
           base == old.base
           n == used[c]
           m == n + 1
           val == old.val \cup {e}
           id == <<c, n + 1>>
           jd == <<c, n + 2>>
           S == cl[c]
           T == DeleteLocal(S, id, r)
           U == SaveLocal(T, jd, r, base, val)
           loc == S.local[r]
           E == EntriesOf(S, r)
           un == Unsynced(dead, c)
           sy == Synced(dead, c)
           ux == un \cup {r}
<1>1. /\ old # Closed
      /\ Window(c, U, Closed, 2)
      /\ dead' = dead
  BY DEF DeleteDirty, NewId
<1>2. WellFormed' /\ TypeOK
  BY DeleteDirtyWellFormed DEF Traced, WellFormed
<1>3. r \in Rec /\ base \in Nat /\ old.val \in Val
  BY <1>1, <1>2, OpenForm
<1>4. val \in Val
  BY <1>3, EditVal
<1>5. n + 2 <= scope.ids /\ n \in Nat
  BY <1>1, TracedView DEF Window
<1>6. /\ id \in ChangeId
      /\ jd \in ChangeId
      /\ srv.rcpt[id] = NoReceipt
      /\ srv.rcpt[jd] = NoReceipt
  <2>1. 1 \in Nat \ {0} /\ 2 \in Nat \ {0} /\ 2 \in Nat /\ 1 <= 2 /\ 2 <= 2
    OBVIOUS
  <2>2. <<c, used[c] + 1>> \in ChangeId
    BY <1>2, <1>5, <2>1, NewIdFresh
  <2>3. <<c, used[c] + 2>> \in ChangeId
    BY <1>2, <1>5, <2>1, NewIdFresh
  <2> QED BY <2>1, <2>2, <2>3, NewIdUnseen
<1>7. /\ FreshId(c, n, m, id)
      /\ FreshId(c, m, n + 2, jd)
      /\ m \in Nat
      /\ n <= m
      /\ 2 \in Nat
  BY <1>5 DEF FreshId
<1>8. /\ S \in Store
      /\ StoreSound(S, c, n)
      /\ Distinct(S)
      /\ E \in SUBSET OutboxEntry
      /\ loc \in LocalRow
      /\ Traces(srv, r, un, sy, r, loc, E)
  BY <1>3, TracedView
<1> HIDE DEF n, m, val, r, id, jd, base, un, sy
<1>9. PICK D : /\ Becomes(S, T, r, LocalGone(loc), D)
               /\ Deletes(E, D, id, r, loc)
  BY <1>3, <1>6, <1>8, DeleteView
<1>10. StoreSound(T, c, m)
  <2>1. StoreStep(S, T, c, n, m)
    BY <1>3, <1>6, <1>7, <1>8, DeleteStoreStep
  <2> QED BY <1>5, <1>7, <1>8, <2>1, StoreStepSound
<1> HIDE DEF T, S
<1>11. /\ T \in Store
       /\ Distinct(T)
       /\ EntriesOf(T, r) = D
       /\ D \in SUBSET OutboxEntry
       /\ T.local[r] = LocalGone(loc)
  <2>1. T \in Store /\ Distinct(T)
    BY <1>10 DEF StoreSound
  <2>2. EntriesOf(T, r) = D /\ T.local[r] = LocalGone(loc)
    BY <1>9, Zenon DEF Becomes
  <2>3. EntriesOf(T, r) \in SUBSET OutboxEntry
    BY <1>3, <1>10, StoreView DEF ViewSound
  <2> QED BY <2>1, <2>2, <2>3, Zenon
<1> DEFINE row == LocalAt(T.local[r].ver, val)
<1>12. PICK F : /\ Becomes(T, U, r, row, F)
                /\ Saves(D, F, jd, r, base, val)
  BY <1>3, <1>4, <1>6, <1>11, SaveView
<1>13. row.ver = loc.ver
  BY <1>8, <1>11, LocalGoneFields DEF LocalAt
<1> HIDE DEF row, U, E, loc
<1>14. F \in SUBSET OutboxEntry
  <2>1. U \in Store /\ F = EntriesOf(U, r)
    BY <1>12 DEF Becomes, Elsewhere
  <2> QED BY <2>1, StoreFields DEF EntriesOf
<1>15. /\ ConflictsTraced(srv, r, E)
       /\ loc.ver > 0 => Exists(srv, r)
       /\ r \in sy => Exists(srv, r) /\ srv.row[r].del
  BY <1>8, FormQueuesNoDelete, NoDeleteQueued
<1>16. /\ Traces(srv, Closed.rec, ux, sy, r, LocalGone(loc), D)
       /\ KeepsOps(srv, n, E, D)
  <2>1. DeleteFits(srv, Closed.rec, ux, sy, r, loc)
    BY <1>3, <1>15, ClosedForm DEF Confirmed, DeleteFits
  <2> HIDE DEF ux
  <2> QED BY <1>3, <1>6, <1>7, <1>8, <1>9, <1>15, <2>1, DeletesTraces
<1> HIDE DEF ux
<1>17. ConflictsTraced(srv, r, D)
  BY <1>16 DEF Traces, ConflictsTraced, EntryTraced
<1>18. row.ver > 0 => Exists(srv, r)
  BY <1>13, <1>15
<1>19. /\ Traces(srv, Closed.rec, un, sy, r, row, F)
       /\ KeepsOps(srv, m, D, F)
  BY <1>3, <1>4, <1>6, <1>7, <1>11, <1>12, <1>15, <1>17, <1>18, SavesTraces
<1>20. KeepsOps(srv, n, E, F)
  BY <1>5, <1>7, <1>11, <1>14, <1>16, <1>19, KeepsOpsThen
<1>21. Becomes(S, U, r, row, F)
  BY <1>9, <1>12, BecomesThen
<1>22. DeadElsewhere(dead', c, r) /\ OthersDead(dead', c)
  BY <1>1, SameDead
<1>23. \A s \in Rec : RecordTraced(srv, dead', c, n, Closed.rec, S, U, s)
  BY <1>1, <1>3, <1>19, <1>20, <1>21, <1>22, ClosedForm, OneRecordTraced
     DEF E, un, sy, S
<1> QED BY <1>1, <1>2, <1>7, <1>22, <1>23, ClosedForm, WindowTraced DEF S, n

LEMMA LoginTraced ==
    ASSUME Traced, NEW c \in Client, Login(c)
    PROVE  Traced'
<1> DEFINE S == cl[c]
           T == ReleaseAuthentication(S)
<1>1. Window(c, T, editor[c], 0) /\ dead' = dead
  BY DEF Login, history
<1>2. /\ WellFormed'
      /\ editor[c] \in Editor
      /\ 0 \in Nat
  BY LoginWellFormed DEF Traced, WellFormed, TypeOK
<1>3. S \in Store /\ Distinct(S)
  BY TracedView
<1>4. /\ T.local = S.local
      /\ \A r \in Rec : Touches(EntriesOf(S, r), EntriesOf(T, r), {})
  BY <1>3, ReleaseView
<1> HIDE DEF T
<1>5. ASSUME NEW r \in Rec
      PROVE  RecordTraced(srv, dead', c, used[c], editor[c].rec, S, T, r)
  <2>1. Traces(srv, editor[c].rec, Unsynced(dead, c), Synced(dead, c), r,
               S.local[r], EntriesOf(S, r))
    BY TracedView
  <2>2. Touches(EntriesOf(S, r), EntriesOf(T, r), {})
    BY <1>4
  <2> QED BY <1>1, <1>4, <2>1, <2>2, TouchesTraces DEF RecordTraced
<1>6. OthersDead(dead', c)
  BY <1>1, SameDead
<1> QED BY <1>1, <1>2, <1>5, <1>6, WindowTraced

\* The entry of a conflict, when it is the only one of its record.
LEMMA ConflictView ==
    ASSUME Traced, NEW c \in Client, NEW x \in cl[c].box
    PROVE  /\ x.rec \in Rec
           /\ x.op \in Ops
           /\ x.val \in Val
           /\ x.srv.ver \in Nat
           /\ EntriesOf(cl[c], x.rec) = {x}
           /\ EntryTraced(srv, editor[c].rec, Unsynced(dead, c), x.rec, x)
           /\ IsConflict(x) => Exists(srv, x.rec)
           /\ cl[c].local[x.rec].ver \in Nat
<1>1. /\ StoreSound(cl[c], c, used[c])
      /\ cl[c] \in Store
      /\ Distinct(cl[c])
  BY TracedView
<1>2. /\ x.rec \in Rec
      /\ x.op \in Ops
      /\ x.val \in Val
      /\ x.srv.ver \in Nat
      /\ cl[c].local[x.rec].ver \in Nat
  BY <1>1, EntrySound
<1>3. x \in EntriesOf(cl[c], x.rec)
  BY DEF EntriesOf
<1>4. EntriesOf(cl[c], x.rec) = {x}
  BY <1>1, <1>2, <1>3, OnlyEntry
<1>5. EntryTraced(srv, editor[c].rec, Unsynced(dead, c), x.rec, x)
  BY <1>2, <1>3, TracedView DEF Traces
<1> QED BY <1>2, <1>4, <1>5 DEF EntryTraced

LEMMA KeepMineTraced ==
    ASSUME Traced, NEW c \in Client, NEW x \in cl[c].box,
           ResolveKeepMine(c, x)
    PROVE  Traced'
<1> DEFINE S == cl[c]
           n == used[c]
           id == NewId(c)
           T == KeepMine(S, x, id)
           b == Larger(x.srv.ver, S.local[x.rec].ver)
           loc == S.local[x.rec]
           r == x.rec
           op == x.op
           val == x.val
           ed == editor[c].rec
           un == Unsynced(dead, c)
           sy == Synced(dead, c)
           y == Fresh(id, r, op, b, val)
<1>1. /\ Window(c, T, editor[c], 1)
      /\ dead' = dead
      /\ IsConflict(x)
  BY DEF ResolveKeepMine, CanKeepMine
<1>2. /\ WellFormed'
      /\ editor[c] \in Editor
      /\ 1 \in Nat
  BY KeepMineWellFormed DEF Traced, WellFormed, TypeOK
<1>3. /\ id \in ChangeId
      /\ FreshId(c, n, n + 1, id)
      /\ srv.rcpt[id] = NoReceipt
  BY <1>1, OneId DEF Window
<1>4. /\ r \in Rec
      /\ op \in Ops
      /\ val \in Val
      /\ b \in Nat
      /\ EntriesOf(S, r) = {x}
      /\ EntryTraced(srv, ed, un, r, x)
      /\ Exists(srv, r)
  BY <1>1, ConflictView, LargerNat
<1>5. Becomes(S, T, r, loc, {y})
  BY <1>3, KeepMineView, TracedView
<1>6. Traces(srv, ed, un, sy, r, loc, {x})
  <2>1. Traces(srv, ed, un, sy, r, loc, EntriesOf(S, r))
    BY <1>4, TracedView
  <2> QED BY <1>4, <2>1
<1>7. /\ op = "delete" => ed # r /\ (r \in un \/ Exists(srv, r))
      /\ r \in sy => Exists(srv, r) /\ (srv.row[r].del \/ op = "delete")
      /\ loc.ver > 0 => Exists(srv, r)
  BY <1>4, <1>6 DEF Traces, DeleteWaits, EntryTraced
<1> HIDE DEF n, id, T, b, loc, r, op, val, ed, un, sy, S
<1>8. /\ Traces(srv, ed, un, sy, r, loc, {y})
      /\ KeepsOps(srv, n, {x}, {y})
  BY <1>3, <1>4, <1>7, FreshTraces
<1> HIDE DEF y
<1>9. DeadElsewhere(dead', c, r) /\ OthersDead(dead', c)
  BY <1>1, SameDead
<1>10. \A s \in Rec : RecordTraced(srv, dead', c, n, ed, S, T, s)
  BY <1>1, <1>4, <1>5, <1>8, <1>9, OneRecordTraced DEF un, sy, S, ed
<1> QED BY <1>1, <1>2, <1>9, <1>10, WindowTraced DEF S, n, ed

LEMMA UseServerTraced ==
    ASSUME Traced, NEW c \in Client, NEW x \in cl[c].box,
           ResolveUseServer(c, x)
    PROVE  Traced'
<1> DEFINE S == cl[c]
           n == used[c]
           T == UseServer(S, x)
           r == x.rec
           ed == editor[c].rec
           un == Unsynced(dead', c)
           sy == Synced(dead', c)
<1>1. /\ Window(c, T, editor[c], 0)
      /\ dead' = {t \in dead : t[1] # c \/ t[2] # r}
      /\ CanUseServer(S, x)
      /\ IsConflict(x)
  BY DEF ResolveUseServer, CanUseServer
<1>2. /\ WellFormed'
      /\ editor[c] \in Editor
      /\ 0 \in Nat
  BY UseServerWellFormed DEF Traced, WellFormed, TypeOK
<1>3. r \in Rec /\ Exists(srv, r)
  BY <1>1, ConflictView
<1>4. Becomes(S, T, r, x.srv, {})
  BY <1>1, UseServerView, TracedView
<1> HIDE DEF T, r
<1>5. /\ DeadElsewhere(dead', c, r)
      /\ OthersDead(dead', c)
      /\ r \notin sy
  BY <1>1, <1>3, TombstonesDropped
<1>6. Traces(srv, ed, un, sy, r, x.srv, {})
  BY <1>3, <1>5 DEF Traces
<1>7. KeepsOps(srv, n, EntriesOf(S, r), {})
  BY NoneTraces
<1>8. \A s \in Rec : RecordTraced(srv, dead', c, n, ed, S, T, s)
  BY <1>3, <1>4, <1>5, <1>6, <1>7, OneRecordTraced
<1> QED BY <1>1, <1>2, <1>5, <1>8, WindowTraced

LEMMA MergeTraced ==
    ASSUME Traced, NEW c \in Client, NEW x \in cl[c].box,
           ResolveMerge(c, x)
    PROVE  Traced'
<1> DEFINE S == cl[c]
           n == used[c]
           id == NewId(c)
           T == Merge(S, x, id)
           val == x.val \cup x.srv.val
           b == x.srv.ver
           r == x.rec
           ed == editor[c].rec
           un == Unsynced(dead, c)
           sy == Synced(dead, c)
<1>1. /\ CanMerge(S, x)
      /\ IsConflict(x)
      /\ x.op = "upsert"
      /\ Window(c, T, editor[c], 1)
      /\ dead' = dead
  BY DEF ResolveMerge, CanMerge
<1>2. /\ WellFormed'
      /\ editor[c] \in Editor
      /\ 1 \in Nat
  BY MergeWellFormed DEF Traced, WellFormed, TypeOK
<1>3. /\ id \in ChangeId
      /\ FreshId(c, n, n + 1, id)
      /\ srv.rcpt[id] = NoReceipt
  BY <1>1, OneId DEF Window
<1>4. /\ r \in Rec
      /\ b \in Nat
      /\ EntriesOf(S, r) = {x}
      /\ Exists(srv, r)
  BY <1>1, ConflictView
<1>5. /\ val \in Val
      /\ \E loc : Becomes(S, T, r, loc, {Fresh(id, r, "upsert", b, val)})
  BY <1>1, <1>3, MergeView, TracedView
<1> PICK op \in Ops : op = "upsert"
  BY DEF Ops
<1>6. PICK loc : Becomes(S, T, r, loc, {Fresh(id, r, op, b, val)})
  BY <1>5
<1>7. Traces(srv, ed, un, sy, r, S.local[r], {x})
  <2>1. Traces(srv, ed, un, sy, r, S.local[r], EntriesOf(S, r))
    BY <1>4, TracedView
  <2> QED BY <1>4, <2>1
<1>8. /\ op = "delete" => ed # r /\ (r \in un \/ Exists(srv, r))
      /\ r \in sy => Exists(srv, r) /\ (srv.row[r].del \/ op = "delete")
      /\ loc.ver > 0 => Exists(srv, r)
  BY <1>1, <1>4, <1>6, <1>7 DEF Traces, DeleteWaits
<1> HIDE DEF n, id, T, b, r, val, ed, un, sy, S
<1>9. /\ Traces(srv, ed, un, sy, r, loc, {Fresh(id, r, op, b, val)})
      /\ KeepsOps(srv, n, {x}, {Fresh(id, r, op, b, val)})
  BY <1>3, <1>4, <1>5, <1>6, <1>8, FreshTraces
<1>10. DeadElsewhere(dead', c, r) /\ OthersDead(dead', c)
  BY <1>1, SameDead
<1> DEFINE y == Fresh(id, r, op, b, val)
<1> HIDE DEF y
<1>11. \A s \in Rec : RecordTraced(srv, dead', c, n, ed, S, T, s)
  BY <1>1, <1>4, <1>6, <1>9, <1>10, OneRecordTraced DEF un, sy, S, ed, y
<1> QED BY <1>1, <1>2, <1>10, <1>11, WindowTraced DEF S, n, ed

\* The parts of a pass after a step.
LEMMA PassParts ==
    ASSUME NEW p \in Pass, NEW pc, NEW batch, NEW results, NEW todo, NEW rows,
           NEW snap
    PROVE  /\ [p EXCEPT !.pc = pc].pc = pc
           /\ [p EXCEPT !.pc = pc].batch = p.batch
           /\ [p EXCEPT !.pc = pc].rows = p.rows
           /\ [p EXCEPT !.pc = pc, !.batch = batch].pc = pc
           /\ [p EXCEPT !.pc = pc, !.batch = batch].batch = batch
           /\ [p EXCEPT !.pc = pc, !.batch = batch].rows = p.rows
           /\ [p EXCEPT !.pc = pc, !.results = results].pc = pc
           /\ [p EXCEPT !.pc = pc, !.results = results].batch = p.batch
           /\ [p EXCEPT !.pc = pc, !.results = results].rows = p.rows
           /\ [p EXCEPT !.pc = pc, !.results = results].results = results
           /\ [p EXCEPT !.pc = pc, !.todo = todo].pc = pc
           /\ [p EXCEPT !.pc = pc, !.todo = todo].batch = p.batch
           /\ [p EXCEPT !.pc = pc, !.todo = todo].rows = p.rows
           /\ Repulled(p, pc, rows, snap).pc = pc
           /\ Repulled(p, pc, rows, snap).batch = p.batch
           /\ Repulled(p, pc, rows, snap).rows = rows
           /\ Repulled(p, pc, rows, snap).snap = snap
BY DEF Pass, Repulled

LEMMA NoPassParts ==
    /\ NoPass \in Pass
    /\ NoPass.pc = "idle"
    /\ NoPass.batch = <<>>
    /\ NoPass.rows = NoRows
<1>1. NoPass \in Pass
  BY NoPassSound, PassFields
<1> QED BY <1>1 DEF NoPass

LEMMA NoRowsKnown ==
    ASSUME NEW w
    PROVE  RowsKnown(w, NoRows)
BY DEF RowsKnown, NoRows, NoRow

LEMMA NoOps ==
    ASSUME NEW w, NEW S
    PROVE  OpsMatch(w, S, <<>>)
BY DEF OpsMatch

\* A step of the pass that leaves the server and the requests on the way.
LEMMA QuietWorkerTraced ==
    ASSUME Traced, WellFormed', NEW c \in Client, NEW T, NEW p,
           Worker(c, T, p), srv' = srv, late' = late,
           \A d \in Client \ {c} : editor'[d] = editor[d],
           p.batch = pass[c].batch \/ OpsMatch(srv, T, p.batch),
           RowsKnown(srv, p.rows),
           \A r \in Rec : RecordTraced(srv, dead, c, used[c], editor'[c].rec,
                                       cl[c], T, r)
    PROVE  Traced'
<1>1. TracedBy(srv')
  BY DEF Traced
<1>2. \A q \in late' : \/ q \in late
                       \/ q = [user |-> c, batch |-> pass[c].batch]
  OBVIOUS
<1>3. /\ p.batch = pass[c].batch \/ OpsMatch(srv', T, p.batch)
      /\ RowsKnown(srv', p.rows)
      /\ \A r \in Rec : RecordTraced(srv', dead, c, used[c], editor'[c].rec,
                                     cl[c], T, r)
  OBVIOUS
<1> QED BY <1>1, <1>2, <1>3, WorkerTraced

\* A database that a step leaves alone, the form being left or closed.
LEMMA SameTraced ==
    ASSUME Traced, NEW c \in Client, NEW ed,
           ed \in Rec => ed = editor[c].rec, NEW n
    PROVE  \A r \in Rec : RecordTraced(srv, dead, c, n, ed, cl[c], cl[c], r)
BY RestTraced

\* The changes of a batch ask for what their entries ask for.
LEMMA SelectedOps ==
    ASSUME NEW c, NEW n \in Nat, NEW S, StoreSound(S, c, n), NEW due,
           NEW limit \in Nat, NEW todo \in PendingChanges(S, due, limit), NEW w
    PROVE  OpsMatch(w, S, Selected(todo))
<1> DEFINE batch == Selected(todo)
<1>1. /\ DOMAIN batch = DOMAIN todo
      /\ \A k \in DOMAIN todo : /\ batch[k] = AsChange(todo[k])
                                /\ todo[k] \in S.box
                                /\ todo[k] \in OutboxEntry
  <2>1. todo \in Seq(S.box)
    BY PendingFacts
  <2>2. \A k \in DOMAIN todo : todo[k] \in S.box /\ todo[k] \in OutboxEntry
    BY <2>1, StoreFields DEF StoreSound
  <2> QED BY <2>2 DEF Selected
<1> HIDE DEF batch
<1>2. ASSUME NEW k \in DOMAIN batch, NEW x \in S.box, x.id = batch[k].id
      PROVE  x.op = batch[k].pay.op
  <2>1. /\ batch[k].id = todo[k].id
        /\ batch[k].pay.op = todo[k].op
        /\ todo[k] \in S.box
    BY <1>1, AsChangeFields
  <2>2. x = todo[k]
    BY <1>2, <2>1 DEF StoreSound, Distinct
  <2> QED BY <2>1, <2>2
<1>3. OpsMatch(w, S, batch)
  BY <1>2 DEF OpsMatch
<1> QED BY <1>3 DEF batch

LEMMA SelectTraced ==
    ASSUME Traced, NEW c \in Client, NEW due, Select(c, due)
    PROVE  Traced'
<1> DEFINE S == cl[c]
<1>1. /\ StoreSound(S, c, used[c])
      /\ used[c] \in Nat
      /\ scope.batch \in Nat
      /\ WellFormed
      /\ TypeOK
      /\ Distinct(S)
  BY ScopeFields, TracedView DEF WellFormed
<1>2. WellFormed'
  BY <1>1, SelectWellFormed
<1>3. PICK todo \in PendingChanges(S, due, scope.batch) :
         Worker(c, S, [NoPass EXCEPT !.pc = IF todo = <<>> THEN "settled"
                                            ELSE "selected",
                                     !.batch = Selected(todo)])
  BY DEF Select, Selected
<1> DEFINE pc == IF todo = <<>> THEN "settled" ELSE "selected"
           batch == Selected(todo)
           p == [NoPass EXCEPT !.pc = pc, !.batch = batch]
<1>4. Worker(c, S, p)
  BY <1>3
<1>5. OpsMatch(srv, S, batch)
  <2>1. PICK limit \in Nat : limit = scope.batch
    BY <1>1
  <2>2. todo \in PendingChanges(S, due, limit)
    BY <1>3, <2>1
  <2> QED BY <1>1, <2>2, SelectedOps
<1> HIDE DEF pc, batch
<1>6. p.batch = batch /\ p.rows = NoRows
  BY NoPassParts, PassParts
<1> HIDE DEF p
<1>7. srv' = srv /\ late' = late /\ editor' = editor
  BY DEF Select
<1>8. RowsKnown(srv, p.rows) /\ OpsMatch(srv, S, p.batch)
  BY <1>5, <1>6, NoRowsKnown
<1>9. \A r \in Rec : RecordTraced(srv, dead, c, used[c], editor'[c].rec, S, S, r)
  BY <1>7, SameTraced
<1> QED BY <1>2, <1>4, <1>7, <1>8, <1>9, QuietWorkerTraced

\* Entries that a step of the pass has touched.
LEMMA TouchedTraced ==
    ASSUME NEW w, TracedBy(w), NEW c \in Client, NEW T,
           T.local = cl[c].local, NEW ids, NEW n,
           \A r \in Rec : Touches(EntriesOf(cl[c], r), EntriesOf(T, r), ids)
    PROVE  \A r \in Rec : RecordTraced(w, dead, c, n, editor[c].rec, cl[c], T, r)
<1> SUFFICES ASSUME NEW r \in Rec
             PROVE  RecordTraced(w, dead, c, n, editor[c].rec, cl[c], T, r)
  OBVIOUS
<1>1. Traces(w, editor[c].rec, Unsynced(dead, c), Synced(dead, c), r,
             cl[c].local[r], EntriesOf(cl[c], r))
  BY DEF TracedBy, DeviceTraced
<1>2. Touches(EntriesOf(cl[c], r), EntriesOf(T, r), ids)
  OBVIOUS
<1> QED BY <1>1, <1>2, TouchesTraces DEF RecordTraced

LEMMA PushTraced ==
    ASSUME Traced, NEW c \in Client, NEW fails \in BOOLEAN, Push(c, fails)
    PROVE  Traced'
<1> DEFINE S == cl[c]
           p == pass[c]
           o == PushChanges(srv, c, p.batch, fails)
           res == Results(o.done)
           T == MarkAttempted(S, BatchIds(c))
           q == [p EXCEPT !.pc = "answered", !.results = res]
<1>1. /\ WellFormed
      /\ TracedBy(srv)
      /\ S \in Store
      /\ Distinct(S)
      /\ PassSound(srv, S, c, used[c], p)
      /\ BatchSound(S, c, used[c], p.batch)
      /\ GoodBatch(p.batch)
      /\ ServerSound(srv)
      /\ OpsMatch(srv, S, p.batch)
      /\ RowsKnown(srv, p.rows)
      /\ p \in Pass
  BY TracedView DEF PassSound, BatchSound
<1>2. WellFormed'
  BY <1>1, PushWellFormed
<1>3. /\ srv' = o.work
      /\ Worker(c, T, q)
      /\ editor' = editor
      /\ late' = late
  BY DEF Push
<1>4. /\ ServerSound(o.work)
      /\ Advances(srv, o.work)
      /\ NewReceipts(srv, o.work, p.batch)
  BY <1>1, AnswerSound, UserIsClient
<1>5. TracedBy(o.work)
  BY <1>1, <1>4, ServerTraced
<1>6. TracedBy(srv')
  BY <1>3, <1>5
<1>7. /\ q.batch = p.batch
      /\ q.rows = p.rows
  BY <1>1, PassParts
<1>8. /\ T.local = S.local
      /\ \A r \in Rec : Touches(EntriesOf(S, r), EntriesOf(T, r), BatchIds(c))
  BY <1>1, MarkAttemptedView
<1> HIDE DEF o, res, T, q
<1>9. RowsKnown(srv', q.rows)
  BY <1>6, <1>7 DEF TracedBy, DeviceTraced
<1>10. \A r \in Rec : RecordTraced(srv', dead, c, used[c], editor[c].rec, S, T, r)
  BY <1>6, <1>8, TouchedTraced
<1> QED BY <1>2, <1>3, <1>6, <1>7, <1>9, <1>10, WorkerTraced

LEMMA PushFailsTraced ==
    ASSUME Traced, NEW c \in Client, NEW outcome, PushFails(c, outcome)
    PROVE  Traced'
<1> DEFINE S == cl[c]
           p == pass[c]
           T == MarkAttempted(S, BatchIds(c))
           pc == IF outcome = "denied" THEN "denied" ELSE "failed"
           q == [p EXCEPT !.pc = pc]
<1>1. /\ WellFormed
      /\ TracedBy(srv)
      /\ S \in Store
      /\ Distinct(S)
      /\ PassSound(srv, S, c, used[c], p)
      /\ BatchSound(S, c, used[c], p.batch)
      /\ GoodBatch(p.batch)
      /\ ServerSound(srv)
      /\ OpsMatch(srv, S, p.batch)
      /\ p \in Pass
  BY TracedView DEF PassSound, BatchSound
<1>2. WellFormed'
  BY <1>1, PushFailsWellFormed
<1>3. /\ Worker(c, T, q)
      /\ editor' = editor
      /\ \/ srv' = srv
         \/ srv' = PushChanges(srv, c, p.batch, FALSE).work
  BY DEF PushFails
<1>4. \A m \in late' : \/ m \in late
                       \/ m = [user |-> c, batch |-> p.batch]
  <2>1. CASE outcome = "late"
    BY <2>1 DEF PushFails
  <2>2. CASE outcome # "late"
    BY <2>2 DEF PushFails
  <2> QED BY <2>1, <2>2
<1>5. TracedBy(srv')
  <2>1. CASE srv' = srv
    BY <1>1, <2>1
  <2>2. CASE srv' = PushChanges(srv, c, p.batch, FALSE).work
    <3> DEFINE v == PushChanges(srv, c, p.batch, FALSE).work
    <3>1. /\ ServerSound(v)
          /\ Advances(srv, v)
          /\ NewReceipts(srv, v, p.batch)
      BY <1>1, AnswerSound, UserIsClient
    <3> HIDE DEF v
    <3>2. TracedBy(v)
      BY <1>1, <3>1, ServerTraced
    <3> QED BY <2>2, <3>2 DEF v
  <2> QED BY <1>3, <2>1, <2>2
<1> HIDE DEF pc
<1>6. /\ q.batch = p.batch
      /\ q.rows = p.rows
  BY <1>1, PassParts
<1>7. /\ T.local = S.local
      /\ \A r \in Rec : Touches(EntriesOf(S, r), EntriesOf(T, r), BatchIds(c))
  BY <1>1, MarkAttemptedView
<1> HIDE DEF T, q
<1>8. RowsKnown(srv', q.rows)
  BY <1>5, <1>6 DEF TracedBy, DeviceTraced
<1>9. \A r \in Rec : RecordTraced(srv', dead, c, used[c], editor[c].rec, S, T, r)
  BY <1>5, <1>7, TouchedTraced
<1> QED BY <1>2, <1>3, <1>4, <1>5, <1>6, <1>8, <1>9, WorkerTraced

LEMMA LateDeliveryTraced ==
    ASSUME Traced, NEW m \in late, LateDelivery(m)
    PROVE  Traced'
<1> DEFINE v == PushChanges(srv, m.user, m.batch, FALSE).work
<1>1. /\ WellFormed
      /\ TracedBy(srv)
      /\ ServerSound(srv)
      /\ TypeOK
  BY DEF Traced, WellFormed
<1>2. /\ srv' = v
      /\ late' \subseteq late
      /\ cl' = cl
      /\ pass' = pass
      /\ editor' = editor
      /\ used' = used
      /\ dead' = dead
  BY DEF LateDelivery, history
<1>3. /\ m.user \in Client
      /\ m.user \in User
      /\ BatchSound(cl[m.user], m.user, used[m.user], m.batch)
      /\ GoodBatch(m.batch)
      /\ OpsMatch(srv, cl[m.user], m.batch)
  BY <1>1, UserIsClient DEF TypeOK, WellFormed, BatchSound, TracedBy
<1>4. /\ ServerSound(v)
      /\ Advances(srv, v)
      /\ NewReceipts(srv, v, m.batch)
  BY <1>1, <1>3, AnswerSound
<1> HIDE DEF v
<1>5. TracedBy(v)
  BY <1>1, <1>3, <1>4, ServerTraced
<1>6. TracedBy(srv)'
  BY <1>2, <1>5 DEF TracedBy, ReceiptsUsed
<1> QED BY <1>1, <1>6, LateDeliveryWellFormed DEF Traced

LEMMA FailBatchTraced ==
    ASSUME Traced, NEW c \in Client, FailBatch(c)
    PROVE  Traced'
<1> DEFINE S == cl[c]
           ids == BatchIds(c)
<1>1. /\ WellFormed
      /\ TracedBy(srv)
      /\ S \in Store
      /\ Distinct(S)
  BY TracedView
<1>2. WellFormed'
  BY <1>1, FailBatchWellFormed
<1>3. PICK T : Worker(c, T, NoPass) /\ (T = Defer(S, ids) \/ T = Refuse(S, ids))
  BY DEF FailBatch, Refuse
<1>4. /\ T.local = S.local
      /\ \A r \in Rec : Touches(EntriesOf(S, r), EntriesOf(T, r), ids)
  BY <1>1, <1>3, DeferView, RefuseView
<1>5. srv' = srv /\ editor' = editor /\ late' = late
  BY DEF FailBatch
<1>6. RowsKnown(srv, NoPass.rows) /\ OpsMatch(srv, T, NoPass.batch)
  BY NoPassParts, NoRowsKnown, NoOps
<1>7. \A r \in Rec : RecordTraced(srv, dead, c, used[c], editor'[c].rec, S, T, r)
  BY <1>1, <1>4, <1>5, TouchedTraced
<1> QED BY <1>2, <1>3, <1>5, <1>6, <1>7, QuietWorkerTraced

LEMMA AcknowledgeTraced ==
    ASSUME Traced, NEW c \in Client, AcknowledgeResults(c)
    PROVE  Traced'
<1> DEFINE S == cl[c]
           p == pass[c]
           T == Acknowledge(S, p.results)
           todo == Unsettled(p.results)
           pc == AfterAnswer(todo)
           q == [p EXCEPT !.pc = pc, !.todo = todo]
<1>1. /\ WellFormed
      /\ S \in Store
      /\ Distinct(S)
      /\ ServerSound(srv)
      /\ PassSound(srv, S, c, used[c], p)
      /\ RowsKnown(srv, p.rows)
      /\ p \in Pass
  BY TracedView DEF PassSound
<1>2. WellFormed'
  BY <1>1, AcknowledgeWellFormed
<1>3. /\ Worker(c, T, q)
      /\ srv' = srv
      /\ editor' = editor
      /\ late' = late
  BY DEF AcknowledgeResults
<1>4. \A r \in Rec : AcksIn(p.results, r, S.local[r], EntriesOf(S, r),
                            T.local[r], EntriesOf(T, r))
  BY <1>1, ResultsOfBatch, AcknowledgeView
<1> HIDE DEF T, todo, pc
<1>5. /\ q.batch = p.batch
      /\ q.rows = p.rows
  BY <1>1, PassParts
<1> HIDE DEF q
<1>6. ASSUME NEW r \in Rec
      PROVE  RecordTraced(srv, dead, c, used[c], editor[c].rec, S, T, r)
  <2> DEFINE un == Unsynced(dead, c)
             sy == Synced(dead, c)
             E == EntriesOf(S, r)
             F == EntriesOf(T, r)
  <2>1. /\ Traces(srv, editor[c].rec, un, sy, r, S.local[r], E)
        /\ E \in SUBSET OutboxEntry
        /\ S.local[r] \in LocalRow
    BY TracedView
  <2>2. CASE T.local[r] = S.local[r] /\ F = E
    BY <2>1, <2>2, NoneTraces DEF RecordTraced
  <2>3. ASSUME NEW k \in DOMAIN p.results, HasState(p.results[k]),
               p.results[k].rec = r,
               Acks(S.local[r], E, T.local[r], F, p.results[k])
        PROVE  RecordTraced(srv, dead, c, used[c], editor[c].rec, S, T, r)
    <3>1. /\ ResultSound(srv, c, p.batch[k], p.results[k])
          /\ p.batch[k] \in ClientChange
      BY <1>1, ResultsOfBatch
    <3>2. PICK res : res = p.results[k]
      OBVIOUS
    <3>3. /\ AckVersion(res) \in Nat
          /\ Exists(srv, r)
          /\ Accepted(srv, res.id)
      BY <1>1, <2>3, <3>1, <3>2, ResultTells DEF HasState
    <3>4. Acks(S.local[r], E, T.local[r], F, res)
      BY <2>3, <3>2
    <3> HIDE DEF un, sy, E, F
    <3>5. /\ Traces(srv, editor[c].rec, un, sy, r, T.local[r], F)
          /\ KeepsOps(srv, used[c], E, F)
      BY <2>1, <3>3, <3>4, AcksTraces
    <3> QED BY <3>5 DEF RecordTraced, un, sy, E, F
  <2> QED BY <1>4, <2>2, <2>3 DEF AcksIn
<1>7. RowsKnown(srv, q.rows)
  BY <1>1, <1>5
<1>8. \A r \in Rec : RecordTraced(srv, dead, c, used[c], editor'[c].rec, S, T, r)
  BY <1>3, <1>6
<1> QED BY <1>2, <1>3, <1>5, <1>7, <1>8, QuietWorkerTraced

LEMMA SettleTraced ==
    ASSUME Traced, NEW c \in Client, NEW k, SettleResult(c, k)
    PROVE  Traced'
<1> DEFINE S == cl[c]
           p == pass[c]
           T == Settle(S, p.results[k])
           todo == p.todo \ {k}
           pc == AfterAnswer(todo)
           q == [p EXCEPT !.pc = pc, !.todo = todo]
<1>1. /\ WellFormed
      /\ S \in Store
      /\ Distinct(S)
      /\ ServerSound(srv)
      /\ PassSound(srv, S, c, used[c], p)
      /\ RowsKnown(srv, p.rows)
      /\ p \in Pass
  BY TracedView DEF PassSound
<1>2. WellFormed'
  BY <1>1, SettleWellFormed
<1>3. /\ k \in p.todo
      /\ Worker(c, T, q)
      /\ srv' = srv
      /\ editor' = editor
      /\ late' = late
  BY DEF SettleResult
<1>4. k \in DOMAIN p.results
  BY <1>1, <1>3 DEF PassSound
<1>5. PICK res : res = p.results[k]
  OBVIOUS
<1>6. /\ res \in ProperResult
      /\ res.status = "error" => res.kind # "conflict"
      /\ ResultSound(srv, c, p.batch[k], res)
      /\ p.batch[k] \in ClientChange
      /\ \A x \in S.box : x.id = res.id => x.rec = res.rec
  BY <1>1, <1>4, <1>5, ResultsOfBatch DEF ResultSound
<1>7. /\ T.local = S.local
      /\ \A r \in Rec : Settles(EntriesOf(S, r), EntriesOf(T, r), res)
  BY <1>1, <1>5, <1>6, SettleView
<1> HIDE DEF T, todo, pc
<1>8. /\ q.batch = p.batch
      /\ q.rows = p.rows
  BY <1>1, PassParts
<1> HIDE DEF q
<1>9. ASSUME NEW r \in Rec
      PROVE  RecordTraced(srv, dead, c, used[c], editor[c].rec, S, T, r)
  <2> DEFINE un == Unsynced(dead, c)
             sy == Synced(dead, c)
             E == EntriesOf(S, r)
             F == EntriesOf(T, r)
  <2>1. /\ Traces(srv, editor[c].rec, un, sy, r, S.local[r], E)
        /\ E \in SUBSET OutboxEntry
    BY TracedView
  <2>2. /\ res.status = "accepted" => Accepted(srv, res.id)
        /\ res.status = "conflict" => Rejected(srv, res.id)
        /\ res.status = "conflict" => Exists(srv, res.rec)
        /\ res.row \in ProperRow
    BY <1>1, <1>6, ResultTells
  <2>3. res.status = "conflict" /\ (\E x \in E : x.id = res.id)
           => Exists(srv, r)
    BY <1>6, <2>2 DEF EntriesOf
  <2>4. AsLocal(res.row) \in LocalRow
    BY <2>2, AsLocalType
  <2>5. Settles(E, F, res)
    BY <1>7
  <2> HIDE DEF un, sy, E, F
  <2>6. /\ Traces(srv, editor[c].rec, un, sy, r, S.local[r], F)
        /\ KeepsOps(srv, used[c], E, F)
    BY <2>1, <2>2, <2>3, <2>4, <2>5, SettlesTraces
  <2> QED BY <1>7, <2>6 DEF RecordTraced, un, sy, E, F
<1>10. RowsKnown(srv, q.rows)
  BY <1>1, <1>8
<1>11. \A r \in Rec : RecordTraced(srv, dead, c, used[c], editor'[c].rec, S, T, r)
  BY <1>3, <1>9
<1> QED BY <1>2, <1>3, <1>8, <1>10, <1>11, QuietWorkerTraced

LEMMA DownloadTraced ==
    ASSUME Traced, NEW c \in Client, Download(c)
    PROVE  Traced'
<1> DEFINE S == cl[c]
           p == pass[c]
           rows == Pulled(srv, S.wm)
           q == Repulled(p, "downloaded", rows, srv.seq)
<1>1. WellFormed /\ p \in Pass
  BY TracedView DEF PassSound
<1>2. WellFormed'
  BY <1>1, DownloadWellFormed
<1>3. /\ Worker(c, S, q)
      /\ srv' = srv
      /\ editor' = editor
      /\ late' = late
  BY DEF Download, Pulled, Repulled
<1>4. RowsKnown(srv, rows)
  BY DEF RowsKnown, Pulled, NoRow, Exists
<1> HIDE DEF rows
<1>5. /\ q.batch = p.batch
      /\ q.rows = rows
  BY <1>1, PassParts
<1> HIDE DEF q
<1>6. \A r \in Rec : RecordTraced(srv, dead, c, used[c], editor'[c].rec, S, S, r)
  BY <1>3, SameTraced
<1>7. RowsKnown(srv, q.rows)
  BY <1>4, <1>5
<1> QED BY <1>2, <1>3, <1>5, <1>6, <1>7, QuietWorkerTraced

LEMMA PullFailsTraced ==
    ASSUME Traced, NEW c \in Client, PullFails(c)
    PROVE  Traced'
<1> DEFINE S == cl[c]
           p == pass[c]
           q == Repulled(p, "done", NoRows, 0)
<1>1. WellFormed /\ p \in Pass
  BY TracedView DEF PassSound
<1>2. WellFormed'
  BY <1>1, PullFailsWellFormed
<1>3. /\ Worker(c, S, q)
      /\ srv' = srv
      /\ editor' = editor
      /\ late' = late
  BY DEF PullFails, Repulled
<1>4. /\ q.batch = p.batch
      /\ q.rows = NoRows
  BY <1>1, PassParts
<1> HIDE DEF q
<1>5. \A r \in Rec : RecordTraced(srv, dead, c, used[c], editor'[c].rec, S, S, r)
  BY <1>3, SameTraced
<1>6. RowsKnown(srv, q.rows)
  BY <1>4, NoRowsKnown
<1> QED BY <1>2, <1>3, <1>4, <1>5, <1>6, QuietWorkerTraced

LEMMA ApplyDownloadTraced ==
    ASSUME Traced, NEW c \in Client, ApplyDownload(c)
    PROVE  Traced'
<1> DEFINE S == cl[c]
           p == pass[c]
           T == ApplyPull(S, p.rows, p.snap)
           q == Repulled(p, "done", NoRows, 0)
<1>1. /\ WellFormed
      /\ S \in Store
      /\ PassSound(srv, S, c, used[c], p)
      /\ RowsKnown(srv, p.rows)
      /\ p \in Pass
  BY TracedView DEF PassSound
<1>2. WellFormed'
  BY <1>1, ApplyDownloadWellFormed
<1>3. /\ Worker(c, T, q)
      /\ srv' = srv
      /\ editor' = editor
      /\ late' = late
  BY DEF ApplyDownload, Repulled
<1>4. /\ p.rows \in [Rec -> ProperRow]
      /\ p.snap \in Nat
  BY <1>1, PassFields
<1>5. \A r \in Rec : Pulls(p.rows[r], S.local[r], EntriesOf(S, r),
                           T.local[r], EntriesOf(T, r))
  BY <1>1, <1>4, ApplyPullView
<1> HIDE DEF T
<1>6. /\ q.batch = p.batch
      /\ q.rows = NoRows
  BY <1>1, PassParts
<1> HIDE DEF q
<1>7. ASSUME NEW r \in Rec
      PROVE  RecordTraced(srv, dead, c, used[c], editor[c].rec, S, T, r)
  <2> DEFINE un == Unsynced(dead, c)
             sy == Synced(dead, c)
             E == EntriesOf(S, r)
             F == EntriesOf(T, r)
             got == p.rows[r]
  <2>1. /\ Traces(srv, editor[c].rec, un, sy, r, S.local[r], E)
        /\ ViewSound(r, S.local[r], E)
    BY TracedView
  <2>2. /\ got \in ProperRow
        /\ got.ver > 0 => Exists(srv, r)
        /\ Pulls(got, S.local[r], E, T.local[r], F)
    BY <1>1, <1>4, <1>5 DEF RowsKnown
  <2> HIDE DEF un, sy, E, F, got
  <2>3. /\ Traces(srv, editor[c].rec, un, sy, r, T.local[r], F)
        /\ KeepsOps(srv, used[c], E, F)
    BY <2>1, <2>2, PullsTraces
  <2> QED BY <2>3 DEF RecordTraced, un, sy, E, F
<1>8. RowsKnown(srv, q.rows)
  BY <1>6, NoRowsKnown
<1>9. \A r \in Rec : RecordTraced(srv, dead, c, used[c], editor'[c].rec, S, T, r)
  BY <1>3, <1>7
<1> QED BY <1>2, <1>3, <1>6, <1>8, <1>9, QuietWorkerTraced

LEMMA FinishTraced ==
    ASSUME Traced, NEW c \in Client, Finish(c)
    PROVE  Traced'
<1>1. WellFormed /\ editor \in [Client -> Editor]
  BY TracedView DEF WellFormed, TypeOK
<1>2. WellFormed'
  BY <1>1, FinishWellFormed
<1>3. /\ Worker(c, cl[c], NoPass)
      /\ srv' = srv
      /\ late' = late
  BY DEF Finish
<1>4. /\ \A d \in Client \ {c} : editor'[d] = editor[d]
      /\ editor'[c].rec = editor[c].rec
  <2>1. CASE editor[c] = Closed
    BY <2>1 DEF Finish
  <2>2. CASE editor[c] # Closed
    <3> DEFINE b == Followed(c, editor[c].rec, editor[c].base)
    <3>1. editor' = [editor EXCEPT ![c] = [editor[c] EXCEPT !.base = b]]
      BY <2>2 DEF Finish
    <3>2. editor[c] \in [rec: Rec, base: Nat, val: Val]
      BY <1>1, <2>2 DEF Editor
    <3> HIDE DEF b
    <3> QED BY <1>1, <3>1, <3>2
  <2> QED BY <2>1, <2>2
<1>5. \A r \in Rec : RecordTraced(srv, dead, c, used[c], editor'[c].rec, cl[c],
                                  cl[c], r)
  BY <1>4, SameTraced
<1>6. RowsKnown(srv, NoPass.rows) /\ OpsMatch(srv, cl[c], NoPass.batch)
  BY NoPassParts, NoRowsKnown, NoOps
<1> QED BY <1>2, <1>3, <1>4, <1>5, <1>6, QuietWorkerTraced

LEMMA CrashTraced ==
    ASSUME Traced, NEW c \in Client, Crash(c)
    PROVE  Traced'
<1>1. WellFormed /\ editor \in [Client -> Editor]
  BY TracedView DEF WellFormed, TypeOK
<1>2. WellFormed'
  BY <1>1, CrashWellFormed
<1>3. /\ Worker(c, cl[c], NoPass)
      /\ srv' = srv
      /\ late' = late
      /\ editor' = [editor EXCEPT ![c] = Closed]
  BY DEF Crash
<1>4. /\ \A d \in Client \ {c} : editor'[d] = editor[d]
      /\ editor'[c].rec \notin Rec
  BY <1>1, <1>3, ClosedForm
<1>5. \A r \in Rec : RecordTraced(srv, dead, c, used[c], editor'[c].rec, cl[c],
                                  cl[c], r)
  BY <1>4, SameTraced
<1>6. RowsKnown(srv, NoPass.rows) /\ OpsMatch(srv, cl[c], NoPass.batch)
  BY NoPassParts, NoRowsKnown, NoOps
<1> QED BY <1>2, <1>3, <1>4, <1>5, <1>6, QuietWorkerTraced

LEMMA InitTraced == Init => Traced
<1> SUFFICES ASSUME Init
             PROVE  Traced
  OBVIOUS
<1>1. /\ \A id \in ChangeId : srv.rcpt[id] = NoReceipt
      /\ late = {}
      /\ dead = {}
  BY DEF Init, InitWork
<1>2. ASSUME NEW c \in Client
      PROVE  DeviceTraced(srv, cl[c], pass[c], editor[c].rec,
                          Unsynced(dead, c), Synced(dead, c))
  <2>1. /\ OpsMatch(srv, cl[c], pass[c].batch)
        /\ RowsKnown(srv, pass[c].rows)
    BY NoPassParts, NoRowsKnown, NoOps DEF Init
  <2>2. \A r \in Rec : /\ cl[c].local[r].ver = 0
                       /\ EntriesOf(cl[c], r) = {}
                       /\ r \notin Synced(dead, c)
    BY <1>1 DEF Init, InitStore, NoLocal, EntriesOf, Synced
  <2> QED BY <2>1, <2>2 DEF DeviceTraced, Traces
<1>3. TracedBy(srv)
  BY <1>1, <1>2 DEF TracedBy, ReceiptsUsed
<1> QED BY <1>3, InitWellFormed DEF Traced

LEMMA StepTraced ==
    ASSUME Traced, [Next]_vars
    PROVE  Traced'
<1>1. scope.devices \subseteq Client /\ scope.records \subseteq Rec
  BY ScopeFields DEF Traced, WellFormed
<1>2. ASSUME NEW c \in Client, Edits(c)
      PROVE  Traced'
  <2>1. ASSUME NEW r \in scope.records, NEW e \in Edit, Create(c, r, e)
        PROVE  Traced'
    BY <1>1, <2>1, CreateTraced
  <2>2. ASSUME NEW r \in Rec, Open(c, r)
        PROVE  Traced'
    BY <2>2, OpenTraced
  <2>3. CASE Close(c)
    BY <2>3, CloseTraced
  <2>4. ASSUME NEW e \in Edit, Save(c, e)
        PROVE  Traced'
    BY <2>4, SaveTraced
  <2>5. CASE Delete(c)
    BY <2>5, DeleteTraced
  <2>6. ASSUME NEW e \in Edit, DeleteDirty(c, e)
        PROVE  Traced'
    BY <2>6, DeleteDirtyTraced
  <2>7. ASSUME NEW x \in cl[c].box,
               ResolveKeepMine(c, x) \/ ResolveUseServer(c, x)
               \/ ResolveMerge(c, x)
        PROVE  Traced'
    BY <2>7, KeepMineTraced, UseServerTraced, MergeTraced
  <2> QED BY <1>2, <2>1, <2>2, <2>3, <2>4, <2>5, <2>6, <2>7 DEF Edits
<1>3. ASSUME NEW c \in Client, PassStep(c)
      PROVE  Traced'
  <2>1. ASSUME NEW due, Select(c, due)
        PROVE  Traced'
    BY <2>1, SelectTraced
  <2>2. ASSUME NEW fails \in BOOLEAN, Push(c, fails)
        PROVE  Traced'
    BY <2>2, PushTraced
  <2>3. ASSUME NEW k, SettleResult(c, k)
        PROVE  Traced'
    BY <2>3, SettleTraced
  <2> QED BY <1>3, <2>1, <2>2, <2>3, FailBatchTraced, AcknowledgeTraced,
             DownloadTraced, ApplyDownloadTraced, FinishTraced DEF PassStep
<1>4. ASSUME NEW c \in Client, Faults(c)
      PROVE  Traced'
  BY <1>4, PushFailsTraced, PullFailsTraced, CrashTraced DEF Faults
<1>5. CASE UNCHANGED vars
  <2>1. /\ srv' = srv
        /\ cl' = cl
        /\ pass' = pass
        /\ editor' = editor
        /\ late' = late
        /\ used' = used
        /\ dead' = dead
    BY <1>5 DEF vars, history
  <2>2. WellFormed'
    BY StepWellFormed DEF Traced
  <2> QED BY <2>1, <2>2 DEF Traced, TracedBy, ReceiptsUsed
<1> QED BY <1>1, <1>2, <1>3, <1>4, <1>5, LoginTraced, LateDeliveryTraced
        DEF Next

LEMMA TracedAlways == Spec => []Traced
<1>1. Traced /\ [Next]_vars => Traced'
  BY StepTraced
<1> QED BY <1>1, InitTraced, PTL DEF Spec

LEMMA TracedDeletes == Traced => SyncedDeletesHold
<1> SUFFICES ASSUME Traced, NEW t \in dead, t[3] \in {TRUE},
                    \A c \in Client : Quiet(c)
             PROVE  OnServer(t[2]) = {}
  BY DEF SyncedDeletesHold, DeletesHold
<1>1. t \in Client \X Rec \X BOOLEAN
  BY DEF Traced, WellFormed, TypeOK
<1>2. PICK c \in Client, r \in Rec, b \in BOOLEAN : t = <<c, r, b>>
  BY <1>1
<1>3. t[2] = r
  BY <1>2
<1>4. t = <<c, r, TRUE>>
  BY <1>2, Zenon
<1>5. r \in Synced(dead, c)
  BY <1>4 DEF Synced
<1>6. EntriesOf(cl[c], r) = {}
  BY DEF Quiet, EntriesOf
<1>7. Traces(srv, editor[c].rec, Unsynced(dead, c), Synced(dead, c), r,
             cl[c].local[r], EntriesOf(cl[c], r))
  BY TracedView
<1>8. Exists(srv, r) /\ (srv.row[r].del \/ DeleteWaits(srv, r, {}))
  BY <1>5, <1>6, <1>7 DEF Traces
<1>9. srv.row[r].del
  BY <1>8 DEF DeleteWaits
<1> QED BY <1>3, <1>9 DEF OnServer

\* A delete of a record the server had confirmed reaches the server. For every
\* set of devices, records and changes: once no device has anything queued or
\* a pass under way, the record is not alive on the server, whatever lost
\* answers, late requests, crashes, conflicts and resolutions came between
\* (delete_entity, _replace_outbox_entry, acknowledge_accepted_results,
\* resolve_conflict, push_changes).
THEOREM SyncedDeletesAlwaysHold == Spec => []SyncedDeletesHold
BY TracedAlways, TracedDeletes, PTL

-----------------------------------------------------------------------------
(* The third invariant: what a device shows against its watermark          *)

\* What a user sees of a cached row, and of a server row.
Looks(loc) == IF loc.del THEN {} ELSE loc.val
LooksOn(row) == IF row.ver = 0 \/ row.del THEN {} ELSE row.val

\* Record r on a device with watermark wm: with nothing queued, and a server
\* row that is not newer than the watermark, the device shows that row.
MatchesAt(w, wm, un, r, loc, E) ==
    E = {} /\ w.row[r].seq <= wm /\ r \notin un =>
        Looks(loc) = LooksOn(w.row[r])

\* The accepted rows of an answer are the server's, or older than what the
\* next pull fetches.
AnswerFresh(w, wm, results) ==
    \A k \in DOMAIN results : HasState(results[k]) =>
        \/ results[k].row = w.row[results[k].rec]
        \/ w.row[results[k].rec].seq > wm

\* The rows of a pull are the server's at the snapshot, but for those that
\* the watermark covers.
RowFresh(w, wm, r, row, snap) ==
    \/ row = w.row[r]
    \/ w.row[r].seq > snap
    \/ row = NoRow /\ w.row[r].seq <= wm

PullFresh(w, wm, rows, snap) ==
    /\ snap <= w.seq
    /\ \A r \in Rec : RowFresh(w, wm, r, rows[r], snap)

PassFresh(w, wm, p) ==
    /\ p.pc = "acked" => p.todo \subseteq Unsettled(p.results)
    /\ p.pc = "answered" => AnswerFresh(w, wm, p.results)
    /\ p.pc = "downloaded" => PullFresh(w, wm, p.rows, p.snap)

DeviceCaught(w, S, p, un) ==
    /\ S.wm <= w.seq
    /\ PassFresh(w, S.wm, p)
    /\ \A r \in Rec : MatchesAt(w, S.wm, un, r, S.local[r], EntriesOf(S, r))

CaughtBy(w) ==
    \A c \in Client : DeviceCaught(w, cl[c], pass[c], Unsynced(dead, c))

Caught == Traced /\ CaughtBy(srv)

LEMMA LooksAlike ==
    ASSUME NEW row \in ProperRow
    PROVE  Looks(AsLocal(row)) = LooksOn(row)
<1>1. CASE row.ver = 0
  BY <1>1 DEF AsLocal, NoLocal, Looks, LooksOn
<1>2. CASE row.ver # 0
  <2>1. AsLocal(row) = [ver |-> row.ver, val |-> row.val, del |-> row.del]
    BY <1>2 DEF AsLocal
  <2>2. AsLocal(row).val = row.val /\ AsLocal(row).del = row.del
    BY <2>1
  <2> QED BY <1>2, <2>2 DEF Looks, LooksOn
<1> QED BY <1>1, <1>2

\* A request handled now gives the rows it writes a newer sequence than any
\* watermark or snapshot.
LEMMA DeviceKept ==
    ASSUME NEW w \in ProperWork, NEW v \in ProperWork, Advances(w, v),
           NEW S, S.wm \in Nat, NEW p, p.snap \in Nat,
           p.results \in Seq(ProperResult), NEW un, DeviceCaught(w, S, p, un)
    PROVE  DeviceCaught(v, S, p, un)
<1>1. /\ w.seq \in Nat
      /\ v.seq \in Nat
      /\ \A r \in Rec : w.row[r].seq \in Nat /\ v.row[r].seq \in Nat
  BY WorkFields
<1>2. /\ w.seq <= v.seq
      /\ \A r \in Rec : v.row[r] = w.row[r] \/ v.row[r].seq > w.seq
  BY DEF Advances
<1>3. S.wm <= w.seq /\ S.wm <= v.seq
  BY <1>1, <1>2 DEF DeviceCaught
<1>4. ASSUME NEW r \in Rec
      PROVE  MatchesAt(v, S.wm, un, r, S.local[r], EntriesOf(S, r))
  <2>1. MatchesAt(w, S.wm, un, r, S.local[r], EntriesOf(S, r))
    BY DEF DeviceCaught
  <2>2. CASE v.row[r] = w.row[r]
    BY <2>1, <2>2 DEF MatchesAt
  <2>3. CASE v.row[r].seq > w.seq
    <3>1. ~(v.row[r].seq <= S.wm)
      BY <1>1, <1>3, <2>3
    <3> QED BY <3>1 DEF MatchesAt
  <2> QED BY <1>2, <2>2, <2>3
<1>5. ASSUME AnswerFresh(w, S.wm, p.results)
      PROVE  AnswerFresh(v, S.wm, p.results)
  <2> SUFFICES ASSUME NEW k \in DOMAIN p.results, HasState(p.results[k])
               PROVE  \/ p.results[k].row = v.row[p.results[k].rec]
                      \/ v.row[p.results[k].rec].seq > S.wm
    BY DEF AnswerFresh
  <2>0. p.results[k] \in ProperResult
    OBVIOUS
  <2>1. PICK r \in Rec : r = p.results[k].rec
    BY <2>0 DEF ProperResult
  <2>2. p.results[k].row = w.row[r] \/ w.row[r].seq > S.wm
    BY <1>5, <2>1 DEF AnswerFresh
  <2>3. CASE v.row[r] = w.row[r]
    BY <2>1, <2>2, <2>3
  <2>4. CASE v.row[r].seq > w.seq
    BY <1>1, <1>3, <2>1, <2>4
  <2> QED BY <1>2, <2>3, <2>4
<1>6. ASSUME PullFresh(w, S.wm, p.rows, p.snap)
      PROVE  PullFresh(v, S.wm, p.rows, p.snap)
  <2>1. p.snap <= w.seq /\ p.snap <= v.seq
    BY <1>1, <1>2, <1>6 DEF PullFresh
  <2>2. ASSUME NEW r \in Rec
        PROVE  RowFresh(v, S.wm, r, p.rows[r], p.snap)
    <3>1. RowFresh(w, S.wm, r, p.rows[r], p.snap)
      BY <1>6 DEF PullFresh
    <3>2. CASE v.row[r] = w.row[r]
      BY <3>1, <3>2 DEF RowFresh
    <3>3. CASE v.row[r].seq > w.seq
      BY <1>1, <2>1, <3>3 DEF RowFresh
    <3> QED BY <1>2, <3>2, <3>3
  <2> QED BY <2>1, <2>2 DEF PullFresh
<1>7. PassFresh(v, S.wm, p)
  BY <1>5, <1>6 DEF PassFresh, DeviceCaught
<1> QED BY <1>3, <1>4, <1>7 DEF DeviceCaught

LEMMA ServerCaught ==
    ASSUME Caught, NEW v, ServerSound(v), Advances(srv, v)
    PROVE  CaughtBy(v)
<1> SUFFICES ASSUME NEW c \in Client
             PROVE  DeviceCaught(v, cl[c], pass[c], Unsynced(dead, c))
  BY DEF CaughtBy
<1>1. /\ cl[c] \in Store
      /\ ServerSound(srv)
      /\ PassSound(srv, cl[c], c, used[c], pass[c])
      /\ DeviceCaught(srv, cl[c], pass[c], Unsynced(dead, c))
  BY TracedView DEF Caught, CaughtBy
<1>2. /\ cl[c].wm \in Nat
      /\ pass[c].snap \in Nat
      /\ pass[c].results \in Seq(ProperResult)
      /\ srv \in ProperWork
      /\ v \in ProperWork
  BY <1>1, StoreFields, PassFields DEF ServerSound, PassSound
<1> QED BY <1>1, <1>2, DeviceKept

\* What the invariant says of one device.
LEMMA CaughtView ==
    ASSUME Caught, NEW c \in Client
    PROVE  /\ Traced
           /\ CaughtBy(srv)
           /\ cl[c].wm \in Nat
           /\ cl[c].wm <= srv.seq
           /\ PassFresh(srv, cl[c].wm, pass[c])
           /\ \A r \in Rec : MatchesAt(srv, cl[c].wm, Unsynced(dead, c), r,
                                       cl[c].local[r], EntriesOf(cl[c], r))
           /\ \A r \in Rec : srv.row[r].seq \in Nat
           /\ srv.seq \in Nat
<1>1. Traced /\ CaughtBy(srv)
  BY DEF Caught
<1>2. cl[c].wm \in Nat
  BY <1>1, TracedView, StoreFields
<1>3. srv \in ProperWork
  BY <1>1, TracedView DEF ServerSound
<1>4. \A r \in Rec : srv.row[r].seq \in Nat
  BY <1>3, WorkFields
<1>5. srv.seq \in Nat
  BY <1>3, WorkFields
<1> QED BY <1>1, <1>2, <1>4, <1>5 DEF CaughtBy, DeviceCaught

\* A step of device c.
LEMMA CaughtStep ==
    ASSUME CaughtBy(srv'), Traced', NEW c \in Client,
           \A d \in Client \ {c} : /\ cl'[d] = cl[d]
                                   /\ pass'[d] = pass[d]
                                   /\ Unsynced(dead', d) = Unsynced(dead, d),
           DeviceCaught(srv', cl'[c], pass'[c], Unsynced(dead', c))
    PROVE  Caught'
<1>1. ASSUME NEW d \in Client
      PROVE  DeviceCaught(srv', cl'[d], pass'[d], Unsynced(dead', d))
  <2>1. CASE d = c
    BY <2>1
  <2>2. CASE d # c
    <3>1. DeviceCaught(srv', cl[d], pass[d], Unsynced(dead, d))
      BY DEF CaughtBy
    <3> QED BY <2>2, <3>1
  <2> QED BY <2>1, <2>2
<1> QED BY <1>1 DEF Caught, CaughtBy

LEMMA WindowCaught ==
    ASSUME Caught, Traced', NEW c \in Client, NEW T, NEW ed, NEW ids,
           Window(c, T, ed, ids), OthersDead(dead', c), T.wm \in Nat,
           T.wm <= cl[c].wm, T.wm = cl[c].wm \/ pass[c].pc = "idle",
           \A r \in Rec : MatchesAt(srv, T.wm, Unsynced(dead', c), r,
                                    T.local[r], EntriesOf(T, r))
    PROVE  Caught'
<1>1. /\ cl \in [Client -> Store]
      /\ CaughtBy(srv)
      /\ cl[c].wm \in Nat
      /\ cl[c].wm <= srv.seq
      /\ srv.seq \in Nat
      /\ PassFresh(srv, cl[c].wm, pass[c])
  BY CaughtView DEF Caught, Traced, WellFormed, TypeOK
<1>2. /\ srv' = srv
      /\ pass' = pass
      /\ \A d \in Client \ {c} : cl'[d] = cl[d]
      /\ cl'[c] = T
  BY <1>1 DEF Window
<1>3. PassFresh(srv, T.wm, pass[c])
  BY <1>1 DEF PassFresh
<1>4. T.wm <= srv.seq
  BY <1>1
<1>5. DeviceCaught(srv', cl'[c], pass'[c], Unsynced(dead', c))
  BY <1>2, <1>3, <1>4 DEF DeviceCaught
<1>6. /\ CaughtBy(srv')
      /\ \A d \in Client \ {c} : /\ cl'[d] = cl[d]
                                 /\ pass'[d] = pass[d]
                                 /\ Unsynced(dead', d) = Unsynced(dead, d)
  BY <1>1, <1>2 DEF OthersDead
<1> QED BY <1>5, <1>6, CaughtStep

LEMMA WorkerCaught ==
    ASSUME Caught, Traced', CaughtBy(srv'), NEW c \in Client, NEW T, NEW p,
           Worker(c, T, p), DeviceCaught(srv', T, p, Unsynced(dead, c))
    PROVE  Caught'
<1>1. /\ cl \in [Client -> Store]
      /\ pass \in [Client -> Pass]
  BY DEF Caught, Traced, WellFormed, TypeOK
<1>2. /\ dead' = dead
      /\ \A d \in Client \ {c} : cl'[d] = cl[d] /\ pass'[d] = pass[d]
      /\ cl'[c] = T
      /\ pass'[c] = p
  BY <1>1 DEF Worker, history
<1>3. DeviceCaught(srv', cl'[c], pass'[c], Unsynced(dead', c))
  BY <1>2
<1>4. \A d \in Client \ {c} : /\ cl'[d] = cl[d]
                              /\ pass'[d] = pass[d]
                              /\ Unsynced(dead', d) = Unsynced(dead, d)
  BY <1>2
<1> QED BY <1>3, <1>4, CaughtStep

\* A step of the pass that leaves the server.
LEMMA QuietWorkerCaught ==
    ASSUME Caught, Traced', srv' = srv, NEW c \in Client, NEW T, NEW p,
           Worker(c, T, p), T.wm <= srv.seq, PassFresh(srv, T.wm, p),
           \A r \in Rec : MatchesAt(srv, T.wm, Unsynced(dead, c), r,
                                    T.local[r], EntriesOf(T, r))
    PROVE  Caught'
<1>1. CaughtBy(srv')
  BY DEF Caught
<1>2. DeviceCaught(srv, T, p, Unsynced(dead, c))
  BY DEF DeviceCaught
<1>3. DeviceCaught(srv', T, p, Unsynced(dead, c))
  BY <1>2
<1> QED BY <1>1, <1>3, WorkerCaught

\* A step of the window on record r.
LEMMA OneRecordCaught ==
    ASSUME Caught, NEW c \in Client, NEW T, NEW r \in Rec, NEW row, NEW F,
           Becomes(cl[c], T, r, row, F), NEW dd, DeadElsewhere(dd, c, r),
           T.wm \in Nat, T.wm <= cl[c].wm,
           MatchesAt(srv, T.wm, Unsynced(dd, c), r, row, F)
    PROVE  \A s \in Rec : MatchesAt(srv, T.wm, Unsynced(dd, c), s, T.local[s],
                                    EntriesOf(T, s))
<1> SUFFICES ASSUME NEW s \in Rec
             PROVE  MatchesAt(srv, T.wm, Unsynced(dd, c), s, T.local[s],
                              EntriesOf(T, s))
  OBVIOUS
<1>1. CASE s = r
  BY <1>1 DEF Becomes
<1>2. CASE s # r
  <2>1. /\ T.local[s] = cl[c].local[s]
        /\ EntriesOf(T, s) = EntriesOf(cl[c], s)
        /\ s \in Unsynced(dd, c) <=> s \in Unsynced(dead, c)
    BY <1>2 DEF Becomes, Elsewhere, DeadElsewhere
  <2>2. /\ MatchesAt(srv, cl[c].wm, Unsynced(dead, c), s, cl[c].local[s],
                     EntriesOf(cl[c], s))
        /\ srv.row[s].seq \in Nat
        /\ cl[c].wm \in Nat
    BY CaughtView
  <2>3. srv.row[s].seq <= T.wm => srv.row[s].seq <= cl[c].wm
    BY <2>2
  <2> QED BY <2>1, <2>2, <2>3 DEF MatchesAt
<1> QED BY <1>1, <1>2

\* A step of the window that leaves something queued for record r.
LEMMA QueuedCaught ==
    ASSUME NEW w, NEW wm, NEW un, NEW r, NEW row, NEW F, F # {}
    PROVE  MatchesAt(w, wm, un, r, row, F)
BY DEF MatchesAt

\* A step that touches entries and no row.
LEMMA TouchedCaught ==
    ASSUME NEW w, CaughtBy(w), NEW c \in Client, NEW T,
           T.local = cl[c].local, T.wm = cl[c].wm, NEW ids,
           \A r \in Rec : Touches(EntriesOf(cl[c], r), EntriesOf(T, r), ids)
    PROVE  \A r \in Rec : MatchesAt(w, T.wm, Unsynced(dead, c), r,
                                    T.local[r], EntriesOf(T, r))
<1> SUFFICES ASSUME NEW r \in Rec
             PROVE  MatchesAt(w, T.wm, Unsynced(dead, c), r, T.local[r],
                              EntriesOf(T, r))
  OBVIOUS
<1>1. MatchesAt(w, cl[c].wm, Unsynced(dead, c), r, cl[c].local[r],
                EntriesOf(cl[c], r))
  BY DEF CaughtBy, DeviceCaught
<1>2. EntriesOf(T, r) = {} => EntriesOf(cl[c], r) = {}
  BY DEF Touches
<1> QED BY <1>1, <1>2 DEF MatchesAt

LEMMA CreateCaught ==
    ASSUME Caught, NEW c \in Client, NEW r \in Rec, NEW e \in Edit,
           Create(c, r, e)
    PROVE  Caught'
<1> DEFINE val == {e}
           id == NewId(c)
           T == CreateLocal(cl[c], id, r, val)
           ed == [rec |-> r, base |-> 0, val |-> val]
<1>1. Window(c, T, ed, 1) /\ dead' = dead
  BY DEF Create, history
<1>2. /\ Traced
      /\ Traced'
      /\ cl[c] \in Store
      /\ Distinct(cl[c])
      /\ cl[c].wm \in Nat
  BY CreateTraced, CaughtView, TracedView
<1>3. id \in ChangeId
  BY <1>1, <1>2, OneId DEF Window
<1>4. val \in Val
  BY ClientAssumption
<1> HIDE DEF id, val
<1>5. PICK F : /\ T.wm = cl[c].wm
               /\ Becomes(cl[c], T, r, LocalAt(0, val), F)
               /\ Queues(EntriesOf(cl[c], r), F, id, r, "upsert", 0, val)
  BY <1>2, <1>3, <1>4, CreateView
<1>6. F # {}
  BY <1>5 DEF Queues
<1> HIDE DEF T, ed
<1>7. MatchesAt(srv, T.wm, Unsynced(dead', c), r, LocalAt(0, val), F)
  BY <1>6, QueuedCaught
<1>8. /\ T.wm \in Nat
      /\ T.wm <= cl[c].wm
      /\ T.wm = cl[c].wm \/ pass[c].pc = "idle"
      /\ DeadElsewhere(dead', c, r)
      /\ OthersDead(dead', c)
  BY <1>1, <1>2, <1>5, SameDead
<1>9. \A s \in Rec : MatchesAt(srv, T.wm, Unsynced(dead', c), s, T.local[s],
                               EntriesOf(T, s))
  BY <1>5, <1>7, <1>8, OneRecordCaught
<1> QED BY <1>1, <1>2, <1>8, <1>9, WindowCaught

\* A step of the window that leaves the database.
LEMMA FormCaught ==
    ASSUME Caught, Traced', NEW c \in Client, NEW ed, NEW ids,
           Window(c, cl[c], ed, ids), dead' = dead
    PROVE  Caught'
<1>1. /\ cl[c].wm \in Nat
      /\ cl[c].wm <= cl[c].wm
      /\ \A r \in Rec : MatchesAt(srv, cl[c].wm, Unsynced(dead', c), r,
                                  cl[c].local[r], EntriesOf(cl[c], r))
  BY CaughtView
<1>2. OthersDead(dead', c)
  BY SameDead
<1> QED BY <1>1, <1>2, WindowCaught

LEMMA OpenCaught ==
    ASSUME Caught, NEW c \in Client, NEW r \in Rec, Open(c, r)
    PROVE  Caught'
<1>1. Traced'
  BY OpenTraced DEF Caught
<1>2. PICK ed : Window(c, cl[c], ed, 0)
  BY DEF Open
<1>3. dead' = dead
  BY DEF Open
<1> QED BY <1>1, <1>2, <1>3, FormCaught

LEMMA CloseCaught ==
    ASSUME Caught, NEW c \in Client, Close(c)
    PROVE  Caught'
<1>1. Traced'
  BY CloseTraced DEF Caught
<1>2. Window(c, cl[c], Closed, 0) /\ dead' = dead
  BY DEF Close, history
<1> QED BY <1>1, <1>2, FormCaught

LEMMA SaveCaught ==
    ASSUME Caught, NEW c \in Client, NEW e \in Edit, Save(c, e)
    PROVE  Caught'
<1> DEFINE old == editor[c]
           r == old.rec
           val == old.val \cup {e}
           ed == [old EXCEPT !.val = val]
           id == NewId(c)
           T == SaveLocal(cl[c], id, r, old.base, val)
           row == LocalAt(cl[c].local[r].ver, val)
<1>1. /\ old # Closed
      /\ Window(c, T, ed, 1)
      /\ dead' = dead
  BY DEF Save, history
<1>2. /\ Traced
      /\ Traced'
      /\ TypeOK
      /\ cl[c] \in Store
      /\ Distinct(cl[c])
      /\ cl[c].wm \in Nat
  BY SaveTraced, CaughtView, TracedView DEF WellFormed
<1>3. /\ r \in Rec
      /\ old.base \in Nat
      /\ old.val \in Val
  BY <1>1, <1>2, OpenForm
<1>4. val \in Val
  BY <1>3, EditVal
<1>5. id \in ChangeId
  BY <1>1, <1>2, OneId DEF Window
<1> HIDE DEF id, val
<1>6. PICK F : /\ T.wm = cl[c].wm
               /\ Becomes(cl[c], T, r, row, F)
               /\ Saves(EntriesOf(cl[c], r), F, id, r, old.base, val)
  BY <1>2, <1>3, <1>4, <1>5, SaveView
<1>7. F # {}
  BY <1>6 DEF Saves
<1> HIDE DEF T, ed, row
<1>8. MatchesAt(srv, T.wm, Unsynced(dead', c), r, row, F)
  BY <1>7, QueuedCaught
<1>9. /\ T.wm \in Nat
      /\ T.wm <= cl[c].wm
      /\ T.wm = cl[c].wm \/ pass[c].pc = "idle"
      /\ DeadElsewhere(dead', c, r)
      /\ OthersDead(dead', c)
  BY <1>1, <1>2, <1>6, SameDead
<1>10. \A s \in Rec : MatchesAt(srv, T.wm, Unsynced(dead', c), s, T.local[s],
                                EntriesOf(T, s))
  BY <1>3, <1>6, <1>8, <1>9, OneRecordCaught
<1> QED BY <1>1, <1>2, <1>9, <1>10, WindowCaught

LEMMA DeleteCaught ==
    ASSUME Caught, NEW c \in Client, Delete(c)
    PROVE  Caught'
<1> DEFINE r == editor[c].rec
           id == NewId(c)
           T == DeleteLocal(cl[c], id, r)
           loc == cl[c].local[r]
           b == loc.ver > 0
<1>1. /\ editor[c] # Closed
      /\ Window(c, T, Closed, 1)
      /\ dead' = dead \cup {<<c, r, b>>}
  BY DEF Delete, Tombstone
<1>2. /\ Traced
      /\ Traced'
      /\ TypeOK
      /\ cl[c] \in Store
      /\ Distinct(cl[c])
      /\ cl[c].wm \in Nat
  BY DeleteTraced, CaughtView, TracedView DEF WellFormed
<1>3. r \in Rec
  BY <1>1, <1>2, OpenForm
<1>4. id \in ChangeId
  BY <1>1, <1>2, OneId DEF Window
<1>5. PICK F : /\ T.wm = cl[c].wm
               /\ Becomes(cl[c], T, r, LocalGone(loc), F)
               /\ Deletes(EntriesOf(cl[c], r), F, id, r, loc)
  BY <1>2, <1>3, <1>4, DeleteView
<1>6. loc.ver \in Nat /\ b \in BOOLEAN
  BY <1>2, <1>3, StoreFields
<1>7. b <=> loc.ver > 0
  OBVIOUS
<1> HIDE DEF r, id, T, loc, b
<1>8. /\ DeadElsewhere(dead', c, r)
      /\ OthersDead(dead', c)
      /\ ~b => r \in Unsynced(dead', c)
  BY <1>1, <1>3, <1>6, TombstoneAdded
<1>9. F = {} => r \in Unsynced(dead', c)
  BY <1>5, <1>6, <1>7, <1>8 DEF Deletes, Queues
<1>10. MatchesAt(srv, T.wm, Unsynced(dead', c), r, LocalGone(loc), F)
  BY <1>9 DEF MatchesAt
<1>11. /\ T.wm \in Nat
       /\ T.wm <= cl[c].wm
       /\ T.wm = cl[c].wm \/ pass[c].pc = "idle"
  BY <1>2, <1>5
<1>12. \A s \in Rec : MatchesAt(srv, T.wm, Unsynced(dead', c), s, T.local[s],
                                EntriesOf(T, s))
  BY <1>3, <1>5, <1>8, <1>10, <1>11, OneRecordCaught
<1> QED BY <1>1, <1>2, <1>8, <1>11, <1>12, WindowCaught

LEMMA DeleteDirtyCaught ==
    ASSUME Caught, NEW c \in Client, NEW e \in Edit, DeleteDirty(c, e)
    PROVE  Caught'
<1> DEFINE old == editor[c]
           r == old.rec
           base == old.base
           n == used[c]
           m == n + 1
           val == old.val \cup {e}
           id == <<c, n + 1>>
           jd == <<c, n + 2>>
           S == cl[c]
           T == DeleteLocal(S, id, r)
           U == SaveLocal(T, jd, r, base, val)
<1>1. /\ old # Closed
      /\ Window(c, U, Closed, 2)
      /\ dead' = dead
  BY DEF DeleteDirty, NewId
<1>2. /\ Traced
      /\ Traced'
      /\ TypeOK
      /\ S \in Store
      /\ StoreSound(S, c, n)
      /\ Distinct(S)
      /\ S.wm \in Nat
      /\ n \in Nat
  BY DeleteDirtyTraced, CaughtView, TracedView DEF WellFormed
<1>3. r \in Rec /\ base \in Nat /\ old.val \in Val
  BY <1>1, <1>2, OpenForm
<1>4. val \in Val
  BY <1>3, EditVal
<1>5. n + 2 <= scope.ids
  BY <1>1 DEF Window
<1>6. id \in ChangeId /\ jd \in ChangeId
  <2>1. 1 \in Nat /\ 2 \in Nat /\ 1 <= 2 /\ 2 <= 2 /\ 1 \in Nat \ {0} /\ 2 \in Nat \ {0}
    OBVIOUS
  <2> QED BY <1>2, <1>5, <2>1, NewIdFresh
<1>7. /\ FreshId(c, n, m, id)
      /\ m \in Nat
      /\ n <= m
  BY <1>2 DEF FreshId
<1> HIDE DEF n, m, val, r, id, jd, base
<1>8. PICK D : /\ T.wm = S.wm
               /\ Becomes(S, T, r, LocalGone(S.local[r]), D)
  BY <1>2, <1>3, <1>6, DeleteView
<1>9. StoreSound(T, c, m)
  <2>1. StoreStep(S, T, c, n, m)
    BY <1>2, <1>3, <1>6, <1>7, DeleteStoreStep
  <2> QED BY <1>2, <1>7, <2>1, StoreStepSound
<1> HIDE DEF T, S
<1>10. T \in Store /\ Distinct(T)
  BY <1>9 DEF StoreSound
<1> DEFINE row == LocalAt(T.local[r].ver, val)
<1>11. PICK F : /\ U.wm = T.wm
                /\ Becomes(T, U, r, row, F)
                /\ Saves(EntriesOf(T, r), F, jd, r, base, val)
  BY <1>3, <1>4, <1>6, <1>10, SaveView
<1>12. F # {}
  BY <1>11 DEF Saves
<1> HIDE DEF row, U
<1>13. Becomes(S, U, r, row, F)
  BY <1>8, <1>11, BecomesThen
<1>14. MatchesAt(srv, U.wm, Unsynced(dead', c), r, row, F)
  BY <1>12, QueuedCaught
<1>15. /\ U.wm \in Nat
       /\ U.wm <= cl[c].wm
       /\ U.wm = cl[c].wm \/ pass[c].pc = "idle"
       /\ DeadElsewhere(dead', c, r)
       /\ OthersDead(dead', c)
  BY <1>1, <1>2, <1>8, <1>11, SameDead DEF S
<1>16. \A s \in Rec : MatchesAt(srv, U.wm, Unsynced(dead', c), s, U.local[s],
                                EntriesOf(U, s))
  BY <1>3, <1>13, <1>14, <1>15, OneRecordCaught DEF S
<1> QED BY <1>1, <1>2, <1>15, <1>16, WindowCaught

LEMMA LoginCaught ==
    ASSUME Caught, NEW c \in Client, Login(c)
    PROVE  Caught'
<1> DEFINE T == ReleaseAuthentication(cl[c])
<1>1. Window(c, T, editor[c], 0) /\ dead' = dead
  BY DEF Login, history
<1>2. /\ Traced'
      /\ cl[c] \in Store
      /\ Distinct(cl[c])
      /\ cl[c].wm \in Nat
      /\ CaughtBy(srv)
  BY LoginTraced, CaughtView, TracedView
<1>3. PICK ids : ids = {}
  OBVIOUS
<1>4. /\ T.local = cl[c].local
      /\ T.wm = cl[c].wm
      /\ \A r \in Rec : Touches(EntriesOf(cl[c], r), EntriesOf(T, r), ids)
  BY <1>2, <1>3, ReleaseView
<1> HIDE DEF T
<1>5. \A r \in Rec : MatchesAt(srv, T.wm, Unsynced(dead, c), r, T.local[r],
                               EntriesOf(T, r))
  BY <1>2, <1>4, TouchedCaught
<1>6. /\ T.wm \in Nat
      /\ T.wm <= cl[c].wm
      /\ T.wm = cl[c].wm \/ pass[c].pc = "idle"
      /\ OthersDead(dead', c)
      /\ \A r \in Rec : MatchesAt(srv, T.wm, Unsynced(dead', c), r, T.local[r],
                                  EntriesOf(T, r))
  BY <1>1, <1>2, <1>4, <1>5, SameDead
<1> QED BY <1>1, <1>2, <1>6, WindowCaught

LEMMA KeepMineCaught ==
    ASSUME Caught, NEW c \in Client, NEW x \in cl[c].box,
           ResolveKeepMine(c, x)
    PROVE  Caught'
<1> DEFINE S == cl[c]
           id == NewId(c)
           T == KeepMine(S, x, id)
           loc == S.local[x.rec]
           r == x.rec
           y == Fresh(id, r, x.op, Larger(x.srv.ver, S.local[x.rec].ver), x.val)
<1>1. /\ Window(c, T, editor[c], 1)
      /\ dead' = dead
  BY DEF ResolveKeepMine
<1>2. /\ Traced
      /\ Traced'
      /\ S \in Store
      /\ S.wm \in Nat
  BY KeepMineTraced, CaughtView, TracedView
<1>3. id \in ChangeId /\ r \in Rec
  BY <1>1, <1>2, OneId, ConflictView DEF Window
<1>4. T.wm = S.wm /\ Becomes(S, T, r, loc, {y})
  BY <1>2, <1>3, KeepMineView
<1> HIDE DEF id, T, loc, r, y
<1>5. MatchesAt(srv, T.wm, Unsynced(dead', c), r, loc, {y})
  BY QueuedCaught
<1>6. /\ T.wm \in Nat
      /\ T.wm <= cl[c].wm
      /\ T.wm = cl[c].wm \/ pass[c].pc = "idle"
      /\ DeadElsewhere(dead', c, r)
      /\ OthersDead(dead', c)
  BY <1>1, <1>2, <1>4, SameDead
<1>7. \A s \in Rec : MatchesAt(srv, T.wm, Unsynced(dead', c), s, T.local[s],
                               EntriesOf(T, s))
  BY <1>3, <1>4, <1>5, <1>6, OneRecordCaught
<1> QED BY <1>1, <1>2, <1>6, <1>7, WindowCaught

\* Taking the server's copy rewinds the watermark, so that no row the server
\* has is older than it. A pull that was fetched before is not applied after,
\* because conflicts are resolved while no pass runs.
LEMMA UseServerCaught ==
    ASSUME Caught, ResolveDuringPass = FALSE, NEW c \in Client,
           NEW x \in cl[c].box, ResolveUseServer(c, x)
    PROVE  Caught'
<1> DEFINE S == cl[c]
           T == UseServer(S, x)
           r == x.rec
<1>1. /\ Window(c, T, editor[c], 0)
      /\ dead' = {t \in dead : t[1] # c \/ t[2] # r}
      /\ CanUseServer(S, x)
      /\ IsConflict(x)
      /\ pass[c].pc = "idle"
  BY DEF ResolveUseServer, CanUseServer, Choose
<1>2. /\ Traced
      /\ Traced'
      /\ S \in Store
      /\ Distinct(S)
      /\ S.wm \in Nat
      /\ ServerSound(srv)
  BY UseServerTraced, CaughtView, TracedView
<1>3. r \in Rec /\ Exists(srv, r)
  BY <1>1, <1>2, ConflictView
<1>4. T.wm = 0 /\ Becomes(S, T, r, x.srv, {})
  BY <1>1, <1>2, UseServerView
<1> HIDE DEF T, r
<1>5. DeadElsewhere(dead', c, r) /\ OthersDead(dead', c)
  BY <1>1, <1>3, TombstonesDropped
<1>6. ~(srv.row[r].seq <= 0)
  <2>1. srv.row[r].seq \in Nat
    BY <1>3, CaughtView
  <2>2. srv.row[r].seq > 0
    BY <1>2, <1>3 DEF ServerSound, RowSound, Exists
  <2> QED BY <2>1, <2>2
<1>7. MatchesAt(srv, T.wm, Unsynced(dead', c), r, x.srv, {})
  BY <1>4, <1>6 DEF MatchesAt
<1>8. T.wm \in Nat /\ T.wm <= cl[c].wm
  BY <1>2, <1>4
<1>9. \A s \in Rec : MatchesAt(srv, T.wm, Unsynced(dead', c), s, T.local[s],
                               EntriesOf(T, s))
  BY <1>3, <1>4, <1>5, <1>7, <1>8, OneRecordCaught
<1> QED BY <1>1, <1>2, <1>5, <1>8, <1>9, WindowCaught

LEMMA MergeCaught ==
    ASSUME Caught, ResolveDuringPass = FALSE, NEW c \in Client,
           NEW x \in cl[c].box, ResolveMerge(c, x)
    PROVE  Caught'
<1> DEFINE S == cl[c]
           id == NewId(c)
           T == Merge(S, x, id)
           r == x.rec
<1>1. /\ Window(c, T, editor[c], 1)
      /\ dead' = dead
      /\ CanMerge(S, x)
      /\ pass[c].pc = "idle"
  BY DEF ResolveMerge, Choose
<1>2. /\ Traced
      /\ Traced'
      /\ S \in Store
      /\ Distinct(S)
      /\ S.wm \in Nat
  BY MergeTraced, CaughtView, TracedView
<1>3. id \in ChangeId /\ r \in Rec
  BY <1>1, <1>2, OneId, ConflictView DEF Window
<1>4. PICK loc, y : T.wm = 0 /\ Becomes(S, T, r, loc, {y})
  BY <1>1, <1>2, <1>3, MergeView
<1> HIDE DEF id, T, r
<1>5. MatchesAt(srv, T.wm, Unsynced(dead', c), r, loc, {y})
  BY QueuedCaught
<1>6. /\ T.wm \in Nat
      /\ T.wm <= cl[c].wm
      /\ DeadElsewhere(dead', c, r)
      /\ OthersDead(dead', c)
  BY <1>1, <1>2, <1>4, SameDead
<1>7. \A s \in Rec : MatchesAt(srv, T.wm, Unsynced(dead', c), s, T.local[s],
                               EntriesOf(T, s))
  BY <1>3, <1>4, <1>5, <1>6, OneRecordCaught
<1> QED BY <1>1, <1>2, <1>6, <1>7, WindowCaught

-----------------------------------------------------------------------------
(* The pass keeps the third invariant                                      *)

\* A pass that has neither an answer nor a pull to apply.
LEMMA PlainPass ==
    ASSUME NEW w, NEW wm, NEW p, p.pc \notin {"acked", "answered", "downloaded"}
    PROVE  PassFresh(w, wm, p)
BY DEF PassFresh

\* A step that leaves the database and the server.
LEMMA IdleCaught ==
    ASSUME Caught, Traced', srv' = srv, NEW c \in Client, NEW p,
           Worker(c, cl[c], p), PassFresh(srv, cl[c].wm, p)
    PROVE  Caught'
<1>1. /\ cl[c].wm <= srv.seq
      /\ \A r \in Rec : MatchesAt(srv, cl[c].wm, Unsynced(dead, c), r,
                                  cl[c].local[r], EntriesOf(cl[c], r))
  BY CaughtView
<1> QED BY <1>1, QuietWorkerCaught

LEMMA SelectCaught ==
    ASSUME Caught, NEW c \in Client, NEW due, Select(c, due)
    PROVE  Caught'
<1>1. Traced' /\ srv' = srv
  BY SelectTraced DEF Caught, Select
<1>2. PICK todo :
         Worker(c, cl[c], [NoPass EXCEPT !.pc = IF todo = <<>> THEN "settled"
                                                ELSE "selected",
                                         !.batch = Selected(todo)])
  BY DEF Select, Selected
<1> DEFINE pc == IF todo = <<>> THEN "settled" ELSE "selected"
           batch == Selected(todo)
           p == [NoPass EXCEPT !.pc = pc, !.batch = batch]
<1>3. pc \notin {"acked", "answered", "downloaded"}
  OBVIOUS
<1>4. Worker(c, cl[c], p)
  BY <1>2
<1> HIDE DEF pc, batch
<1>5. p.pc = pc
  BY NoPassParts, PassParts
<1> HIDE DEF p
<1>6. PassFresh(srv, cl[c].wm, p)
  BY <1>3, <1>5, PlainPass
<1> QED BY <1>1, <1>4, <1>6, IdleCaught

LEMMA PushCaught ==
    ASSUME Caught, NEW c \in Client, NEW fails \in BOOLEAN, Push(c, fails)
    PROVE  Caught'
<1> DEFINE S == cl[c]
           p == pass[c]
           o == PushChanges(srv, c, p.batch, fails)
           res == Results(o.done)
           T == MarkAttempted(S, BatchIds(c))
           q == [p EXCEPT !.pc = "answered", !.results = res]
<1>1. /\ Traced
      /\ Traced'
      /\ S \in Store
      /\ Distinct(S)
      /\ PassSound(srv, S, c, used[c], p)
      /\ GoodBatch(p.batch)
      /\ ServerSound(srv)
      /\ p \in Pass
  BY PushTraced, CaughtView, TracedView DEF PassSound, BatchSound
<1>2. srv' = o.work /\ Worker(c, T, q)
  BY DEF Push
<1>3. /\ ServerSound(o.work)
      /\ Advances(srv, o.work)
      /\ DOMAIN res = DOMAIN p.batch
      /\ \A k \in DOMAIN p.batch :
            /\ ResultSound(o.work, c, p.batch[k], res[k])
            /\ ResultFresh(o.work, p.batch[k], res[k])
  BY <1>1, AnswerSound, UserIsClient
<1>4. /\ T.local = S.local
      /\ T.wm = S.wm
      /\ \A r \in Rec : Touches(EntriesOf(S, r), EntriesOf(T, r), BatchIds(c))
  BY <1>1, MarkAttemptedView
<1> DEFINE w == o.work
<1> HIDE DEF o, w, res, T
<1>5. CaughtBy(w)
  BY <1>3, ServerCaught DEF w
<1>6. /\ q.pc = "answered"
      /\ q.results = res
  BY <1>1, PassParts
<1> HIDE DEF q
<1>7. AnswerFresh(w, T.wm, res)
  BY <1>3 DEF w, AnswerFresh, HasState, ResultSound, ResultFresh
<1>8. PassFresh(w, T.wm, q)
  BY <1>6, <1>7 DEF PassFresh
<1>9. \A r \in Rec : MatchesAt(w, T.wm, Unsynced(dead, c), r, T.local[r],
                               EntriesOf(T, r))
  BY <1>4, <1>5, TouchedCaught
<1>10. T.wm <= w.seq
  BY <1>4, <1>5 DEF CaughtBy, DeviceCaught
<1>11. DeviceCaught(w, T, q, Unsynced(dead, c))
  BY <1>8, <1>9, <1>10 DEF DeviceCaught
<1>12. CaughtBy(srv') /\ DeviceCaught(srv', T, q, Unsynced(dead, c))
  BY <1>2, <1>5, <1>11 DEF w
<1> QED BY <1>1, <1>2, <1>12, WorkerCaught

LEMMA PushFailsCaught ==
    ASSUME Caught, NEW c \in Client, NEW outcome, PushFails(c, outcome)
    PROVE  Caught'
<1> DEFINE S == cl[c]
           p == pass[c]
           T == MarkAttempted(S, BatchIds(c))
           pc == IF outcome = "denied" THEN "denied" ELSE "failed"
           q == [p EXCEPT !.pc = pc]
<1>1. /\ Traced
      /\ Traced'
      /\ S \in Store
      /\ Distinct(S)
      /\ PassSound(srv, S, c, used[c], p)
      /\ GoodBatch(p.batch)
      /\ ServerSound(srv)
      /\ p \in Pass
      /\ CaughtBy(srv)
  BY PushFailsTraced, CaughtView, TracedView DEF PassSound, BatchSound
<1>2. Worker(c, T, q)
  BY DEF PushFails
<1>3. CaughtBy(srv')
  <2> DEFINE v == PushChanges(srv, c, p.batch, FALSE).work
  <2>1. srv' = v \/ srv' = srv
    BY DEF PushFails
  <2>2. ServerSound(v) /\ Advances(srv, v)
    BY <1>1, AnswerSound, UserIsClient
  <2> HIDE DEF v
  <2>3. CaughtBy(v)
    BY <2>2, ServerCaught
  <2> QED BY <1>1, <2>1, <2>3
<1>4. /\ T.local = S.local
      /\ T.wm = S.wm
      /\ \A r \in Rec : Touches(EntriesOf(S, r), EntriesOf(T, r), BatchIds(c))
  BY <1>1, MarkAttemptedView
<1>5. pc \notin {"acked", "answered", "downloaded"}
  OBVIOUS
<1> HIDE DEF T, pc
<1>6. q.pc = pc
  BY <1>1, PassParts
<1> HIDE DEF q
<1>7. PassFresh(srv', T.wm, q)
  BY <1>5, <1>6, PlainPass
<1>8. \A r \in Rec : MatchesAt(srv', T.wm, Unsynced(dead, c), r, T.local[r],
                               EntriesOf(T, r))
  BY <1>3, <1>4, TouchedCaught
<1>9. T.wm <= srv'.seq
  BY <1>3, <1>4 DEF CaughtBy, DeviceCaught
<1>10. DeviceCaught(srv', T, q, Unsynced(dead, c))
  BY <1>7, <1>8, <1>9 DEF DeviceCaught
<1> QED BY <1>1, <1>2, <1>3, <1>10, WorkerCaught

LEMMA LateDeliveryCaught ==
    ASSUME Caught, NEW m \in late, LateDelivery(m)
    PROVE  Caught'
<1> DEFINE v == PushChanges(srv, m.user, m.batch, FALSE).work
<1>1. /\ Traced
      /\ Traced'
      /\ TypeOK
      /\ ServerSound(srv)
      /\ WellFormed
  BY LateDeliveryTraced DEF Caught, Traced, WellFormed
<1>2. /\ srv' = v
      /\ cl' = cl
      /\ pass' = pass
      /\ dead' = dead
  BY DEF LateDelivery, history
<1>3. m.user \in User /\ GoodBatch(m.batch)
  BY <1>1 DEF TypeOK, WellFormed, BatchSound
<1>4. ServerSound(v) /\ Advances(srv, v)
  BY <1>1, <1>3, AnswerSound
<1> HIDE DEF v
<1>5. CaughtBy(v)
  BY <1>4, ServerCaught
<1>6. CaughtBy(srv)'
  BY <1>2, <1>5 DEF CaughtBy
<1> QED BY <1>1, <1>6 DEF Caught

LEMMA FailBatchCaught ==
    ASSUME Caught, NEW c \in Client, FailBatch(c)
    PROVE  Caught'
<1> DEFINE S == cl[c]
           ids == BatchIds(c)
<1>1. /\ Traced'
      /\ S \in Store
      /\ Distinct(S)
      /\ CaughtBy(srv)
      /\ S.wm <= srv.seq
      /\ srv' = srv
  BY FailBatchTraced, CaughtView, TracedView DEF FailBatch
<1>2. PICK T : Worker(c, T, NoPass) /\ (T = Defer(S, ids) \/ T = Refuse(S, ids))
  BY DEF FailBatch, Refuse
<1>3. /\ T.local = S.local
      /\ T.wm = S.wm
      /\ \A r \in Rec : Touches(EntriesOf(S, r), EntriesOf(T, r), ids)
  BY <1>1, <1>2, DeferView, RefuseView
<1>4. \A r \in Rec : MatchesAt(srv, T.wm, Unsynced(dead, c), r, T.local[r],
                               EntriesOf(T, r))
  BY <1>1, <1>3, TouchedCaught
<1>5. PassFresh(srv, T.wm, NoPass) /\ T.wm <= srv.seq
  BY <1>1, <1>3, NoPassParts, PlainPass
<1> QED BY <1>1, <1>2, <1>4, <1>5, QuietWorkerCaught

LEMMA TodoParts ==
    ASSUME NEW p \in Pass, NEW pc, NEW todo
    PROVE  /\ [p EXCEPT !.pc = pc, !.todo = todo].pc = pc
           /\ [p EXCEPT !.pc = pc, !.todo = todo].todo = todo
           /\ [p EXCEPT !.pc = pc, !.todo = todo].results = p.results
BY DEF Pass

\* The results that are left wait for a transaction each.
LEMMA TodoFresh ==
    ASSUME NEW w, NEW wm, NEW q, NEW todo, q.pc = AfterAnswer(todo),
           q.todo = todo, todo \subseteq Unsettled(q.results)
    PROVE  PassFresh(w, wm, q)
BY DEF PassFresh, AfterAnswer

LEMMA AcknowledgeCaught ==
    ASSUME Caught, NEW c \in Client, AcknowledgeResults(c)
    PROVE  Caught'
<1> DEFINE S == cl[c]
           p == pass[c]
           T == Acknowledge(S, p.results)
           todo == Unsettled(p.results)
           pc == AfterAnswer(todo)
           q == [p EXCEPT !.pc = pc, !.todo = todo]
           un == Unsynced(dead, c)
<1>1. /\ Traced'
      /\ S \in Store
      /\ Distinct(S)
      /\ S.wm \in Nat
      /\ S.wm <= srv.seq
      /\ PassSound(srv, S, c, used[c], p)
      /\ p \in Pass
      /\ AnswerFresh(srv, S.wm, p.results)
  BY AcknowledgeTraced, CaughtView, TracedView
     DEF PassSound, AcknowledgeResults, PassFresh
<1>2. Worker(c, T, q) /\ srv' = srv
  BY DEF AcknowledgeResults
<1>3. /\ T.wm = S.wm
      /\ \A r \in Rec : AcksIn(p.results, r, S.local[r], EntriesOf(S, r),
                               T.local[r], EntriesOf(T, r))
  BY <1>1, ResultsOfBatch, AcknowledgeView
<1> HIDE DEF T
<1>4. ASSUME NEW r \in Rec
      PROVE  MatchesAt(srv, T.wm, un, r, T.local[r], EntriesOf(T, r))
  <2>1. /\ MatchesAt(srv, S.wm, un, r, S.local[r], EntriesOf(S, r))
        /\ srv.row[r].seq \in Nat
    BY CaughtView
  <2>2. CASE T.local[r] = S.local[r] /\ EntriesOf(T, r) = EntriesOf(S, r)
    BY <1>3, <2>1, <2>2
  <2>3. ASSUME NEW k \in DOMAIN p.results, HasState(p.results[k]),
               p.results[k].rec = r,
               Acks(S.local[r], EntriesOf(S, r), T.local[r], EntriesOf(T, r),
                    p.results[k])
        PROVE  MatchesAt(srv, T.wm, un, r, T.local[r], EntriesOf(T, r))
    <3>1. PICK res : res = p.results[k]
      OBVIOUS
    <3>2. /\ res.row = srv.row[r] \/ srv.row[r].seq > S.wm
          /\ res.row \in ProperRow
      BY <1>1, <2>3, <3>1, ResultsOfBatch DEF AnswerFresh, ProperResult
    <3>3. CASE T.local[r] = AsLocal(res.row)
      <4>1. CASE res.row = srv.row[r]
        <5>1. Looks(T.local[r]) = LooksOn(srv.row[r])
          BY <3>2, <3>3, <4>1, LooksAlike
        <5> QED BY <5>1 DEF MatchesAt
      <4>2. CASE srv.row[r].seq > S.wm
        <5>1. ~(srv.row[r].seq <= T.wm)
          BY <1>1, <1>3, <2>1, <4>2
        <5> QED BY <5>1 DEF MatchesAt
      <4> QED BY <3>2, <4>1, <4>2
    <3>4. CASE MovesOn(S.local[r], EntriesOf(S, r), T.local[r], EntriesOf(T, r),
                       AckVersion(res))
      <4>1. \/ T.local[r] = S.local[r] /\ EntriesOf(T, r) = EntriesOf(S, r)
            \/ EntriesOf(T, r) # {}
        BY <3>4 DEF MovesOn
      <4> QED BY <2>2, <4>1, QueuedCaught
    <3> QED BY <2>3, <3>1, <3>3, <3>4 DEF Acks
  <2> QED BY <1>3, <2>2, <2>3 DEF AcksIn
<1>5. /\ q.pc = AfterAnswer(todo)
      /\ q.todo = todo
      /\ q.results = p.results
  BY <1>1, TodoParts
<1> HIDE DEF q
<1>6. PassFresh(srv, T.wm, q)
  BY <1>5, TodoFresh
<1>7. T.wm <= srv.seq
  BY <1>1, <1>3
<1> QED BY <1>1, <1>2, <1>4, <1>6, <1>7, QuietWorkerCaught

\* An acceptance without server state removes an entry only for a delete: of a
\* record the server has deleted, or that it never had.
LEMMA StatelessDelete ==
    ASSUME NEW w, ServerSound(w), NEW u, NEW ch \in ClientChange, NEW res,
           ResultSound(w, u, ch, res), res.status = "accepted", ~HasState(res),
           NEW ed, NEW un, NEW r \in Rec, NEW x \in OutboxEntry, x.id = res.id,
           x.op = ch.pay.op \/ Rejected(w, x.id), EntryTraced(w, ed, un, r, x),
           r \notin un
    PROVE  x.op = "delete" /\ w.row[r].del
<1>1. /\ res.id = ch.id
      /\ ch.id \in ChangeId
      /\ ch.pay.op \in Ops
      /\ w.rcpt[ch.id] # NoReceipt
      /\ w.rcpt[ch.id].status = "accepted"
      /\ w.rcpt[ch.id].pay = ch.pay
      /\ ReceiptSound(w, w.rcpt[ch.id])
  BY ChangeFields DEF ResultSound, ServerSound
<1>2. res.ver \in Nat
  BY ResultTells
<1>3. res.ver = 0
  BY <1>2 DEF HasState
<1>4. w.rcpt[ch.id].ver \in Nat
  BY <1>1, WorkFields DEF ServerSound, ProperReceipt
<1>5. ~(w.rcpt[ch.id].ver > 0)
  BY <1>3, <1>4 DEF ResultSound
<1>6. ch.pay.op # "upsert"
  BY <1>1, <1>5 DEF ReceiptSound
<1>7. x.op = "delete"
  BY <1>1, <1>6 DEF Ops, Rejected
<1>8. Accepted(w, x.id)
  BY <1>1 DEF Accepted
<1> QED BY <1>7, <1>8 DEF EntryTraced, Firm

LEMMA SettleCaught ==
    ASSUME Caught, NEW c \in Client, NEW k, SettleResult(c, k)
    PROVE  Caught'
<1> DEFINE S == cl[c]
           p == pass[c]
           T == Settle(S, p.results[k])
           todo == p.todo \ {k}
           pc == AfterAnswer(todo)
           q == [p EXCEPT !.pc = pc, !.todo = todo]
           un == Unsynced(dead, c)
<1>1. /\ Traced
      /\ Traced'
      /\ S \in Store
      /\ Distinct(S)
      /\ S.wm <= srv.seq
      /\ ServerSound(srv)
      /\ PassSound(srv, S, c, used[c], p)
      /\ OpsMatch(srv, S, p.batch)
      /\ p \in Pass
  BY SettleTraced, CaughtView, TracedView DEF PassSound
<1>2. /\ k \in p.todo
      /\ Worker(c, T, q)
      /\ srv' = srv
      /\ p.pc = "acked"
  BY DEF SettleResult
<1>3. p.todo \subseteq Unsettled(p.results)
  BY <1>2, CaughtView DEF PassFresh
<1>4. k \in DOMAIN p.results /\ ~HasState(p.results[k])
  BY <1>2, <1>3 DEF Unsettled
<1>5. PICK res : res = p.results[k]
  OBVIOUS
<1>6. /\ res \in ProperResult
      /\ res.status = "error" => res.kind # "conflict"
      /\ ResultSound(srv, c, p.batch[k], res)
      /\ p.batch[k] \in ClientChange
      /\ res.id = p.batch[k].id
      /\ k \in DOMAIN p.batch
  BY <1>1, <1>4, <1>5, ResultsOfBatch DEF ResultSound
<1>7. /\ T.local = S.local
      /\ T.wm = S.wm
      /\ \A r \in Rec : Settles(EntriesOf(S, r), EntriesOf(T, r), res)
  BY <1>1, <1>5, <1>6, SettleView
<1>8. PICK ch \in ClientChange : ch = p.batch[k]
  BY <1>6
<1> HIDE DEF T
<1>9. ASSUME NEW r \in Rec
      PROVE  MatchesAt(srv, T.wm, un, r, T.local[r], EntriesOf(T, r))
  <2>1. /\ MatchesAt(srv, S.wm, un, r, S.local[r], EntriesOf(S, r))
        /\ ViewSound(r, S.local[r], EntriesOf(S, r))
        /\ Traces(srv, editor[c].rec, un, Synced(dead, c), r, S.local[r],
                  EntriesOf(S, r))
    BY <1>1, CaughtView, TracedView
  <2>2. CASE EntriesOf(T, r) = {} => EntriesOf(S, r) = {}
    BY <1>7, <2>1, <2>2 DEF MatchesAt
  <2>3. ASSUME res.status = "accepted", r \notin un,
               NEW x \in EntriesOf(S, r), x.id = res.id
        PROVE  Looks(S.local[r]) = LooksOn(srv.row[r])
    <3>1. /\ x \in S.box
          /\ x \in OutboxEntry
          /\ Shows(S.local[r], x)
          /\ EntryTraced(srv, editor[c].rec, un, r, x)
      BY <2>1 DEF ViewSound, Traces, EntriesOf
    <3>2. x.op = ch.pay.op \/ Rejected(srv, x.id)
      BY <1>1, <1>6, <1>8, <2>3, <3>1 DEF OpsMatch
    <3>3. ResultSound(srv, c, ch, res) /\ ~HasState(res)
      BY <1>4, <1>5, <1>6, <1>8
    <3> HIDE DEF un
    <3>4. x.op = "delete" /\ srv.row[r].del
      BY <1>1, <2>3, <3>1, <3>2, <3>3, StatelessDelete
    <3>5. S.local[r].del
      BY <3>1, <3>4 DEF Shows
    <3>6. Looks(S.local[r]) = {}
      BY <3>5 DEF Looks
    <3>7. LooksOn(srv.row[r]) = {}
      BY <3>4 DEF LooksOn
    <3> QED BY <3>6, <3>7
  <2>4. \/ EntriesOf(T, r) = {} => EntriesOf(S, r) = {}
        \/ /\ res.status = "accepted"
           /\ \E x \in EntriesOf(S, r) : x.id = res.id
    BY <1>7 DEF Settles, Holds, Touches
  <2>5. CASE res.status = "accepted" /\ \E x \in EntriesOf(S, r) : x.id = res.id
    BY <1>7, <2>3, <2>5 DEF MatchesAt
  <2> QED BY <2>2, <2>4, <2>5
<1>10. /\ q.pc = AfterAnswer(todo)
       /\ q.todo = todo
       /\ q.results = p.results
  BY <1>1, TodoParts
<1> HIDE DEF q
<1>11. PassFresh(srv, T.wm, q)
  BY <1>3, <1>10, TodoFresh
<1>12. T.wm <= srv.seq
  BY <1>1, <1>7
<1> QED BY <1>1, <1>2, <1>9, <1>11, <1>12, QuietWorkerCaught

LEMMA DownloadCaught ==
    ASSUME Caught, NEW c \in Client, Download(c)
    PROVE  Caught'
<1> DEFINE wm == cl[c].wm
           p == pass[c]
           rows == Pulled(srv, wm)
           q == Repulled(p, "downloaded", rows, srv.seq)
<1>1. /\ Traced'
      /\ p \in Pass
      /\ srv.seq \in Nat
      /\ wm \in Nat
      /\ ServerSound(srv)
      /\ \A r \in Rec : srv.row[r].seq \in Nat
  BY DownloadTraced, CaughtView, TracedView DEF PassSound
<1>2. Worker(c, cl[c], q) /\ srv' = srv
  BY DEF Download, Pulled, Repulled
<1>3. PullFresh(srv, wm, rows, srv.seq)
  <2>1. ASSUME NEW r \in Rec
        PROVE  rows[r] = srv.row[r] \/ (rows[r] = NoRow /\ srv.row[r].seq <= wm)
    <3>1. srv.row[r].seq <= srv.seq
      BY <1>1 DEF ServerSound, RowSound
    <3>2. r \in PullSet(srv, wm, srv.seq) \/ srv.row[r].seq <= wm
      BY <1>1, <3>1 DEF PullSet
    <3>3. rows[r] = IF r \in PullSet(srv, wm, srv.seq) THEN srv.row[r] ELSE NoRow
      BY DEF Pulled
    <3> QED BY <3>2, <3>3
  <2>2. srv.seq <= srv.seq
    BY <1>1
  <2> QED BY <2>1, <2>2 DEF PullFresh, RowFresh
<1> HIDE DEF rows
<1>4. /\ q.pc = "downloaded"
      /\ q.rows = rows
      /\ q.snap = srv.seq
  BY <1>1, PassParts
<1> HIDE DEF q
<1>5. PassFresh(srv, cl[c].wm, q)
  BY <1>3, <1>4 DEF PassFresh
<1> QED BY <1>1, <1>2, <1>5, IdleCaught

LEMMA PullFailsCaught ==
    ASSUME Caught, NEW c \in Client, PullFails(c)
    PROVE  Caught'
<1> DEFINE p == pass[c]
           q == Repulled(p, "done", NoRows, 0)
<1>1. Traced' /\ p \in Pass
  BY PullFailsTraced, CaughtView, TracedView DEF PassSound
<1>2. Worker(c, cl[c], q) /\ srv' = srv
  BY DEF PullFails, Repulled
<1>3. q.pc = "done"
  BY <1>1, PassParts
<1> HIDE DEF q
<1>4. PassFresh(srv, cl[c].wm, q)
  BY <1>3, PlainPass
<1> QED BY <1>1, <1>2, <1>4, IdleCaught

LEMMA ApplyDownloadCaught ==
    ASSUME Caught, NEW c \in Client, ApplyDownload(c)
    PROVE  Caught'
<1> DEFINE S == cl[c]
           p == pass[c]
           T == ApplyPull(S, p.rows, p.snap)
           q == Repulled(p, "done", NoRows, 0)
           un == Unsynced(dead, c)
<1>1. /\ Traced'
      /\ S \in Store
      /\ S.wm \in Nat
      /\ PassSound(srv, S, c, used[c], p)
      /\ p \in Pass
      /\ PullFresh(srv, S.wm, p.rows, p.snap)
  BY ApplyDownloadTraced, CaughtView, TracedView
     DEF PassSound, ApplyDownload, PassFresh
<1>2. Worker(c, T, q) /\ srv' = srv
  BY DEF ApplyDownload, Repulled
<1>3. /\ p.rows \in [Rec -> ProperRow]
      /\ p.snap \in Nat
  BY <1>1, PassFields
<1>4. /\ T.wm = p.snap
      /\ \A r \in Rec : Pulls(p.rows[r], S.local[r], EntriesOf(S, r),
                              T.local[r], EntriesOf(T, r))
  BY <1>1, <1>3, ApplyPullView
<1> HIDE DEF T
<1>5. ASSUME NEW r \in Rec
      PROVE  MatchesAt(srv, T.wm, un, r, T.local[r], EntriesOf(T, r))
  <2> DEFINE got == p.rows[r]
  <2>1. /\ MatchesAt(srv, S.wm, un, r, S.local[r], EntriesOf(S, r))
        /\ srv.row[r].seq \in Nat
        /\ got \in ProperRow
        /\ RowFresh(srv, S.wm, r, got, p.snap)
        /\ Pulls(got, S.local[r], EntriesOf(S, r), T.local[r], EntriesOf(T, r))
    BY <1>1, <1>3, <1>4, CaughtView DEF PullFresh
  <2> HIDE DEF got
  <2> SUFFICES ASSUME EntriesOf(T, r) = {}, srv.row[r].seq <= T.wm, r \notin un
               PROVE  Looks(T.local[r]) = LooksOn(srv.row[r])
    BY DEF MatchesAt
  <2>2. CASE got = NoRow
    <3>1. T.local[r] = S.local[r] /\ EntriesOf(S, r) = {}
      BY <2>1, <2>2 DEF Pulls
    <3>2. srv.row[r].seq <= S.wm
      BY <1>1, <1>3, <1>4, <2>1, <2>2 DEF RowFresh, NoRow
    <3> QED BY <2>1, <3>1, <3>2 DEF MatchesAt
  <2>3. CASE got # NoRow
    <3>1. EntriesOf(S, r) = {} /\ T.local[r] = AsLocal(got)
      BY <2>1, <2>3 DEF Pulls, RowTo
    <3>2. got = srv.row[r]
      BY <1>3, <1>4, <2>1, <2>3 DEF RowFresh
    <3> QED BY <2>1, <3>1, <3>2, LooksAlike
  <2> QED BY <2>2, <2>3
<1>6. q.pc = "done"
  BY <1>1, PassParts
<1> HIDE DEF q
<1>7. PassFresh(srv, T.wm, q)
  BY <1>6, PlainPass
<1>8. T.wm <= srv.seq
  BY <1>1, <1>4 DEF PullFresh
<1> QED BY <1>1, <1>2, <1>5, <1>7, <1>8, QuietWorkerCaught

LEMMA FinishCaught ==
    ASSUME Caught, NEW c \in Client, Finish(c)
    PROVE  Caught'
<1>1. Traced'
  BY FinishTraced DEF Caught
<1>2. Worker(c, cl[c], NoPass) /\ srv' = srv
  BY DEF Finish
<1>3. PassFresh(srv, cl[c].wm, NoPass)
  BY NoPassParts, PlainPass
<1> QED BY <1>1, <1>2, <1>3, IdleCaught

LEMMA CrashCaught ==
    ASSUME Caught, NEW c \in Client, Crash(c)
    PROVE  Caught'
<1>1. Traced'
  BY CrashTraced DEF Caught
<1>2. Worker(c, cl[c], NoPass) /\ srv' = srv
  BY DEF Crash
<1>3. PassFresh(srv, cl[c].wm, NoPass)
  BY NoPassParts, PlainPass
<1> QED BY <1>1, <1>2, <1>3, IdleCaught

LEMMA InitCaught == Init => Caught
<1> SUFFICES ASSUME Init
             PROVE  Caught
  OBVIOUS
<1>1. /\ srv.seq = 0
      /\ \A r \in Rec : srv.row[r] = NoRow
  BY DEF Init, InitWork
<1>2. ASSUME NEW c \in Client
      PROVE  DeviceCaught(srv, cl[c], pass[c], Unsynced(dead, c))
  <2>1. /\ cl[c].wm = 0
        /\ \A r \in Rec : cl[c].local[r] = NoLocal
    BY DEF Init, InitStore
  <2>2. PassFresh(srv, cl[c].wm, pass[c])
    BY NoPassParts, PlainPass DEF Init
  <2>3. Looks(NoLocal) = {} /\ LooksOn(NoRow) = {}
    BY DEF Looks, LooksOn, NoLocal, NoRow
  <2>4. cl[c].wm <= srv.seq
    BY <1>1, <2>1
  <2> QED BY <1>1, <2>1, <2>2, <2>3, <2>4 DEF DeviceCaught, MatchesAt
<1> QED BY <1>2, InitTraced DEF Caught, CaughtBy

LEMMA StepCaught ==
    ASSUME Caught, ResolveDuringPass = FALSE, [Next]_vars
    PROVE  Caught'
<1>1. scope.devices \subseteq Client /\ scope.records \subseteq Rec
  BY ScopeFields DEF Caught, Traced, WellFormed
<1>2. ASSUME NEW c \in Client, Edits(c)
      PROVE  Caught'
  <2>1. ASSUME NEW r \in scope.records, NEW e \in Edit, Create(c, r, e)
        PROVE  Caught'
    BY <1>1, <2>1, CreateCaught
  <2>2. ASSUME NEW r \in Rec, Open(c, r)
        PROVE  Caught'
    BY <2>2, OpenCaught
  <2>3. CASE Close(c)
    BY <2>3, CloseCaught
  <2>4. ASSUME NEW e \in Edit, Save(c, e)
        PROVE  Caught'
    BY <2>4, SaveCaught
  <2>5. CASE Delete(c)
    BY <2>5, DeleteCaught
  <2>6. ASSUME NEW e \in Edit, DeleteDirty(c, e)
        PROVE  Caught'
    BY <2>6, DeleteDirtyCaught
  <2>7. ASSUME NEW x \in cl[c].box,
               ResolveKeepMine(c, x) \/ ResolveUseServer(c, x)
               \/ ResolveMerge(c, x)
        PROVE  Caught'
    BY <2>7, KeepMineCaught, UseServerCaught, MergeCaught
  <2> QED BY <1>2, <2>1, <2>2, <2>3, <2>4, <2>5, <2>6, <2>7 DEF Edits
<1>3. ASSUME NEW c \in Client, PassStep(c)
      PROVE  Caught'
  <2>1. ASSUME NEW due, Select(c, due)
        PROVE  Caught'
    BY <2>1, SelectCaught
  <2>2. ASSUME NEW fails \in BOOLEAN, Push(c, fails)
        PROVE  Caught'
    BY <2>2, PushCaught
  <2>3. ASSUME NEW k, SettleResult(c, k)
        PROVE  Caught'
    BY <2>3, SettleCaught
  <2> QED BY <1>3, <2>1, <2>2, <2>3, FailBatchCaught, AcknowledgeCaught,
             DownloadCaught, ApplyDownloadCaught, FinishCaught DEF PassStep
<1>4. ASSUME NEW c \in Client, Faults(c)
      PROVE  Caught'
  BY <1>4, PushFailsCaught, PullFailsCaught, CrashCaught DEF Faults
<1>5. CASE UNCHANGED vars
  <2>1. /\ srv' = srv
        /\ cl' = cl
        /\ pass' = pass
        /\ dead' = dead
    BY <1>5 DEF vars, history
  <2>2. Traced'
    BY StepTraced DEF Caught
  <2> QED BY <2>1, <2>2 DEF Caught, CaughtBy
<1> QED BY <1>1, <1>2, <1>3, <1>4, <1>5, LoginCaught, LateDeliveryCaught
        DEF Next

LEMMA CaughtConverged == Caught => Converged
<1> SUFFICES ASSUME Caught, NEW c \in Client, NEW r \in Rec, Quiet(c),
                    cl[c].wm = srv.seq, <<c, r, FALSE>> \notin dead
             PROVE  Shown(c, r) = OnServer(r)
  BY DEF Converged
<1>1. r \notin Unsynced(dead, c)
  BY Zenon DEF Unsynced
<1>2. EntriesOf(cl[c], r) = {}
  BY DEF Quiet, EntriesOf
<1>3. srv.row[r].seq <= srv.seq
  BY TracedView DEF Caught, ServerSound, RowSound
<1>4. MatchesAt(srv, cl[c].wm, Unsynced(dead, c), r, cl[c].local[r],
                EntriesOf(cl[c], r))
  BY CaughtView
<1>5. Looks(cl[c].local[r]) = LooksOn(srv.row[r])
  BY <1>1, <1>2, <1>3, <1>4 DEF MatchesAt
<1> QED BY <1>5 DEF Looks, LooksOn, Shown, OnServer

\* A device with nothing queued whose watermark is the server's sequence shows
\* what the server holds, for every set of devices, records and changes and
\* through lost answers, late requests, crashes and resolved conflicts: an
\* acknowledgement, a pull and a copy taken from the server never leave a row
\* behind that the next pull would skip (acknowledge_accepted_results,
\* apply_pull_*, use_server, get_last_server_time). The hypothesis is the one
\* of the run: conflicts are resolved while no pass is under way.
THEOREM AlwaysConverged ==
    ASSUME ResolveDuringPass = FALSE
    PROVE  Spec => []Converged
<1>1. Caught /\ [Next]_vars => Caught'
  BY StepCaught
<1>2. Spec => []Caught
  BY <1>1, InitCaught, PTL DEF Spec
<1> QED BY <1>2, CaughtConverged, PTL

=============================================================================
