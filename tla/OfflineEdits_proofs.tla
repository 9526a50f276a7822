------------------------ MODULE OfflineEdits_proofs ------------------------
(***************************************************************************)
(* Proofs about the edits of OfflineSync, on the invariants that           *)
(* OfflineSync_proofs establishes: every saved edit is on the server or in *)
(* an outbox, and no accepted change overwrites one silently, for every    *)
(* set of devices, records, edits and changes.                             *)
(***************************************************************************)
EXTENDS OfflineSync_proofs

-----------------------------------------------------------------------------
(* The fourth invariant: no edit is lost. X: the edits whose loss a user   *)
(* has brought about.                                                      *)

\* The server has record r with the edits V.
Within(w, X, r, V) == w.row[r].ver > 0 /\ V \subseteq w.row[r].val \cup X

\* A content V that claims version b of record r: if that is the server's
\* version, V has the server's edits.
Stamp(w, X, r, b, V) ==
    /\ b <= w.row[r].ver
    /\ b >= 1 /\ b = w.row[r].ver => w.row[r].val \subseteq V \cup X

\* A version that a change of record r may claim: the device knows of it, or
\* assumes that its create has arrived.
BaseKnown(w, r, b) == b <= 1 \/ b <= w.row[r].ver

\* A payload that overwrites nothing if it is accepted.
Fits(w, X, q) ==
    /\ BaseKnown(w, q.rec, q.base)
    /\ q.op = "upsert" => Stamp(w, X, q.rec, q.base, q.val)

\* What a receipt tells of the edits of its change.
ReceiptSafe(w, X, rc) ==
    /\ rc.status = "accepted" =>
          rc.pay.base < rc.ver \/ (rc.ver = 0 /\ rc.pay.base <= 1)
    /\ rc.status = "accepted" /\ rc.pay.op = "upsert" =>
          /\ Within(w, X, rc.pay.rec, rc.pay.val)
          /\ Stamp(w, X, rc.pay.rec, rc.ver, rc.pay.val)
    /\ rc.status = "conflict" =>
          /\ Within(w, X, rc.pay.rec, rc.row.val)
          /\ rc.pay.op = "upsert" => rc.pay.base < rc.ver

ReceiptsSafe(w, X) ==
    \A i \in ChangeId : w.rcpt[i] # NoReceipt => ReceiptSafe(w, X, w.rcpt[i])

\* The cached row loc of record r, with entries E.
RowSafe(w, X, r, loc, E) ==
    /\ loc.ver <= w.row[r].ver
    /\ E = {} /\ ~loc.del => Stamp(w, X, r, loc.ver, loc.val)

\* The server's side of a conflict: an older row of the server, but not older
\* than the cached one.
ConflictSafe(w, X, r, loc, x) ==
    /\ x.srv.ver >= 1
    /\ loc.ver <= x.srv.ver
    /\ CopyOf(w, r, x.srv)
    /\ Within(w, X, r, x.srv.val)
    /\ x.op = "upsert" => x.base < w.row[r].ver

\* The server has not seen the identifier of an entry that was never sent.
Unsent(w, x) == x.status = "pending" /\ w.rcpt[x.id] = NoReceipt

EntrySafe(w, X, r, loc, x) ==
    /\ ~x.tried => Unsent(w, x)
    /\ w.rcpt[x.id] # NoReceipt /\ w.rcpt[x.id].status # "error" =>
          loc.ver <= w.rcpt[x.id].ver
    /\ BaseKnown(w, r, x.base)
    /\ ~IsConflict(x) /\ x.op = "upsert" => Stamp(w, X, r, x.base, x.val)
    /\ IsConflict(x) => ConflictSafe(w, X, r, loc, x)

\* A form ed on record r has what is queued for it.
FormSafe(w, X, r, E, ed) ==
    ed.rec = r =>
        /\ Stamp(w, X, r, ed.base, ed.val)
        /\ \A x \in E : x.op = "upsert" => x.val \subseteq ed.val \cup X

\* The answer has not been applied.
Waiting(p) == p.pc \in {"selected", "failed", "denied", "answered"}

\* An acceptance of change k that moves a form on to a later version.
Follows(p, k) ==
    /\ p.results # <<>>
    /\ p.results[k].status = "accepted"
    /\ AckVersion(p.results[k]) > p.batch[k].pay.base

\* What is queued for a record while change ch for it is on the way: the
\* change's own entry, or a later one that is for the same work and more.
Succeeds(X, ch, loc, E, formed) ==
    /\ E = {} => loc.del /\ ~formed
    /\ \A y \in E :
          /\ y.id # ch.id => ~y.tried
          /\ ch.pay.op = "delete" => y.op = "delete"
          /\ ch.pay.op = "upsert" /\ y.op = "upsert" =>
                ch.pay.val \subseteq y.val \cup X

\* Change k of the pass p, for record r.
ChangeSafe(w, X, r, loc, E, ed, p, k) ==
    /\ Fits(w, X, p.batch[k].pay)
    /\ Waiting(p) \/ k \in p.todo =>
          \A x \in E : x.id = p.batch[k].id =>
              ~IsConflict(x) /\ AsChange(x) = p.batch[k]
    /\ Waiting(p) => Succeeds(X, p.batch[k], loc, E, ed.rec = r)
    /\ /\ Waiting(p) \/ Follows(p, k)
       /\ ed.rec = r
       /\ ed.base = p.batch[k].pay.base
       => /\ p.batch[k].pay.op = "upsert"
          /\ p.batch[k].pay.val \subseteq ed.val \cup X
    /\ ~Waiting(p) /\ Follows(p, k) =>
          \/ loc.ver > p.batch[k].pay.base
          \/ loc.del /\ ed.rec # r
    /\ p.pc = "downloaded" /\ Follows(p, k) /\ p.rows[r].ver > 0 =>
          p.rows[r].ver > p.batch[k].pay.base

\* A row that has been pulled.
PullSafe(w, X, r, loc, row) ==
    /\ row.ver = 0 => row = NoRow
    /\ row.ver > 0 => /\ loc.ver <= row.ver
                      /\ CopyOf(w, r, row)
                      /\ Within(w, X, r, row.val)

\* Record r of a device.
RecSafe(w, X, r, loc, E, ed, p) ==
    /\ RowSafe(w, X, r, loc, E)
    /\ \A x \in E : EntrySafe(w, X, r, loc, x)
    /\ FormSafe(w, X, r, E, ed)
    /\ \A k \in DOMAIN p.batch : p.batch[k].pay.rec = r =>
          ChangeSafe(w, X, r, loc, E, ed, p, k)
    /\ p.pc = "downloaded" => PullSafe(w, X, r, loc, p.rows[r])

DeviceSafe(w, X, S, ed, p) ==
    /\ p.pc = "idle" => p.batch = <<>>
    /\ \A r \in Rec : RecSafe(w, X, r, S.local[r], EntriesOf(S, r), ed, p)

\* The changes of a request, and what the sender's database S has of them
\* after the sender has given up.
AllFit(w, X, batch) == \A k \in 1..Len(batch) : Fits(w, X, batch[k].pay)

AllTried(S, batch) ==
    \A k \in 1..Len(batch) : \A x \in S.box : x.id = batch[k].id => x.tried

SafeBy(w, X) ==
    /\ ReceiptsSafe(w, X)
    /\ \A m \in late : AllFit(w, X, m.batch) /\ AllTried(cl[m.user], m.batch)
    /\ \A c \in Client : DeviceSafe(w, X, cl[c], editor[c], pass[c])

Safe == Caught /\ SafeBy(srv, Excused) /\ EditsAccountedFor

\* The tables v keep every edit of w but for those in X.
KeepsAll(w, v, X) ==
    \A r \in Rec : w.row[r].ver > 0 =>
        w.row[r].val \subseteq v.row[r].val \cup X

LEMMA StampKept ==
    ASSUME NEW w \in ProperWork, NEW v \in ProperWork, Advances(w, v), NEW X,
           NEW r \in Rec, NEW b \in Nat, NEW V, Stamp(w, X, r, b, V)
    PROVE  Stamp(v, X, r, b, V)
<1>1. /\ w.row[r].ver \in Nat
      /\ v.row[r].ver \in Nat
      /\ w.row[r].ver <= v.row[r].ver
      /\ w.row[r].ver = v.row[r].ver => w.row[r] = v.row[r]
  BY WorkFields, AdvancesVersion
<1>2. /\ b <= w.row[r].ver
      /\ b >= 1 /\ b = w.row[r].ver => w.row[r].val \subseteq V \cup X
  BY DEF Stamp
<1>3. b <= v.row[r].ver
  BY <1>1, <1>2
<1>4. ASSUME b >= 1, b = v.row[r].ver
      PROVE  v.row[r].val \subseteq V \cup X
  <2>1. b = w.row[r].ver /\ w.row[r] = v.row[r]
    BY <1>1, <1>2, <1>4
  <2> QED BY <1>2, <1>4, <2>1
<1> QED BY <1>3, <1>4 DEF Stamp

LEMMA WithinKept ==
    ASSUME NEW w \in ProperWork, NEW v \in ProperWork, Advances(w, v), NEW X,
           KeepsAll(w, v, X), NEW r \in Rec, NEW V, Within(w, X, r, V)
    PROVE  Within(v, X, r, V)
<1>1. /\ w.row[r].ver \in Nat
      /\ v.row[r].ver \in Nat
      /\ w.row[r].ver <= v.row[r].ver
  BY WorkFields, AdvancesVersion
<1>2. v.row[r].ver > 0
  BY <1>1 DEF Within
<1>3. V \subseteq v.row[r].val \cup X
  BY DEF Within, KeepsAll
<1> QED BY <1>2, <1>3 DEF Within

LEMMA BaseKept ==
    ASSUME NEW w \in ProperWork, NEW v \in ProperWork, Advances(w, v),
           NEW r \in Rec, NEW b \in Nat, BaseKnown(w, r, b)
    PROVE  BaseKnown(v, r, b)
<1>1. /\ w.row[r].ver \in Nat
      /\ v.row[r].ver \in Nat
      /\ w.row[r].ver <= v.row[r].ver
  BY WorkFields, AdvancesVersion
<1> QED BY <1>1 DEF BaseKnown

LEMMA FitsKept ==
    ASSUME NEW w \in ProperWork, NEW v \in ProperWork, Advances(w, v), NEW X,
           NEW q \in Payload, Fits(w, X, q)
    PROVE  Fits(v, X, q)
<1>1. q.rec \in Rec /\ q.base \in Nat
  BY DEF Payload
<1>2. BaseKnown(w, q.rec, q.base)
  BY DEF Fits
<1>3. BaseKnown(v, q.rec, q.base)
  BY <1>1, <1>2, BaseKept
<1>4. ASSUME q.op = "upsert"
      PROVE  Stamp(v, X, q.rec, q.base, q.val)
  <2>1. Stamp(w, X, q.rec, q.base, q.val)
    BY <1>4 DEF Fits
  <2> QED BY <1>1, <2>1, StampKept
<1> QED BY <1>3, <1>4 DEF Fits

LEMMA ReceiptSafeKept ==
    ASSUME NEW w \in ProperWork, NEW v \in ProperWork, Advances(w, v), NEW X,
           KeepsAll(w, v, X), NEW rc \in ProperReceipt, ReceiptSafe(w, X, rc)
    PROVE  ReceiptSafe(v, X, rc)
<1>1. rc.pay.rec \in Rec /\ rc.ver \in Nat
  BY DEF ProperReceipt, Payload
<1>2. ASSUME rc.status = "accepted", rc.pay.op = "upsert"
      PROVE  /\ Within(v, X, rc.pay.rec, rc.pay.val)
             /\ Stamp(v, X, rc.pay.rec, rc.ver, rc.pay.val)
  <2>1. /\ Within(w, X, rc.pay.rec, rc.pay.val)
        /\ Stamp(w, X, rc.pay.rec, rc.ver, rc.pay.val)
    BY <1>2 DEF ReceiptSafe
  <2> QED BY <1>1, <2>1, WithinKept, StampKept
<1>3. ASSUME rc.status = "conflict"
      PROVE  Within(v, X, rc.pay.rec, rc.row.val)
  <2>1. Within(w, X, rc.pay.rec, rc.row.val)
    BY <1>3 DEF ReceiptSafe
  <2> QED BY <1>1, <2>1, WithinKept
<1>4. /\ rc.status = "accepted" =>
            rc.pay.base < rc.ver \/ (rc.ver = 0 /\ rc.pay.base <= 1)
      /\ rc.status = "conflict" /\ rc.pay.op = "upsert" => rc.pay.base < rc.ver
  BY DEF ReceiptSafe
<1> QED BY <1>2, <1>3, <1>4 DEF ReceiptSafe

LEMMA KeepsAllReflexive ==
    ASSUME NEW w, NEW X
    PROVE  KeepsAll(w, w, X)
BY DEF KeepsAll

LEMMA KeepsAllTransitive ==
    ASSUME NEW w \in ProperWork, NEW v \in ProperWork, NEW m \in ProperWork,
           Advances(w, v), NEW X, KeepsAll(w, v, X), KeepsAll(v, m, X)
    PROVE  KeepsAll(w, m, X)
<1> SUFFICES ASSUME NEW r \in Rec, w.row[r].ver > 0
             PROVE  w.row[r].val \subseteq m.row[r].val \cup X
  BY DEF KeepsAll
<1>1. /\ w.row[r].ver \in Nat
      /\ v.row[r].ver \in Nat
      /\ w.row[r].ver <= v.row[r].ver
  BY WorkFields, AdvancesVersion
<1>2. /\ w.row[r].val \subseteq v.row[r].val \cup X
      /\ v.row[r].val \subseteq m.row[r].val \cup X
  BY <1>1 DEF KeepsAll
<1> QED BY <1>2

\* A receipt that is no error tells a version the record had, or a later one.
Reaches(w, r, rc) == rc.status # "error" => w.row[r].ver <= rc.ver

\* Applying a change that fits.
EffectIsSafe(w, X, ch, v) ==
    /\ KeepsAll(w, v, X)
    /\ ReceiptsSafe(v, X)
    /\ v.rcpt[ch.id] # NoReceipt => Reaches(w, ch.pay.rec, v.rcpt[ch.id])

LEMMA EffectSafe ==
    ASSUME NEW w, ServerSound(w), NEW X, ReceiptsSafe(w, X), NEW u \in User,
           NEW ch \in ClientChange, Fits(w, X, ch.pay),
           w.rcpt[ch.id] = NoReceipt,
           NEW v \in ProperWork, Advances(w, v), NEW status,
           Untouched(w, ch, v), Effect(w, u, ch, v, status)
    PROVE  EffectIsSafe(w, X, ch, v)
<1> DEFINE p == ch.pay
           r == ch.pay.rec
           old == w.row[ch.pay.rec]
           new == v.row[ch.pay.rec]
           rc == v.rcpt[ch.id]
<1>1. w \in ProperWork
  BY DEF ServerSound
<1>2. /\ ch.id \in ChangeId
      /\ p \in Payload
      /\ r \in Rec
      /\ p.base \in Nat
      /\ p.op \in Ops
  BY ChangeFields
<1>3. old.ver \in Nat /\ new.ver \in Nat
  BY <1>1, <1>2, WorkFields
<1>4. /\ p.base <= 1 \/ p.base <= old.ver
      /\ p.op = "upsert" =>
            /\ p.base <= old.ver
            /\ p.base >= 1 /\ p.base = old.ver => old.val \subseteq p.val \cup X
  BY DEF Fits, BaseKnown, Stamp
<1>5. KeepsAll(w, v, X)
  <2>1. ASSUME NEW s \in Rec, w.row[s].ver > 0
        PROVE  w.row[s].val \subseteq v.row[s].val \cup X
    <3>1. CASE v.row[s] = w.row[s]
      BY <3>1
    <3>2. CASE v.row[s] # w.row[s]
      <4>1. s = r
        BY <3>2 DEF Untouched
      <4>2. Written(w, u, p, v)
        BY <3>2, <4>1 DEF Effect
      <4>3. CASE p.op = "upsert"
        <5>1. new.val = p.val /\ p.base = old.ver
          BY <2>1, <4>1, <4>2, <4>3 DEF Written
        <5> QED BY <1>3, <1>4, <2>1, <4>1, <4>3, <5>1
      <4>4. CASE p.op = "delete"
        <5>1. new.val = old.val
          BY <4>2, <4>4 DEF Written
        <5> QED BY <4>1, <5>1
      <4> QED BY <1>2, <4>3, <4>4 DEF Ops
    <3> QED BY <3>1, <3>2
  <2> QED BY <2>1 DEF KeepsAll
<1>6. ASSUME rc # NoReceipt
      PROVE  ReceiptSafe(v, X, rc) /\ Reaches(w, r, rc)
  <2>1. \/ Stored(v, u, ch, "error", NoRow)
        \/ /\ new = old
           /\ old.ver > 0
           /\ StaleBase(w, p)
           /\ Stored(v, u, ch, "conflict", old)
        \/ /\ new = old
           /\ p.op = "delete"
           /\ old.ver = 0
           /\ Stored(v, u, ch, "accepted", old)
        \/ /\ Written(w, u, p, v)
           /\ Stored(v, u, ch, "accepted", new)
    BY <1>6 DEF Effect
  <2>2. ASSUME NEW st, NEW row, Stored(v, u, ch, st, row)
        PROVE  /\ rc.ver = row.ver
               /\ rc.row = row
               /\ rc.pay = p
               /\ rc.status = st
    BY <2>2 DEF Stored
  <2>3. CASE Stored(v, u, ch, "error", NoRow)
    <3>1. rc.status = "error"
      BY <2>2, <2>3
    <3> HIDE DEF rc
    <3> QED BY <3>1 DEF ReceiptSafe, Reaches
  <2>4. CASE /\ new = old
             /\ old.ver > 0
             /\ StaleBase(w, p)
             /\ Stored(v, u, ch, "conflict", old)
    <3>1. /\ rc.ver = old.ver
          /\ rc.row = old
          /\ rc.pay = p
          /\ rc.status = "conflict"
      BY <2>2, <2>4
    <3>2. Within(v, X, r, old.val)
      BY <2>4 DEF Within
    <3>3. p.op = "upsert" => p.base < old.ver
      BY <1>2, <1>3, <1>4, <2>4 DEF StaleBase
    <3> HIDE DEF rc
    <3> QED BY <1>3, <3>1, <3>2, <3>3 DEF ReceiptSafe, Reaches
  <2>5. CASE /\ new = old
             /\ p.op = "delete"
             /\ old.ver = 0
             /\ Stored(v, u, ch, "accepted", old)
    <3>1. /\ rc.ver = 0
          /\ rc.pay = p
          /\ rc.status = "accepted"
      BY <2>2, <2>5
    <3>2. p.base <= 1
      BY <1>2, <1>4, <2>5
    <3> HIDE DEF rc
    <3> QED BY <2>5, <3>1, <3>2 DEF ReceiptSafe, Reaches
  <2>6. CASE /\ Written(w, u, p, v)
             /\ Stored(v, u, ch, "accepted", new)
    <3>1. /\ rc.ver = new.ver
          /\ rc.pay = p
          /\ rc.status = "accepted"
      BY <2>2, <2>6
    <3>2. new.ver = old.ver + 1 /\ (p.op = "upsert" => new.val = p.val)
      BY <2>6 DEF Written
    <3>3. p.base < new.ver
      <4>1. CASE old.ver > 0
        BY <1>3, <2>6, <3>2, <4>1 DEF Written
      <4>2. CASE old.ver = 0
        <5>1. p.op = "upsert"
          BY <2>6, <4>2 DEF Written
        <5> QED BY <1>2, <1>3, <1>4, <3>2, <5>1
      <4> QED BY <1>3, <4>1, <4>2
    <3>4. p.op = "upsert" => /\ Within(v, X, r, p.val)
                             /\ Stamp(v, X, r, new.ver, p.val)
      BY <1>3, <3>2 DEF Within, Stamp
    <3>5. old.ver <= new.ver
      BY <1>3, <3>2
    <3> HIDE DEF rc
    <3> QED BY <3>1, <3>3, <3>4, <3>5 DEF ReceiptSafe, Reaches
  <2> QED BY <2>1, <2>3, <2>4, <2>5, <2>6
<1>7. ASSUME NEW i \in ChangeId, v.rcpt[i] # NoReceipt
      PROVE  ReceiptSafe(v, X, v.rcpt[i])
  <2>1. CASE i = ch.id
    BY <1>6, <1>7, <2>1
  <2>2. CASE i # ch.id
    <3>1. v.rcpt[i] = w.rcpt[i]
      BY <2>2 DEF Untouched
    <3>2. /\ w.rcpt[i] \in ProperReceipt
          /\ ReceiptSafe(w, X, w.rcpt[i])
      BY <1>1, <1>7, <3>1, WorkFields DEF ReceiptsSafe
    <3> QED BY <1>1, <1>5, <3>1, <3>2, ReceiptSafeKept
  <2> QED BY <2>1, <2>2
<1> QED BY <1>5, <1>6, <1>7 DEF EffectIsSafe, ReceiptsSafe

\* The receipts of the tables v that w does not have.
NewReaches(w, v, batch) ==
    \A i \in ChangeId : v.rcpt[i] # w.rcpt[i] =>
        \E j \in 1..Len(batch) :
            i = batch[j].id /\ Reaches(w, batch[j].pay.rec, v.rcpt[i])

\* The tables v, some changes of the batch after w.
SafeSofar(w, X, batch, v) ==
    /\ ReceiptsSafe(v, X)
    /\ KeepsAll(w, v, X)
    /\ NewReaches(w, v, batch)

LEMMA PushOneSafe ==
    ASSUME NEW w, ServerSound(w), NEW u \in User, NEW batch, GoodBatch(batch),
           NEW X, AllFit(w, X, batch),
           NEW fails \in BOOLEAN, NEW n \in 1..Len(batch), NEW acc,
           Sofar(w, u, batch, n - 1, acc), SafeSofar(w, X, batch, acc.work)
    PROVE  SafeSofar(w, X, batch, PushOne(w, u, acc, batch[n], fails).work)
<1> DEFINE ch == batch[n]
           m == acc.work
           new == PushOne(w, u, acc, ch, fails)
<1>0. OneMore(u, acc, ch, new)
  BY PushOneCases
<1>1. PICK res \in ProperResult, v \in ProperWork :
              /\ new = [work |-> v,
                        done |-> Append(acc.done, [change |-> ch,
                                                   result |-> res])]
              /\ \/ v = m
                 \/ /\ m.rcpt[ch.id] = NoReceipt
                    /\ Untouched(m, ch, v)
                    /\ Effect(m, u, ch, v, res.status)
  BY <1>0 DEF OneMore
<1>2. new.work = v
  BY <1>1
<1> HIDE DEF new
<1>3. /\ ch \in ClientChange
      /\ ch.pay \in Payload
      /\ ch.pay.rec \in Rec
      /\ Fits(w, X, ch.pay)
      /\ n \in 1..Len(batch)
  BY ChangeFields DEF GoodBatch, AllFit
<1>4. m \in ProperWork /\ w \in ProperWork /\ ServerSound(m) /\ Advances(w, m)
  BY DEF Sofar, ServerSound
<1>5. SafeSofar(w, X, batch, m)
  OBVIOUS
<1>6. CASE v = m
  BY <1>2, <1>5, <1>6 DEF new
<1>7. CASE /\ m.rcpt[ch.id] = NoReceipt
           /\ Untouched(m, ch, v)
           /\ Effect(m, u, ch, v, res.status)
  <2>1. ServerSound(v) /\ Advances(m, v)
    BY <1>3, <1>4, <1>7, EffectSound
  <2>2. Fits(m, X, ch.pay)
    BY <1>3, <1>4, FitsKept
  <2>3. ReceiptsSafe(m, X) /\ KeepsAll(w, m, X) /\ NewReaches(w, m, batch)
    BY <1>5 DEF SafeSofar
  <2>4. EffectIsSafe(m, X, ch, v)
    BY <1>3, <1>4, <1>7, <2>1, <2>2, <2>3, EffectSafe
  <2>5. /\ KeepsAll(m, v, X)
        /\ ReceiptsSafe(v, X)
        /\ v.rcpt[ch.id] # NoReceipt => Reaches(m, ch.pay.rec, v.rcpt[ch.id])
    BY <2>4 DEF EffectIsSafe
  <2>6. KeepsAll(w, v, X)
    BY <1>4, <2>3, <2>5, KeepsAllTransitive
  <2>7. ASSUME NEW i \in ChangeId, v.rcpt[i] # w.rcpt[i]
        PROVE  \E j \in 1..Len(batch) :
                  i = batch[j].id /\ Reaches(w, batch[j].pay.rec, v.rcpt[i])
    <3>1. CASE i # ch.id
      <4>1. v.rcpt[i] = m.rcpt[i]
        BY <1>7, <3>1 DEF Untouched
      <4> QED BY <2>3, <2>7, <4>1 DEF NewReaches
    <3>2. CASE i = ch.id
      <4>1. w.rcpt[i] = NoReceipt
        BY <1>4, <1>7, <3>2 DEF Advances
      <4>2. v.rcpt[i] # NoReceipt
        BY <2>7, <4>1
      <4>3. Reaches(m, ch.pay.rec, v.rcpt[i])
        BY <2>5, <3>2, <4>2
      <4>4. /\ w.row[ch.pay.rec].ver \in Nat
            /\ m.row[ch.pay.rec].ver \in Nat
            /\ w.row[ch.pay.rec].ver <= m.row[ch.pay.rec].ver
            /\ v.rcpt[i].ver \in Nat
        BY <1>3, <1>4, <4>2, WorkFields, AdvancesVersion
      <4>5. Reaches(w, ch.pay.rec, v.rcpt[i])
        BY <4>3, <4>4 DEF Reaches
      <4> QED BY <1>3, <3>2, <4>5
    <3> QED BY <3>1, <3>2
  <2>8. SafeSofar(w, X, batch, v)
    BY <2>5, <2>6, <2>7 DEF SafeSofar, NewReaches
  <2> QED BY <1>2, <2>8 DEF new
<1> QED BY <1>1, <1>6, <1>7

\* A request whose changes fit (push_changes).
LEMMA PushSafe ==
    ASSUME NEW w, ServerSound(w), NEW u \in User, NEW batch, GoodBatch(batch),
           NEW X, ReceiptsSafe(w, X), AllFit(w, X, batch),
           NEW fails \in BOOLEAN
    PROVE  SafeSofar(w, X, batch, PushChanges(w, u, batch, fails).work)
<1> DEFINE N == Len(batch)
           All == [work: ProperWork, done: Seq(Answered)]
           I == [n \in 0..N |->
                   {acc \in All : /\ Sofar(w, u, batch, n, acc)
                                  /\ SafeSofar(w, X, batch, acc.work)}]
           a0 == [work |-> w, done |-> <<>>]
<1>1. N \in Nat /\ w \in ProperWork
  BY DEF GoodBatch, ServerSound
<1>2. a0 \in I[0]
  <2>1. a0.work = w /\ a0.done = <<>> /\ a0 \in All
    BY <1>1
  <2>2. <<>> \in Seq(Answered) /\ Len(<<>>) = 0
    OBVIOUS
  <2> HIDE DEF a0
  <2>3. Sofar(w, u, batch, 0, a0)
    BY <1>1, <2>1, <2>2, AdvancesReflexive DEF Sofar
  <2>4. SafeSofar(w, X, batch, a0.work)
    BY <2>1, KeepsAllReflexive DEF SafeSofar, NewReaches
  <2> QED BY <1>1, <2>1, <2>3, <2>4
<1>3. ASSUME NEW n \in 1..N, NEW acc \in I[n - 1]
      PROVE  PushOne(w, u, acc, batch[n], fails) \in I[n]
  <2> DEFINE new == PushOne(w, u, acc, batch[n], fails)
  <2>1. n - 1 \in 0..N /\ n \in 0..N
    BY <1>1
  <2>2. Sofar(w, u, batch, n - 1, acc) /\ SafeSofar(w, X, batch, acc.work)
    BY <2>1
  <2>3. Sofar(w, u, batch, n, new)
    BY <2>2, PushOneSound
  <2>4. SafeSofar(w, X, batch, new.work)
    BY <2>2, PushOneSafe
  <2>5. new = [work |-> new.work, done |-> new.done]
    BY DEF PushOne
  <2> HIDE DEF new
  <2>6. new.work \in ProperWork /\ new.done \in Seq(Answered)
    BY <2>3 DEF Sofar, ServerSound
  <2>7. new \in All
    BY <2>5, <2>6
  <2>8. new \in I[n]
    BY <2>1, <2>3, <2>4, <2>7
  <2> QED BY <2>8 DEF new
<1> HIDE DEF I, a0
<1>4. PushChanges(w, u, batch, fails) \in I[N]
  BY <1>1, <1>2, <1>3, PushInduction DEF a0
<1> QED BY <1>1, <1>4 DEF I

\* More edits are excused.
LEMMA FitsMore ==
    ASSUME NEW w, NEW X, NEW Y, X \subseteq Y, NEW q, Fits(w, X, q)
    PROVE  Fits(w, Y, q)
<1>1. q.op = "upsert" => Stamp(w, X, q.rec, q.base, q.val)
  BY DEF Fits
<1>2. q.op = "upsert" => Stamp(w, Y, q.rec, q.base, q.val)
  BY <1>1 DEF Stamp
<1> QED BY <1>2 DEF Fits

LEMMA ReceiptsMore ==
    ASSUME NEW w, NEW X, NEW Y, X \subseteq Y, ReceiptsSafe(w, X)
    PROVE  ReceiptsSafe(w, Y)
<1> SUFFICES ASSUME NEW i \in ChangeId, w.rcpt[i] # NoReceipt
             PROVE  ReceiptSafe(w, Y, w.rcpt[i])
  BY DEF ReceiptsSafe
<1> DEFINE rc == w.rcpt[i]
<1>1. ReceiptSafe(w, X, rc)
  BY DEF ReceiptsSafe
<1> HIDE DEF rc
<1>2. ReceiptSafe(w, Y, rc)
  BY <1>1 DEF ReceiptSafe, Within, Stamp
<1> QED BY <1>2 DEF rc

LEMMA EntryMore ==
    ASSUME NEW w, NEW X, NEW Y, X \subseteq Y, NEW r, NEW loc, NEW x,
           EntrySafe(w, X, r, loc, x)
    PROVE  EntrySafe(w, Y, r, loc, x)
<1>1. ~IsConflict(x) /\ x.op = "upsert" => Stamp(w, Y, r, x.base, x.val)
  BY DEF EntrySafe, Stamp
<1>2. IsConflict(x) => ConflictSafe(w, Y, r, loc, x)
  BY DEF EntrySafe, ConflictSafe, Within
<1> QED BY <1>1, <1>2 DEF EntrySafe

\* A record that a step leaves alone, while the form moves to or from another
\* record, or stays.
LEMMA RecMore ==
    ASSUME NEW w, NEW X, NEW Y, X \subseteq Y, NEW r, NEW loc, NEW E, NEW ed,
           NEW p, RecSafe(w, X, r, loc, E, ed, p), NEW form,
           form = ed \/ form.rec # r
    PROVE  RecSafe(w, Y, r, loc, E, form, p)
<1>1. RowSafe(w, Y, r, loc, E)
  BY DEF RecSafe, RowSafe, Stamp
<1>2. \A x \in E : EntrySafe(w, Y, r, loc, x)
  BY EntryMore DEF RecSafe
<1>3. FormSafe(w, Y, r, E, form)
  <2>1. CASE form.rec # r
    BY <2>1 DEF FormSafe
  <2>2. CASE form = ed
    BY <2>2 DEF RecSafe, FormSafe, Stamp
  <2> QED BY <2>1, <2>2
<1>4. ASSUME NEW k \in DOMAIN p.batch, p.batch[k].pay.rec = r
      PROVE  ChangeSafe(w, Y, r, loc, E, form, p, k)
  <2> DEFINE ch == p.batch[k]
  <2>1. ChangeSafe(w, X, r, loc, E, ed, p, k)
    BY <1>4 DEF RecSafe
  <2>2. Fits(w, Y, ch.pay)
    BY <2>1, FitsMore DEF ChangeSafe
  <2>3. Waiting(p) => Succeeds(Y, ch, loc, E, form.rec = r)
    BY <2>1 DEF ChangeSafe, Succeeds
  <2>4. /\ Waiting(p) \/ Follows(p, k)
        /\ form.rec = r
        /\ form.base = ch.pay.base
        => /\ ch.pay.op = "upsert"
           /\ ch.pay.val \subseteq form.val \cup Y
    BY <2>1 DEF ChangeSafe
  <2>5. ~Waiting(p) /\ Follows(p, k) =>
           \/ loc.ver > ch.pay.base
           \/ loc.del /\ form.rec # r
    BY <2>1 DEF ChangeSafe
  <2> QED BY <2>1, <2>2, <2>3, <2>4, <2>5 DEF ChangeSafe
<1>5. p.pc = "downloaded" => PullSafe(w, Y, r, loc, p.rows[r])
  BY DEF RecSafe, PullSafe, Within
<1> QED BY <1>1, <1>2, <1>3, <1>4, <1>5 DEF RecSafe

LEMMA DeviceMore ==
    ASSUME NEW w, NEW X, NEW Y, X \subseteq Y, NEW S, NEW ed, NEW p,
           DeviceSafe(w, X, S, ed, p)
    PROVE  DeviceSafe(w, Y, S, ed, p)
<1>1. ASSUME NEW r \in Rec
      PROVE  RecSafe(w, Y, r, S.local[r], EntriesOf(S, r), ed, p)
  <2>1. RecSafe(w, X, r, S.local[r], EntriesOf(S, r), ed, p)
    BY DEF DeviceSafe
  <2> QED BY <2>1, RecMore
<1> QED BY <1>1 DEF DeviceSafe

-----------------------------------------------------------------------------
(* A request is handled                                                    *)

\* The server sees no new identifier of an entry that was never sent.
SentTried(E, batch) ==
    \A k \in 1..Len(batch) : \A x \in E :
        x.id = batch[k].id => x.tried /\ x.rec = batch[k].pay.rec

\* The tables v after a request, sent when they were w.
Handled(w, X, v, batch) ==
    /\ w \in ProperWork
    /\ v \in ProperWork
    /\ Advances(w, v)
    /\ SafeSofar(w, X, batch, v)

LEMMA EntryHandled ==
    ASSUME NEW w, NEW X, NEW v, NEW batch, Handled(w, X, v, batch),
           NEW r \in Rec, NEW loc \in LocalRow, NEW x \in OutboxEntry,
           x.rec = r, SentTried({x}, batch), loc.ver <= w.row[r].ver,
           EntrySafe(w, X, r, loc, x)
    PROVE  EntrySafe(v, X, r, loc, x)
<1>0. w \in ProperWork /\ v \in ProperWork /\ Advances(w, v)
      /\ KeepsAll(w, v, X) /\ NewReaches(w, v, batch)
  BY DEF Handled, SafeSofar
<1>1. /\ x.id \in ChangeId
      /\ x.base \in Nat
      /\ x.srv.ver \in Nat
      /\ loc.ver \in Nat
      /\ w.row[r].ver \in Nat
      /\ v.row[r].ver \in Nat
      /\ w.row[r].ver <= v.row[r].ver
  BY <1>0, EntryFields, WorkFields, AdvancesVersion DEF LocalRow
<1>2. BaseKnown(v, r, x.base)
  BY <1>0, <1>1, BaseKept DEF EntrySafe
<1>3. ~IsConflict(x) /\ x.op = "upsert" => Stamp(v, X, r, x.base, x.val)
  BY <1>0, <1>1, StampKept DEF EntrySafe
<1>4. ASSUME IsConflict(x)
      PROVE  ConflictSafe(v, X, r, loc, x)
  <2>1. ConflictSafe(w, X, r, loc, x)
    BY <1>4 DEF EntrySafe
  <2>2. CopyOf(v, r, x.srv)
    BY <1>0, <1>1, <2>1, CopyKept DEF ConflictSafe
  <2>3. Within(v, X, r, x.srv.val)
    BY <1>0, <2>1, WithinKept DEF ConflictSafe
  <2>4. x.op = "upsert" => x.base < v.row[r].ver
    BY <1>1, <2>1 DEF ConflictSafe
  <2> QED BY <2>1, <2>2, <2>3, <2>4 DEF ConflictSafe
<1>5. CASE v.rcpt[x.id] # w.rcpt[x.id]
  <2>1. x.tried
    BY <1>0, <1>1, <1>5 DEF NewReaches, SentTried
  <2>2. Reaches(w, r, v.rcpt[x.id]) /\ w.rcpt[x.id] = NoReceipt
    BY <1>0, <1>1, <1>5 DEF NewReaches, SentTried, Advances
  <2>3. v.rcpt[x.id].ver \in Nat
    BY <1>0, <1>1, <1>5, <2>2, WorkFields
  <2>4. v.rcpt[x.id].status # "error" => loc.ver <= v.rcpt[x.id].ver
    BY <1>1, <2>2, <2>3 DEF Reaches
  <2> QED BY <1>2, <1>3, <1>4, <2>1, <2>4 DEF EntrySafe
<1>6. CASE v.rcpt[x.id] = w.rcpt[x.id]
  <2>1. ~x.tried => Unsent(v, x)
    BY <1>6 DEF EntrySafe, Unsent
  <2>2. v.rcpt[x.id] # NoReceipt /\ v.rcpt[x.id].status # "error" =>
           loc.ver <= v.rcpt[x.id].ver
    BY <1>6 DEF EntrySafe
  <2> QED BY <1>2, <1>3, <1>4, <2>1, <2>2 DEF EntrySafe
<1> QED BY <1>5, <1>6

\* The types of what a record's invariant compares.
PartsTyped(r, loc, E, ed, p) ==
    /\ ViewSound(r, loc, E)
    /\ ed.rec = r => ed.base \in Nat
    /\ p.batch \in Seq(ClientChange)
    /\ p.rows \in [Rec -> ProperRow]

LEMMA RecHandled ==
    ASSUME NEW w, NEW X, NEW v, NEW batch, Handled(w, X, v, batch),
           NEW r \in Rec, NEW loc, NEW E, NEW ed, NEW p,
           PartsTyped(r, loc, E, ed, p), SentTried(E, batch),
           RecSafe(w, X, r, loc, E, ed, p)
    PROVE  RecSafe(v, X, r, loc, E, ed, p)
<1>0. w \in ProperWork /\ v \in ProperWork /\ Advances(w, v)
      /\ KeepsAll(w, v, X)
  BY DEF Handled, SafeSofar
<1>1. /\ loc \in LocalRow
      /\ loc.ver \in Nat
      /\ E \subseteq OutboxEntry
      /\ \A x \in E : x.rec = r
      /\ w.row[r].ver \in Nat
      /\ v.row[r].ver \in Nat
      /\ w.row[r].ver <= v.row[r].ver
  BY <1>0, WorkFields, AdvancesVersion DEF PartsTyped, ViewSound, LocalRow
<1>2. RowSafe(w, X, r, loc, E) /\ loc.ver <= w.row[r].ver
  BY DEF RecSafe, RowSafe
<1>3. RowSafe(v, X, r, loc, E)
  <2>1. loc.ver <= v.row[r].ver
    BY <1>1, <1>2
  <2>2. E = {} /\ ~loc.del => Stamp(v, X, r, loc.ver, loc.val)
    BY <1>0, <1>1, <1>2, StampKept DEF RowSafe
  <2> QED BY <2>1, <2>2 DEF RowSafe
<1>4. ASSUME NEW x \in E
      PROVE  EntrySafe(v, X, r, loc, x)
  <2>1. /\ x \in OutboxEntry
        /\ x.rec = r
        /\ SentTried({x}, batch)
        /\ EntrySafe(w, X, r, loc, x)
    BY <1>1 DEF SentTried, RecSafe
  <2> QED BY <1>1, <1>2, <2>1, EntryHandled
<1>5. FormSafe(v, X, r, E, ed)
  <2>1. ASSUME ed.rec = r
        PROVE  Stamp(v, X, r, ed.base, ed.val)
    <3>1. Stamp(w, X, r, ed.base, ed.val) /\ ed.base \in Nat
      BY <2>1 DEF RecSafe, FormSafe, PartsTyped
    <3> QED BY <1>0, <3>1, StampKept
  <2> QED BY <2>1 DEF RecSafe, FormSafe
<1>6. ASSUME NEW k \in DOMAIN p.batch, p.batch[k].pay.rec = r
      PROVE  ChangeSafe(v, X, r, loc, E, ed, p, k)
  <2>1. ChangeSafe(w, X, r, loc, E, ed, p, k)
    BY <1>6 DEF RecSafe
  <2>2. p.batch \in Seq(ClientChange)
    BY DEF PartsTyped
  <2>3. p.batch[k] \in ClientChange
    BY <2>2
  <2>4. p.batch[k].pay \in Payload
    BY <2>3, ChangeFields
  <2>5. Fits(v, X, p.batch[k].pay)
    BY <1>0, <2>1, <2>4, FitsKept DEF ChangeSafe
  <2> QED BY <2>1, <2>5 DEF ChangeSafe
<1>7. ASSUME p.pc = "downloaded"
      PROVE  PullSafe(v, X, r, loc, p.rows[r])
  <2> DEFINE row == p.rows[r]
  <2>1. PullSafe(w, X, r, loc, row)
    BY <1>7 DEF RecSafe
  <2>2. row.ver \in Nat
    BY DEF PartsTyped, ProperRow, Row
  <2> HIDE DEF row
  <2>3. row.ver > 0 => CopyOf(v, r, row) /\ Within(v, X, r, row.val)
    BY <1>0, <2>1, <2>2, CopyKept, WithinKept DEF PullSafe
  <2>4. PullSafe(v, X, r, loc, row)
    BY <2>1, <2>3 DEF PullSafe
  <2> QED BY <2>4 DEF row
<1> QED BY <1>3, <1>4, <1>5, <1>6, <1>7 DEF RecSafe

LEMMA DeviceHandled ==
    ASSUME NEW w, NEW X, NEW v, NEW batch, Handled(w, X, v, batch),
           NEW c, NEW n, NEW S, StoreSound(S, c, n),
           NEW p, PassSound(w, S, c, n, p), NEW ed \in Editor,
           SentTried(S.box, batch), DeviceSafe(w, X, S, ed, p)
    PROVE  DeviceSafe(v, X, S, ed, p)
<1>1. ASSUME NEW r \in Rec
      PROVE  RecSafe(v, X, r, S.local[r], EntriesOf(S, r), ed, p)
  <2>1. ViewSound(r, S.local[r], EntriesOf(S, r))
    BY StoreView
  <2>2. ed.rec = r => ed.base \in Nat
    BY EngineAssumption DEF Editor, Closed
  <2>3. PartsTyped(r, S.local[r], EntriesOf(S, r), ed, p)
    BY <2>1, <2>2, PassFields DEF PartsTyped
  <2>4. SentTried(EntriesOf(S, r), batch)
    BY DEF SentTried, EntriesOf
  <2>5. RecSafe(w, X, r, S.local[r], EntriesOf(S, r), ed, p)
    BY DEF DeviceSafe
  <2> QED BY <2>3, <2>4, <2>5, RecHandled
<1> QED BY <1>1 DEF DeviceSafe

\* The invariant but for device c.
SafeElse(w, X, c) ==
    /\ ReceiptsSafe(w, X)
    /\ \A m \in late : AllFit(w, X, m.batch)
    /\ \A d \in Client \ {c} : DeviceSafe(w, X, cl[d], editor[d], pass[d])

\* What the invariant says of one device.
LEMMA SafeView ==
    ASSUME Safe, NEW c \in Client
    PROVE  /\ Caught
           /\ Traced
           /\ SafeBy(srv, Excused)
           /\ EditsAccountedFor
           /\ SafeElse(srv, Excused, c)
           /\ DeviceSafe(srv, Excused, cl[c], editor[c], pass[c])
           /\ editor[c] \in Editor
           /\ srv \in ProperWork
           /\ \A r \in Rec : /\ RecSafe(srv, Excused, r, cl[c].local[r],
                                        EntriesOf(cl[c], r), editor[c], pass[c])
                             /\ srv.row[r].ver \in Nat
                             /\ cl[c].local[r].ver \in Nat
                             /\ cl[c].local[r].ver <= srv.row[r].ver
<1>1. Caught /\ Traced /\ SafeBy(srv, Excused) /\ EditsAccountedFor
  BY DEF Safe, Caught
<1>2. /\ SafeElse(srv, Excused, c)
      /\ DeviceSafe(srv, Excused, cl[c], editor[c], pass[c])
  BY <1>1 DEF SafeBy, SafeElse
<1>3. editor[c] \in Editor
  BY <1>1 DEF Traced, WellFormed, TypeOK
<1>4. srv \in ProperWork
  BY <1>1 DEF Traced, WellFormed, ServerSound
<1>5. ASSUME NEW r \in Rec
      PROVE  /\ RecSafe(srv, Excused, r, cl[c].local[r],
                        EntriesOf(cl[c], r), editor[c], pass[c])
             /\ srv.row[r].ver \in Nat
             /\ cl[c].local[r].ver \in Nat
             /\ cl[c].local[r].ver <= srv.row[r].ver
  <2>1. RecSafe(srv, Excused, r, cl[c].local[r], EntriesOf(cl[c], r),
                editor[c], pass[c])
    BY <1>2 DEF DeviceSafe
  <2>2. cl[c].local[r] \in LocalRow
    BY <1>1, TracedView
  <2> QED BY <1>4, <2>1, <2>2, WorkFields DEF RecSafe, RowSafe, LocalRow
<1> QED BY <1>1, <1>2, <1>3, <1>4, <1>5

\* A request of device u, for the other devices and the requests on the way.
LEMMA OthersHandled ==
    ASSUME Safe, NEW u \in Client, NEW v, NEW batch,
           Handled(srv, Excused, v, batch),
           BatchSound(cl[u], u, used[u], batch)
    PROVE  SafeElse(v, Excused, u)
<1>1. /\ Traced
      /\ SafeBy(srv, Excused)
  BY SafeView
<1>2. ReceiptsSafe(v, Excused)
  BY DEF Handled, SafeSofar
<1>3. ASSUME NEW m \in late
      PROVE  AllFit(v, Excused, m.batch)
  <2>1. AllFit(srv, Excused, m.batch)
    BY <1>1 DEF SafeBy
  <2>2. m.batch \in Seq(ClientChange)
    BY <1>1 DEF Traced, WellFormed, BatchSound, GoodBatch
  <2>3. ASSUME NEW k \in 1..Len(m.batch)
        PROVE  Fits(v, Excused, m.batch[k].pay)
    <3>1. m.batch[k] \in ClientChange
      BY <2>2
    <3>2. m.batch[k].pay \in Payload
      BY <3>1, ChangeFields
    <3>3. Fits(srv, Excused, m.batch[k].pay)
      BY <2>1 DEF AllFit
    <3> QED BY <3>2, <3>3, FitsKept DEF Handled
  <2> QED BY <2>3 DEF AllFit
<1>4. ASSUME NEW d \in Client \ {u}
      PROVE  DeviceSafe(v, Excused, cl[d], editor[d], pass[d])
  <2>1. /\ StoreSound(cl[d], d, used[d])
        /\ PassSound(srv, cl[d], d, used[d], pass[d])
        /\ editor[d] \in Editor
        /\ DeviceSafe(srv, Excused, cl[d], editor[d], pass[d])
    BY <1>1, TracedView, SafeView
  <2>2. SentTried(cl[d].box, batch)
    <3>1. batch \in Seq(ClientChange)
      BY DEF BatchSound, GoodBatch
    <3>2. \A k \in 1..Len(batch) : batch[k].id[1] = u
      BY <3>1 DEF BatchSound, IdOf
    <3>3. \A x \in cl[d].box : x.id[1] = d
      BY <2>1 DEF StoreSound, IdOf
    <3> QED BY <3>2, <3>3 DEF SentTried
  <2> QED BY <2>1, <2>2, DeviceHandled
<1> QED BY <1>2, <1>3, <1>4 DEF SafeElse

-----------------------------------------------------------------------------
(* A step of one device                                                    *)

\* The entries E of a record become F while numbers above n are handed out:
\* an identifier that was sent stays so.
KeepsTried(n, E, F) ==
    \A y \in F : \/ \E x \in E : x.id = y.id /\ (x.tried => y.tried)
                 \/ n < y.id[2]

\* The edits of the entries E are in F, on the server or excused.
Carries(w, X, r, E, F) ==
    \A x \in E : \/ x.val \subseteq X
                 \/ Within(w, X, r, x.val)
                 \/ \E y \in F : x.val \subseteq y.val \cup X

\* Record r of a device whose database S becomes T.
RecordSafe(w, X, n, S, T, ed, p, r) ==
    /\ RecSafe(w, X, r, T.local[r], EntriesOf(T, r), ed, p)
    /\ KeepsTried(n, EntriesOf(S, r), EntriesOf(T, r))
    /\ Carries(w, X, r, EntriesOf(S, r), EntriesOf(T, r))

LEMMA TriedKept ==
    ASSUME NEW c, NEW n \in Nat, NEW S \in Store, NEW T \in Store,
           \A r \in Rec : KeepsTried(n, EntriesOf(S, r), EntriesOf(T, r)),
           NEW batch, BatchSound(S, c, n, batch), AllTried(S, batch)
    PROVE  AllTried(T, batch)
<1> SUFFICES ASSUME NEW k \in 1..Len(batch), NEW y \in T.box,
                    y.id = batch[k].id
             PROVE  y.tried
  BY DEF AllTried
<1>1. batch \in Seq(ClientChange)
  BY DEF BatchSound, GoodBatch
<1>2. batch[k] \in ClientChange /\ k \in DOMAIN batch
  BY <1>1
<1>3. y \in OutboxEntry /\ y.rec \in Rec /\ y.id[2] \in Nat
  BY StoreFields, EntryFields
<1>4. ~(n < y.id[2])
  BY <1>2, <1>3 DEF BatchSound, IdOf
<1>5. y \in EntriesOf(T, y.rec)
  BY DEF EntriesOf
<1>6. PICK x \in EntriesOf(S, y.rec) : x.id = y.id /\ (x.tried => y.tried)
  BY <1>3, <1>4, <1>5 DEF KeepsTried
<1>7. x \in S.box
  BY DEF EntriesOf
<1> QED BY <1>6, <1>7 DEF AllTried

\* An edit that is on the server, or queued on a device.
OnTheServer(w, e) == \E r \in Rec : w.row[r].ver > 0 /\ e \in w.row[r].val

QueuedOn(S, e) == \E x \in S.box : e \in x.val

LEMMA EditCarried ==
    ASSUME NEW w, NEW X, NEW S \in Store, NEW T,
           \A r \in Rec : Carries(w, X, r, EntriesOf(S, r), EntriesOf(T, r)),
           NEW e, e \notin X, QueuedOn(S, e)
    PROVE  OnTheServer(w, e) \/ QueuedOn(T, e)
<1>1. PICK x \in S.box : e \in x.val
  BY DEF QueuedOn
<1>2. x.rec \in Rec
  BY StoreFields, EntryFields
<1>3. x \in EntriesOf(S, x.rec)
  BY DEF EntriesOf
<1>4. \/ x.val \subseteq X
      \/ Within(w, X, x.rec, x.val)
      \/ \E y \in EntriesOf(T, x.rec) : x.val \subseteq y.val \cup X
  BY <1>2, <1>3 DEF Carries
<1>5. CASE Within(w, X, x.rec, x.val)
  BY <1>1, <1>2, <1>5 DEF Within, OnTheServer
<1>6. ASSUME NEW y \in EntriesOf(T, x.rec), x.val \subseteq y.val \cup X
      PROVE  QueuedOn(T, e)
  BY <1>1, <1>6 DEF QueuedOn, EntriesOf
<1> QED BY <1>1, <1>4, <1>5, <1>6

LEMMA SafeStep ==
    ASSUME Safe, Caught', NEW c \in Client,
           \A d \in Client \ {c} : /\ cl'[d] = cl[d]
                                   /\ pass'[d] = pass[d]
                                   /\ editor'[d] = editor[d],
           Excused \subseteq Excused',
           Advances(srv, srv'),
           KeepsAll(srv, srv', Excused'),
           SafeElse(srv', Excused', c),
           \A q \in late' :
              \/ q \in late
              \/ /\ q = [user |-> c, batch |-> pass[c].batch]
                 /\ AllFit(srv', Excused', pass[c].batch)
                 /\ AllTried(cl'[c], pass[c].batch),
           pass'[c].pc = "idle" => pass'[c].batch = <<>>,
           \A r \in Rec : RecordSafe(srv', Excused', used[c], cl[c], cl'[c],
                                     editor'[c], pass'[c], r),
           \A e \in free \ free' : QueuedOn(cl'[c], e)
    PROVE  Safe'
<1>1. Traced /\ SafeBy(srv, Excused) /\ EditsAccountedFor
  BY SafeView
<1>2. DeviceSafe(srv', Excused', cl'[c], editor'[c], pass'[c])
  BY DEF RecordSafe, DeviceSafe
<1>3. \A d \in Client : DeviceSafe(srv', Excused', cl'[d], editor'[d], pass'[d])
  BY <1>2 DEF SafeElse
<1>4. cl'[c] \in Store
  BY DEF Caught, Traced, WellFormed, TypeOK
<1>5. ASSUME NEW q \in late'
      PROVE  AllFit(srv', Excused', q.batch) /\ AllTried(cl'[q.user], q.batch)
  <2>1. CASE /\ q = [user |-> c, batch |-> pass[c].batch]
             /\ AllFit(srv', Excused', pass[c].batch)
             /\ AllTried(cl'[c], pass[c].batch)
    <3>1. q.user = c /\ q.batch = pass[c].batch
      BY <2>1
    <3> QED BY <2>1, <3>1
  <2>2. CASE q \in late
    <3>1. /\ AllFit(srv', Excused', q.batch)
          /\ AllTried(cl[q.user], q.batch)
          /\ BatchSound(cl[q.user], q.user, used[q.user], q.batch)
          /\ q.user \in Client
      BY <1>1, <2>2, UserIsClient DEF SafeElse, SafeBy, Traced, WellFormed,
         TypeOK
    <3>2. CASE q.user # c
      BY <3>1, <3>2
    <3>3. CASE q.user = c
      <4>1. /\ cl[c] \in Store
            /\ used[c] \in Nat
        BY <1>1, TracedView
      <4>2. \A r \in Rec : KeepsTried(used[c], EntriesOf(cl[c], r),
                                      EntriesOf(cl'[c], r))
        BY DEF RecordSafe
      <4>3. AllTried(cl'[c], q.batch)
        BY <1>4, <3>1, <3>3, <4>1, <4>2, TriedKept
      <4> QED BY <3>1, <3>3, <4>3
    <3> QED BY <3>2, <3>3
  <2> QED BY <2>1, <2>2
<1>6. SafeBy(srv, Excused)'
  BY <1>3, <1>5 DEF SafeBy, SafeElse
<1>7. ASSUME NEW e \in Edit \ (free' \cup Excused')
      PROVE  OnTheServer(srv', e) \/ \E d \in Client : QueuedOn(cl'[d], e)
  <2>1. CASE e \in free
    BY <1>7, <2>1
  <2>2. CASE e \notin free
    <3>1. e \notin Excused /\ e \notin Excused' /\ e \in Edit
      BY <1>7
    <3>2. OnTheServer(srv, e) \/ \E d \in Client : QueuedOn(cl[d], e)
      BY <1>1, <2>2, <3>1 DEF EditsAccountedFor, OnTheServer, QueuedOn
    <3>3. CASE OnTheServer(srv, e)
      <4>1. PICK r \in Rec : srv.row[r].ver > 0 /\ e \in srv.row[r].val
        BY <3>3 DEF OnTheServer
      <4>2. e \in srv'.row[r].val
        BY <3>1, <4>1 DEF KeepsAll
      <4>3. srv'.row[r].ver > 0
        <5>1. srv \in ProperWork
          BY SafeView
        <5>2. srv' \in ProperWork
          BY DEF Caught, Traced, WellFormed, ServerSound
        <5> QED BY <4>1, <5>1, <5>2, WorkFields, AdvancesVersion
      <4> QED BY <4>2, <4>3 DEF OnTheServer
    <3>4. ASSUME NEW d \in Client, QueuedOn(cl[d], e)
          PROVE  OnTheServer(srv', e) \/ \E b \in Client : QueuedOn(cl'[b], e)
      <4>1. CASE d # c
        BY <3>4, <4>1
      <4>2. CASE d = c
        <5>1. cl[c] \in Store
          BY <1>1, TracedView
        <5>2. \A r \in Rec : Carries(srv', Excused', r, EntriesOf(cl[c], r),
                                     EntriesOf(cl'[c], r))
          BY DEF RecordSafe
        <5>3. OnTheServer(srv', e) \/ QueuedOn(cl'[c], e)
          BY <3>1, <3>4, <4>2, <5>1, <5>2, EditCarried
        <5> QED BY <5>3
      <4> QED BY <4>1, <4>2
    <3> QED BY <3>2, <3>3, <3>4
  <2> QED BY <2>1, <2>2
<1>8. EditsAccountedFor'
  BY <1>7 DEF EditsAccountedFor, OnTheServer, QueuedOn
<1> QED BY <1>6, <1>8 DEF Safe

LEMMA ElseMore ==
    ASSUME NEW w, NEW X, NEW Y, X \subseteq Y, NEW c, SafeElse(w, X, c)
    PROVE  SafeElse(w, Y, c)
<1>1. ReceiptsSafe(w, Y)
  BY ReceiptsMore DEF SafeElse
<1>2. \A m \in late : AllFit(w, Y, m.batch)
  BY FitsMore DEF SafeElse, AllFit
<1>3. \A d \in Client \ {c} : DeviceSafe(w, Y, cl[d], editor[d], pass[d])
  BY DeviceMore DEF SafeElse
<1> QED BY <1>1, <1>2, <1>3 DEF SafeElse

\* A step of the window.
LEMMA WindowSafe ==
    ASSUME Safe, Caught', NEW c \in Client, NEW T, NEW ed, NEW ids,
           Window(c, T, ed, ids), Excused \subseteq Excused',
           \A r \in Rec : RecordSafe(srv, Excused', used[c], cl[c], T, ed,
                                     pass[c], r),
           \A e \in free \ free' : QueuedOn(T, e)
    PROVE  Safe'
<1>1. /\ Traced
      /\ SafeElse(srv, Excused, c)
      /\ DeviceSafe(srv, Excused, cl[c], editor[c], pass[c])
      /\ srv \in ProperWork
  BY SafeView
<1>2. /\ cl \in [Client -> Store]
      /\ editor \in [Client -> Editor]
  BY <1>1 DEF Traced, WellFormed, TypeOK
<1>3. /\ srv' = srv
      /\ pass' = pass
      /\ late' = late
      /\ \A d \in Client \ {c} : cl'[d] = cl[d] /\ editor'[d] = editor[d]
      /\ cl'[c] = T
      /\ editor'[c] = ed
  BY <1>2 DEF Window
<1>4. SafeElse(srv', Excused', c)
  BY <1>1, <1>3, ElseMore
<1>5. Advances(srv, srv') /\ KeepsAll(srv, srv', Excused')
  BY <1>1, <1>3, AdvancesReflexive, KeepsAllReflexive
<1>6. pass'[c].pc = "idle" => pass'[c].batch = <<>>
  BY <1>1, <1>3 DEF DeviceSafe
<1>7. \A r \in Rec : RecordSafe(srv', Excused', used[c], cl[c], cl'[c],
                                editor'[c], pass'[c], r)
  BY <1>3
<1>8. \A q \in late' : q \in late
  BY <1>3
<1>9. \A e \in free \ free' : QueuedOn(cl'[c], e)
  BY <1>3
<1>10. \A d \in Client \ {c} : /\ cl'[d] = cl[d]
                               /\ pass'[d] = pass[d]
                               /\ editor'[d] = editor[d]
  BY <1>3
<1> QED BY <1>4, <1>5, <1>6, <1>7, <1>8, <1>9, <1>10, SafeStep

\* A step of the pass.
LEMMA WorkerSafe ==
    ASSUME Safe, Caught', NEW c \in Client, NEW T, NEW p, Worker(c, T, p),
           \A d \in Client \ {c} : editor'[d] = editor[d],
           Advances(srv, srv'), KeepsAll(srv, srv', Excused),
           SafeElse(srv', Excused, c),
           \A q \in late' :
              \/ q \in late
              \/ /\ q = [user |-> c, batch |-> pass[c].batch]
                 /\ AllFit(srv', Excused, pass[c].batch)
                 /\ AllTried(T, pass[c].batch),
           p.pc = "idle" => p.batch = <<>>,
           \A r \in Rec : RecordSafe(srv', Excused, used[c], cl[c], T,
                                     editor'[c], p, r)
    PROVE  Safe'
<1>1. Traced
  BY SafeView
<1>2. /\ cl \in [Client -> Store]
      /\ pass \in [Client -> Pass]
  BY <1>1 DEF Traced, WellFormed, TypeOK
<1>3. /\ Excused' = Excused
      /\ free' = free
      /\ \A d \in Client \ {c} : cl'[d] = cl[d] /\ pass'[d] = pass[d]
      /\ cl'[c] = T
      /\ pass'[c] = p
  BY <1>2 DEF Worker, history, Excused
<1>4. /\ SafeElse(srv', Excused', c)
      /\ KeepsAll(srv, srv', Excused')
      /\ Excused \subseteq Excused'
  BY <1>3
<1>5. \A q \in late' :
         \/ q \in late
         \/ /\ q = [user |-> c, batch |-> pass[c].batch]
            /\ AllFit(srv', Excused', pass[c].batch)
            /\ AllTried(cl'[c], pass[c].batch)
  BY <1>3
<1>6. pass'[c].pc = "idle" => pass'[c].batch = <<>>
  BY <1>3
<1>7. \A r \in Rec : RecordSafe(srv', Excused', used[c], cl[c], cl'[c],
                                editor'[c], pass'[c], r)
  BY <1>3
<1>8. \A e \in free \ free' : QueuedOn(cl'[c], e)
  BY <1>3
<1>9. \A d \in Client \ {c} : /\ cl'[d] = cl[d]
                              /\ pass'[d] = pass[d]
                              /\ editor'[d] = editor[d]
  BY <1>3
<1> QED BY <1>4, <1>5, <1>6, <1>7, <1>8, <1>9, SafeStep

LEMMA QuietWorkerSafe ==
    ASSUME Safe, Caught', NEW c \in Client, NEW T, NEW p, Worker(c, T, p),
           srv' = srv, late' = late,
           \A d \in Client \ {c} : editor'[d] = editor[d],
           p.pc = "idle" => p.batch = <<>>,
           \A r \in Rec : RecordSafe(srv, Excused, used[c], cl[c], T,
                                     editor'[c], p, r)
    PROVE  Safe'
<1>1. SafeElse(srv, Excused, c) /\ srv \in ProperWork
  BY SafeView
<1>2. /\ Advances(srv, srv')
      /\ KeepsAll(srv, srv', Excused)
      /\ SafeElse(srv', Excused, c)
  BY <1>1, AdvancesReflexive, KeepsAllReflexive
<1>3. \A r \in Rec : RecordSafe(srv', Excused, used[c], cl[c], T, editor'[c],
                                p, r)
  OBVIOUS
<1>4. \A q \in late' : q \in late
  OBVIOUS
<1> QED BY <1>2, <1>3, <1>4, WorkerSafe

\* What does not change.
LEMMA SameSafe ==
    ASSUME NEW w, NEW X, NEW r, NEW n, NEW E
    PROVE  KeepsTried(n, E, E) /\ Carries(w, X, r, E, E)
BY DEF KeepsTried, Carries

\* A step of the window on record r.
LEMMA OneRecordSafe ==
    ASSUME Safe, NEW c \in Client, NEW T, NEW r \in Rec, NEW row, NEW F,
           Becomes(cl[c], T, r, row, F), NEW X, Excused \subseteq X, NEW ed,
           \A s \in Rec \ {r} : ed = editor[c] \/ ed.rec # s,
           RecSafe(srv, X, r, row, F, ed, pass[c]), NEW n,
           KeepsTried(n, EntriesOf(cl[c], r), F),
           Carries(srv, X, r, EntriesOf(cl[c], r), F)
    PROVE  \A s \in Rec : RecordSafe(srv, X, n, cl[c], T, ed, pass[c], s)
<1> SUFFICES ASSUME NEW s \in Rec
             PROVE  RecordSafe(srv, X, n, cl[c], T, ed, pass[c], s)
  OBVIOUS
<1>1. CASE s = r
  BY <1>1 DEF Becomes, RecordSafe
<1>2. CASE s # r
  <2>1. /\ T.local[s] = cl[c].local[s]
        /\ EntriesOf(T, s) = EntriesOf(cl[c], s)
    BY <1>2 DEF Becomes, Elsewhere
  <2>2. RecSafe(srv, Excused, s, cl[c].local[s], EntriesOf(cl[c], s),
                editor[c], pass[c])
    BY SafeView
  <2>3. RecSafe(srv, X, s, cl[c].local[s], EntriesOf(cl[c], s), ed, pass[c])
    BY <1>2, <2>2, RecMore
  <2> QED BY <2>1, <2>3, SameSafe DEF RecordSafe
<1> QED BY <1>1, <1>2

-----------------------------------------------------------------------------
(* What the window does with a record                                      *)

\* The pass p has changes of device c with numbers up to n.
Numbered(c, n, p) == \A k \in DOMAIN p.batch : IdOf(c, n, p.batch[k].id)

\* Change k of the pass goes with the new row and form of record r.
Suits(X, r, row, form, p, k) ==
    /\ /\ Waiting(p) \/ Follows(p, k)
       /\ form.rec = r
       /\ form.base = p.batch[k].pay.base
       => /\ p.batch[k].pay.op = "upsert"
          /\ p.batch[k].pay.val \subseteq form.val \cup X
    /\ ~Waiting(p) /\ Follows(p, k) =>
          \/ row.ver > p.batch[k].pay.base
          \/ row.del /\ form.rec # r

\* A new entry is for the work that change k has sent, and more.
Outdoes(X, op, val, p, k) ==
    Waiting(p) =>
        /\ p.batch[k].pay.op = "delete" => op = "delete"
        /\ p.batch[k].pay.op = "upsert" /\ op = "upsert" =>
              p.batch[k].pay.val \subseteq val \cup X

\* The row of a record moves no further than the server, and stays while a
\* pull is to be applied.
RowMoves(w, r, loc, row, p) ==
    /\ row.ver <= w.row[r].ver
    /\ row.ver = loc.ver \/ p.pc # "downloaded"

LEMMA PullStays ==
    ASSUME NEW w, NEW X, NEW Y, X \subseteq Y, NEW r, NEW loc, NEW row, NEW p,
           RowMoves(w, r, loc, row, p),
           p.pc = "downloaded" => PullSafe(w, X, r, loc, p.rows[r])
    PROVE  p.pc = "downloaded" => PullSafe(w, Y, r, row, p.rows[r])
BY DEF RowMoves, PullSafe, Within

\* What a record's invariant says of a change but for its entries.
LEMMA ChangeRest ==
    ASSUME NEW w, NEW X, NEW Y, X \subseteq Y, NEW r, NEW loc, NEW E, NEW ed,
           NEW p, RecSafe(w, X, r, loc, E, ed, p),
           NEW k \in DOMAIN p.batch, p.batch[k].pay.rec = r,
           NEW row, NEW form, Suits(Y, r, row, form, p, k), NEW F,
           Waiting(p) \/ k \in p.todo =>
              \A x \in F : x.id = p.batch[k].id =>
                  ~IsConflict(x) /\ AsChange(x) = p.batch[k],
           Waiting(p) => Succeeds(Y, p.batch[k], row, F, form.rec = r)
    PROVE  ChangeSafe(w, Y, r, row, F, form, p, k)
<1>1. ChangeSafe(w, X, r, loc, E, ed, p, k)
  BY DEF RecSafe
<1>2. Fits(w, Y, p.batch[k].pay)
  BY <1>1, FitsMore DEF ChangeSafe
<1>3. p.pc = "downloaded" /\ Follows(p, k) /\ p.rows[r].ver > 0 =>
         p.rows[r].ver > p.batch[k].pay.base
  BY <1>1 DEF ChangeSafe
<1> QED BY <1>2, <1>3 DEF ChangeSafe, Suits

\* A new entry.
LEMMA FreshSafe ==
    ASSUME NEW w, NEW X, NEW Y, X \subseteq Y, NEW r \in Rec, NEW loc, NEW E,
           NEW ed, NEW p, RecSafe(w, X, r, loc, E, ed, p),
           NEW c, NEW n \in Nat, NEW m, Numbered(c, n, p),
           NEW id \in ChangeId, FreshId(c, n, m, id), w.rcpt[id] = NoReceipt,
           NEW op \in Ops, NEW base \in Nat, NEW val \in Val,
           BaseKnown(w, r, base),
           op = "upsert" => Stamp(w, Y, r, base, val),
           NEW row, RowMoves(w, r, loc, row, p),
           NEW form, form.rec = r => Stamp(w, Y, r, form.base, form.val),
           form.rec = r /\ op = "upsert" => val \subseteq form.val \cup Y,
           \A k \in DOMAIN p.batch : p.batch[k].pay.rec = r =>
              Suits(Y, r, row, form, p, k) /\ Outdoes(Y, op, val, p, k)
    PROVE  /\ RecSafe(w, Y, r, row, {Fresh(id, r, op, base, val)}, form, p)
           /\ KeepsTried(n, E, {Fresh(id, r, op, base, val)})
<1> DEFINE y == Fresh(id, r, op, base, val)
<1>1. /\ y \in OutboxEntry
      /\ y.id = id
      /\ y.rec = r
      /\ y.op = op
      /\ y.base = base
      /\ y.val = val
      /\ y.status = "pending"
      /\ ~y.tried
  BY FreshFields
<1> HIDE DEF y
<1>2. ~IsConflict(y)
  BY <1>1 DEF IsConflict
<1>3. RowSafe(w, Y, r, row, {y})
  BY DEF RowMoves, RowSafe
<1>4. EntrySafe(w, Y, r, row, y)
  BY <1>1, <1>2 DEF EntrySafe, Unsent
<1>5. FormSafe(w, Y, r, {y}, form)
  BY <1>1 DEF FormSafe
<1>6. id[2] \in Nat /\ n < id[2]
  BY OfflineAssumption DEF FreshId
<1>7. ASSUME NEW k \in DOMAIN p.batch, p.batch[k].pay.rec = r
      PROVE  ChangeSafe(w, Y, r, row, {y}, form, p, k)
  <2>1. y.id # p.batch[k].id
    BY <1>1, <1>6 DEF Numbered, IdOf
  <2>2. Suits(Y, r, row, form, p, k) /\ Outdoes(Y, op, val, p, k)
    BY <1>7
  <2>3. Waiting(p) => Succeeds(Y, p.batch[k], row, {y}, form.rec = r)
    BY <1>1, <2>2 DEF Succeeds, Outdoes
  <2>4. Waiting(p) \/ k \in p.todo =>
           \A x \in {y} : x.id = p.batch[k].id =>
               ~IsConflict(x) /\ AsChange(x) = p.batch[k]
    BY <2>1
  <2> QED BY <1>7, <2>2, <2>3, <2>4, ChangeRest
<1>8. p.pc = "downloaded" => PullSafe(w, Y, r, row, p.rows[r])
  BY PullStays DEF RecSafe
<1>9. RecSafe(w, Y, r, row, {y}, form, p)
  BY <1>3, <1>4, <1>5, <1>7, <1>8 DEF RecSafe
<1>10. KeepsTried(n, E, {y})
  BY <1>1, <1>6 DEF KeepsTried
<1> QED BY <1>9, <1>10 DEF y

\* The entry of a conflict has been sent, and its answer applied.
LEMMA ConflictTried ==
    ASSUME NEW w, NEW X, NEW r, NEW loc, NEW E, NEW ed, NEW p,
           RecSafe(w, X, r, loc, E, ed, p), NEW x \in E, IsConflict(x)
    PROVE  /\ x.tried
           /\ ConflictSafe(w, X, r, loc, x)
           /\ \A k \in DOMAIN p.batch : p.batch[k].pay.rec = r =>
                 /\ ~Waiting(p)
                 /\ k \in p.todo => x.id # p.batch[k].id
<1>1. EntrySafe(w, X, r, loc, x)
  BY DEF RecSafe
<1>2. x.tried
  BY <1>1 DEF EntrySafe, Unsent, IsConflict
<1>3. ASSUME NEW k \in DOMAIN p.batch, p.batch[k].pay.rec = r
      PROVE  /\ ~Waiting(p)
             /\ k \in p.todo => x.id # p.batch[k].id
  <2>1. ChangeSafe(w, X, r, loc, E, ed, p, k)
    BY <1>3 DEF RecSafe
  <2>2. Waiting(p) \/ k \in p.todo => x.id # p.batch[k].id
    BY <2>1 DEF ChangeSafe
  <2>3. Waiting(p) => (x.id # p.batch[k].id => ~x.tried)
    BY <2>1 DEF ChangeSafe, Succeeds
  <2> QED BY <1>2, <2>2, <2>3
<1> QED BY <1>1, <1>2, <1>3 DEF EntrySafe

\* The entry of a conflict gets a new content.
LEMMA RefreshSafe ==
    ASSUME NEW w, NEW X, NEW Y, X \subseteq Y, NEW r \in Rec, NEW loc, NEW E,
           NEW ed, NEW p, RecSafe(w, X, r, loc, E, ed, p),
           NEW x \in E, x \in OutboxEntry, IsConflict(x),
           NEW op \in Ops, NEW val \in Val, op = "upsert" => x.op = "upsert",
           NEW row, row.ver = loc.ver,
           NEW form, form.rec = r => Stamp(w, Y, r, form.base, form.val),
           form.rec = r /\ op = "upsert" => val \subseteq form.val \cup Y,
           \A k \in DOMAIN p.batch : p.batch[k].pay.rec = r =>
              Suits(Y, r, row, form, p, k),
           NEW n
    PROVE  /\ RecSafe(w, Y, r, row, {Refreshed(x, op, val)}, form, p)
           /\ KeepsTried(n, E, {Refreshed(x, op, val)})
<1> DEFINE y == Refreshed(x, op, val)
<1>1. /\ y \in OutboxEntry
      /\ y.id = x.id
      /\ y.rec = x.rec
      /\ y.op = op
      /\ y.val = val
      /\ y.base = x.base
      /\ y.status = x.status
      /\ y.kind = x.kind
      /\ y.srv = x.srv
      /\ y.tried = x.tried
  BY RefreshedFields
<1> HIDE DEF y
<1>2. /\ x.tried
      /\ ConflictSafe(w, X, r, loc, x)
      /\ \A k \in DOMAIN p.batch : p.batch[k].pay.rec = r =>
            /\ ~Waiting(p)
            /\ k \in p.todo => x.id # p.batch[k].id
  BY ConflictTried
<1>3. RowSafe(w, Y, r, row, {y})
  BY DEF RowSafe, RecSafe
<1>4. EntrySafe(w, Y, r, row, y)
  <2>1. IsConflict(y) /\ y.tried
    BY <1>1, <1>2 DEF IsConflict
  <2>2. EntrySafe(w, X, r, loc, x)
    BY DEF RecSafe
  <2>3. ConflictSafe(w, Y, r, row, y)
    BY <1>1, <1>2 DEF ConflictSafe, Within
  <2> QED BY <1>1, <2>1, <2>2, <2>3 DEF EntrySafe
<1>5. FormSafe(w, Y, r, {y}, form)
  BY <1>1 DEF FormSafe
<1>6. ASSUME NEW k \in DOMAIN p.batch, p.batch[k].pay.rec = r
      PROVE  ChangeSafe(w, Y, r, row, {y}, form, p, k)
  <2>1. Waiting(p) \/ k \in p.todo =>
           \A z \in {y} : z.id = p.batch[k].id =>
               ~IsConflict(z) /\ AsChange(z) = p.batch[k]
    BY <1>1, <1>2, <1>6
  <2>2. ~Waiting(p) /\ Suits(Y, r, row, form, p, k)
    BY <1>2, <1>6
  <2> QED BY <1>6, <2>1, <2>2, ChangeRest
<1>7. p.pc = "downloaded" => PullSafe(w, Y, r, row, p.rows[r])
  BY PullStays DEF RecSafe, RowMoves, RowSafe
<1>8. RecSafe(w, Y, r, row, {y}, form, p)
  BY <1>3, <1>4, <1>5, <1>6, <1>7 DEF RecSafe
<1>9. KeepsTried(n, E, {y})
  BY <1>1 DEF KeepsTried
<1> QED BY <1>8, <1>9 DEF y

\* No entry goes with the rest of record r.
NoneFits(w, Y, r, loc, row, form, p) ==
    /\ RowMoves(w, r, loc, row, p)
    /\ ~row.del => Stamp(w, Y, r, row.ver, row.val)
    /\ form.rec = r => Stamp(w, Y, r, form.base, form.val)
    /\ \A k \in DOMAIN p.batch : p.batch[k].pay.rec = r =>
          /\ Suits(Y, r, row, form, p, k)
          /\ Waiting(p) => row.del /\ form.rec # r

\* Nothing is left queued.
LEMMA NoneSafe ==
    ASSUME NEW w, NEW X, NEW Y, X \subseteq Y, NEW r \in Rec, NEW loc, NEW E,
           NEW ed, NEW p, RecSafe(w, X, r, loc, E, ed, p),
           NEW row, NEW form, NoneFits(w, Y, r, loc, row, form, p), NEW n
    PROVE  /\ RecSafe(w, Y, r, row, {}, form, p)
           /\ KeepsTried(n, E, {})
<1>0. /\ RowMoves(w, r, loc, row, p)
      /\ ~row.del => Stamp(w, Y, r, row.ver, row.val)
      /\ form.rec = r => Stamp(w, Y, r, form.base, form.val)
      /\ \A k \in DOMAIN p.batch : p.batch[k].pay.rec = r =>
            /\ Suits(Y, r, row, form, p, k)
            /\ Waiting(p) => row.del /\ form.rec # r
  BY DEF NoneFits
<1> USE <1>0
<1>1. RowSafe(w, Y, r, row, {})
  BY DEF RowMoves, RowSafe
<1>2. FormSafe(w, Y, r, {}, form)
  BY DEF FormSafe
<1>3. ASSUME NEW k \in DOMAIN p.batch, p.batch[k].pay.rec = r
      PROVE  ChangeSafe(w, Y, r, row, {}, form, p, k)
  <2>1. Waiting(p) => Succeeds(Y, p.batch[k], row, {}, form.rec = r)
    BY <1>3 DEF Succeeds
  <2>2. Waiting(p) \/ k \in p.todo =>
           \A z \in {} : z.id = p.batch[k].id =>
               ~IsConflict(z) /\ AsChange(z) = p.batch[k]
    OBVIOUS
  <2>3. Suits(Y, r, row, form, p, k)
    BY <1>3
  <2> QED BY <1>3, <2>1, <2>2, <2>3, ChangeRest
<1>4. p.pc = "downloaded" => PullSafe(w, Y, r, row, p.rows[r])
  BY PullStays DEF RecSafe
<1>5. RecSafe(w, Y, r, row, {}, form, p)
  BY <1>1, <1>2, <1>3, <1>4 DEF RecSafe
<1>6. KeepsTried(n, E, {})
  BY DEF KeepsTried
<1> QED BY <1>5, <1>6

\* Record r is in the form: the changes of it that are on the way go with a
\* save of the form.
LEMMA FormTells ==
    ASSUME NEW w, NEW X, NEW Y, X \subseteq Y, NEW r \in Rec, NEW loc,
           NEW E \in SUBSET OutboxEntry, NEW ed, NEW p,
           p.batch \in Seq(ClientChange), RecSafe(w, X, r, loc, E, ed, p),
           ed.rec = r, \A x \in E : x.op # "delete",
           NEW val, ed.val \subseteq val, NEW row, row.ver = loc.ver,
           NEW form, form.rec = r => form.base = ed.base /\ ed.val \subseteq form.val
    PROVE  /\ Stamp(w, Y, r, ed.base, val)
           /\ \A k \in DOMAIN p.batch : p.batch[k].pay.rec = r =>
                 Suits(Y, r, row, form, p, k) /\ Outdoes(Y, "upsert", val, p, k)
<1>1. FormSafe(w, X, r, E, ed)
  BY DEF RecSafe
<1>2. Stamp(w, Y, r, ed.base, val)
  BY <1>1 DEF FormSafe, Stamp
<1>3. ASSUME NEW k \in DOMAIN p.batch, p.batch[k].pay.rec = r
      PROVE  Suits(Y, r, row, form, p, k) /\ Outdoes(Y, "upsert", val, p, k)
  <2> DEFINE ch == p.batch[k]
  <2>1. ChangeSafe(w, X, r, loc, E, ed, p, k)
    BY <1>3 DEF RecSafe
  <2>2. ch \in ClientChange
    BY <1>3
  <2>3. ch.pay.op \in {"upsert", "delete"}
    BY <2>2, ChangeFields DEF Ops
  <2>4. \A x \in E : x.op = "upsert"
    BY EntryFields DEF Ops
  <2>5. Suits(Y, r, row, form, p, k)
    BY <2>1 DEF ChangeSafe, Suits
  <2>6. ASSUME Waiting(p)
        PROVE  ch.pay.op = "upsert" /\ ch.pay.val \subseteq val \cup Y
    <3>1. Succeeds(X, ch, loc, E, TRUE)
      BY <2>1, <2>6 DEF ChangeSafe
    <3>2. PICK y \in E : TRUE
      BY <3>1 DEF Succeeds
    <3>3. y.op = "upsert" /\ y.val \subseteq ed.val \cup X
      BY <1>1, <2>4 DEF FormSafe
    <3> QED BY <2>3, <3>1, <3>2, <3>3 DEF Succeeds
  <2>7. Outdoes(Y, "upsert", val, p, k)
    BY <2>6 DEF Outdoes
  <2> QED BY <2>5, <2>7
<1> QED BY <1>2, <1>3

\* What an action of the window on record r of device c starts from.
LEMMA RecordView ==
    ASSUME Safe, NEW c \in Client, NEW r \in Rec
    PROVE  /\ Caught
           /\ Traced
           /\ TypeOK
           /\ ServerSound(srv)
           /\ srv \in ProperWork
           /\ cl[c] \in Store
           /\ Distinct(cl[c])
           /\ used[c] \in Nat
           /\ ViewSound(r, cl[c].local[r], EntriesOf(cl[c], r))
           /\ EntriesOf(cl[c], r) \in SUBSET OutboxEntry
           /\ cl[c].local[r] \in LocalRow
           /\ Traces(srv, editor[c].rec, Unsynced(dead, c), Synced(dead, c), r,
                     cl[c].local[r], EntriesOf(cl[c], r))
           /\ pass[c].batch \in Seq(ClientChange)
           /\ Numbered(c, used[c], pass[c])
           /\ RecSafe(srv, Excused, r, cl[c].local[r], EntriesOf(cl[c], r),
                      editor[c], pass[c])
           /\ srv.row[r].ver \in Nat
           /\ cl[c].local[r].ver \in Nat
           /\ cl[c].local[r].ver <= srv.row[r].ver
<1>1. Traced /\ Caught /\ srv \in ProperWork
  BY SafeView
<1>2. PassSound(srv, cl[c], c, used[c], pass[c])
  BY <1>1, TracedView
<1>3. Numbered(c, used[c], pass[c])
  BY <1>2 DEF PassSound, BatchSound, Numbered
<1>4. pass[c].batch \in Seq(ClientChange)
  BY <1>2, PassFields
<1>5. TypeOK
  BY <1>1 DEF Traced, WellFormed
<1>6. /\ RecSafe(srv, Excused, r, cl[c].local[r], EntriesOf(cl[c], r),
                 editor[c], pass[c])
      /\ srv.row[r].ver \in Nat
      /\ cl[c].local[r].ver \in Nat
      /\ cl[c].local[r].ver <= srv.row[r].ver
  BY SafeView
<1> QED BY <1>1, <1>3, <1>4, <1>5, <1>6, TracedView

LEMMA CreateSafe ==
    ASSUME Safe, NEW c \in Client, NEW r \in Rec, NEW e \in Edit,
           Create(c, r, e)
    PROVE  Safe'
<1> DEFINE val == {e}
           id == NewId(c)
           T == CreateLocal(cl[c], id, r, val)
           ed == [rec |-> r, base |-> 0, val |-> val]
           loc == cl[c].local[r]
           E == EntriesOf(cl[c], r)
           p == pass[c]
           row == LocalAt(0, val)
<1>1. /\ Window(c, T, ed, 1)
      /\ Excused' = Excused
      /\ free' = free \ {e}
      /\ loc = NoLocal
  BY DEF Create, history, Excused
<1>2. /\ Caught
      /\ Traced
      /\ cl[c] \in Store
      /\ Distinct(cl[c])
      /\ used[c] \in Nat
      /\ ViewSound(r, loc, E)
      /\ E \in SUBSET OutboxEntry
      /\ Numbered(c, used[c], p)
      /\ p.batch \in Seq(ClientChange)
      /\ RecSafe(srv, Excused, r, loc, E, editor[c], p)
      /\ srv.row[r].ver \in Nat
  BY RecordView
<1>3. Caught'
  BY <1>2, CreateCaught
<1>4. /\ id \in ChangeId
      /\ FreshId(c, used[c], used[c] + 1, id)
      /\ srv.rcpt[id] = NoReceipt
  BY <1>1, <1>2, OneId DEF Window
<1>5. /\ val \in Val
      /\ e \in val
      /\ "upsert" \in Ops
      /\ 0 \in Nat
  BY ClientAssumption DEF Ops
<1>6. /\ ed.rec = r
      /\ ed.base = 0
      /\ ed.val = val
      /\ row.ver = 0
      /\ ~loc.del
      /\ loc.val = {}
      /\ loc.ver = 0
  <2>1. ~NoLocal.del
    BY Zenon DEF NoLocal
  <2>2. NoLocal.val = {} /\ NoLocal.ver = 0
    BY DEF NoLocal
  <2> QED BY <1>1, <2>1, <2>2 DEF LocalAt
<1> DEFINE n == used[c]
           m == used[c] + 1
<1> HIDE DEF id, val, ed, row, E, p, loc
<1>7. PICK F : /\ Becomes(cl[c], T, r, row, F)
               /\ Queues(E, F, id, r, "upsert", 0, val)
  BY <1>2, <1>4, <1>5, CreateView DEF row, E
<1> HIDE DEF T
<1>8. E = {}
  BY <1>2, <1>6, EntryFields DEF ViewSound, Shows, Ops
<1>9. F = {Fresh(id, r, "upsert", 0, val)}
  BY <1>7, <1>8 DEF Queues
<1>10. Stamp(srv, Excused, r, 0, val) /\ BaseKnown(srv, r, 0)
  BY <1>2 DEF Stamp, BaseKnown
<1>11. ASSUME NEW k \in DOMAIN p.batch, p.batch[k].pay.rec = r
       PROVE  Suits(Excused, r, row, ed, p, k)
              /\ Outdoes(Excused, "upsert", val, p, k)
  <2>1. ChangeSafe(srv, Excused, r, loc, E, editor[c], p, k)
    BY <1>2, <1>11 DEF RecSafe
  <2>2. p.batch[k] \in ClientChange
    BY <1>2, <1>11
  <2>3. p.batch[k].pay.base \in Nat
    BY <2>2, ChangeFields
  <2>4. ~Waiting(p)
    BY <1>6, <1>8, <2>1 DEF ChangeSafe, Succeeds
  <2>5. ~Follows(p, k)
    BY <1>6, <2>1, <2>3, <2>4 DEF ChangeSafe
  <2> QED BY <2>4, <2>5 DEF Suits, Outdoes
<1>12. RowMoves(srv, r, loc, row, p)
  BY <1>2, <1>6 DEF RowMoves
<1>13. PICK op \in Ops, b \in Nat : op = "upsert" /\ b = 0
  BY <1>5
<1>14. /\ RecSafe(srv, Excused, r, row, {Fresh(id, r, op, b, val)}, ed, p)
       /\ KeepsTried(n, E, {Fresh(id, r, op, b, val)})
  <2>1. /\ FreshId(c, n, m, id)
        /\ Numbered(c, n, p)
        /\ n \in Nat
    BY <1>2, <1>4
  <2>2. /\ BaseKnown(srv, r, b)
        /\ op = "upsert" => Stamp(srv, Excused, r, b, val)
        /\ ed.rec = r => Stamp(srv, Excused, r, ed.base, ed.val)
        /\ ed.rec = r /\ op = "upsert" => val \subseteq ed.val \cup Excused
    BY <1>6, <1>10, <1>13
  <2>3. \A k \in DOMAIN p.batch : p.batch[k].pay.rec = r =>
           Suits(Excused, r, row, ed, p, k) /\ Outdoes(Excused, op, val, p, k)
    BY <1>11, <1>13
  <2> HIDE DEF n, m
  <2> QED BY <1>2, <1>4, <1>5, <1>12, <1>13, <2>1, <2>2, <2>3, FreshSafe
<1>15. /\ RecSafe(srv, Excused, r, row, F, ed, p)
       /\ KeepsTried(used[c], E, F)
       /\ Carries(srv, Excused, r, E, F)
  BY <1>8, <1>9, <1>13, <1>14 DEF Carries
<1>16. \A s \in Rec : RecordSafe(srv, Excused, used[c], cl[c], T, ed, pass[c], s)
  BY <1>6, <1>7, <1>15, OneRecordSafe DEF E, p
<1>17. QueuedOn(T, e)
  <2>1. Fresh(id, r, "upsert", 0, val) \in EntriesOf(T, r)
    BY <1>7, <1>9 DEF Becomes
  <2>2. Fresh(id, r, op, b, val).val = val
    BY DEF Fresh
  <2> QED BY <1>5, <1>13, <2>1, <2>2 DEF QueuedOn, EntriesOf
<1>18. \A f \in free \ free' : QueuedOn(T, f)
  BY <1>1, <1>17
<1> QED BY <1>1, <1>3, <1>16, <1>18, WindowSafe

\* A form that is opened over a queued save of an older version excuses the
\* edits it does not have.
LEMMA OpenedStamp ==
    ASSUME Safe, NEW c \in Client, NEW r \in Rec, ~cl[c].local[r].del,
           NEW Y, Excused \subseteq Y,
           OlderBase(c, r) => Content(r) \ cl[c].local[r].val \subseteq Y
    PROVE  Stamp(srv, Y, r, cl[c].local[r].ver, cl[c].local[r].val)
<1> DEFINE loc == cl[c].local[r]
           E == EntriesOf(cl[c], r)
<1>1. /\ ViewSound(r, loc, E)
      /\ RecSafe(srv, Excused, r, loc, E, editor[c], pass[c])
      /\ srv.row[r].ver \in Nat
      /\ loc.ver \in Nat
      /\ loc.ver <= srv.row[r].ver
  BY RecordView
<1>2. CASE E = {}
  <2>1. Stamp(srv, Excused, r, loc.ver, loc.val)
    BY <1>1, <1>2 DEF RecSafe, RowSafe
  <2> QED BY <2>1 DEF Stamp
<1>3. ASSUME NEW x \in E PROVE Stamp(srv, Y, r, loc.ver, loc.val)
  <2>1. SUFFICES ASSUME loc.ver >= 1, loc.ver = srv.row[r].ver
                 PROVE  srv.row[r].val \subseteq loc.val \cup Y
    BY <1>1 DEF Stamp
  <2>2. /\ x \in OutboxEntry
        /\ Shows(loc, x)
        /\ EntrySafe(srv, Excused, r, loc, x)
    BY <1>1, <1>3 DEF ViewSound, RecSafe
  <2>3. x.op = "upsert" /\ x.val = loc.val /\ x.base \in Nat
    BY <2>2, EntryFields DEF Shows, Ops
  <2>4. CASE x.base < loc.ver
    <3>1. OlderBase(c, r)
      BY <2>4 DEF OlderBase
    <3>2. Content(r) = srv.row[r].val
      BY <1>1, <2>1 DEF Content
    <3> QED BY <3>1, <3>2
  <2>5. CASE ~(x.base < loc.ver)
    <3>1. ~IsConflict(x)
      BY <2>1, <2>2, <2>3, <2>5 DEF EntrySafe, ConflictSafe
    <3>2. Stamp(srv, Excused, r, x.base, x.val)
      BY <2>2, <2>3, <3>1 DEF EntrySafe
    <3>3. x.base = srv.row[r].ver /\ x.base >= 1
      BY <1>1, <2>1, <2>3, <2>5, <3>2 DEF Stamp
    <3> QED BY <2>3, <3>2, <3>3 DEF Stamp
  <2> QED BY <2>4, <2>5
<1> QED BY <1>2, <1>3

LEMMA OpenSafe ==
    ASSUME Safe, NEW c \in Client, NEW r \in Rec, Open(c, r)
    PROVE  Safe'
<1> DEFINE S == cl[c]
           loc == S.local[r]
           E == EntriesOf(S, r)
           p == pass[c]
           ed == [rec |-> r, base |-> loc.ver, val |-> loc.val]
           Y == Excused'
<1>1. /\ Window(c, S, ed, 0)
      /\ ~loc.del
      /\ free' = free
      /\ gone' = gone
      /\ unseen' = IF OlderBase(c, r) THEN unseen \cup (Content(r) \ loc.val)
                   ELSE unseen
      /\ editor[c] = Closed
  BY DEF Open
<1>2. /\ Caught
      /\ S \in Store
      /\ used[c] \in Nat
      /\ ViewSound(r, loc, E)
      /\ E \in SUBSET OutboxEntry
      /\ RecSafe(srv, Excused, r, loc, E, editor[c], p)
      /\ p.batch \in Seq(ClientChange)
      /\ loc.ver \in Nat
  BY RecordView
<1>3. Caught'
  BY <1>2, OpenCaught
<1>4. /\ Excused \subseteq Y
      /\ OlderBase(c, r) => Content(r) \ loc.val \subseteq Y
  BY <1>1 DEF Excused
<1>5. /\ ed.rec = r
      /\ ed.base = loc.ver
      /\ ed.val = loc.val
  OBVIOUS
<1>6. Becomes(S, S, r, loc, E)
  BY <1>2 DEF Becomes, Elsewhere
<1> HIDE DEF Y, ed
<1>7. Stamp(srv, Y, r, loc.ver, loc.val)
  BY <1>1, <1>4, OpenedStamp
<1> HIDE DEF S, loc, E, p
<1>8. RecSafe(srv, Y, r, loc, E, Closed, p)
  BY <1>1, <1>2, <1>4, RecMore
<1>9. \A x \in E : x.op = "upsert" /\ x.val = loc.val
  BY <1>1, <1>2, EntryFields DEF ViewSound, Shows, Ops
<1>10. FormSafe(srv, Y, r, E, ed)
  BY <1>5, <1>7, <1>9 DEF FormSafe
<1>11. ASSUME NEW k \in DOMAIN p.batch, p.batch[k].pay.rec = r
       PROVE  ChangeSafe(srv, Y, r, loc, E, ed, p, k)
  <2> DEFINE ch == p.batch[k]
  <2>1. ChangeSafe(srv, Y, r, loc, E, Closed, p, k)
    BY <1>8, <1>11 DEF RecSafe
  <2>2. ch \in ClientChange
    BY <1>2, <1>11
  <2>3. ch.pay.op \in {"upsert", "delete"} /\ ch.pay.base \in Nat
    BY <2>2, ChangeFields DEF Ops
  <2>4. ASSUME Waiting(p)
        PROVE  /\ Succeeds(Y, ch, loc, E, TRUE)
               /\ ch.pay.op = "upsert"
               /\ ch.pay.val \subseteq loc.val \cup Y
    <3>1. Succeeds(Y, ch, loc, E, Closed.rec = r)
      BY <2>1, <2>4 DEF ChangeSafe
    <3>2. PICK y \in E : TRUE
      BY <1>1, <3>1 DEF Succeeds
    <3> QED BY <1>9, <2>3, <3>1, <3>2 DEF Succeeds
  <2>5. ~Waiting(p) /\ Follows(p, k) => loc.ver > ch.pay.base
    BY <1>1, <2>1 DEF ChangeSafe
  <2>6. Waiting(p) => Succeeds(Y, ch, loc, E, ed.rec = r)
    BY <1>5, <2>4
  <2>7. /\ Waiting(p) \/ Follows(p, k)
        /\ ed.rec = r
        /\ ed.base = ch.pay.base
        => /\ ch.pay.op = "upsert"
           /\ ch.pay.val \subseteq ed.val \cup Y
    <3>1. CASE Waiting(p)
      BY <1>5, <2>4, <3>1
    <3>2. CASE ~Waiting(p)
      BY <1>2, <1>5, <2>3, <2>5, <3>2
    <3> QED BY <3>1, <3>2
  <2> QED BY <2>1, <2>5, <2>6, <2>7 DEF ChangeSafe
<1>12. RecSafe(srv, Y, r, loc, E, ed, p)
  BY <1>8, <1>10, <1>11 DEF RecSafe
<1>13. KeepsTried(used[c], E, E) /\ Carries(srv, Y, r, E, E)
  BY SameSafe
<1>14. \A s \in Rec : RecordSafe(srv, Y, used[c], cl[c], S, ed, pass[c], s)
  BY <1>4, <1>5, <1>6, <1>12, <1>13, OneRecordSafe DEF S, E, p
<1>15. \A f \in free \ free' : QueuedOn(S, f)
  BY <1>1
<1> QED BY <1>1, <1>3, <1>4, <1>14, <1>15, WindowSafe DEF Y

LEMMA CloseSafe ==
    ASSUME Safe, NEW c \in Client, Close(c)
    PROVE  Safe'
<1>1. /\ Window(c, cl[c], Closed, 0)
      /\ Excused' = Excused
      /\ free' = free
  BY DEF Close, history, Excused
<1>2. Caught'
  BY CloseCaught DEF Safe
<1>3. ASSUME NEW r \in Rec
      PROVE  RecordSafe(srv, Excused', used[c], cl[c], cl[c], Closed, pass[c], r)
  <2>1. RecSafe(srv, Excused, r, cl[c].local[r], EntriesOf(cl[c], r),
                editor[c], pass[c])
    BY SafeView
  <2>2. RecSafe(srv, Excused, r, cl[c].local[r], EntriesOf(cl[c], r),
                Closed, pass[c])
    BY <2>1, RecMore, ClosedForm
  <2> QED BY <1>1, <2>2, SameSafe DEF RecordSafe
<1> QED BY <1>1, <1>2, <1>3, WindowSafe

\* The entries F hold a save of record r over E, under a new identifier or in
\* the entry of a conflict.
SavedAs(E, F, id, r, base, val) ==
    \/ F = {Fresh(id, r, "upsert", base, val)}
    \/ \E x \in E : IsConflict(x) /\ F = {Refreshed(x, "upsert", val)}

LEMMA SavedVal ==
    ASSUME NEW E \in SUBSET OutboxEntry, NEW F, NEW id, NEW r, NEW base,
           NEW val \in Val, SavedAs(E, F, id, r, base, val)
    PROVE  \E y \in F : y.val = val
<1>1. Fresh(id, r, "upsert", base, val).val = val
  BY DEF Fresh
<1>2. PICK op \in Ops : op = "upsert"
  BY DEF Ops
<1>3. \A x \in E : Refreshed(x, op, val).val = val
  BY <1>2, RefreshedFields
<1> QED BY <1>1, <1>2, <1>3 DEF SavedAs

LEMMA SavesAs ==
    ASSUME Unversioned = {}, NEW E, NEW F, NEW id, NEW r, NEW base, NEW val,
           Saves(E, F, id, r, base, val)
    PROVE  SavedAs(E, F, id, r, base, val)
BY DEF Saves, SavedAs

\* A new entry goes with the rest of record r.
NewFits(w, Y, r, loc, row, form, p, op, base, val) ==
    /\ BaseKnown(w, r, base)
    /\ op = "upsert" => Stamp(w, Y, r, base, val)
    /\ RowMoves(w, r, loc, row, p)
    /\ form.rec = r => Stamp(w, Y, r, form.base, form.val)
    /\ form.rec = r /\ op = "upsert" => val \subseteq form.val \cup Y
    /\ \A k \in DOMAIN p.batch : p.batch[k].pay.rec = r =>
          Suits(Y, r, row, form, p, k) /\ Outdoes(Y, op, val, p, k)

\* The number of the identifier is new on the device.
NewOn(w, c, n, m, id) == FreshId(c, n, m, id) /\ w.rcpt[id] = NoReceipt

LEMMA NewSafe ==
    ASSUME NEW w, NEW X, NEW Y, X \subseteq Y, NEW r \in Rec, NEW loc, NEW E,
           NEW ed, NEW p, RecSafe(w, X, r, loc, E, ed, p),
           NEW c, NEW n \in Nat, NEW m, Numbered(c, n, p),
           NEW id \in ChangeId, NewOn(w, c, n, m, id),
           NEW op \in Ops, NEW base \in Nat, NEW val \in Val,
           NEW row, NEW form, NewFits(w, Y, r, loc, row, form, p, op, base, val)
    PROVE  /\ RecSafe(w, Y, r, row, {Fresh(id, r, op, base, val)}, form, p)
           /\ KeepsTried(n, E, {Fresh(id, r, op, base, val)})
<1>1. /\ FreshId(c, n, m, id)
      /\ w.rcpt[id] = NoReceipt
  BY DEF NewOn
<1>2. /\ BaseKnown(w, r, base)
      /\ op = "upsert" => Stamp(w, Y, r, base, val)
      /\ RowMoves(w, r, loc, row, p)
      /\ form.rec = r => Stamp(w, Y, r, form.base, form.val)
      /\ form.rec = r /\ op = "upsert" => val \subseteq form.val \cup Y
  BY DEF NewFits
<1>3. \A k \in DOMAIN p.batch : p.batch[k].pay.rec = r =>
          Suits(Y, r, row, form, p, k) /\ Outdoes(Y, op, val, p, k)
  BY DEF NewFits
<1> QED BY <1>1, <1>2, <1>3, FreshSafe

\* What SavedSafe asks of a save of the form ed.
SaveFits(w, X, Y, r, loc, E, ed, p, c, n, m, id, base, val, row, form, F) ==
    /\ X \subseteq Y
    /\ E \in SUBSET OutboxEntry
    /\ p.batch \in Seq(ClientChange)
    /\ RecSafe(w, X, r, loc, E, ed, p)
    /\ ed.rec = r
    /\ \A x \in E : x.op # "delete"
    /\ n \in Nat
    /\ Numbered(c, n, p)
    /\ id \in ChangeId
    /\ FreshId(c, n, m, id)
    /\ w.rcpt[id] = NoReceipt
    /\ base \in Nat
    /\ ed.base = base
    /\ val \in Val
    /\ ed.val \subseteq val
    /\ row.ver = loc.ver
    /\ form.rec = r => form.base = base /\ form.val = val
    /\ SavedAs(E, F, id, r, base, val)

LEMMA SavedSafe ==
    ASSUME NEW w, NEW X, NEW Y, NEW r \in Rec, NEW loc, NEW E, NEW ed, NEW p,
           NEW c, NEW n, NEW m, NEW id, NEW base, NEW val, NEW row, NEW form,
           NEW F,
           SaveFits(w, X, Y, r, loc, E, ed, p, c, n, m, id, base, val, row,
                    form, F)
    PROVE  RecSafe(w, Y, r, row, F, form, p) /\ KeepsTried(n, E, F)
<1>0. /\ X \subseteq Y
      /\ E \in SUBSET OutboxEntry
      /\ p.batch \in Seq(ClientChange)
      /\ RecSafe(w, X, r, loc, E, ed, p)
      /\ ed.rec = r
      /\ \A x \in E : x.op # "delete"
      /\ n \in Nat
      /\ Numbered(c, n, p)
      /\ id \in ChangeId
      /\ FreshId(c, n, m, id)
      /\ w.rcpt[id] = NoReceipt
      /\ base \in Nat
      /\ ed.base = base
      /\ val \in Val
      /\ ed.val \subseteq val
      /\ row.ver = loc.ver
      /\ form.rec = r => form.base = base /\ form.val = val
      /\ SavedAs(E, F, id, r, base, val)
  BY DEF SaveFits
<1> USE <1>0
<1>1. PICK op \in Ops : op = "upsert"
  BY DEF Ops
<1>2. /\ Stamp(w, Y, r, base, val)
      /\ \A k \in DOMAIN p.batch : p.batch[k].pay.rec = r =>
            Suits(Y, r, row, form, p, k) /\ Outdoes(Y, op, val, p, k)
  BY <1>1, FormTells
<1>3. BaseKnown(w, r, base) /\ RowMoves(w, r, loc, row, p)
  BY <1>2 DEF Stamp, BaseKnown, RowMoves, RecSafe, RowSafe
<1>4. /\ form.rec = r => Stamp(w, Y, r, form.base, form.val)
      /\ form.rec = r /\ op = "upsert" => val \subseteq form.val \cup Y
  BY <1>2
<1>5. /\ RecSafe(w, Y, r, row, {Fresh(id, r, op, base, val)}, form, p)
      /\ KeepsTried(n, E, {Fresh(id, r, op, base, val)})
  <2>1. op = "upsert" => Stamp(w, Y, r, base, val)
    BY <1>2
  <2>2. \A k \in DOMAIN p.batch : p.batch[k].pay.rec = r =>
            Suits(Y, r, row, form, p, k) /\ Outdoes(Y, op, val, p, k)
    BY <1>2
  <2>3. NewFits(w, Y, r, loc, row, form, p, op, base, val)
    BY <1>3, <1>4, <2>1, <2>2 DEF NewFits
  <2>4. NewOn(w, c, n, m, id)
    BY DEF NewOn
  <2> QED BY <1>1, <2>3, <2>4, NewSafe
<1>6. ASSUME NEW x \in E, IsConflict(x)
      PROVE  /\ RecSafe(w, Y, r, row, {Refreshed(x, op, val)}, form, p)
             /\ KeepsTried(n, E, {Refreshed(x, op, val)})
  <2>1. x \in OutboxEntry
    OBVIOUS
  <2>2. op = "upsert" => x.op = "upsert"
    BY <2>1, EntryFields DEF Ops
  <2>3. \A k \in DOMAIN p.batch : p.batch[k].pay.rec = r =>
            Suits(Y, r, row, form, p, k)
    BY <1>2
  <2>4. /\ X \subseteq Y
        /\ RecSafe(w, X, r, loc, E, ed, p)
        /\ val \in Val
        /\ row.ver = loc.ver
    OBVIOUS
  <2> HIDE <1>0
  <2> QED BY <1>1, <1>4, <1>6, <2>1, <2>2, <2>3, <2>4, RefreshSafe
<1> QED BY <1>1, <1>5, <1>6 DEF SavedAs

LEMMA SaveSafe ==
    ASSUME Unversioned = {}, Safe, NEW c \in Client, NEW e \in Edit, Save(c, e)
    PROVE  Safe'
<1> DEFINE old == editor[c]
           r == old.rec
           base == old.base
           val == old.val \cup {e}
           ed == [old EXCEPT !.val = val]
           id == NewId(c)
           S == cl[c]
           T == SaveLocal(S, id, r, base, val)
           loc == S.local[r]
           E == EntriesOf(S, r)
           p == pass[c]
           row == LocalAt(loc.ver, val)
           n == used[c]
           m == used[c] + 1
<1>1. /\ old # Closed
      /\ Window(c, T, ed, 1)
      /\ Excused' = Excused
      /\ free' = free \ {e}
  BY DEF Save, history, Excused
<1>2. TypeOK /\ Caught /\ Traced
  BY SafeView DEF Traced, WellFormed
<1>3. Caught'
  BY <1>2, SaveCaught
<1>4. /\ old \in [rec: Rec, base: Nat, val: Val]
      /\ r \in Rec
      /\ base \in Nat
      /\ old.val \in Val
  BY <1>1, <1>2, OpenForm
<1>5. val \in Val /\ e \in val /\ old.val \subseteq val
  BY <1>4, EditVal
<1>6. /\ id \in ChangeId
      /\ FreshId(c, n, m, id)
      /\ srv.rcpt[id] = NoReceipt
  BY <1>1, <1>2, OneId DEF Window
<1>7. /\ S \in Store
      /\ Distinct(S)
      /\ n \in Nat
      /\ E \in SUBSET OutboxEntry
      /\ Traces(srv, r, Unsynced(dead, c), Synced(dead, c), r, loc, E)
      /\ p.batch \in Seq(ClientChange)
      /\ Numbered(c, n, p)
      /\ RecSafe(srv, Excused, r, loc, E, old, p)
  BY <1>4, RecordView
<1> HIDE DEF val, base
<1>8. ed.rec = r /\ ed.base = base /\ ed.val = val /\ row.ver = loc.ver
  BY <1>4 DEF LocalAt, base
<1> HIDE DEF id
<1>9. PICK F : /\ Becomes(S, T, r, row, F)
               /\ Saves(E, F, id, r, base, val)
  BY <1>4, <1>5, <1>6, <1>7, SaveView
<1> HIDE DEF S, T, loc, E, p, row, n, m, ed
<1>10. \A x \in E : x.op # "delete"
  BY <1>7, FormQueuesNoDelete
<1>11. SavedAs(E, F, id, r, base, val)
  BY <1>9, SavesAs
<1>12. old.rec = r /\ old.base = base
  BY DEF base
<1>13. RecSafe(srv, Excused, r, row, F, ed, p) /\ KeepsTried(n, E, F)
  <2> DEFINE X == Excused
  <2>1. X \subseteq X
    OBVIOUS
  <2>2. ed.rec = r => ed.base = base /\ ed.val = val
    BY <1>8
  <2>3. /\ n \in Nat
        /\ Numbered(c, n, p)
        /\ FreshId(c, n, m, id)
    BY <1>6, <1>7
  <2>4. RecSafe(srv, X, r, loc, E, old, p)
    BY <1>7
  <2> HIDE DEF old, r, X
  <2>5. RecSafe(srv, X, r, row, F, ed, p) /\ KeepsTried(n, E, F)
    <3>1. SaveFits(srv, X, X, r, loc, E, old, p, c, n, m, id, base, val, row,
                   ed, F)
      BY <1>4, <1>5, <1>6, <1>7, <1>8, <1>10, <1>11, <1>12, <2>1, <2>2, <2>3,
         <2>4 DEF SaveFits
    <3> QED BY <1>4, <3>1, SavedSafe
  <2> QED BY <2>5 DEF X
<1>14. PICK y \in F : y.val = val
  BY <1>5, <1>7, <1>11, SavedVal
<1>15. Carries(srv, Excused, r, E, F)
  <2>1. ASSUME NEW x \in E PROVE x.val \subseteq y.val \cup Excused
    <3>1. x.op = "upsert"
      BY <1>7, <1>10, EntryFields DEF Ops
    <3>2. x.val \subseteq old.val \cup Excused
      BY <1>7, <3>1 DEF RecSafe, FormSafe
    <3> QED BY <1>5, <1>14, <3>2
  <2> QED BY <1>14, <2>1 DEF Carries
<1>16. \A s \in Rec : RecordSafe(srv, Excused, n, S, T, ed, pass[c], s)
  BY <1>4, <1>8, <1>9, <1>13, <1>15, OneRecordSafe DEF S, E, p
<1>17. QueuedOn(T, e)
  BY <1>5, <1>9, <1>14 DEF QueuedOn, EntriesOf, Becomes
<1>18. \A f \in free \ free' : QueuedOn(T, f)
  BY <1>1, <1>17
<1> QED BY <1>1, <1>3, <1>16, <1>18, WindowSafe DEF S, n

\* A record is deleted, and no form is on it.
LEMMA DeletedSafe ==
    ASSUME NEW w, NEW X, NEW Y, X \subseteq Y, NEW r \in Rec,
           NEW loc \in LocalRow,
           NEW E \in SUBSET OutboxEntry, NEW ed, NEW p,
           RecSafe(w, X, r, loc, E, ed, p),
           NEW c, NEW n \in Nat, NEW m, Numbered(c, n, p),
           NEW id \in ChangeId, FreshId(c, n, m, id), w.rcpt[id] = NoReceipt,
           NEW form, form.rec # r,
           NEW row, row = LocalGone(loc),
           NEW F, Deletes(E, F, id, r, loc)
    PROVE  RecSafe(w, Y, r, row, F, form, p) /\ KeepsTried(n, E, F)
<1>1. row.ver = loc.ver /\ row.del /\ loc.ver \in Nat
  BY LocalGoneFields DEF LocalRow
<1>2. PICK op \in Ops, val \in Val, one \in Nat :
        op = "delete" /\ val = {} /\ one = 1
  BY EmptyVal DEF Ops
<1>3. RowMoves(w, r, loc, row, p)
  BY <1>1 DEF RowMoves, RecSafe, RowSafe
<1>4. ASSUME NEW k \in DOMAIN p.batch, p.batch[k].pay.rec = r
      PROVE  /\ Suits(Y, r, row, form, p, k)
             /\ Outdoes(Y, op, val, p, k)
             /\ Waiting(p) => row.del /\ form.rec # r
  BY <1>1, <1>2 DEF Suits, Outdoes
<1>5. /\ form.rec = r => Stamp(w, Y, r, form.base, form.val)
      /\ form.rec = r /\ op = "upsert" => val \subseteq form.val \cup Y
      /\ ~row.del => Stamp(w, Y, r, row.ver, row.val)
  BY <1>1
<1>6. op # "upsert"
  BY <1>2
<1>7. ASSUME NEW b \in Nat, BaseKnown(w, r, b)
      PROVE  /\ RecSafe(w, Y, r, row, {Fresh(id, r, op, b, val)}, form, p)
             /\ KeepsTried(n, E, {Fresh(id, r, op, b, val)})
  <2>1. op = "upsert" => Stamp(w, Y, r, b, val)
    BY <1>6
  <2>2. \A k \in DOMAIN p.batch : p.batch[k].pay.rec = r =>
            Suits(Y, r, row, form, p, k) /\ Outdoes(Y, op, val, p, k)
    BY <1>4
  <2>3. NewFits(w, Y, r, loc, row, form, p, op, b, val)
    BY <1>3, <1>5, <1>7, <2>1, <2>2 DEF NewFits
  <2>4. NewOn(w, c, n, m, id)
    BY DEF NewOn
  <2> QED BY <1>2, <1>7, <2>3, <2>4, NewSafe
<1>8. ASSUME NEW x \in E, IsConflict(x)
      PROVE  /\ RecSafe(w, Y, r, row, {Refreshed(x, op, val)}, form, p)
             /\ KeepsTried(n, E, {Refreshed(x, op, val)})
  <2>1. x \in OutboxEntry /\ (op = "upsert" => x.op = "upsert")
    BY <1>6
  <2>2. \A k \in DOMAIN p.batch : p.batch[k].pay.rec = r =>
            Suits(Y, r, row, form, p, k)
    BY <1>4
  <2> QED BY <1>1, <1>2, <1>5, <1>8, <2>1, <2>2, RefreshSafe
<1>9. RecSafe(w, Y, r, row, {}, form, p) /\ KeepsTried(n, E, {})
  <2>1. \A k \in DOMAIN p.batch : p.batch[k].pay.rec = r =>
            /\ Suits(Y, r, row, form, p, k)
            /\ Waiting(p) => row.del /\ form.rec # r
    BY <1>4
  <2>2. NoneFits(w, Y, r, loc, row, form, p)
    BY <1>3, <1>5, <2>1 DEF NoneFits
  <2> QED BY <2>2, NoneSafe
<1>10. BaseKnown(w, r, loc.ver) /\ BaseKnown(w, r, one)
  BY <1>2 DEF BaseKnown, RecSafe, RowSafe
<1>11. ASSUME NEW x \in E
       PROVE  KeptBase(x) \in Nat /\ BaseKnown(w, r, KeptBase(x))
  <2>1. x.base \in Nat /\ BaseKnown(w, r, x.base)
    BY EntryFields DEF RecSafe, EntrySafe
  <2> QED BY <2>1 DEF KeptBase, BaseKnown
<1>12. \/ F = {}
       \/ \E b \in Nat : BaseKnown(w, r, b) /\ F = {Fresh(id, r, op, b, val)}
       \/ \E x \in E : IsConflict(x) /\ F = {Refreshed(x, op, val)}
  <2>1. \/ F = {}
        \/ F = {Fresh(id, r, op, loc.ver, val)}
        \/ F = {Fresh(id, r, op, one, val)}
        \/ \E x \in E : F = {Fresh(id, r, op, KeptBase(x), val)}
        \/ \E x \in E : IsConflict(x) /\ F = {Refreshed(x, op, val)}
    BY <1>2 DEF Deletes, Queues
  <2> QED BY <1>1, <1>10, <1>11, <2>1
<1> QED BY <1>7, <1>8, <1>9, <1>12

\* What a record shows is what is queued for it.
LEMMA GoneCarries ==
    ASSUME NEW w, NEW X, NEW r, NEW loc, NEW E, ViewSound(r, loc, E),
           loc.val \subseteq X, NEW F
    PROVE  Carries(w, X, r, E, F)
<1>1. ASSUME NEW x \in E PROVE x.val \subseteq X
  <2>1. x.op \in Ops /\ Shows(loc, x)
    BY EntryFields DEF ViewSound
  <2> QED BY <2>1 DEF Shows, Ops
<1> QED BY <1>1 DEF Carries

LEMMA DeleteSafe ==
    ASSUME Safe, NEW c \in Client, Delete(c)
    PROVE  Safe'
<1> DEFINE r == editor[c].rec
           id == NewId(c)
           S == cl[c]
           T == DeleteLocal(S, id, r)
           loc == S.local[r]
           E == EntriesOf(S, r)
           p == pass[c]
           n == used[c]
           m == used[c] + 1
           Y == Excused'
           row == LocalGone(loc)
<1>1. /\ editor[c] # Closed
      /\ Window(c, T, Closed, 1)
      /\ gone' = gone \cup loc.val
      /\ unseen' = unseen
      /\ free' = free
  BY DEF Delete
<1>2. TypeOK /\ Caught /\ Traced
  BY SafeView DEF Traced, WellFormed
<1>3. Caught'
  BY <1>2, DeleteCaught
<1>4. r \in Rec
  BY <1>1, <1>2, OpenForm
<1>5. /\ id \in ChangeId
      /\ FreshId(c, n, m, id)
      /\ srv.rcpt[id] = NoReceipt
  BY <1>1, <1>2, OneId DEF Window
<1>6. /\ S \in Store
      /\ Distinct(S)
      /\ n \in Nat
      /\ loc \in LocalRow
      /\ ViewSound(r, loc, E)
      /\ E \in SUBSET OutboxEntry
      /\ Numbered(c, n, p)
      /\ RecSafe(srv, Excused, r, loc, E, editor[c], p)
  BY <1>4, RecordView
<1>7. Excused \subseteq Y /\ loc.val \subseteq Y
  BY <1>1 DEF Excused
<1> HIDE DEF r, id
<1>8. PICK F : /\ Becomes(S, T, r, row, F)
               /\ Deletes(E, F, id, r, loc)
  BY <1>4, <1>5, <1>6, DeleteView
<1>14. row = LocalGone(loc)
  OBVIOUS
<1> HIDE DEF S, T, loc, E, p, n, m, Y, row
<1>9. Closed.rec # r /\ \A s \in Rec : Closed.rec # s
  BY <1>4, ClosedForm
<1>10. RecSafe(srv, Y, r, row, F, Closed, p) /\ KeepsTried(n, E, F)
  BY <1>4, <1>5, <1>6, <1>7, <1>8, <1>9, <1>14, DeletedSafe
<1>11. Carries(srv, Y, r, E, F)
  BY <1>6, <1>7, GoneCarries
<1>12. \A s \in Rec : RecordSafe(srv, Y, n, S, T, Closed, pass[c], s)
  BY <1>4, <1>7, <1>8, <1>9, <1>10, <1>11, OneRecordSafe DEF S, E, p
<1>13. \A f \in free \ free' : QueuedOn(T, f)
  BY <1>1
<1> QED BY <1>1, <1>3, <1>7, <1>12, <1>13, WindowSafe DEF S, n, Y

\* A delete and a save of the same record come to a save.
LEMMA DeletedSaves ==
    ASSUME Unversioned = {}, NEW E \in SUBSET OutboxEntry, NEW D, NEW F,
           NEW id \in ChangeId, NEW jd, NEW r \in Rec, NEW loc \in LocalRow,
           NEW base, NEW val \in Val, Deletes(E, D, id, r, loc),
           Saves(D, F, jd, r, base, val)
    PROVE  SavedAs(E, F, jd, r, base, val)
<1>1. CASE \E x \in D : IsConflict(x) /\ F = {Refreshed(x, "upsert", val)}
  <2>1. PICK x \in D : IsConflict(x) /\ F = {Refreshed(x, "upsert", val)}
    BY <1>1
  <2>2. PICK op \in Ops, none \in Val, one \in Nat :
           op = "delete" /\ none = {} /\ one = 1
    BY EmptyVal DEF Ops
  <2>3. \A b \in Nat : ~IsConflict(Fresh(id, r, op, b, none))
    BY FreshFields DEF IsConflict
  <2>4. loc.ver \in Nat /\ \A z \in E : KeptBase(z) \in Nat
    BY EntryFields DEF LocalRow, KeptBase
  <2>5. \/ D = {}
        \/ D = {Fresh(id, r, op, loc.ver, none)}
        \/ D = {Fresh(id, r, op, one, none)}
        \/ \E z \in E : D = {Fresh(id, r, op, KeptBase(z), none)}
        \/ \E z \in E : IsConflict(z) /\ D = {Refreshed(z, op, none)}
    BY <2>2 DEF Deletes, Queues
  <2>6. PICK z \in E : IsConflict(z) /\ D = {Refreshed(z, op, none)}
    BY <2>1, <2>2, <2>3, <2>4, <2>5
  <2>7. x = Refreshed(z, op, none)
    BY <2>1, <2>6
  <2>8. Refreshed(x, "upsert", val) = Refreshed(z, "upsert", val)
    <3>1. z \in OutboxEntry
      OBVIOUS
    <3> QED BY <2>7, <3>1 DEF Refreshed, OutboxEntry
  <2> QED BY <2>1, <2>6, <2>8 DEF SavedAs
<1>2. CASE ~ \E x \in D : IsConflict(x) /\ F = {Refreshed(x, "upsert", val)}
  BY <1>2 DEF Saves, SavedAs
<1> QED BY <1>1, <1>2

LEMMA DeleteDirtySafe ==
    ASSUME Unversioned = {}, Safe, NEW c \in Client, NEW e \in Edit,
           DeleteDirty(c, e)
    PROVE  Safe'
<1> DEFINE old == editor[c]
           r == old.rec
           base == old.base
           n == used[c]
           m == n + 2
           val == old.val \cup {e}
           id == <<c, n + 1>>
           jd == <<c, n + 2>>
           S == cl[c]
           T == DeleteLocal(S, id, r)
           U == SaveLocal(T, jd, r, base, val)
           loc == S.local[r]
           E == EntriesOf(S, r)
           p == pass[c]
           Y == Excused'
<1>1. /\ old # Closed
      /\ Window(c, U, Closed, 2)
      /\ gone' = gone \cup loc.val
      /\ unseen' = unseen
      /\ free' = free \ {e}
  BY DEF DeleteDirty, NewId
<1>2. TypeOK /\ Caught /\ Traced
  BY SafeView DEF Traced, WellFormed
<1>3. Caught'
  BY <1>2, DeleteDirtyCaught
<1>4. /\ r \in Rec
      /\ base \in Nat
      /\ old.val \in Val
      /\ old.rec = r
      /\ old.base = base
  BY <1>1, <1>2, OpenForm
<1>5. val \in Val /\ e \in val /\ old.val \subseteq val
  BY <1>4, EditVal
<1>6. n + 2 <= scope.ids /\ n \in Nat
  BY <1>1, <1>2, TracedView DEF Window
<1>7. /\ id \in ChangeId
      /\ jd \in ChangeId
      /\ srv.rcpt[jd] = NoReceipt
      /\ FreshId(c, n, m, jd)
  <2>1. 1 \in Nat \ {0} /\ 2 \in Nat \ {0} /\ 2 \in Nat /\ 1 <= 2 /\ 2 <= 2
    OBVIOUS
  <2>2. <<c, used[c] + 1>> \in ChangeId
    BY <1>2, <1>6, <2>1, NewIdFresh
  <2>3. /\ <<c, used[c] + 2>> \in ChangeId
        /\ FreshId(c, used[c], used[c] + 2, <<c, used[c] + 2>>)
    BY <1>2, <1>6, <2>1, NewIdFresh
  <2> QED BY <1>2, <2>1, <2>2, <2>3, NewIdUnseen
<1>8. /\ S \in Store
      /\ Distinct(S)
      /\ E \in SUBSET OutboxEntry
      /\ loc \in LocalRow
      /\ ViewSound(r, loc, E)
      /\ Traces(srv, r, Unsynced(dead, c), Synced(dead, c), r, loc, E)
      /\ p.batch \in Seq(ClientChange)
      /\ Numbered(c, n, p)
      /\ RecSafe(srv, Excused, r, loc, E, old, p)
  BY <1>4, RecordView
<1>9. Excused \subseteq Y /\ loc.val \subseteq Y
  BY <1>1 DEF Excused
<1> HIDE DEF n, m, val, r, id, jd, base, old
<1>10. PICK D : /\ Becomes(S, T, r, LocalGone(loc), D)
                /\ Deletes(E, D, id, r, loc)
  BY <1>4, <1>7, <1>8, DeleteView
<1>11. Distinct(T)
  <2> DEFINE k == n + 1
  <2>1. FreshId(c, n, k, id) /\ k \in Nat /\ n <= k
    BY <1>6 DEF FreshId, id
  <2>2. StoreSound(S, c, n)
    BY <1>2, TracedView DEF S, n
  <2> HIDE DEF k
  <2>3. StoreStep(S, T, c, n, k)
    BY <1>4, <1>6, <1>7, <1>8, <2>1, <2>2, DeleteStoreStep
  <2>4. StoreSound(T, c, k)
    BY <1>6, <2>1, <2>2, <2>3, StoreStepSound
  <2> QED BY <2>4 DEF StoreSound
<1> HIDE DEF T, S
<1>12. /\ T \in Store
       /\ EntriesOf(T, r) = D
       /\ T.local[r] = LocalGone(loc)
  BY <1>4, <1>10 DEF Becomes, Elsewhere
<1> DEFINE row == LocalAt(T.local[r].ver, val)
<1>13. PICK F : /\ Becomes(T, U, r, row, F)
                /\ Saves(D, F, jd, r, base, val)
  BY <1>4, <1>5, <1>7, <1>11, <1>12, SaveView
<1>14. row.ver = loc.ver
  BY <1>8, <1>12, LocalGoneFields DEF LocalAt
<1>15. SavedAs(E, F, jd, r, base, val)
  BY <1>4, <1>5, <1>7, <1>8, <1>10, <1>13, DeletedSaves
<1>16. \A x \in E : x.op # "delete"
  BY <1>8, FormQueuesNoDelete
<1>17. Becomes(S, U, r, row, F)
  BY <1>10, <1>13, BecomesThen
<1>18. Closed.rec # r /\ \A s \in Rec : Closed.rec # s
  BY <1>4, ClosedForm
<1> HIDE DEF row, U, E, loc, p, Y
<1>19. RecSafe(srv, Y, r, row, F, Closed, p) /\ KeepsTried(n, E, F)
  <2> DEFINE X == Excused
             form == Closed
  <2>1. form.rec = r => form.base = base /\ form.val = val
    BY <1>18
  <2>2. /\ X \subseteq Y
        /\ RecSafe(srv, X, r, loc, E, old, p)
        /\ E \in SUBSET OutboxEntry
        /\ p.batch \in Seq(ClientChange)
        /\ Numbered(c, n, p)
    BY <1>8, <1>9
  <2> HIDE DEF X, form
  <2>3. RecSafe(srv, Y, r, row, F, form, p) /\ KeepsTried(n, E, F)
    <3>1. SaveFits(srv, X, Y, r, loc, E, old, p, c, n, m, jd, base, val, row,
                   form, F)
      BY <1>4, <1>5, <1>6, <1>7, <1>14, <1>15, <1>16, <2>1, <2>2 DEF SaveFits
    <3> QED BY <1>4, <3>1, SavedSafe
  <2> QED BY <2>3 DEF form
<1>20. Carries(srv, Y, r, E, F)
  BY <1>8, <1>9, GoneCarries
<1>21. \A s \in Rec : RecordSafe(srv, Y, n, S, U, Closed, pass[c], s)
  BY <1>4, <1>9, <1>17, <1>18, <1>19, <1>20, OneRecordSafe DEF S, E, p
<1>22. PICK y \in F : y.val = val
  BY <1>5, <1>8, <1>15, SavedVal
<1>23. QueuedOn(U, e)
  BY <1>5, <1>17, <1>22 DEF QueuedOn, EntriesOf, Becomes
<1>24. \A f \in free \ free' : QueuedOn(U, f)
  BY <1>1, <1>23
<1> QED BY <1>1, <1>3, <1>9, <1>21, <1>24, WindowSafe DEF S, n, Y

\* Entries are marked as sent, parked, released or blocked, but not by a
\* conflict. While an answer is waited for, that is the pass's own entry.
TouchFits(E, r, p, ids) ==
    /\ E \in SUBSET OutboxEntry
    /\ \A x \in E : x.id \in ids => ~IsConflict(x)
    /\ Waiting(p) =>
          \A k \in DOMAIN p.batch : p.batch[k].pay.rec = r =>
              \A x \in E : x.id \in ids => x.id = p.batch[k].id

LEMMA TouchesSafe ==
    ASSUME NEW w, NEW X, NEW r, NEW loc, NEW E, NEW ed, NEW p,
           RecSafe(w, X, r, loc, E, ed, p), NEW ids, TouchFits(E, r, p, ids),
           NEW F, Touches(E, F, ids), NEW n
    PROVE  /\ RecSafe(w, X, r, loc, F, ed, p)
           /\ KeepsTried(n, E, F)
           /\ Carries(w, X, r, E, F)
<1>1. CASE E = {} /\ F = {}
  BY <1>1, SameSafe
<1>2. ASSUME NEW x, NEW y, E = {x}, F = {y},
             Touched(x, y),
             x.id \notin ids /\ y.tried => x.tried,
             IsConflict(x) /\ x.id \notin ids => y = x
      PROVE  /\ RecSafe(w, X, r, loc, F, ed, p)
             /\ KeepsTried(n, E, F)
             /\ Carries(w, X, r, E, F)
  <2>1. /\ y.id = x.id
        /\ y.rec = x.rec
        /\ y.op = x.op
        /\ y.val = x.val
        /\ y.base = x.base
        /\ x.tried => y.tried
        /\ ~y.tried => y.status = x.status \/ y.status = "pending"
        /\ IsConflict(y) => IsConflict(x) /\ y.srv = x.srv
    BY <1>2 DEF Touched, SameWork
  <2>2. IsConflict(x) => IsConflict(y)
    BY <1>2 DEF TouchFits
  <2>3. EntrySafe(w, X, r, loc, x)
    BY <1>2 DEF RecSafe
  <2>4. EntrySafe(w, X, r, loc, y)
    <3>1. ~y.tried => Unsent(w, y)
      BY <2>1, <2>3 DEF EntrySafe, Unsent
    <3>2. IsConflict(y) => ConflictSafe(w, X, r, loc, y)
      BY <2>1, <2>3 DEF EntrySafe, ConflictSafe
    <3> QED BY <2>1, <2>2, <2>3, <3>1, <3>2 DEF EntrySafe
  <2>5. RowSafe(w, X, r, loc, {y})
    BY DEF RecSafe, RowSafe
  <2>6. FormSafe(w, X, r, {y}, ed)
    BY <1>2, <2>1 DEF RecSafe, FormSafe
  <2>7. ASSUME NEW k \in DOMAIN p.batch, p.batch[k].pay.rec = r
        PROVE  ChangeSafe(w, X, r, loc, {y}, ed, p, k)
    <3>1. ChangeSafe(w, X, r, loc, {x}, ed, p, k)
      BY <1>2, <2>7 DEF RecSafe
    <3>2. Waiting(p) \/ k \in p.todo =>
             \A z \in {y} : z.id = p.batch[k].id =>
                 ~IsConflict(z) /\ AsChange(z) = p.batch[k]
      <4>1. AsChange(y) = AsChange(x)
        BY <2>1 DEF AsChange
      <4>2. Waiting(p) \/ k \in p.todo =>
               (x.id = p.batch[k].id =>
                   ~IsConflict(x) /\ AsChange(x) = p.batch[k])
        BY <3>1 DEF ChangeSafe
      <4> QED BY <2>1, <4>1, <4>2
    <3>3. ASSUME Waiting(p)
          PROVE  Succeeds(X, p.batch[k], loc, {y}, ed.rec = r)
      <4>1. Succeeds(X, p.batch[k], loc, {x}, ed.rec = r)
        BY <3>1, <3>3 DEF ChangeSafe
      <4>2. x.id # p.batch[k].id => x.id \notin ids
        BY <1>2, <2>7, <3>3 DEF TouchFits
      <4>3. y.id # p.batch[k].id => ~y.tried
        BY <1>2, <2>1, <4>1, <4>2 DEF Succeeds
      <4> QED BY <2>1, <4>1, <4>3 DEF Succeeds
    <3> QED BY <3>1, <3>2, <3>3 DEF ChangeSafe
  <2>8. RecSafe(w, X, r, loc, {y}, ed, p)
    BY <2>4, <2>5, <2>6, <2>7 DEF RecSafe
  <2>9. KeepsTried(n, {x}, {y}) /\ Carries(w, X, r, {x}, {y})
    BY <2>1 DEF KeepsTried, Carries
  <2> QED BY <1>2, <2>8, <2>9
<1>3. \/ E = {} /\ F = {}
      \/ \E x, y : /\ E = {x}
                   /\ F = {y}
                   /\ Touched(x, y)
                   /\ x.id \notin ids /\ y.tried => x.tried
                   /\ IsConflict(x) /\ x.id \notin ids => y = x
  BY DEF Touches
<1> QED BY <1>1, <1>2, <1>3

LEMMA LoginSafe ==
    ASSUME Safe, NEW c \in Client, Login(c)
    PROVE  Safe'
<1> DEFINE S == cl[c]
           T == ReleaseAuthentication(S)
<1>1. /\ Window(c, T, editor[c], 0)
      /\ Excused' = Excused
      /\ free' = free
  BY DEF Login, history, Excused
<1>2. Caught' /\ Traced
  BY LoginCaught, SafeView DEF Safe
<1>3. S \in Store /\ Distinct(S)
  BY <1>2, TracedView
<1>4. /\ T.local = S.local
      /\ \A r \in Rec : Touches(EntriesOf(S, r), EntriesOf(T, r), {})
  BY <1>3, ReleaseView
<1> HIDE DEF T, S
<1>5. ASSUME NEW r \in Rec
      PROVE  RecordSafe(srv, Excused, used[c], S, T, editor[c], pass[c], r)
  <2>1. /\ RecSafe(srv, Excused, r, S.local[r], EntriesOf(S, r), editor[c],
                   pass[c])
        /\ EntriesOf(S, r) \in SUBSET OutboxEntry
    BY RecordView DEF S
  <2>2. PICK ids : ids = {}
    OBVIOUS
  <2>3. TouchFits(EntriesOf(S, r), r, pass[c], ids)
    BY <2>1, <2>2 DEF TouchFits
  <2>4. Touches(EntriesOf(S, r), EntriesOf(T, r), ids)
    BY <1>4, <2>2
  <2> QED BY <1>4, <2>1, <2>3, <2>4, TouchesSafe DEF RecordSafe
<1> QED BY <1>1, <1>2, <1>5, WindowSafe DEF S

\* What the Conflict Center starts from.
LEMMA ChosenView ==
    ASSUME ResolveDuringPass = FALSE, Safe, NEW c \in Client,
           NEW x \in cl[c].box, Choose(c, x), IsConflict(x)
    PROVE  /\ x.rec \in Rec
           /\ x.op \in Ops
           /\ x.val \in Val
           /\ x.srv.ver \in Nat
           /\ srv.row[x.rec].ver \in Nat
           /\ cl[c].local[x.rec].ver \in Nat
           /\ cl[c].local[x.rec].ver <= srv.row[x.rec].ver
           /\ EntriesOf(cl[c], x.rec) = {x}
           /\ pass[c].pc = "idle"
           /\ pass[c].batch = <<>>
           /\ ConflictSafe(srv, Excused, x.rec, cl[c].local[x.rec], x)
           /\ RecSafe(srv, Excused, x.rec, cl[c].local[x.rec], {x}, editor[c],
                      pass[c])
<1>1. Traced /\ DeviceSafe(srv, Excused, cl[c], editor[c], pass[c])
  BY SafeView
<1>2. /\ x.rec \in Rec
      /\ x.op \in Ops
      /\ x.val \in Val
      /\ x.srv.ver \in Nat
      /\ EntriesOf(cl[c], x.rec) = {x}
  BY <1>1, ConflictView
<1>3. pass[c].pc = "idle" /\ pass[c].batch = <<>>
  BY <1>1 DEF Choose, DeviceSafe
<1>4. /\ RecSafe(srv, Excused, x.rec, cl[c].local[x.rec], {x}, editor[c],
                 pass[c])
      /\ srv.row[x.rec].ver \in Nat
      /\ cl[c].local[x.rec].ver \in Nat
      /\ cl[c].local[x.rec].ver <= srv.row[x.rec].ver
  <2>1. /\ RecSafe(srv, Excused, x.rec, cl[c].local[x.rec],
                   EntriesOf(cl[c], x.rec), editor[c], pass[c])
        /\ srv.row[x.rec].ver \in Nat
        /\ cl[c].local[x.rec].ver \in Nat
        /\ cl[c].local[x.rec].ver <= srv.row[x.rec].ver
    BY <1>2, SafeView
  <2> QED BY <1>2, <2>1
<1>5. ConflictSafe(srv, Excused, x.rec, cl[c].local[x.rec], x)
  BY <1>4 DEF RecSafe, EntrySafe
<1> QED BY <1>2, <1>3, <1>4, <1>5

\* The server's side of a conflict, as the base of a new content.
LEMMA ConflictStamp ==
    ASSUME NEW w, NEW X, NEW Y, X \subseteq Y, NEW r, NEW loc, NEW x,
           x.srv.ver \in Nat, w.row[r].ver \in Nat,
           ConflictSafe(w, X, r, loc, x), NEW val, x.srv.val \subseteq val \cup Y
    PROVE  Stamp(w, Y, r, x.srv.ver, val) /\ BaseKnown(w, r, x.srv.ver)
BY DEF ConflictSafe, CopyOf, Stamp, BaseKnown

\* A form whose record gets a new entry or none while nothing is on the way.
LEMMA FormKept ==
    ASSUME NEW w, NEW X, NEW Y, X \subseteq Y, NEW r, NEW loc, NEW x, NEW ed,
           NEW p, RecSafe(w, X, r, loc, {x}, ed, p)
    PROVE  /\ ed.rec = r => Stamp(w, Y, r, ed.base, ed.val)
           /\ ed.rec = r /\ x.op = "upsert" => x.val \subseteq ed.val \cup Y
<1>1. FormSafe(w, X, r, {x}, ed)
  BY DEF RecSafe
<1> QED BY <1>1 DEF FormSafe, Stamp

LEMMA KeepMineSafe ==
    ASSUME ResolveDuringPass = FALSE, Safe, NEW c \in Client,
           NEW x \in cl[c].box, ResolveKeepMine(c, x)
    PROVE  Safe'
<1> DEFINE S == cl[c]
           n == used[c]
           m == n + 1
           id == NewId(c)
           T == KeepMine(S, x, id)
           loc == S.local[x.rec]
           r == x.rec
           op == x.op
           val == x.val
           ed == editor[c]
           p == pass[c]
           b == x.srv.ver
           X == Excused
           Y == Excused'
           y == Fresh(id, r, op, b, val)
<1>1. /\ Window(c, T, ed, 1)
      /\ gone' = gone \cup (x.srv.val \ x.val)
      /\ unseen' = unseen
      /\ free' = free
      /\ IsConflict(x)
      /\ Choose(c, x)
  BY DEF ResolveKeepMine, CanKeepMine
<1>2. Caught' /\ Traced
  BY KeepMineCaught, SafeView DEF Safe
<1>3. /\ id \in ChangeId
      /\ FreshId(c, n, m, id)
      /\ srv.rcpt[id] = NoReceipt
  BY <1>1, <1>2, OneId DEF Window
<1>4. /\ r \in Rec
      /\ op \in Ops
      /\ val \in Val
      /\ b \in Nat
      /\ srv.row[r].ver \in Nat
      /\ loc.ver \in Nat
      /\ loc.ver <= srv.row[r].ver
      /\ EntriesOf(S, r) = {x}
      /\ p.batch = <<>>
      /\ ConflictSafe(srv, X, r, loc, x)
      /\ RecSafe(srv, X, r, loc, {x}, ed, p)
  BY <1>1, ChosenView
<1>5. n \in Nat /\ Numbered(c, n, p)
  BY <1>4, RecordView
<1>6. Becomes(S, T, r, loc, {y})
  <2>1. Larger(x.srv.ver, loc.ver) = b
    BY <1>4 DEF ConflictSafe, Larger
  <2>2. S \in Store
    BY <1>2, TracedView
  <2> QED BY <1>3, <2>1, <2>2, KeepMineView
<1>7. X \subseteq Y /\ x.srv.val \subseteq val \cup Y
  BY <1>1 DEF Excused
<1>8. y.val = val
  BY DEF Fresh
<1> HIDE DEF S, n, m, id, T, loc, r, op, val, ed, p, b, X, Y
<1>9. Stamp(srv, Y, r, b, val) /\ BaseKnown(srv, r, b)
  BY <1>4, <1>7, ConflictStamp DEF b
<1>10. /\ ed.rec = r => Stamp(srv, Y, r, ed.base, ed.val)
       /\ ed.rec = r /\ op = "upsert" => val \subseteq ed.val \cup Y
  BY <1>4, <1>7, FormKept DEF op, val
<1>11. NewFits(srv, Y, r, loc, loc, ed, p, op, b, val)
  BY <1>4, <1>9, <1>10 DEF NewFits, RowMoves
<1>12. NewOn(srv, c, n, m, id)
  BY <1>3 DEF NewOn
<1>13. /\ RecSafe(srv, Y, r, loc, {y}, ed, p)
       /\ KeepsTried(n, {x}, {y})
  BY <1>3, <1>4, <1>5, <1>7, <1>11, <1>12, NewSafe
<1> HIDE DEF y
<1>14. Carries(srv, Y, r, {x}, {y})
  BY <1>8 DEF Carries, val
<1>15. \A s \in Rec : RecordSafe(srv, Y, n, S, T, ed, pass[c], s)
  BY <1>4, <1>6, <1>7, <1>13, <1>14, OneRecordSafe DEF S, p, ed, X
<1>16. \A f \in free \ free' : QueuedOn(T, f)
  BY <1>1
<1> QED BY <1>1, <1>2, <1>7, <1>15, <1>16, WindowSafe DEF S, n, Y, X

LEMMA UseServerSafe ==
    ASSUME ResolveDuringPass = FALSE, Safe, NEW c \in Client,
           NEW x \in cl[c].box, ResolveUseServer(c, x)
    PROVE  Safe'
<1> DEFINE S == cl[c]
           n == used[c]
           T == UseServer(S, x)
           loc == S.local[x.rec]
           r == x.rec
           row == x.srv
           ed == editor[c]
           p == pass[c]
           X == Excused
           Y == Excused'
<1>1. /\ Window(c, T, ed, 0)
      /\ gone' = gone \cup (x.val \ x.srv.val)
      /\ unseen' = unseen
      /\ free' = free
      /\ IsConflict(x)
      /\ CanUseServer(S, x)
      /\ Choose(c, x)
  BY DEF ResolveUseServer, CanUseServer
<1>2. Caught' /\ Traced
  BY UseServerCaught, SafeView DEF Safe
<1>3. /\ r \in Rec
      /\ x.srv.ver \in Nat
      /\ srv.row[r].ver \in Nat
      /\ EntriesOf(S, r) = {x}
      /\ p.batch = <<>>
      /\ p.pc = "idle"
      /\ ConflictSafe(srv, X, r, loc, x)
      /\ RecSafe(srv, X, r, loc, {x}, ed, p)
  BY <1>1, ChosenView
<1>4. Becomes(S, T, r, row, {})
  BY <1>1, <1>2, UseServerView, TracedView
<1>5. /\ X \subseteq Y
      /\ x.srv.val \subseteq row.val \cup Y
      /\ x.val \subseteq row.val \cup Y
  BY <1>1 DEF Excused
<1> HIDE DEF S, n, T, loc, r, ed, p, X, Y
<1>6. Stamp(srv, Y, r, row.ver, row.val)
  BY <1>3, <1>5, ConflictStamp
<1>7. Within(srv, Y, r, x.val)
  BY <1>3, <1>5 DEF ConflictSafe, Within
<1>8. RowMoves(srv, r, loc, row, p)
  BY <1>3 DEF RowMoves, ConflictSafe, CopyOf
<1> HIDE DEF row
<1>9. ed.rec = r => Stamp(srv, Y, r, ed.base, ed.val)
  BY <1>3, <1>5, FormKept
<1>10. \A k \in DOMAIN p.batch : p.batch[k].pay.rec = r =>
          /\ Suits(Y, r, row, ed, p, k)
          /\ Waiting(p) => row.del /\ ed.rec # r
  BY <1>3
<1>11. /\ RecSafe(srv, Y, r, row, {}, ed, p)
       /\ KeepsTried(n, {x}, {})
  <2>1. ~row.del => Stamp(srv, Y, r, row.ver, row.val)
    BY <1>6
  <2> DEFINE E == {x}
  <2>2. r \in Rec /\ X \subseteq Y /\ RecSafe(srv, X, r, loc, E, ed, p)
    BY <1>3, <1>5
  <2> HIDE DEF E
  <2>3. RecSafe(srv, Y, r, row, {}, ed, p) /\ KeepsTried(n, E, {})
    <3>1. NoneFits(srv, Y, r, loc, row, ed, p)
      BY <1>8, <1>9, <1>10, <2>1 DEF NoneFits
    <3> QED BY <2>2, <3>1, NoneSafe
  <2> QED BY <2>3 DEF E
<1>12. Carries(srv, Y, r, {x}, {})
  BY <1>7 DEF Carries
<1>13. \A s \in Rec : RecordSafe(srv, Y, n, S, T, ed, pass[c], s)
  BY <1>3, <1>4, <1>5, <1>11, <1>12, OneRecordSafe DEF S, p, ed, X
<1>14. \A f \in free \ free' : QueuedOn(T, f)
  BY <1>1
<1> QED BY <1>1, <1>2, <1>5, <1>13, <1>14, WindowSafe DEF S, n, Y, X

LEMMA MergeSafe ==
    ASSUME ResolveDuringPass = FALSE, Safe, NEW c \in Client,
           NEW x \in cl[c].box, ResolveMerge(c, x)
    PROVE  Safe'
<1> DEFINE S == cl[c]
           n == used[c]
           m == n + 1
           id == NewId(c)
           T == Merge(S, x, id)
           loc == S.local[x.rec]
           r == x.rec
           val == x.val \cup x.srv.val
           ed == editor[c]
           p == pass[c]
           b == x.srv.ver
           X == Excused
           Y == Excused'
<1>1. /\ Window(c, T, ed, 1)
      /\ gone' = gone
      /\ unseen' = IF ed.rec = r THEN unseen \cup (val \ ed.val) ELSE unseen
      /\ free' = free
      /\ IsConflict(x)
      /\ CanMerge(S, x)
      /\ Choose(c, x)
  BY DEF ResolveMerge, CanMerge
<1>2. Caught' /\ Traced
  BY MergeCaught, SafeView DEF Safe
<1>3. /\ id \in ChangeId
      /\ FreshId(c, n, m, id)
      /\ srv.rcpt[id] = NoReceipt
  BY <1>1, <1>2, OneId DEF Window
<1>4. /\ r \in Rec
      /\ b \in Nat
      /\ srv.row[r].ver \in Nat
      /\ loc.ver \in Nat
      /\ EntriesOf(S, r) = {x}
      /\ p.batch = <<>>
      /\ p.pc = "idle"
      /\ ConflictSafe(srv, X, r, loc, x)
      /\ RecSafe(srv, X, r, loc, {x}, ed, p)
  BY <1>1, ChosenView
<1>5. n \in Nat /\ Numbered(c, n, p)
  BY <1>4, RecordView
<1>6. /\ val \in Val
      /\ \E row : /\ row.ver = b
                  /\ Becomes(S, T, r, row, {Fresh(id, r, "upsert", b, val)})
  <2>1. S \in Store /\ Distinct(S)
    BY <1>2, TracedView
  <2> QED BY <1>1, <1>3, <2>1, MergeView
<1>7. PICK op \in Ops : op = "upsert"
  BY DEF Ops
<1> DEFINE y == Fresh(id, r, op, b, val)
<1>8. PICK row : row.ver = b /\ Becomes(S, T, r, row, {y})
  BY <1>6, <1>7
<1>9. /\ X \subseteq Y
      /\ x.srv.val \subseteq val \cup Y
      /\ x.val \subseteq val
      /\ ed.rec = r => val \subseteq ed.val \cup Y
  BY <1>1 DEF Excused
<1>10. y.val = val
  BY DEF Fresh
<1> HIDE DEF S, n, m, id, T, loc, r, val, ed, p, b, X, Y
<1>11. Stamp(srv, Y, r, b, val) /\ BaseKnown(srv, r, b)
  BY <1>4, <1>9, ConflictStamp DEF b
<1>12. ed.rec = r => Stamp(srv, Y, r, ed.base, ed.val)
  BY <1>4, <1>9, FormKept
<1>13. NewFits(srv, Y, r, loc, row, ed, p, op, b, val)
  <2>1. RowMoves(srv, r, loc, row, p)
    BY <1>4, <1>8 DEF RowMoves, ConflictSafe, CopyOf, b
  <2> QED BY <1>4, <1>9, <1>11, <1>12, <2>1 DEF NewFits
<1>14. NewOn(srv, c, n, m, id)
  BY <1>3 DEF NewOn
<1>15. /\ RecSafe(srv, Y, r, row, {y}, ed, p)
       /\ KeepsTried(n, {x}, {y})
  BY <1>3, <1>4, <1>5, <1>6, <1>7, <1>9, <1>13, <1>14, NewSafe
<1> HIDE DEF y
<1>16. Carries(srv, Y, r, {x}, {y})
  BY <1>9, <1>10 DEF Carries
<1>17. \A s \in Rec : RecordSafe(srv, Y, n, S, T, ed, pass[c], s)
  BY <1>4, <1>8, <1>9, <1>15, <1>16, OneRecordSafe DEF S, p, ed, X
<1>18. \A f \in free \ free' : QueuedOn(T, f)
  BY <1>1
<1> QED BY <1>1, <1>2, <1>9, <1>17, <1>18, WindowSafe DEF S, n, Y, X

-----------------------------------------------------------------------------
(* What a step of the pass does with a record                              *)

\* What an acceptance in the answer tells of the server.
LEMMA AcceptTells ==
    ASSUME NEW w, ServerSound(w), NEW X, ReceiptsSafe(w, X), NEW S, NEW c,
           NEW n, NEW p, PassSound(w, S, c, n, p), NEW k \in DOMAIN p.results,
           p.results[k].status = "accepted"
    PROVE  /\ k \in DOMAIN p.batch
           /\ p.batch[k] \in ClientChange
           /\ p.results[k].rec = p.batch[k].pay.rec
           /\ p.results[k].id = p.batch[k].id
           /\ w.row[p.batch[k].pay.rec].ver \in Nat
           /\ p.results[k].ver \in Nat
           /\ p.results[k].ver <= w.row[p.batch[k].pay.rec].ver
           /\ AckVersion(p.results[k]) \in Nat
           /\ AckVersion(p.results[k]) <= w.row[p.batch[k].pay.rec].ver
           /\ w.rcpt[p.batch[k].id] # NoReceipt
           /\ w.rcpt[p.batch[k].id] \in ProperReceipt
           /\ w.rcpt[p.batch[k].id].status = "accepted"
           /\ w.rcpt[p.batch[k].id].pay = p.batch[k].pay
           /\ w.rcpt[p.batch[k].id].ver > 0 =>
                 /\ AckVersion(p.results[k]) = w.rcpt[p.batch[k].id].ver
                 /\ p.results[k].ver >= w.rcpt[p.batch[k].id].ver
           /\ ReceiptSound(w, w.rcpt[p.batch[k].id])
           /\ ReceiptSafe(w, X, w.rcpt[p.batch[k].id])
<1> DEFINE ch == p.batch[k]
           res == p.results[k]
           rc == w.rcpt[ch.id]
<1>1. /\ k \in DOMAIN p.batch
      /\ ch \in ClientChange
      /\ ResultSound(w, c, ch, res)
  BY ResultsOfBatch
<1> HIDE DEF ch, res
<1>2. res.status = "accepted"
  BY DEF res
<1>3. /\ w \in ProperWork
      /\ ch.id \in ChangeId
      /\ ch.pay.rec \in Rec
  BY <1>1, ChangeFields DEF ServerSound
<1>4. w.row[ch.pay.rec].ver \in Nat
  BY <1>3, WorkFields
<1>5. /\ rc # NoReceipt
      /\ rc.status = "accepted"
      /\ rc.pay = ch.pay
      /\ rc.ver = 0 => res.rver = 0
      /\ rc.ver > 0 => AckVersion(res) = rc.ver /\ res.ver >= rc.ver
  BY <1>1, <1>2 DEF ResultSound
<1>6. rc \in ProperReceipt /\ rc.ver \in Nat
  BY <1>3, <1>5, WorkFields DEF ProperReceipt
<1>7. /\ res.ver \in Nat
      /\ res.rec = ch.pay.rec
      /\ res.id = ch.id
      /\ res.ver <= w.row[ch.pay.rec].ver
  BY <1>1 DEF ResultSound, ProperResult, CopyOf
<1>8. AckVersion(res) \in Nat /\ AckVersion(res) <= res.ver
  <2>1. CASE rc.ver > 0
    BY <1>5, <1>6, <1>7, <2>1
  <2>2. CASE rc.ver = 0
    BY <1>5, <1>7, <2>2 DEF AckVersion
  <2> QED BY <1>6, <2>1, <2>2
<1>9. ReceiptSound(w, rc) /\ ReceiptSafe(w, X, rc)
  BY <1>3, <1>5 DEF ServerSound, ReceiptsSafe
<1>10. AckVersion(res) <= w.row[ch.pay.rec].ver
  BY <1>4, <1>7, <1>8
<1> HIDE DEF rc
<1> QED BY <1>1, <1>4, <1>5, <1>6, <1>7, <1>8, <1>9, <1>10 DEF ch, res, rc

LEMMA FollowTells ==
    ASSUME NEW w, ServerSound(w), NEW S, NEW c, NEW n, NEW p,
           PassSound(w, S, c, n, p), NEW k \in DOMAIN p.batch, Follows(p, k)
    PROVE  k \in DOMAIN p.results /\ p.results[k].status = "accepted"
<1>1. p.results # <<>> => DOMAIN p.results = DOMAIN p.batch
  BY ResultsOfBatch
<1> QED BY <1>1 DEF Follows

\* The pass goes on after the answer has been applied.
LEMMA PassMoves ==
    ASSUME NEW w, NEW X, NEW r, NEW loc, NEW E, NEW ed, NEW p,
           RecSafe(w, X, r, loc, E, ed, p), ~Waiting(p),
           NEW q, q.batch = p.batch, q.results = p.results, q.todo = p.todo,
           ~Waiting(q),
           q.pc = "downloaded" =>
              /\ PullSafe(w, X, r, loc, q.rows[r])
              /\ \A k \in DOMAIN p.batch :
                    p.batch[k].pay.rec = r /\ Follows(p, k)
                    /\ q.rows[r].ver > 0 => q.rows[r].ver > p.batch[k].pay.base
    PROVE  RecSafe(w, X, r, loc, E, ed, q)
<1>1. ASSUME NEW k \in DOMAIN q.batch, q.batch[k].pay.rec = r
      PROVE  ChangeSafe(w, X, r, loc, E, ed, q, k)
  <2>1. ChangeSafe(w, X, r, loc, E, ed, p, k)
    BY <1>1 DEF RecSafe
  <2>2. Follows(q, k) <=> Follows(p, k)
    BY DEF Follows
  <2>3. /\ Fits(w, X, q.batch[k].pay)
        /\ k \in q.todo =>
              \A x \in E : x.id = q.batch[k].id =>
                  ~IsConflict(x) /\ AsChange(x) = q.batch[k]
    BY <2>1 DEF ChangeSafe
  <2>4. /\ Follows(q, k)
        /\ ed.rec = r
        /\ ed.base = q.batch[k].pay.base
        => /\ q.batch[k].pay.op = "upsert"
           /\ q.batch[k].pay.val \subseteq ed.val \cup X
    BY <2>1, <2>2 DEF ChangeSafe
  <2>5. Follows(q, k) => \/ loc.ver > q.batch[k].pay.base
                         \/ loc.del /\ ed.rec # r
    BY <2>1, <2>2 DEF ChangeSafe
  <2>6. q.pc = "downloaded" /\ Follows(q, k) /\ q.rows[r].ver > 0 =>
            q.rows[r].ver > q.batch[k].pay.base
    BY <1>1, <2>2
  <2> QED BY <2>3, <2>4, <2>5, <2>6 DEF ChangeSafe
<1> QED BY <1>1 DEF RecSafe

\* The pass goes on to wait for an answer, or to have one.
LEMMA PassWaits ==
    ASSUME NEW w, NEW X, NEW r, NEW loc, NEW E, NEW ed, NEW p,
           RecSafe(w, X, r, loc, E, ed, p), Waiting(p),
           NEW q, q.batch = p.batch, Waiting(q)
    PROVE  RecSafe(w, X, r, loc, E, ed, q)
<1>1. q.pc # "downloaded"
  BY DEF Waiting
<1>2. ASSUME NEW k \in DOMAIN q.batch, q.batch[k].pay.rec = r
      PROVE  ChangeSafe(w, X, r, loc, E, ed, q, k)
  <2>1. ChangeSafe(w, X, r, loc, E, ed, p, k)
    BY <1>2 DEF RecSafe
  <2>2. /\ Fits(w, X, q.batch[k].pay)
        /\ \A x \in E : x.id = q.batch[k].id =>
               ~IsConflict(x) /\ AsChange(x) = q.batch[k]
        /\ Succeeds(X, q.batch[k], loc, E, ed.rec = r)
    BY <2>1 DEF ChangeSafe
  <2>3. /\ ed.rec = r
        /\ ed.base = q.batch[k].pay.base
        => /\ q.batch[k].pay.op = "upsert"
           /\ q.batch[k].pay.val \subseteq ed.val \cup X
    BY <2>1 DEF ChangeSafe
  <2> QED BY <1>1, <2>2, <2>3 DEF ChangeSafe
<1> QED BY <1>1, <1>2 DEF RecSafe

\* The pass ends.
LEMMA PassEnds ==
    ASSUME NEW w, NEW X, NEW r, NEW loc, NEW E, NEW ed, NEW p,
           RecSafe(w, X, r, loc, E, ed, p), NEW form, FormSafe(w, X, r, E, form)
    PROVE  RecSafe(w, X, r, loc, E, form, NoPass)
<1>1. /\ NoPass.batch = <<>>
      /\ NoPass.pc # "downloaded"
  BY NoPassParts
<1>2. DOMAIN NoPass.batch = {}
  BY <1>1
<1> QED BY <1>1, <1>2 DEF RecSafe

\* The batch is selected. An entry that is sent is the only one of its record.
LEMMA SelectRecord ==
    ASSUME NEW w, NEW X, NEW r, NEW loc, NEW E, NEW ed, NEW p,
           RecSafe(w, X, r, loc, E, ed, p),
           ed.rec = r => \A x \in E : x.op # "delete",
           NEW q, q.results = <<>>, q.todo = {}, q.pc # "downloaded",
           \A k \in DOMAIN q.batch : q.batch[k].pay.rec = r =>
              \E x \in OutboxEntry : /\ E = {x}
                                     /\ ~IsConflict(x)
                                     /\ q.batch[k] = AsChange(x)
    PROVE  RecSafe(w, X, r, loc, E, ed, q)
<1>1. ASSUME NEW k \in DOMAIN q.batch, q.batch[k].pay.rec = r
      PROVE  ChangeSafe(w, X, r, loc, E, ed, q, k)
  <2> DEFINE ch == q.batch[k]
  <2>1. PICK x \in OutboxEntry : /\ E = {x}
                                 /\ ~IsConflict(x)
                                 /\ ch = AsChange(x)
    BY <1>1
  <2>2. /\ ch.id = x.id
        /\ ch.pay.rec = x.rec
        /\ ch.pay.op = x.op
        /\ ch.pay.base = x.base
        /\ ch.pay.val = x.val
    BY <2>1, AsChangeFields
  <2> HIDE DEF ch
  <2>3. x.op \in {"upsert", "delete"} /\ ch.pay.rec = r
    BY <1>1, EntryFields DEF Ops, ch
  <2>4. EntrySafe(w, X, r, loc, x) /\ FormSafe(w, X, r, {x}, ed)
    BY <2>1 DEF RecSafe
  <2>5. Fits(w, X, ch.pay)
    BY <2>1, <2>2, <2>3, <2>4 DEF Fits, EntrySafe
  <2>6. Succeeds(X, ch, loc, E, ed.rec = r)
    BY <2>1, <2>2 DEF Succeeds
  <2>7. ~Follows(q, k)
    BY DEF Follows
  <2>8. \A z \in E : z.id = ch.id => ~IsConflict(z) /\ AsChange(z) = ch
    BY <2>1
  <2>9. ed.rec = r => ch.pay.op = "upsert" /\ ch.pay.val \subseteq ed.val \cup X
    BY <2>1, <2>2, <2>3, <2>4 DEF FormSafe
  <2> QED BY <2>5, <2>6, <2>7, <2>8, <2>9 DEF ChangeSafe, ch
<1> QED BY <1>1 DEF RecSafe

LEMMA SelectSafe ==
    ASSUME Safe, NEW c \in Client, NEW due, Select(c, due)
    PROVE  Safe'
<1> DEFINE S == cl[c]
           n == used[c]
<1>1. /\ Traced
      /\ StoreSound(S, c, n)
      /\ n \in Nat
      /\ scope.batch \in Nat
      /\ S \in Store
      /\ Distinct(S)
  BY SafeView, ScopeFields, TracedView DEF WellFormed
<1>2. Caught'
  BY SelectCaught DEF Safe
<1>3. PICK todo \in PendingChanges(S, due, scope.batch) :
         Worker(c, S, [NoPass EXCEPT !.pc = IF todo = <<>> THEN "settled"
                                            ELSE "selected",
                                     !.batch = Selected(todo)])
  BY DEF Select, Selected
<1> DEFINE pc == IF todo = <<>> THEN "settled" ELSE "selected"
           batch == Selected(todo)
           p == [NoPass EXCEPT !.pc = pc, !.batch = batch]
<1>4. Worker(c, S, p)
  BY <1>3
<1>5. pc # "downloaded" /\ pc # "idle"
  OBVIOUS
<1>6. /\ DOMAIN batch = DOMAIN todo
      /\ \A k \in DOMAIN todo :
            /\ batch[k] = AsChange(todo[k])
            /\ todo[k] \in S.box
            /\ todo[k] \in OutboxEntry
            /\ todo[k].status \in {"pending", "retry"}
  <2>1. PICK limit \in Nat : limit = scope.batch
    BY <1>1
  <2>2. todo \in PendingChanges(S, due, limit)
    BY <1>3, <2>1
  <2> HIDE DEF S, n
  <2>3. /\ StoreSound(S, c, n)
        /\ n \in Nat
    BY <1>1
  <2>4. /\ BatchSound(S, c, n, Selected(todo))
        /\ todo \in Seq(S.box)
        /\ DOMAIN Selected(todo) = DOMAIN todo
        /\ \A k \in DOMAIN todo :
              /\ Selected(todo)[k] = AsChange(todo[k])
              /\ todo[k] \in S.box
              /\ todo[k] \in OutboxEntry
              /\ todo[k].status \in {"pending", "retry"}
    BY <2>1, <2>2, <2>3, SelectedSound, Zenon
  <2> QED BY <2>4
<1> HIDE DEF pc, batch
<1>7. /\ p.batch = batch
      /\ p.pc = pc
      /\ p.results = <<>>
      /\ p.todo = {}
  <2>1. /\ NoPass.results = <<>>
        /\ NoPass.todo = {}
        /\ p.results = NoPass.results
        /\ p.todo = NoPass.todo
    BY DEF NoPass
  <2> QED BY <2>1, NoPassParts, PassParts
<1> HIDE DEF p, S
<1>8. srv' = srv /\ late' = late /\ editor' = editor
  BY DEF Select
<1>9. ASSUME NEW r \in Rec
      PROVE  RecordSafe(srv, Excused, n, S, S, editor'[c], p, r)
  <2> DEFINE E == EntriesOf(S, r)
             loc == S.local[r]
             ed == editor[c]
  <2>1. /\ RecSafe(srv, Excused, r, loc, E, ed, pass[c])
        /\ Traces(srv, ed.rec, Unsynced(dead, c), Synced(dead, c), r, loc, E)
    BY RecordView DEF S
  <2>2. ed.rec = r => \A x \in E : x.op # "delete"
    BY <2>1, FormQueuesNoDelete
  <2>3. ASSUME NEW k \in DOMAIN p.batch, p.batch[k].pay.rec = r
        PROVE  \E x \in OutboxEntry : /\ E = {x}
                                      /\ ~IsConflict(x)
                                      /\ p.batch[k] = AsChange(x)
    <3> DEFINE x == todo[k]
    <3>1. /\ x \in S.box
          /\ x \in OutboxEntry
          /\ x.status \in {"pending", "retry"}
          /\ p.batch[k] = AsChange(x)
      BY <1>6, <1>7, <2>3
    <3> HIDE DEF x
    <3>2. x.rec = r
      BY <2>3, <3>1, AsChangeFields
    <3>3. x \in E
      BY <3>1, <3>2 DEF EntriesOf
    <3>4. E = {x}
      BY <1>1, <3>3, OnlyEntry
    <3>5. ~IsConflict(x)
      BY <3>1 DEF IsConflict
    <3> QED BY <3>1, <3>4, <3>5
  <2>4. /\ p.results = <<>>
        /\ p.todo = {}
        /\ p.pc # "downloaded"
    BY <1>5, <1>7
  <2> HIDE DEF E, loc, ed
  <2>5. RecSafe(srv, Excused, r, loc, E, ed, p)
    BY <2>1, <2>2, <2>3, <2>4, SelectRecord
  <2> QED BY <1>8, <2>5, SameSafe DEF RecordSafe, E, loc, ed
<1>10. p.pc # "idle"
  BY <1>5, <1>7
<1> QED BY <1>2, <1>4, <1>8, <1>9, <1>10, QuietWorkerSafe DEF S

\* What a step of the pass that leaves the database alone starts from.
LEMMA PassView ==
    ASSUME Safe, NEW c \in Client
    PROVE  /\ Traced
           /\ Caught
           /\ ServerSound(srv)
           /\ ReceiptsSafe(srv, Excused)
           /\ pass[c] \in Pass
           /\ PassSound(srv, cl[c], c, used[c], pass[c])
           /\ BatchSound(cl[c], c, used[c], pass[c].batch)
           /\ GoodBatch(pass[c].batch)
           /\ pass[c].batch \in Seq(ClientChange)
           /\ cl[c] \in Store
           /\ Distinct(cl[c])
           /\ StoreSound(cl[c], c, used[c])
           /\ used[c] \in Nat
<1>1. Traced /\ Caught /\ ReceiptsSafe(srv, Excused)
  BY SafeView DEF SafeElse
<1>2. PassSound(srv, cl[c], c, used[c], pass[c])
  BY <1>1, TracedView
<1>3. pass[c].batch \in Seq(ClientChange) /\ pass[c] \in Pass
  BY <1>2, PassFields
<1>4. BatchSound(cl[c], c, used[c], pass[c].batch) /\ GoodBatch(pass[c].batch)
  BY <1>2 DEF PassSound, BatchSound
<1> QED BY <1>1, <1>2, <1>3, <1>4, TracedView

\* What the changes of Repulled are.
LEMMA RepulledParts ==
    ASSUME NEW p \in Pass, NEW pc, NEW rows, NEW snap
    PROVE  /\ Repulled(p, pc, rows, snap).pc = pc
           /\ Repulled(p, pc, rows, snap).batch = p.batch
           /\ Repulled(p, pc, rows, snap).results = p.results
           /\ Repulled(p, pc, rows, snap).todo = p.todo
           /\ Repulled(p, pc, rows, snap).rows = rows
BY DEF Pass, Repulled

LEMMA DownloadSafe ==
    ASSUME Safe, NEW c \in Client, Download(c)
    PROVE  Safe'
<1> DEFINE S == cl[c]
           p == pass[c]
           rows == Pulled(srv, S.wm)
           pc == "downloaded"
           q == Repulled(p, pc, rows, srv.seq)
<1>1. /\ Caught
      /\ ServerSound(srv)
      /\ ReceiptsSafe(srv, Excused)
      /\ p \in Pass
      /\ PassSound(srv, S, c, used[c], p)
  BY PassView
<1>2. Caught'
  BY <1>1, DownloadCaught
<1>3. /\ Worker(c, S, q)
      /\ srv' = srv
      /\ editor' = editor
      /\ late' = late
      /\ p.pc = "settled"
  BY DEF Download, Pulled, Repulled
<1>4. \A r \in Rec : rows[r] = NoRow \/ rows[r] = srv.row[r]
  BY DEF Pulled
<1>5. pc = "downloaded"
  OBVIOUS
<1> HIDE DEF rows, pc
<1>6. /\ q.pc = pc
      /\ q.batch = p.batch
      /\ q.results = p.results
      /\ q.todo = p.todo
      /\ q.rows = rows
  BY <1>1, RepulledParts
<1>7. ~Waiting(p) /\ ~Waiting(q)
  BY <1>3, <1>5, <1>6 DEF Waiting
<1> HIDE DEF q, S, p
<1>8. ASSUME NEW r \in Rec
      PROVE  RecordSafe(srv, Excused, used[c], S, S, editor'[c], q, r)
  <2> DEFINE E == EntriesOf(S, r)
             loc == S.local[r]
             ed == editor[c]
             row == rows[r]
  <2>1. /\ RecSafe(srv, Excused, r, loc, E, ed, p)
        /\ srv.row[r].ver \in Nat
        /\ loc.ver \in Nat
        /\ loc.ver <= srv.row[r].ver
    BY RecordView DEF S, p
  <2>2. row = NoRow \/ row = srv.row[r]
    BY <1>4
  <2>3. NoRow.ver = 0
    BY DEF NoRow
  <2>4. srv.row[r].ver = 0 => srv.row[r] = NoRow
    BY <1>1 DEF ServerSound, RowSound
  <2> HIDE DEF E, loc, ed, row
  <2>5. PullSafe(srv, Excused, r, loc, row)
    <3>1. CASE row = NoRow
      BY <2>3, <3>1 DEF PullSafe
    <3>2. CASE row = srv.row[r]
      BY <2>1, <2>4, <3>2 DEF PullSafe, CopyOf, Within
    <3> QED BY <2>2, <3>1, <3>2
  <2>6. ASSUME NEW k \in DOMAIN p.batch, p.batch[k].pay.rec = r, Follows(p, k),
               row.ver > 0
        PROVE  row.ver > p.batch[k].pay.base
    <3>1. k \in DOMAIN p.results /\ p.results[k].status = "accepted"
      BY <1>1, <2>6, FollowTells
    <3>2. /\ AckVersion(p.results[k]) \in Nat
          /\ AckVersion(p.results[k]) <= srv.row[r].ver
          /\ p.batch[k] \in ClientChange
      BY <1>1, <2>6, <3>1, AcceptTells
    <3>3. p.batch[k].pay.base \in Nat
      BY <3>2, ChangeFields
    <3>4. row.ver = srv.row[r].ver
      BY <2>2, <2>3, <2>6
    <3> QED BY <2>1, <2>6, <3>2, <3>3, <3>4 DEF Follows
  <2>7. q.pc = "downloaded" =>
           /\ PullSafe(srv, Excused, r, loc, q.rows[r])
           /\ \A k \in DOMAIN p.batch :
                 p.batch[k].pay.rec = r /\ Follows(p, k)
                 /\ q.rows[r].ver > 0 => q.rows[r].ver > p.batch[k].pay.base
    BY <1>6, <2>5, <2>6 DEF row
  <2>8. RecSafe(srv, Excused, r, loc, E, ed, q)
    BY <1>6, <1>7, <2>1, <2>7, PassMoves
  <2> QED BY <1>3, <2>8, SameSafe DEF RecordSafe, E, loc, ed
<1>9. q.pc # "idle"
  BY <1>5, <1>6
<1> QED BY <1>2, <1>3, <1>8, <1>9, QuietWorkerSafe DEF S

LEMMA PullFailsSafe ==
    ASSUME Safe, NEW c \in Client, PullFails(c)
    PROVE  Safe'
<1> DEFINE S == cl[c]
           p == pass[c]
           pc == "done"
           q == Repulled(p, pc, NoRows, 0)
<1>1. Caught /\ p \in Pass
  BY PassView
<1>2. Caught'
  BY <1>1, PullFailsCaught
<1>3. /\ Worker(c, S, q)
      /\ srv' = srv
      /\ editor' = editor
      /\ late' = late
      /\ p.pc \in {"settled", "downloaded"}
  BY DEF PullFails, Repulled
<1>4. pc = "done"
  OBVIOUS
<1> HIDE DEF pc
<1>5. /\ q.pc = pc
      /\ q.batch = p.batch
      /\ q.results = p.results
      /\ q.todo = p.todo
  BY <1>1, RepulledParts
<1>6. ~Waiting(p) /\ ~Waiting(q) /\ q.pc # "downloaded" /\ q.pc # "idle"
  BY <1>3, <1>4, <1>5 DEF Waiting
<1> HIDE DEF q, S, p
<1>7. ASSUME NEW r \in Rec
      PROVE  RecordSafe(srv, Excused, used[c], S, S, editor'[c], q, r)
  <2>1. RecSafe(srv, Excused, r, S.local[r], EntriesOf(S, r), editor[c], p)
    BY RecordView DEF S, p
  <2>2. q.pc = "downloaded" =>
           /\ PullSafe(srv, Excused, r, S.local[r], q.rows[r])
           /\ \A k \in DOMAIN p.batch :
                 p.batch[k].pay.rec = r /\ Follows(p, k)
                 /\ q.rows[r].ver > 0 => q.rows[r].ver > p.batch[k].pay.base
    BY <1>6
  <2>3. RecSafe(srv, Excused, r, S.local[r], EntriesOf(S, r), editor[c], q)
    BY <1>5, <1>6, <2>1, <2>2, PassMoves
  <2> QED BY <1>3, <2>3, SameSafe DEF RecordSafe
<1> QED BY <1>2, <1>3, <1>6, <1>7, QuietWorkerSafe DEF S

LEMMA CrashSafe ==
    ASSUME Safe, NEW c \in Client, Crash(c)
    PROVE  Safe'
<1>1. Caught' /\ editor \in [Client -> Editor]
  BY CrashCaught, PassView DEF Safe, Traced, WellFormed, TypeOK
<1>2. /\ Worker(c, cl[c], NoPass)
      /\ srv' = srv
      /\ late' = late
      /\ editor' = [editor EXCEPT ![c] = Closed]
  BY DEF Crash
<1>3. /\ \A d \in Client \ {c} : editor'[d] = editor[d]
      /\ editor'[c] = Closed
  BY <1>1, <1>2
<1>4. ASSUME NEW r \in Rec
      PROVE  RecordSafe(srv, Excused, used[c], cl[c], cl[c], editor'[c], NoPass,
                        r)
  <2>1. RecSafe(srv, Excused, r, cl[c].local[r], EntriesOf(cl[c], r),
                editor[c], pass[c])
    BY RecordView
  <2>2. FormSafe(srv, Excused, r, EntriesOf(cl[c], r), Closed)
    BY ClosedForm DEF FormSafe
  <2>3. RecSafe(srv, Excused, r, cl[c].local[r], EntriesOf(cl[c], r), Closed,
                NoPass)
    BY <2>1, <2>2, PassEnds
  <2> QED BY <1>3, <2>3, SameSafe DEF RecordSafe
<1>5. NoPass.batch = <<>>
  BY NoPassParts
<1> QED BY <1>1, <1>2, <1>3, <1>4, <1>5, QuietWorkerSafe

LEMMA FailBatchSafe ==
    ASSUME Safe, NEW c \in Client, FailBatch(c)
    PROVE  Safe'
<1> DEFINE S == cl[c]
           p == pass[c]
           ids == BatchIds(c)
<1>1. /\ Caught
      /\ S \in Store
      /\ Distinct(S)
      /\ BatchSound(S, c, used[c], p.batch)
  BY PassView
<1>2. Caught'
  BY <1>1, FailBatchCaught
<1>3. PICK T : Worker(c, T, NoPass) /\ (T = Defer(S, ids) \/ T = Refuse(S, ids))
  BY DEF FailBatch, Refuse
<1>4. /\ T.local = S.local
      /\ \A r \in Rec : Touches(EntriesOf(S, r), EntriesOf(T, r), ids)
  BY <1>1, <1>3, DeferView, RefuseView
<1>5. srv' = srv /\ editor' = editor /\ late' = late /\ Waiting(p)
  BY DEF FailBatch, Waiting
<1>6. ASSUME NEW r \in Rec
      PROVE  RecordSafe(srv, Excused, used[c], S, T, editor'[c], NoPass, r)
  <2> DEFINE E == EntriesOf(S, r)
             F == EntriesOf(T, r)
             loc == S.local[r]
             ed == editor[c]
  <2>1. /\ RecSafe(srv, Excused, r, loc, E, ed, p)
        /\ E \in SUBSET OutboxEntry
    BY RecordView
  <2>2. ASSUME NEW x \in E, x.id \in ids
        PROVE  ~IsConflict(x)
    <3>1. PICK k \in DOMAIN p.batch : x.id = p.batch[k].id
      BY <2>2 DEF BatchIds
    <3>2. x \in S.box /\ x.rec = r
      BY DEF EntriesOf
    <3>3. p.batch[k].pay.rec = r
      BY <1>1, <3>1, <3>2 DEF BatchSound
    <3>4. ChangeSafe(srv, Excused, r, loc, E, ed, p, k)
      BY <2>1, <3>3 DEF RecSafe
    <3> QED BY <1>5, <3>1, <3>4 DEF ChangeSafe
  <2>3. Touches(E, F, ids)
    BY <1>4
  <2> HIDE DEF E, F, loc, ed, ids
  <2>4. RecSafe(srv, Excused, r, loc, E, ed, NoPass)
    BY <2>1, PassEnds DEF RecSafe
  <2>5. TouchFits(E, r, NoPass, ids)
    <3>1. ~Waiting(NoPass)
      BY NoPassParts DEF Waiting
    <3> QED BY <2>1, <2>2, <3>1 DEF TouchFits
  <2>6. /\ RecSafe(srv, Excused, r, loc, F, ed, NoPass)
        /\ KeepsTried(used[c], E, F)
        /\ Carries(srv, Excused, r, E, F)
    BY <2>3, <2>4, <2>5, TouchesSafe
  <2> QED BY <1>4, <1>5, <2>6 DEF RecordSafe, E, F, loc, ed
<1>7. NoPass.batch = <<>>
  BY NoPassParts
<1> QED BY <1>2, <1>3, <1>5, <1>6, <1>7, QuietWorkerSafe

\* The version a form is moved on to has what the form has.
LEMMA FollowedStamp ==
    ASSUME Safe, NEW c \in Client, pass[c].pc = "done", NEW r \in Rec,
           editor[c].rec = r, editor[c].base \in Nat
    PROVE  Stamp(srv, Excused, r, Followed(c, r, editor[c].base), editor[c].val)
<1> DEFINE ed == editor[c]
           b == ed.base
           v == Followed(c, r, b)
           p == pass[c]
           E == EntriesOf(cl[c], r)
           loc == cl[c].local[r]
           X == Excused
<1>1. /\ Traced
      /\ ServerSound(srv)
      /\ ReceiptsSafe(srv, X)
      /\ PassSound(srv, cl[c], c, used[c], p)
  BY PassView
<1>2. RecSafe(srv, X, r, loc, E, ed, p) /\ WellFormed
  BY RecordView DEF Traced
<1>3. Stamp(srv, X, r, b, ed.val)
  BY <1>2 DEF RecSafe, FormSafe
<1>4. CASE v = b
  BY <1>3, <1>4
<1>5. ASSUME NEW k \in DOMAIN p.results,
             p.results[k].status = "accepted",
             AckVersion(p.results[k]) > 0,
             p.results[k].rec = r,
             p.batch[k].pay.base = b,
             v = AckVersion(p.results[k])
      PROVE  Stamp(srv, X, r, v, ed.val)
  <2> DEFINE ch == p.batch[k]
             rc == srv.rcpt[ch.id]
             ack == AckVersion(p.results[k])
  <2> HIDE DEF p, X, v, b
  <2>1. /\ k \in DOMAIN p.batch
        /\ ch \in ClientChange
        /\ p.results[k].rec = ch.pay.rec
        /\ srv.row[ch.pay.rec].ver \in Nat
        /\ ack \in Nat
        /\ ack <= srv.row[ch.pay.rec].ver
        /\ rc \in ProperReceipt
        /\ rc.status = "accepted"
        /\ rc.pay = ch.pay
        /\ rc.ver > 0 => ack = rc.ver
        /\ ReceiptSound(srv, rc)
        /\ ReceiptSafe(srv, X, rc)
    BY <1>1, <1>5, AcceptTells
  <2>2. rc.ver \in Nat /\ b \in Nat /\ ch.pay.rec = r /\ v = ack /\ ack > 0
    BY <1>5, <2>1 DEF ProperReceipt, b
  <2>3. ch.pay.base = b
    BY <1>5
  <2>4. CASE ack > b
    <3>1. Follows(p, k)
      BY <1>5, <2>4 DEF Follows
    <3>2. ChangeSafe(srv, X, r, loc, E, ed, p, k)
      BY <1>2, <2>1, <2>2 DEF RecSafe
    <3>3. /\ ch.pay.op = "upsert"
          /\ ch.pay.val \subseteq ed.val \cup X
      BY <2>3, <3>1, <3>2 DEF ChangeSafe, b
    <3>4. rc.ver > 0
      BY <2>1, <3>3 DEF ReceiptSound
    <3>5. Stamp(srv, X, r, rc.ver, ch.pay.val)
      BY <2>1, <2>2, <3>3 DEF ReceiptSafe
    <3>6. Stamp(srv, X, r, rc.ver, ed.val)
      BY <3>3, <3>5 DEF Stamp
    <3> QED BY <2>1, <2>2, <3>4, <3>6
  <2>5. CASE ~(ack > b)
    <3>1. b < rc.ver \/ (rc.ver = 0 /\ b <= 1)
      BY <2>1, <2>3 DEF ReceiptSafe
    <3> HIDE DEF rc, ack
    <3>2. v = b
      BY <2>1, <2>2, <2>5, <3>1
    <3> QED BY <1>3, <3>2
  <2> QED BY <2>4, <2>5
<1> QED BY <1>2, <1>4, <1>5, FollowedCases

LEMMA FinishSafe ==
    ASSUME Safe, NEW c \in Client, Finish(c)
    PROVE  Safe'
<1>1. Caught' /\ TypeOK
  BY FinishCaught, PassView DEF Safe, Traced, WellFormed
<1>2. /\ Worker(c, cl[c], NoPass)
      /\ srv' = srv
      /\ late' = late
      /\ pass[c].pc = "done"
  BY DEF Finish
<1>3. /\ \A d \in Client \ {c} : editor'[d] = editor[d]
      /\ \A r \in Rec : FormSafe(srv, Excused, r, EntriesOf(cl[c], r),
                                 editor'[c])
  <2>1. \A r \in Rec : FormSafe(srv, Excused, r, EntriesOf(cl[c], r), editor[c])
    BY RecordView DEF RecSafe
  <2>2. CASE editor[c] = Closed
    BY <2>1, <2>2 DEF Finish
  <2>3. CASE editor[c] # Closed
    <3> DEFINE ed == editor[c]
               b == Followed(c, ed.rec, ed.base)
               form == [ed EXCEPT !.base = b]
    <3>1. editor' = [editor EXCEPT ![c] = form]
      BY <2>3 DEF Finish
    <3>2. ed \in [rec: Rec, base: Nat, val: Val]
      BY <1>1, <2>3, OpenForm
    <3>3. Stamp(srv, Excused, ed.rec, b, ed.val)
      BY <1>2, <3>2, FollowedStamp
    <3> HIDE DEF b
    <3>4. form.rec = ed.rec /\ form.base = b /\ form.val = ed.val
      BY <3>2
    <3> HIDE DEF form
    <3>5. /\ \A d \in Client \ {c} : editor'[d] = editor[d]
          /\ editor'[c] = form
      BY <1>1, <3>1 DEF TypeOK
    <3>6. ASSUME NEW r \in Rec
          PROVE  FormSafe(srv, Excused, r, EntriesOf(cl[c], r), form)
      BY <2>1, <3>3, <3>4 DEF FormSafe
    <3> QED BY <3>5, <3>6
  <2> QED BY <2>2, <2>3
<1>4. ASSUME NEW r \in Rec
      PROVE  RecordSafe(srv, Excused, used[c], cl[c], cl[c], editor'[c], NoPass,
                        r)
  <2>1. RecSafe(srv, Excused, r, cl[c].local[r], EntriesOf(cl[c], r),
                editor[c], pass[c])
    BY RecordView
  <2>2. FormSafe(srv, Excused, r, EntriesOf(cl[c], r), editor'[c])
    BY <1>3
  <2> DEFINE form == editor'[c]
  <2> HIDE DEF form
  <2>3. RecSafe(srv, Excused, r, cl[c].local[r], EntriesOf(cl[c], r), form,
                NoPass)
    BY <2>1, <2>2, PassEnds DEF form
  <2> QED BY <2>3, SameSafe DEF RecordSafe, form
<1>5. NoPass.batch = <<>>
  BY NoPassParts
<1> QED BY <1>1, <1>2, <1>3, <1>4, <1>5, QuietWorkerSafe

-----------------------------------------------------------------------------
(* The batch is sent                                                       *)

LEMMA BatchFits ==
    ASSUME Safe, NEW c \in Client
    PROVE  AllFit(srv, Excused, pass[c].batch)
<1> SUFFICES ASSUME NEW k \in 1..Len(pass[c].batch)
             PROVE  Fits(srv, Excused, pass[c].batch[k].pay)
  BY DEF AllFit
<1>1. pass[c].batch \in Seq(ClientChange)
  BY PassView
<1>2. k \in DOMAIN pass[c].batch /\ pass[c].batch[k] \in ClientChange
  BY <1>1
<1>3. PICK r \in Rec : r = pass[c].batch[k].pay.rec
  BY <1>2, ChangeFields
<1>4. RecSafe(srv, Excused, r, cl[c].local[r], EntriesOf(cl[c], r), editor[c],
              pass[c])
  BY RecordView
<1> QED BY <1>2, <1>3, <1>4 DEF RecSafe, ChangeSafe

LEMMA TouchesCarry ==
    ASSUME NEW w, NEW X, NEW r, NEW E, NEW F, NEW ids, Touches(E, F, ids), NEW n
    PROVE  KeepsTried(n, E, F) /\ Carries(w, X, r, E, F)
BY DEF Touches, Touched, SameWork, KeepsTried, Carries

\* A request that has no effect.
LEMMA NothingHandled ==
    ASSUME NEW w, ServerSound(w), NEW X, ReceiptsSafe(w, X), NEW batch
    PROVE  Handled(w, X, w, batch)
<1>1. w \in ProperWork
  BY DEF ServerSound
<1>2. NewReaches(w, w, batch)
  BY DEF NewReaches
<1> QED BY <1>1, <1>2, AdvancesReflexive, KeepsAllReflexive
     DEF Handled, SafeSofar

\* The entries that are sent are marked, and the server has the tables v.
LEMMA SentRecord ==
    ASSUME Safe, NEW c \in Client, pass[c].pc = "selected",
           NEW v, Handled(srv, Excused, v, pass[c].batch), NEW T,
           T = MarkAttempted(cl[c], BatchIds(c)), NEW q, Waiting(q),
           q.batch = pass[c].batch, NEW r \in Rec
    PROVE  RecordSafe(v, Excused, used[c], cl[c], T, editor[c], q, r)
<1> DEFINE S == cl[c]
           p == pass[c]
           ids == BatchIds(c)
           E == EntriesOf(S, r)
           F == EntriesOf(T, r)
           loc == S.local[r]
           ed == editor[c]
           batch == p.batch
           X == Excused
<1>1. /\ S \in Store
      /\ Distinct(S)
      /\ BatchSound(S, c, used[c], batch)
      /\ GoodBatch(batch)
      /\ batch \in Seq(ClientChange)
      /\ PassSound(srv, S, c, used[c], p)
  BY PassView
<1>2. /\ T \in Store
      /\ T.local = S.local
      /\ Touches(E, F, ids)
  BY <1>1, MarkAttemptedView
<1>3. /\ RecSafe(srv, X, r, loc, E, ed, p)
      /\ E \in SUBSET OutboxEntry
      /\ ViewSound(r, loc, E)
      /\ ed \in Editor
  BY RecordView, SafeView
<1>4. Waiting(p)
  BY DEF Waiting
<1>5. ASSUME NEW x \in E, x.id \in ids
      PROVE  \E k \in DOMAIN batch : /\ x.id = batch[k].id
                                     /\ batch[k].pay.rec = r
                                     /\ ~IsConflict(x)
  <2>1. PICK k \in DOMAIN batch : x.id = batch[k].id
    BY <1>5 DEF BatchIds
  <2>2. x \in S.box /\ x.rec = r
    BY DEF EntriesOf
  <2>3. batch[k].pay.rec = r
    BY <1>1, <2>1, <2>2 DEF BatchSound
  <2>4. ChangeSafe(srv, X, r, loc, E, ed, p, k)
    BY <1>3, <2>3 DEF RecSafe
  <2> QED BY <1>4, <2>1, <2>3, <2>4 DEF ChangeSafe
<1>6. DOMAIN batch = 1..Len(batch)
  BY <1>1
<1>7. ASSUME NEW x \in E, x.id \in ids, NEW k \in DOMAIN batch,
             batch[k].pay.rec = r
      PROVE  x.id = batch[k].id
  BY <1>1, <1>5, <1>6, <1>7 DEF GoodBatch
<1>8. \A k \in 1..Len(batch) : batch[k].id \in ids
  BY <1>6 DEF BatchIds
<1> HIDE DEF S, p, ids, E, F, loc, ed
<1>9. TouchFits(E, r, p, ids)
  BY <1>3, <1>5, <1>7 DEF TouchFits
<1> HIDE DEF batch, X
<1>10. RecSafe(srv, X, r, loc, F, ed, p)
  BY <1>2, <1>3, <1>9, TouchesSafe
<1>11. RecSafe(srv, X, r, loc, F, ed, q)
  BY <1>4, <1>10, PassWaits DEF p
<1>12. \A y \in F : y \in OutboxEntry /\ y.rec = r
  BY <1>2, StoreFields DEF F, EntriesOf
<1>13. SentTried(F, batch)
  <2> SUFFICES ASSUME NEW k \in 1..Len(batch), NEW y \in F, y.id = batch[k].id
               PROVE  y.tried /\ y.rec = batch[k].pay.rec
    BY DEF SentTried
  <2>1. PICK x \in E : x.id = y.id /\ (x.id \in ids => y.tried)
    BY <1>2 DEF Touches, Touched, SameWork
  <2>2. x.id \in ids
    BY <1>8, <2>1
  <2>3. x \in S.box /\ x.rec = r /\ k \in DOMAIN batch
    BY <1>6 DEF E, EntriesOf, batch
  <2>4. batch[k].pay.rec = r
    BY <1>1, <2>1, <2>3 DEF BatchSound
  <2> QED BY <1>12, <2>1, <2>2, <2>4
<1>14. PartsTyped(r, loc, F, ed, p)
  <2>1. ViewSound(r, loc, F)
    <3>1. \A y \in F : \E x \in E : y.op = x.op /\ y.val = x.val
      BY <1>2 DEF Touches, Touched, SameWork
    <3>2. \A y \in F : Shows(loc, y)
      BY <1>3, <3>1 DEF ViewSound, Shows
    <3>3. \A x, y \in F : x = y
      BY <1>2 DEF Touches
    <3> QED BY <1>3, <1>12, <3>2, <3>3 DEF ViewSound
  <2>2. ed.rec = r => ed.base \in Nat
    BY <1>3, EngineAssumption DEF Editor, Closed
  <2> QED BY <1>1, <2>1, <2>2, PassFields DEF PartsTyped
<1>15. Handled(srv, X, v, batch)
  BY DEF X, batch, p
<1>16. RecSafe(v, X, r, loc, F, ed, p)
  BY <1>10, <1>13, <1>14, <1>15, RecHandled
<1>17. RecSafe(v, X, r, loc, F, ed, q)
  BY <1>4, <1>16, PassWaits DEF p
<1>18. KeepsTried(used[c], E, F) /\ Carries(v, X, r, E, F)
  BY <1>2, TouchesCarry
<1> QED BY <1>2, <1>17, <1>18 DEF RecordSafe, S, p, E, F, loc, ed, X

LEMMA SentAllTried ==
    ASSUME Safe, NEW c \in Client
    PROVE  AllTried(MarkAttempted(cl[c], BatchIds(c)), pass[c].batch)
<1> DEFINE S == cl[c]
           T == MarkAttempted(S, BatchIds(c))
           batch == pass[c].batch
<1>1. S \in Store /\ Distinct(S) /\ batch \in Seq(ClientChange)
  BY PassView
<1>2. /\ T \in Store
      /\ \A r \in Rec : Touches(EntriesOf(S, r), EntriesOf(T, r), BatchIds(c))
  BY <1>1, MarkAttemptedView
<1>3. \A k \in 1..Len(batch) : batch[k].id \in BatchIds(c)
  BY <1>1 DEF BatchIds
<1> HIDE DEF T
<1>4. ASSUME NEW k \in 1..Len(batch), NEW y \in T.box, y.id = batch[k].id
      PROVE  y.tried
  <2>1. y \in OutboxEntry /\ y.rec \in Rec
    BY <1>2, StoreFields, EntryFields
  <2>2. y \in EntriesOf(T, y.rec)
    BY DEF EntriesOf
  <2>3. y.id \in BatchIds(c)
    BY <1>3, <1>4
  <2> QED BY <1>2, <2>1, <2>2, <2>3 DEF Touches, Touched, SameWork
<1> QED BY <1>4 DEF AllTried, T

\* What a request does (push_changes).
LEMMA PushHandled ==
    ASSUME NEW w, ServerSound(w), NEW u \in User, NEW batch, GoodBatch(batch),
           NEW X, ReceiptsSafe(w, X), AllFit(w, X, batch),
           NEW fails \in BOOLEAN
    PROVE  Handled(w, X, PushChanges(w, u, batch, fails).work, batch)
<1> DEFINE o == PushChanges(w, u, batch, fails)
<1>1. ServerSound(o.work) /\ Advances(w, o.work)
  BY AnswerSound
<1>2. SafeSofar(w, X, batch, o.work)
  BY PushSafe
<1> QED BY <1>1, <1>2 DEF Handled, ServerSound

LEMMA PushStepSafe ==
    ASSUME Safe, NEW c \in Client, NEW fails \in BOOLEAN, Push(c, fails)
    PROVE  Safe'
<1> DEFINE S == cl[c]
           p == pass[c]
           o == PushChanges(srv, c, p.batch, fails)
           res == Results(o.done)
           T == MarkAttempted(S, BatchIds(c))
           q == [p EXCEPT !.pc = "answered", !.results = res]
           v == o.work
<1>1. /\ Caught
      /\ ServerSound(srv)
      /\ ReceiptsSafe(srv, Excused)
      /\ p \in Pass
      /\ GoodBatch(p.batch)
      /\ BatchSound(S, c, used[c], p.batch)
  BY PassView
<1>2. Caught'
  BY <1>1, PushCaught
<1>3. /\ p.pc = "selected"
      /\ srv' = v
      /\ Worker(c, T, q)
      /\ late' = late
      /\ editor' = editor
  BY DEF Push
<1>4. Handled(srv, Excused, v, p.batch)
  BY <1>1, BatchFits, PushHandled, UserIsClient
<1> HIDE DEF o, res, v
<1>5. q.pc = "answered" /\ q.batch = p.batch
  BY <1>1, PassParts
<1> HIDE DEF q
<1>6. Waiting(q) /\ q.pc # "idle"
  BY <1>5 DEF Waiting
<1>7. \A r \in Rec : RecordSafe(v, Excused, used[c], S, T, editor[c], q, r)
  BY <1>3, <1>4, <1>5, <1>6, SentRecord
<1>8. SafeElse(v, Excused, c)
  BY <1>1, <1>4, OthersHandled
<1>9. Advances(srv, v) /\ KeepsAll(srv, v, Excused)
  BY <1>4 DEF Handled, SafeSofar
<1>10. /\ Advances(srv, srv')
       /\ KeepsAll(srv, srv', Excused)
       /\ SafeElse(srv', Excused, c)
       /\ \A r \in Rec : RecordSafe(srv', Excused, used[c], cl[c], T,
                                    editor'[c], q, r)
  BY <1>3, <1>7, <1>8, <1>9
<1>11. /\ \A m \in late' : m \in late
       /\ \A d \in Client \ {c} : editor'[d] = editor[d]
  BY <1>3
<1> QED BY <1>2, <1>3, <1>6, <1>10, <1>11, WorkerSafe

LEMMA PushFailsSafe ==
    ASSUME Safe, NEW c \in Client, NEW outcome, PushFails(c, outcome)
    PROVE  Safe'
<1> DEFINE S == cl[c]
           p == pass[c]
           T == MarkAttempted(S, BatchIds(c))
           pc == IF outcome = "denied" THEN "denied" ELSE "failed"
           q == [p EXCEPT !.pc = pc]
           m == [user |-> c, batch |-> p.batch]
<1>1. /\ Caught
      /\ ServerSound(srv)
      /\ ReceiptsSafe(srv, Excused)
      /\ p \in Pass
      /\ GoodBatch(p.batch)
      /\ BatchSound(S, c, used[c], p.batch)
  BY PassView
<1>2. Caught'
  BY <1>1, PushFailsCaught
<1>3. /\ p.pc = "selected"
      /\ Worker(c, T, q)
      /\ editor' = editor
      /\ late' = late \/ late' = late \cup {m}
  BY DEF PushFails
<1>4. PICK v : srv' = v /\ Handled(srv, Excused, v, p.batch)
  <2> DEFINE v == PushChanges(srv, c, p.batch, FALSE).work
  <2>1. srv' = v \/ srv' = srv
    BY DEF PushFails
  <2>2. Handled(srv, Excused, v, p.batch)
    BY <1>1, BatchFits, PushHandled, UserIsClient
  <2>3. Handled(srv, Excused, srv, p.batch)
    BY <1>1, NothingHandled
  <2> HIDE DEF v
  <2> QED BY <2>1, <2>2, <2>3
<1>5. pc \in {"denied", "failed"}
  OBVIOUS
<1> HIDE DEF pc
<1>6. q.pc = pc /\ q.batch = p.batch
  BY <1>1, PassParts
<1> HIDE DEF q
<1>7. Waiting(q) /\ q.pc # "idle"
  BY <1>5, <1>6 DEF Waiting
<1>8. \A r \in Rec : RecordSafe(v, Excused, used[c], S, T, editor[c], q, r)
  BY <1>3, <1>4, <1>6, <1>7, SentRecord
<1>9. SafeElse(v, Excused, c)
  BY <1>1, <1>4, OthersHandled
<1>10. /\ Advances(srv, v)
       /\ KeepsAll(srv, v, Excused)
       /\ srv \in ProperWork
       /\ v \in ProperWork
  BY <1>4 DEF Handled, SafeSofar
<1>11. AllFit(v, Excused, p.batch)
  <2>1. ASSUME NEW k \in 1..Len(p.batch)
        PROVE  Fits(v, Excused, p.batch[k].pay)
    <3>1. p.batch[k] \in ClientChange
      BY <1>1 DEF GoodBatch
    <3>2. p.batch[k].pay \in Payload
      BY <3>1, ChangeFields
    <3>3. Fits(srv, Excused, p.batch[k].pay)
      BY BatchFits DEF AllFit
    <3> QED BY <1>10, <3>2, <3>3, FitsKept
  <2> QED BY <2>1 DEF AllFit
<1>12. AllTried(T, p.batch)
  BY SentAllTried
<1> HIDE DEF T
<1>13. \A b \in late' :
          \/ b \in late
          \/ /\ b = [user |-> c, batch |-> pass[c].batch]
             /\ AllFit(srv', Excused, pass[c].batch)
             /\ AllTried(T, pass[c].batch)
  BY <1>3, <1>4, <1>11, <1>12
<1>14. /\ Advances(srv, srv')
       /\ KeepsAll(srv, srv', Excused)
       /\ SafeElse(srv', Excused, c)
       /\ \A r \in Rec : RecordSafe(srv', Excused, used[c], cl[c], T,
                                    editor'[c], q, r)
  BY <1>3, <1>4, <1>8, <1>9, <1>10
<1>15. \A d \in Client \ {c} : editor'[d] = editor[d]
  BY <1>3
<1> QED BY <1>2, <1>3, <1>7, <1>13, <1>14, <1>15, WorkerSafe

LEMMA LateDeliverySafe ==
    ASSUME Safe, NEW m \in late, LateDelivery(m)
    PROVE  Safe'
<1> DEFINE v == PushChanges(srv, m.user, m.batch, FALSE).work
<1>1. /\ Caught
      /\ Traced
      /\ SafeBy(srv, Excused)
      /\ WellFormed
      /\ TypeOK
      /\ ServerSound(srv)
  BY DEF Safe, Caught, Traced, WellFormed
<1>2. Caught'
  BY <1>1, LateDeliveryCaught
<1>3. /\ srv' = v
      /\ cl' = cl
      /\ pass' = pass
      /\ editor' = editor
      /\ free' = free
      /\ Excused' = Excused
      /\ late' = late \ {m}
  BY DEF LateDelivery, history, Excused
<1>4. PICK c \in Client : c = m.user /\ c \in User
  BY <1>1, UserIsClient DEF TypeOK
<1>5. /\ BatchSound(cl[c], c, used[c], m.batch)
      /\ GoodBatch(m.batch)
      /\ ReceiptsSafe(srv, Excused)
      /\ AllFit(srv, Excused, m.batch)
      /\ AllTried(cl[c], m.batch)
  BY <1>1, <1>4 DEF WellFormed, BatchSound, SafeBy
<1>6. Handled(srv, Excused, v, m.batch)
  BY <1>1, <1>4, <1>5, PushHandled
<1> HIDE DEF v
<1>7. SafeElse(v, Excused, c)
  BY <1>5, <1>6, OthersHandled
<1>8. /\ StoreSound(cl[c], c, used[c])
      /\ PassSound(srv, cl[c], c, used[c], pass[c])
      /\ editor[c] \in Editor
      /\ DeviceSafe(srv, Excused, cl[c], editor[c], pass[c])
  BY <1>1, SafeView, TracedView
<1>9. SentTried(cl[c].box, m.batch)
  <2>1. m.batch \in Seq(ClientChange)
    BY <1>5 DEF GoodBatch
  <2>2. DOMAIN m.batch = 1..Len(m.batch)
    BY <2>1
  <2> QED BY <1>5, <2>2 DEF SentTried, AllTried, BatchSound
<1>10. DeviceSafe(v, Excused, cl[c], editor[c], pass[c])
  BY <1>6, <1>8, <1>9, DeviceHandled
<1>11. \A r \in Rec : RecordSafe(v, Excused, used[c], cl[c], cl[c], editor[c],
                                 pass[c], r)
  BY <1>10, SameSafe DEF DeviceSafe, RecordSafe
<1>12. Advances(srv, v) /\ KeepsAll(srv, v, Excused)
  BY <1>6 DEF Handled, SafeSofar
<1>13. /\ \A d \in Client \ {c} : /\ cl'[d] = cl[d]
                                  /\ pass'[d] = pass[d]
                                  /\ editor'[d] = editor[d]
       /\ Excused \subseteq Excused'
       /\ Advances(srv, srv')
       /\ KeepsAll(srv, srv', Excused')
       /\ SafeElse(srv', Excused', c)
       /\ \A q \in late' : q \in late
       /\ \A r \in Rec : RecordSafe(srv', Excused', used[c], cl[c], cl'[c],
                                    editor'[c], pass'[c], r)
       /\ \A e \in free \ free' : QueuedOn(cl'[c], e)
  BY <1>3, <1>7, <1>11, <1>12
<1>14. pass'[c].pc = "idle" => pass'[c].batch = <<>>
  BY <1>3, <1>8 DEF DeviceSafe
<1> QED BY <1>2, <1>13, <1>14, SafeStep

-----------------------------------------------------------------------------
(* The answer is applied                                                   *)

\* The pass p goes on to q when the answer has been applied to record r.
Applies(p, q) ==
    /\ q.batch = p.batch
    /\ q.results = p.results
    /\ q.pc \in {"settled", "acked"}

\* Change k once its record has the row row and the entries F.
ChangeApplied(r, ed, p, q, k, row, F) ==
    /\ k \in q.todo => \A x \in F : x.id = p.batch[k].id =>
           ~IsConflict(x) /\ AsChange(x) = p.batch[k]
    /\ Follows(p, k) => row.ver > p.batch[k].pay.base \/ (row.del /\ ed.rec # r)

LEMMA AppliedRecord ==
    ASSUME NEW w, NEW X, NEW r, NEW loc, NEW E, NEW ed, NEW p,
           RecSafe(w, X, r, loc, E, ed, p), NEW q, Applies(p, q),
           NEW row, NEW F, RowSafe(w, X, r, row, F),
           \A x \in F : EntrySafe(w, X, r, row, x),
           FormSafe(w, X, r, F, ed),
           \A k \in DOMAIN p.batch : p.batch[k].pay.rec = r =>
              ChangeApplied(r, ed, p, q, k, row, F)
    PROVE  RecSafe(w, X, r, row, F, ed, q)
<1>1. ~Waiting(q) /\ q.pc # "downloaded"
  BY DEF Waiting, Applies
<1>2. ASSUME NEW k \in DOMAIN q.batch, q.batch[k].pay.rec = r
      PROVE  ChangeSafe(w, X, r, row, F, ed, q, k)
  <2>1. /\ ChangeSafe(w, X, r, loc, E, ed, p, k)
        /\ ChangeApplied(r, ed, p, q, k, row, F)
        /\ q.batch = p.batch
    BY <1>2 DEF RecSafe, Applies
  <2>2. Follows(q, k) <=> Follows(p, k)
    BY DEF Follows, Applies
  <2>3. /\ Fits(w, X, q.batch[k].pay)
        /\ k \in q.todo => \A x \in F : x.id = q.batch[k].id =>
              ~IsConflict(x) /\ AsChange(x) = q.batch[k]
    BY <2>1 DEF ChangeSafe, ChangeApplied
  <2>4. /\ Follows(q, k)
        /\ ed.rec = r
        /\ ed.base = q.batch[k].pay.base
        => /\ q.batch[k].pay.op = "upsert"
           /\ q.batch[k].pay.val \subseteq ed.val \cup X
    BY <2>1, <2>2 DEF ChangeSafe
  <2>5. Follows(q, k) => \/ row.ver > q.batch[k].pay.base
                         \/ row.del /\ ed.rec # r
    BY <2>1, <2>2 DEF ChangeApplied
  <2> QED BY <1>1, <2>3, <2>4, <2>5 DEF ChangeSafe
<1> QED BY <1>1, <1>2 DEF RecSafe

\* The record stays as it is.
LEMMA SameApplied ==
    ASSUME NEW w, NEW X, NEW r, NEW loc, NEW E, NEW ed, NEW p,
           RecSafe(w, X, r, loc, E, ed, p), NEW q, Applies(p, q),
           \A k \in DOMAIN p.batch : p.batch[k].pay.rec = r =>
              ChangeApplied(r, ed, p, q, k, loc, E)
    PROVE  RecSafe(w, X, r, loc, E, ed, q)
<1>1. /\ RowSafe(w, X, r, loc, E)
      /\ \A x \in E : EntrySafe(w, X, r, loc, x)
      /\ FormSafe(w, X, r, E, ed)
  BY DEF RecSafe
<1> QED BY <1>1, AppliedRecord

\* An acceptance without server state moves nothing on.
LEMMA StatelessFollows ==
    ASSUME NEW w, ServerSound(w), NEW X, ReceiptsSafe(w, X), NEW S, NEW c,
           NEW n, NEW p, PassSound(w, S, c, n, p), NEW k \in DOMAIN p.batch,
           k \in DOMAIN p.results => ~HasState(p.results[k])
    PROVE  ~Follows(p, k)
<1> SUFFICES ASSUME Follows(p, k)
             PROVE  FALSE
  OBVIOUS
<1> DEFINE res == p.results[k]
           rc == w.rcpt[p.batch[k].id]
<1>1. k \in DOMAIN p.results /\ res.status = "accepted"
  BY FollowTells
<1>2. /\ p.batch[k] \in ClientChange
      /\ res.ver \in Nat
      /\ rc \in ProperReceipt
      /\ rc.ver > 0 => res.ver >= rc.ver
      /\ ResultSound(w, c, p.batch[k], res)
  BY <1>1, AcceptTells, ResultsOfBatch
<1>3. rc.ver \in Nat /\ p.batch[k].pay.base \in Nat
  BY <1>2, ChangeFields DEF ProperReceipt
<1>4. res.ver = 0
  BY <1>1, <1>2 DEF HasState
<1>5. rc.ver = 0
  BY <1>2, <1>3, <1>4
<1>6. res.rver = 0
  BY <1>1, <1>2, <1>5 DEF ResultSound
<1>7. AckVersion(res) = 0
  BY <1>4, <1>6 DEF AckVersion
<1> QED BY <1>3, <1>7 DEF Follows

\* What is known of the result that is applied to record r.
AckTells(w, X, r, ch, res) ==
    LET v == AckVersion(res)
    IN  /\ ch \in ClientChange
        /\ ch.pay.rec = r
        /\ res.id = ch.id
        /\ res.row \in ProperRow
        /\ res.ver \in Nat
        /\ res.row.ver = res.ver
        /\ res.ver > 0
        /\ CopyOf(w, r, res.row)
        /\ w.row[r].ver \in Nat
        /\ v \in Nat
        /\ v <= res.ver
        /\ v <= w.row[r].ver
        /\ ch.pay.op = "upsert" => /\ Within(w, X, r, ch.pay.val)
                                   /\ Stamp(w, X, r, v, ch.pay.val)

LEMMA AckKnown ==
    ASSUME NEW w, ServerSound(w), NEW X, ReceiptsSafe(w, X), NEW S, NEW c,
           NEW n, NEW p, PassSound(w, S, c, n, p), NEW k \in DOMAIN p.results,
           HasState(p.results[k])
    PROVE  AckTells(w, X, p.results[k].rec, p.batch[k], p.results[k])
<1> DEFINE res == p.results[k]
           ch == p.batch[k]
           rc == w.rcpt[ch.id]
           v == AckVersion(res)
           r == res.rec
<1>1. res.status = "accepted" /\ res.ver > 0
  BY DEF HasState
<1>2. /\ ch \in ClientChange
      /\ ch.pay.rec = r
      /\ res.id = ch.id
      /\ w.row[r].ver \in Nat
      /\ res.ver \in Nat
      /\ v \in Nat
      /\ v <= w.row[r].ver
      /\ rc \in ProperReceipt
      /\ rc.status = "accepted"
      /\ rc.pay = ch.pay
      /\ rc.ver > 0 => v = rc.ver /\ res.ver >= rc.ver
      /\ ReceiptSound(w, rc)
      /\ ReceiptSafe(w, X, rc)
  BY <1>1, AcceptTells
<1>3. ResultSound(w, c, ch, res)
  BY ResultsOfBatch
<1> HIDE DEF res, ch
<1>4. /\ res.row \in ProperRow
      /\ res.row.ver = res.ver
      /\ CopyOf(w, r, res.row)
  BY <1>2, <1>3 DEF ResultSound, ProperResult
<1>5. rc.ver \in Nat
  BY <1>2 DEF ProperReceipt
<1>6. v <= res.ver
  <2>1. CASE rc.ver > 0
    BY <1>2, <1>5, <2>1
  <2>2. CASE rc.ver = 0
    <3>1. res.rver = 0
      BY <1>1, <1>3, <2>2 DEF ResultSound
    <3> QED BY <1>2, <3>1 DEF AckVersion
  <2> QED BY <1>5, <2>1, <2>2
<1>7. ASSUME ch.pay.op = "upsert"
      PROVE  Within(w, X, r, ch.pay.val) /\ Stamp(w, X, r, v, ch.pay.val)
  <2>1. rc.ver > 0
    BY <1>2, <1>7 DEF ReceiptSound
  <2>2. /\ Within(w, X, rc.pay.rec, rc.pay.val)
        /\ Stamp(w, X, rc.pay.rec, rc.ver, rc.pay.val)
    BY <1>2, <1>7 DEF ReceiptSafe
  <2> HIDE DEF rc, v, r
  <2> QED BY <1>2, <2>1, <2>2
<1> HIDE DEF v, r
<1>8. AckTells(w, X, r, ch, res)
  BY <1>1, <1>2, <1>4, <1>6, <1>7 DEF AckTells, v
<1> QED BY <1>8 DEF r, ch, res

\* The record of an acceptance with server state.
AckFits(w, X, r, loc, E, ed, p, q, k) ==
    /\ RecSafe(w, X, r, loc, E, ed, p)
    /\ ViewSound(r, loc, E)
    /\ Waiting(p)
    /\ Applies(p, q)
    /\ k \in DOMAIN p.batch
    /\ \A j \in DOMAIN p.batch : p.batch[j].pay.rec = r => j = k
    /\ AckTells(w, X, r, p.batch[k], p.results[k])

LEMMA AckDrops ==
    ASSUME NEW w, NEW X, NEW r, NEW loc, NEW E, NEW ed, NEW p, NEW q, NEW k,
           AckFits(w, X, r, loc, E, ed, p, q, k), NEW x, E = {x},
           x.id = p.results[k].id, NEW n
    PROVE  /\ RecSafe(w, X, r, AsLocal(p.results[k].row), {}, ed, q)
           /\ KeepsTried(n, E, {})
           /\ Carries(w, X, r, E, {})
<1> DEFINE res == p.results[k]
           ch == p.batch[k]
           row == AsLocal(res.row)
<1>1. /\ RecSafe(w, X, r, loc, E, ed, p)
      /\ ViewSound(r, loc, E)
      /\ Waiting(p)
      /\ Applies(p, q)
      /\ k \in DOMAIN p.batch
      /\ \A j \in DOMAIN p.batch : p.batch[j].pay.rec = r => j = k
      /\ AckTells(w, X, r, ch, res)
  BY DEF AckFits
<1> HIDE DEF res, ch
<1>2. /\ ch \in ClientChange
      /\ ch.pay.rec = r
      /\ res.id = ch.id
      /\ res.row \in ProperRow
      /\ res.ver \in Nat
      /\ res.row.ver = res.ver
      /\ res.ver > 0
      /\ CopyOf(w, r, res.row)
      /\ w.row[r].ver \in Nat
      /\ AckVersion(res) \in Nat
      /\ AckVersion(res) <= res.ver
      /\ ch.pay.op = "upsert" => Within(w, X, r, ch.pay.val)
  BY <1>1 DEF AckTells
<1>3. /\ row.ver = res.ver
      /\ row.val = res.row.val
  BY <1>2, AsLocalType
<1> HIDE DEF row
<1>4. RowSafe(w, X, r, row, {})
  BY <1>2, <1>3 DEF RowSafe, Stamp, CopyOf
<1>5. FormSafe(w, X, r, {}, ed)
  BY <1>1 DEF RecSafe, FormSafe
<1>6. \A y \in {} : EntrySafe(w, X, r, row, y)
  OBVIOUS
<1>7. ASSUME NEW j \in DOMAIN p.batch, p.batch[j].pay.rec = r
      PROVE  ChangeApplied(r, ed, p, q, j, row, {})
  <2>1. j = k
    BY <1>1, <1>7
  <2>2. ch.pay.base \in Nat
    BY <1>2, ChangeFields
  <2>3. Follows(p, k) => row.ver > ch.pay.base
    BY <1>2, <1>3, <2>2 DEF Follows, res, ch
  <2> QED BY <2>1, <2>3 DEF ChangeApplied, ch
<1>8. PICK F : F = {}
  OBVIOUS
<1>9. RecSafe(w, X, r, row, F, ed, q)
  BY <1>1, <1>4, <1>5, <1>6, <1>7, <1>8, AppliedRecord
<1>10. x.val \subseteq X \/ Within(w, X, r, x.val)
  <2>1. /\ x \in OutboxEntry
        /\ Shows(loc, x)
        /\ x.op \in {"upsert", "delete"}
    BY <1>1, EntryFields DEF ViewSound, Ops
  <2>2. ChangeSafe(w, X, r, loc, E, ed, p, k)
    BY <1>1, <1>2 DEF RecSafe, ch
  <2>3. x.id = ch.id
    BY <1>2 DEF res
  <2>4. AsChange(x) = ch
    BY <1>1, <2>2, <2>3 DEF ChangeSafe, ch
  <2>5. x.op = ch.pay.op /\ x.val = ch.pay.val
    BY <2>1, <2>4, AsChangeFields
  <2>6. CASE x.op = "upsert"
    BY <1>2, <2>5, <2>6
  <2>7. CASE x.op = "delete"
    BY <2>1, <2>7 DEF Shows
  <2> QED BY <2>1, <2>6, <2>7
<1>11. KeepsTried(n, E, {}) /\ Carries(w, X, r, E, {})
  BY <1>10 DEF KeepsTried, Carries
<1> QED BY <1>8, <1>9, <1>11 DEF row, res

\* The entry was replaced while its request was on the way.
LEMMA AckMoves ==
    ASSUME NEW w, NEW X, NEW r, NEW loc, NEW E, NEW ed, NEW p, NEW q, NEW k,
           AckFits(w, X, r, loc, E, ed, p, q, k),
           \A x \in E : x.id # p.results[k].id, NEW row, NEW F,
           MovesOn(loc, E, row, F, AckVersion(p.results[k])), NEW n
    PROVE  /\ RecSafe(w, X, r, row, F, ed, q)
           /\ KeepsTried(n, E, F)
           /\ Carries(w, X, r, E, F)
<1> DEFINE res == p.results[k]
           ch == p.batch[k]
           v == AckVersion(res)
<1>1. /\ RecSafe(w, X, r, loc, E, ed, p)
      /\ ViewSound(r, loc, E)
      /\ Waiting(p)
      /\ Applies(p, q)
      /\ k \in DOMAIN p.batch
      /\ \A j \in DOMAIN p.batch : p.batch[j].pay.rec = r => j = k
      /\ AckTells(w, X, r, ch, res)
  BY DEF AckFits
<1>2. /\ \A x \in E : x.id # res.id
      /\ MovesOn(loc, E, row, F, v)
  OBVIOUS
<1> HIDE DEF res, ch
<1>3. /\ ch \in ClientChange
      /\ ch.pay.rec = r
      /\ res.id = ch.id
      /\ w.row[r].ver \in Nat
      /\ v \in Nat
      /\ v <= w.row[r].ver
      /\ ch.pay.op = "upsert" => Stamp(w, X, r, v, ch.pay.val)
  BY <1>1 DEF AckTells
<1>4. ch.pay.op \in {"upsert", "delete"} /\ ch.pay.base \in Nat
  BY <1>3, ChangeFields DEF Ops
<1>5. ChangeSafe(w, X, r, loc, E, ed, p, k)
  BY <1>1, <1>3 DEF RecSafe, ch
<1>6. Succeeds(X, ch, loc, E, ed.rec = r)
  BY <1>1, <1>5 DEF ChangeSafe, ch
<1>7. \A x \in E : /\ ~x.tried
                   /\ x.status = "pending"
                   /\ w.rcpt[x.id] = NoReceipt
                   /\ ~IsConflict(x)
  BY <1>1, <1>2, <1>3, <1>6 DEF Succeeds, RecSafe, EntrySafe, Unsent, IsConflict
<1>8. Follows(p, k) => v > ch.pay.base
  BY DEF Follows, res, ch, v
<1> HIDE DEF v
<1>9. CASE E = {}
  <2>1. row = loc /\ F = E
    BY <1>2, <1>9 DEF MovesOn
  <2>2. loc.del /\ ed.rec # r
    BY <1>6, <1>9 DEF Succeeds
  <2>3. \A j \in DOMAIN p.batch : p.batch[j].pay.rec = r =>
           ChangeApplied(r, ed, p, q, j, loc, E)
    BY <1>9, <2>2 DEF ChangeApplied
  <2>4. RecSafe(w, X, r, loc, E, ed, q)
    BY <1>1, <2>3, SameApplied
  <2> QED BY <2>1, <2>4, SameSafe
<1>10. CASE E # {}
  <2>1. PICK x : /\ E = {x}
                 /\ row = Raised(loc, v)
                 /\ F = {Rebased(x, Larger(x.base, v))}
    BY <1>2, <1>7, <1>10 DEF MovesOn, Waits
  <2> DEFINE b == Larger(x.base, v)
             y == Rebased(x, b)
  <2>2. /\ x \in OutboxEntry
        /\ x.base \in Nat
        /\ loc \in LocalRow
        /\ loc.ver \in Nat
    BY <1>1, <2>1, EntryFields DEF ViewSound, LocalRow
  <2>3. /\ b \in Nat
        /\ (b = x.base \/ b = v)
    BY <1>3, <2>2 DEF Larger
  <2> HIDE DEF b
  <2>4. /\ y.id = x.id
        /\ y.op = x.op
        /\ y.val = x.val
        /\ y.base = b
        /\ y.status = x.status
        /\ y.tried = x.tried
    BY <2>2, <2>3, RebasedFields DEF SameWork
  <2>5. F = {y}
    BY <2>1 DEF b
  <2> HIDE DEF y
  <2>6. /\ row.ver \in Nat
        /\ row.ver >= v
        /\ row.ver = loc.ver \/ row.ver = v
    <3>1. row.ver = Larger(loc.ver, v)
      BY <1>3, <2>1, <2>2, RaisedFields
    <3> QED BY <1>3, <2>2, <3>1 DEF Larger
  <2>7. EntrySafe(w, X, r, loc, x) /\ RowSafe(w, X, r, loc, E)
    BY <1>1, <2>1 DEF RecSafe
  <2>8. RowSafe(w, X, r, row, F)
    BY <1>3, <2>2, <2>5, <2>6, <2>7 DEF RowSafe
  <2>9. EntrySafe(w, X, r, row, y)
    <3>1. /\ ~IsConflict(y)
          /\ Unsent(w, y)
          /\ w.rcpt[y.id] = NoReceipt
      BY <1>7, <2>1, <2>4 DEF Unsent, IsConflict
    <3>2. BaseKnown(w, r, y.base)
      BY <1>3, <2>3, <2>4, <2>7 DEF EntrySafe, BaseKnown
    <3>3. ASSUME y.op = "upsert"
          PROVE  Stamp(w, X, r, y.base, y.val)
      <4>1. CASE b = x.base
        BY <1>7, <2>1, <2>4, <2>7, <3>3, <4>1 DEF EntrySafe
      <4>2. CASE b = v
        <5>1. x.op = "upsert"
          BY <2>4, <3>3
        <5>2. ch.pay.op = "upsert"
          BY <1>4, <1>6, <2>1, <5>1 DEF Succeeds
        <5>3. ch.pay.val \subseteq x.val \cup X
          BY <1>6, <2>1, <5>1, <5>2 DEF Succeeds
        <5>4. Stamp(w, X, r, v, ch.pay.val)
          BY <1>3, <5>2
        <5>5. Stamp(w, X, r, v, x.val)
          BY <5>3, <5>4 DEF Stamp
        <5> QED BY <2>4, <4>2, <5>5
      <4> QED BY <2>3, <4>1, <4>2
    <3> QED BY <3>1, <3>2, <3>3 DEF EntrySafe
  <2>10. FormSafe(w, X, r, F, ed)
    BY <1>1, <2>1, <2>4, <2>5 DEF RecSafe, FormSafe
  <2>11. ASSUME NEW j \in DOMAIN p.batch, p.batch[j].pay.rec = r
         PROVE  ChangeApplied(r, ed, p, q, j, row, F)
    <3>1. j = k
      BY <1>1, <2>11
    <3>2. y.id # ch.id
      BY <1>2, <1>3, <2>1, <2>4
    <3>3. Follows(p, k) => row.ver > ch.pay.base
      BY <1>3, <1>4, <1>8, <2>6
    <3> QED BY <2>5, <3>1, <3>2, <3>3 DEF ChangeApplied, ch
  <2>12. \A z \in F : EntrySafe(w, X, r, row, z)
    BY <2>5, <2>9
  <2>13. RecSafe(w, X, r, row, F, ed, q)
    BY <1>1, <2>8, <2>10, <2>11, <2>12, AppliedRecord
  <2>14. KeepsTried(n, E, F) /\ Carries(w, X, r, E, F)
    BY <2>1, <2>4, <2>5 DEF KeepsTried, Carries
  <2> QED BY <2>13, <2>14
<1> QED BY <1>9, <1>10

LEMMA AcknowledgeSafe ==
    ASSUME Safe, NEW c \in Client, AcknowledgeResults(c)
    PROVE  Safe'
<1> DEFINE S == cl[c]
           p == pass[c]
           T == Acknowledge(S, p.results)
           todo == Unsettled(p.results)
           pc == AfterAnswer(todo)
           q == [p EXCEPT !.pc = pc, !.todo = todo]
           X == Excused
           n == used[c]
<1>1. /\ Caught
      /\ ServerSound(srv)
      /\ ReceiptsSafe(srv, X)
      /\ p \in Pass
      /\ S \in Store
      /\ Distinct(S)
      /\ GoodBatch(p.batch)
      /\ p.batch \in Seq(ClientChange)
      /\ PassSound(srv, S, c, n, p)
  BY PassView
<1>2. Caught'
  BY <1>1, AcknowledgeCaught
<1>3. /\ Worker(c, T, q)
      /\ srv' = srv
      /\ editor' = editor
      /\ late' = late
      /\ p.pc = "answered"
  BY DEF AcknowledgeResults
<1>4. \A r \in Rec : AcksIn(p.results, r, S.local[r], EntriesOf(S, r),
                            T.local[r], EntriesOf(T, r))
  BY <1>1, ResultsOfBatch, AcknowledgeView
<1>5. pc \in {"settled", "acked"}
  BY DEF AfterAnswer
<1> HIDE DEF T, pc
<1>6. /\ q.pc = pc
      /\ q.batch = p.batch
      /\ q.results = p.results
  BY <1>1, PassParts, TodoParts
<1> HIDE DEF q
<1>7. /\ Applies(p, q)
      /\ q.pc # "idle"
      /\ Waiting(p)
  BY <1>3, <1>5, <1>6 DEF Applies, Waiting
<1>8. DOMAIN p.batch = 1..Len(p.batch)
  BY <1>1
<1> HIDE DEF X, n
<1>9. ASSUME NEW r \in Rec
      PROVE  RecordSafe(srv, X, n, S, T, editor[c], q, r)
  <2> DEFINE E == EntriesOf(S, r)
             F == EntriesOf(T, r)
             loc == S.local[r]
             row == T.local[r]
             ed == editor[c]
  <2>1. /\ RecSafe(srv, X, r, loc, E, ed, p)
        /\ ViewSound(r, loc, E)
    BY RecordView DEF X
  <2>2. AcksIn(p.results, r, loc, E, row, F)
    BY <1>4
  <2> HIDE DEF S, E, F, loc, row, ed, p
  <2>3. CASE /\ \A k \in DOMAIN p.results :
                   ~(HasState(p.results[k]) /\ p.results[k].rec = r)
             /\ row = loc
             /\ F = E
    <3>1. ASSUME NEW k \in DOMAIN p.batch, p.batch[k].pay.rec = r
          PROVE  ChangeApplied(r, ed, p, q, k, loc, E)
      <4>1. k \in DOMAIN p.results => ~HasState(p.results[k])
        BY <1>1, <2>3, <3>1, ResultsOfBatch
      <4>2. ~Follows(p, k)
        BY <1>1, <4>1, StatelessFollows
      <4>3. ChangeSafe(srv, X, r, loc, E, ed, p, k)
        BY <2>1, <3>1 DEF RecSafe
      <4> QED BY <1>7, <4>2, <4>3 DEF ChangeApplied, ChangeSafe
    <3>2. RecSafe(srv, X, r, loc, E, ed, q)
      BY <1>7, <2>1, <3>1, SameApplied
    <3> QED BY <2>3, <3>2, SameSafe DEF RecordSafe, E, F, loc, row, ed
  <2>4. ASSUME NEW k \in DOMAIN p.results,
               HasState(p.results[k]),
               p.results[k].rec = r,
               Acks(loc, E, row, F, p.results[k])
        PROVE  RecordSafe(srv, X, n, S, T, editor[c], q, r)
    <3>1. /\ k \in DOMAIN p.batch
          /\ p.batch[k].pay.rec = r
      BY <1>1, <2>4, ResultsOfBatch
    <3>2. AckTells(srv, X, r, p.batch[k], p.results[k])
      BY <1>1, <2>4, AckKnown
    <3>3. \A j \in DOMAIN p.batch : p.batch[j].pay.rec = r => j = k
      BY <1>1, <1>8, <3>1 DEF GoodBatch
    <3>4. AckFits(srv, X, r, loc, E, ed, p, q, k)
      BY <1>7, <2>1, <3>1, <3>2, <3>3 DEF AckFits
    <3>5. /\ RecSafe(srv, X, r, row, F, ed, q)
          /\ KeepsTried(n, E, F)
          /\ Carries(srv, X, r, E, F)
      <4>1. ASSUME NEW x, E = {x}, x.id = p.results[k].id,
                   row = AsLocal(p.results[k].row), F = {}
            PROVE  /\ RecSafe(srv, X, r, row, F, ed, q)
                   /\ KeepsTried(n, E, F)
                   /\ Carries(srv, X, r, E, F)
        BY <3>4, <4>1, AckDrops
      <4>2. CASE /\ \A x \in E : x.id # p.results[k].id
                 /\ MovesOn(loc, E, row, F, AckVersion(p.results[k]))
        BY <3>4, <4>2, AckMoves
      <4> QED BY <2>4, <4>1, <4>2 DEF Acks
    <3> QED BY <3>5 DEF RecordSafe, E, F, loc, row, ed
  <2> QED BY <2>2, <2>3, <2>4 DEF AcksIn
<1>10. \A r \in Rec : RecordSafe(srv, Excused, used[c], cl[c], T, editor'[c],
                                 q, r)
  BY <1>3, <1>9 DEF X, n
<1>11. \A d \in Client \ {c} : editor'[d] = editor[d]
  BY <1>3
<1> QED BY <1>2, <1>3, <1>7, <1>10, <1>11, QuietWorkerSafe

\* The result k of the answer is settled for its record r.
SettleFits(w, X, r, loc, E, ed, p, q, k) ==
    /\ RecSafe(w, X, r, loc, E, ed, p)
    /\ ViewSound(r, loc, E)
    /\ p.pc = "acked"
    /\ Applies(p, q)
    /\ q.todo = p.todo \ {k}
    /\ k \in p.todo

\* Every change keeps what the record had to show for it, but for the entry
\* of change k.
LEMMA StillApplied ==
    ASSUME NEW w, NEW X, NEW r, NEW loc, NEW E, NEW ed, NEW p, NEW q, NEW k,
           SettleFits(w, X, r, loc, E, ed, p, q, k), NEW F,
           \A y \in F : y \in E \/ y.id = p.batch[k].id,
           \A i, j \in DOMAIN p.batch :
              i # j => p.batch[i].id # p.batch[j].id,
           k \in DOMAIN p.batch,
           NEW j \in DOMAIN p.batch, p.batch[j].pay.rec = r
    PROVE  ChangeApplied(r, ed, p, q, j, loc, F)
<1>1. /\ ChangeSafe(w, X, r, loc, E, ed, p, j)
      /\ ~Waiting(p)
      /\ q.todo = p.todo \ {k}
  BY DEF SettleFits, RecSafe, Waiting
<1>2. Follows(p, j) => loc.ver > p.batch[j].pay.base \/ (loc.del /\ ed.rec # r)
  BY <1>1 DEF ChangeSafe
<1>3. ASSUME j \in q.todo, NEW y \in F, y.id = p.batch[j].id
      PROVE  ~IsConflict(y) /\ AsChange(y) = p.batch[j]
  <2>1. j # k /\ j \in p.todo
    BY <1>1, <1>3
  <2>2. y \in E
    BY <1>3, <2>1
  <2> QED BY <1>1, <1>3, <2>1, <2>2 DEF ChangeSafe
<1> QED BY <1>2, <1>3 DEF ChangeApplied

\* A conflict is recorded on the entry.
LEMMA HeldSafe ==
    ASSUME NEW w, ServerSound(w), NEW X, ReceiptsSafe(w, X), NEW r \in Rec,
           NEW loc \in LocalRow, NEW x \in OutboxEntry, NEW u,
           NEW ch \in ClientChange, NEW res, ResultSound(w, u, ch, res),
           res.status = "conflict", ch.pay.rec = r, x.id = ch.id,
           x.op = ch.pay.op, x.base = ch.pay.base, EntrySafe(w, X, r, loc, x),
           NEW y, y = Held(x, "conflict", AsLocal(res.row))
    PROVE  /\ EntrySafe(w, X, r, loc, y)
           /\ y.id = x.id
           /\ y.op = x.op
           /\ y.val = x.val
           /\ y.tried
<1> DEFINE rc == w.rcpt[ch.id]
<1>1. /\ w \in ProperWork
      /\ ch.id \in ChangeId
  BY ChangeFields DEF ServerSound
<1>2. /\ rc # NoReceipt
      /\ rc.status = "conflict"
      /\ rc.pay = ch.pay
      /\ res.row = rc.row
      /\ res.row \in ProperRow
      /\ CopyOf(w, r, res.row)
  BY DEF ResultSound, ProperResult
<1>3. /\ ReceiptSound(w, rc)
      /\ ReceiptSafe(w, X, rc)
      /\ rc \in ProperReceipt
  BY <1>1, <1>2, WorkFields DEF ServerSound, ReceiptsSafe
<1>4. /\ rc.ver \in Nat
      /\ rc.ver > 0
      /\ rc.row.ver = rc.ver
      /\ Within(w, X, r, rc.row.val)
      /\ ch.pay.op = "upsert" => ch.pay.base < rc.ver
  BY <1>2, <1>3 DEF ReceiptSound, ReceiptSafe, ProperReceipt
<1>5. /\ AsLocal(res.row) \in LocalRow
      /\ AsLocal(res.row).ver = rc.ver
      /\ AsLocal(res.row).val = rc.row.val
      /\ AsLocal(res.row).del = rc.row.del
  BY <1>2, <1>4, AsLocalType
<1>6. "conflict" \in Kind
  BY DEF Kind
<1>7. /\ SameWork(x, y)
      /\ y.base = x.base
      /\ y.status = "blocked"
      /\ y.kind = "conflict"
      /\ y.srv = AsLocal(res.row)
      /\ y.tried
  BY <1>5, <1>6, HeldFields
<1>8. y.id = x.id /\ y.op = x.op /\ y.val = x.val /\ IsConflict(y)
  BY <1>7 DEF SameWork, IsConflict
<1>9. /\ loc.ver \in Nat
      /\ w.row[r].ver \in Nat
      /\ x.base \in Nat
  BY <1>1, WorkFields, EntryFields DEF LocalRow
<1>10. loc.ver <= rc.ver
  BY <1>2 DEF EntrySafe
<1>11. CopyOf(w, r, y.srv)
  BY <1>2, <1>4, <1>5, <1>7 DEF CopyOf
<1>12. rc.ver <= w.row[r].ver
  BY <1>2, <1>4 DEF CopyOf
<1>13. ConflictSafe(w, X, r, loc, y)
  BY <1>4, <1>5, <1>7, <1>8, <1>9, <1>10, <1>11, <1>12 DEF ConflictSafe
<1> QED BY <1>7, <1>8, <1>13 DEF EntrySafe

LEMMA SettledRecord ==
    ASSUME NEW w, ServerSound(w), NEW X, ReceiptsSafe(w, X), NEW S, NEW c,
           NEW u, NEW p, PassSound(w, S, c, u, p), NEW r \in Rec,
           NEW loc, NEW E, NEW ed, NEW q, NEW k \in DOMAIN p.results,
           SettleFits(w, X, r, loc, E, ed, p, q, k), ~HasState(p.results[k]),
           \A x \in E : x.id = p.batch[k].id => p.batch[k].pay.rec = r,
           NEW F, Settles(E, F, p.results[k]), NEW n
    PROVE  /\ RecSafe(w, X, r, loc, F, ed, q)
           /\ KeepsTried(n, E, F)
           /\ Carries(w, X, r, E, F)
<1> DEFINE res == p.results[k]
           ch == p.batch[k]
<1>1. /\ k \in DOMAIN p.batch
      /\ ch \in ClientChange
      /\ ResultSound(w, c, ch, res)
      /\ res.id = ch.id
  BY ResultsOfBatch
<1>2. /\ RecSafe(w, X, r, loc, E, ed, p)
      /\ ViewSound(r, loc, E)
      /\ Applies(p, q)
      /\ ~Waiting(p)
      /\ loc \in LocalRow
  BY DEF SettleFits, Waiting, ViewSound
<1>3. \A i, j \in DOMAIN p.batch : i # j => p.batch[i].id # p.batch[j].id
  <2>1. GoodBatch(p.batch)
    BY DEF PassSound, BatchSound
  <2>2. p.batch \in Seq(ClientChange)
    BY <2>1 DEF GoodBatch
  <2>3. DOMAIN p.batch = 1..Len(p.batch)
    BY <2>2
  <2> QED BY <2>1, <2>3 DEF GoodBatch
<1>4. ASSUME NEW G, \A y \in G : y \in E \/ y.id = ch.id
      PROVE  \A j \in DOMAIN p.batch : p.batch[j].pay.rec = r =>
                ChangeApplied(r, ed, p, q, j, loc, G)
  BY <1>1, <1>3, <1>4, StillApplied
<1>5. CASE F = E
  <2>1. \A j \in DOMAIN p.batch : p.batch[j].pay.rec = r =>
           ChangeApplied(r, ed, p, q, j, loc, E)
    BY <1>4
  <2>2. RecSafe(w, X, r, loc, E, ed, q)
    BY <1>2, <2>1, SameApplied
  <2> QED BY <1>5, <2>2, SameSafe
<1>6. ASSUME NEW x, E = {x}, x.id = ch.id
      PROVE  /\ x \in OutboxEntry
             /\ Shows(loc, x)
             /\ ~IsConflict(x)
             /\ x.op = ch.pay.op
             /\ x.base = ch.pay.base
             /\ ch.pay.rec = r
  <2>1. ch.pay.rec = r /\ x \in E
    BY <1>6
  <2>2. ChangeSafe(w, X, r, loc, E, ed, p, k) /\ k \in p.todo
    BY <1>1, <1>2, <2>1 DEF RecSafe, SettleFits
  <2>3. ~IsConflict(x) /\ AsChange(x) = ch
    BY <1>6, <2>1, <2>2 DEF ChangeSafe
  <2>4. x \in OutboxEntry /\ Shows(loc, x)
    BY <1>2, <2>1 DEF ViewSound
  <2> HIDE DEF ch
  <2>5. x.op = ch.pay.op /\ x.base = ch.pay.base
    BY <2>3, <2>4, AsChangeFields
  <2> QED BY <2>1, <2>3, <2>4, <2>5
<1>7. CASE res.status = "accepted" /\ F = {e \in E : e.id # res.id}
  <2>1. CASE \A x \in E : x.id # res.id
    <3>1. F = E
      BY <1>7, <2>1
    <3> QED BY <1>5, <3>1
  <2>2. CASE \E x \in E : x.id = res.id
    <3>1. PICK x : E = {x} /\ x.id = ch.id
      BY <1>1, <1>2, <2>2 DEF ViewSound
    <3>2. F = {}
      BY <1>1, <1>7, <3>1
    <3>3. Shows(loc, x) /\ x.op = ch.pay.op
      BY <1>6, <3>1
    <3>4. ch.pay.op = "delete"
      <4> DEFINE rc == w.rcpt[ch.id]
      <4>1. /\ rc.status = "accepted"
            /\ rc.pay = ch.pay
            /\ rc \in ProperReceipt
            /\ res.ver \in Nat
            /\ rc.ver > 0 => res.ver >= rc.ver
            /\ ReceiptSound(w, rc)
        BY <1>7, AcceptTells
      <4>2. rc.ver \in Nat /\ res.ver = 0
        BY <1>7, <4>1 DEF ProperReceipt, HasState
      <4>3. ~(rc.ver > 0)
        BY <4>1, <4>2
      <4>4. ch.pay.op # "upsert"
        BY <4>1, <4>3 DEF ReceiptSound
      <4>5. ch.pay.op \in {"upsert", "delete"}
        BY <1>1, ChangeFields DEF Ops
      <4> QED BY <4>4, <4>5
    <3>5. loc.del /\ x.val = {}
      BY <3>3, <3>4 DEF Shows
    <3>6. RowSafe(w, X, r, loc, F)
      BY <1>2, <3>5 DEF RecSafe, RowSafe
    <3>7. FormSafe(w, X, r, F, ed)
      BY <1>2, <3>2 DEF RecSafe, FormSafe
    <3>8. \A y \in F : EntrySafe(w, X, r, loc, y)
      BY <3>2
    <3>9. \A j \in DOMAIN p.batch : p.batch[j].pay.rec = r =>
             ChangeApplied(r, ed, p, q, j, loc, F)
      BY <1>4, <3>2
    <3>10. RecSafe(w, X, r, loc, F, ed, q)
      BY <1>2, <3>6, <3>7, <3>8, <3>9, AppliedRecord
    <3>11. KeepsTried(n, E, F) /\ Carries(w, X, r, E, F)
      BY <3>1, <3>2, <3>5 DEF KeepsTried, Carries
    <3> QED BY <3>10, <3>11
  <2> QED BY <2>1, <2>2
<1>8. CASE /\ res.status = "conflict"
           /\ Holds(E, F, res.id, "conflict", AsLocal(res.row))
  <2>1. CASE F = E
    BY <1>5, <2>1
  <2>2. CASE F # E
    <3>1. PICK x : /\ E = {x}
                   /\ x.id = ch.id
                   /\ F = {Held(x, "conflict", AsLocal(res.row))}
      BY <1>1, <1>8, <2>2 DEF Holds
    <3>2. PICK y : y = Held(x, "conflict", AsLocal(res.row))
      OBVIOUS
    <3>3. /\ x \in OutboxEntry
          /\ x.op = ch.pay.op
          /\ x.base = ch.pay.base
          /\ ch.pay.rec = r
          /\ EntrySafe(w, X, r, loc, x)
      BY <1>2, <1>6, <3>1 DEF RecSafe
    <3> HIDE DEF res, ch
    <3>4. /\ EntrySafe(w, X, r, loc, y)
          /\ y.id = x.id
          /\ y.op = x.op
          /\ y.val = x.val
          /\ y.tried
      BY <1>1, <1>2, <1>8, <3>1, <3>2, <3>3, HeldSafe
    <3>5. F = {y}
      BY <3>1, <3>2
    <3>6. RowSafe(w, X, r, loc, F)
      BY <1>2, <3>5 DEF RecSafe, RowSafe
    <3>7. FormSafe(w, X, r, F, ed)
      BY <1>2, <3>1, <3>4, <3>5 DEF RecSafe, FormSafe
    <3>8. \A z \in F : EntrySafe(w, X, r, loc, z)
      BY <3>4, <3>5
    <3>9. \A j \in DOMAIN p.batch : p.batch[j].pay.rec = r =>
             ChangeApplied(r, ed, p, q, j, loc, F)
      BY <1>4, <3>1, <3>4, <3>5
    <3>10. RecSafe(w, X, r, loc, F, ed, q)
      BY <1>2, <3>6, <3>7, <3>8, <3>9, AppliedRecord
    <3>11. KeepsTried(n, E, F) /\ Carries(w, X, r, E, F)
      BY <3>1, <3>4, <3>5 DEF KeepsTried, Carries
    <3> QED BY <3>10, <3>11
  <2> QED BY <2>1, <2>2
<1>9. CASE res.status = "error" /\ Touches(E, F, {res.id})
  <2>1. PICK ids : ids = {res.id}
    OBVIOUS
  <2>2. TouchFits(E, r, p, ids)
    <3>1. \A x \in E : x.id \in ids => ~IsConflict(x)
      <4>1. \A x \in E : E = {x}
        BY <1>2 DEF ViewSound
      <4> QED BY <1>1, <1>6, <2>1, <4>1
    <3>2. E \in SUBSET OutboxEntry
      BY <1>2 DEF ViewSound
    <3> QED BY <1>2, <3>1, <3>2 DEF TouchFits
  <2>3. Touches(E, F, ids)
    BY <1>9, <2>1
  <2>4. /\ RecSafe(w, X, r, loc, F, ed, p)
        /\ KeepsTried(n, E, F)
        /\ Carries(w, X, r, E, F)
    BY <1>2, <2>2, <2>3, TouchesSafe
  <2>5. ASSUME NEW j \in DOMAIN p.batch, p.batch[j].pay.rec = r
        PROVE  ChangeApplied(r, ed, p, q, j, loc, F)
    <3>1. ChangeSafe(w, X, r, loc, F, ed, p, j)
      BY <2>4, <2>5 DEF RecSafe
    <3>2. q.todo \subseteq p.todo
      BY DEF SettleFits
    <3> QED BY <1>2, <3>1, <3>2 DEF ChangeSafe, ChangeApplied
  <2>6. RecSafe(w, X, r, loc, F, ed, q)
    BY <1>2, <2>4, <2>5, SameApplied
  <2> QED BY <2>4, <2>6
<1> QED BY <1>7, <1>8, <1>9 DEF Settles

LEMMA SettleSafe ==
    ASSUME Safe, NEW c \in Client, NEW k, SettleResult(c, k)
    PROVE  Safe'
<1> DEFINE S == cl[c]
           p == pass[c]
           T == Settle(S, p.results[k])
           todo == p.todo \ {k}
           pc == AfterAnswer(todo)
           q == [p EXCEPT !.pc = pc, !.todo = todo]
           X == Excused
           n == used[c]
<1>1. /\ Caught
      /\ ServerSound(srv)
      /\ ReceiptsSafe(srv, X)
      /\ p \in Pass
      /\ S \in Store
      /\ Distinct(S)
      /\ BatchSound(S, c, n, p.batch)
      /\ PassSound(srv, S, c, n, p)
  BY PassView
<1>2. Caught'
  BY <1>1, SettleCaught
<1>3. /\ Worker(c, T, q)
      /\ srv' = srv
      /\ editor' = editor
      /\ late' = late
      /\ p.pc = "acked"
      /\ k \in p.todo
  BY DEF SettleResult
<1>4. /\ k \in DOMAIN p.results
      /\ ~HasState(p.results[k])
  <2>1. p.todo \subseteq Unsettled(p.results)
    BY <1>1, <1>3, CaughtView DEF PassFresh
  <2> QED BY <1>3, <2>1 DEF Unsettled
<1>5. /\ p.results[k] \in ProperResult
      /\ p.results[k].status = "error" => p.results[k].kind # "conflict"
      /\ k \in DOMAIN p.batch
  BY <1>1, <1>4, ResultsOfBatch DEF ResultSound
<1>6. /\ T.local = S.local
      /\ \A r \in Rec : Settles(EntriesOf(S, r), EntriesOf(T, r), p.results[k])
  BY <1>1, <1>5, SettleView
<1>7. pc \in {"settled", "acked"}
  BY DEF AfterAnswer
<1> HIDE DEF T, pc
<1>8. /\ q.pc = pc
      /\ q.batch = p.batch
      /\ q.results = p.results
      /\ q.todo = todo
  BY <1>1, PassParts, TodoParts
<1> HIDE DEF q
<1>9. Applies(p, q) /\ q.pc # "idle"
  BY <1>7, <1>8 DEF Applies
<1> HIDE DEF X, n
<1>10. ASSUME NEW r \in Rec
       PROVE  RecordSafe(srv, X, n, S, T, editor[c], q, r)
  <2> DEFINE E == EntriesOf(S, r)
             F == EntriesOf(T, r)
             loc == S.local[r]
             ed == editor[c]
  <2>1. /\ RecSafe(srv, X, r, loc, E, ed, p)
        /\ ViewSound(r, loc, E)
    BY RecordView DEF X
  <2>2. Settles(E, F, p.results[k])
    BY <1>6
  <2>3. \A x \in E : x.id = p.batch[k].id => p.batch[k].pay.rec = r
    BY <1>1, <1>5 DEF BatchSound, EntriesOf
  <2> HIDE DEF S, E, F, loc, ed, p
  <2>4. SettleFits(srv, X, r, loc, E, ed, p, q, k)
    BY <1>3, <1>8, <1>9, <2>1 DEF SettleFits
  <2>5. /\ RecSafe(srv, X, r, loc, F, ed, q)
        /\ KeepsTried(n, E, F)
        /\ Carries(srv, X, r, E, F)
    BY <1>1, <1>4, <2>2, <2>3, <2>4, SettledRecord
  <2> QED BY <1>6, <2>5 DEF RecordSafe, E, F, loc, ed
<1>11. \A r \in Rec : RecordSafe(srv, Excused, used[c], cl[c], T, editor'[c],
                                 q, r)
  BY <1>3, <1>10 DEF X, n
<1>12. \A d \in Client \ {c} : editor'[d] = editor[d]
  BY <1>3
<1> QED BY <1>2, <1>3, <1>9, <1>11, <1>12, QuietWorkerSafe

-----------------------------------------------------------------------------
(* The pull is applied                                                     *)

\* The pulled row got of record r is applied.
PullFits(w, X, r, loc, E, ed, p, q) ==
    /\ RecSafe(w, X, r, loc, E, ed, p)
    /\ ViewSound(r, loc, E)
    /\ w.row[r].ver \in Nat
    /\ p.batch \in Seq(ClientChange)
    /\ p.pc = "downloaded"
    /\ q.pc = "done"
    /\ q.batch = p.batch
    /\ q.results = p.results
    /\ q.todo = p.todo

LEMMA PulledRecord ==
    ASSUME NEW w, NEW X, NEW r, NEW loc, NEW E, NEW ed, NEW p, NEW q,
           PullFits(w, X, r, loc, E, ed, p, q),
           NEW got \in ProperRow, got = p.rows[r], NEW row, NEW F,
           Pulls(got, loc, E, row, F), NEW n
    PROVE  /\ RecSafe(w, X, r, row, F, ed, q)
           /\ KeepsTried(n, E, F)
           /\ Carries(w, X, r, E, F)
<1>1. /\ RecSafe(w, X, r, loc, E, ed, p)
      /\ ViewSound(r, loc, E)
      /\ w.row[r].ver \in Nat
      /\ p.batch \in Seq(ClientChange)
      /\ ~Waiting(p)
      /\ ~Waiting(q)
      /\ p.pc = "downloaded"
      /\ q.pc # "downloaded"
      /\ q.batch = p.batch
      /\ q.results = p.results
      /\ q.todo = p.todo
  BY DEF PullFits, Waiting
<1>2. /\ PullSafe(w, X, r, loc, got)
      /\ got.ver \in Nat
      /\ loc.ver \in Nat
  BY <1>1 DEF RecSafe, ProperRow, Row, ViewSound, LocalRow
<1>3. q.pc = "downloaded" =>
         /\ PullSafe(w, X, r, loc, q.rows[r])
         /\ \A k \in DOMAIN p.batch :
               p.batch[k].pay.rec = r /\ Follows(p, k)
               /\ q.rows[r].ver > 0 => q.rows[r].ver > p.batch[k].pay.base
  BY <1>1
<1>4. RecSafe(w, X, r, loc, E, ed, q)
  BY <1>1, <1>3, PassMoves
<1>5. CASE got = NoRow
  <2>1. row = loc /\ F = E
    BY <1>5 DEF Pulls
  <2> QED BY <1>4, <2>1, SameSafe
<1>6. CASE got # NoRow
  <2>1. /\ row = RowTo(loc, E, got)
        /\ F = {Faced(e, got) : e \in E}
    BY <1>6 DEF Pulls
  <2>2. /\ got.ver > 0
        /\ loc.ver <= got.ver
        /\ CopyOf(w, r, got)
        /\ Within(w, X, r, got.val)
    BY <1>2, <1>6 DEF PullSafe
  <2>3. PICK new : new = AsLocal(got)
    OBVIOUS
  <2>4. /\ new \in LocalRow
        /\ new.ver = got.ver
        /\ new.val = got.val
        /\ new.del = got.del
    BY <2>2, <2>3, AsLocalType
  <2>5. CASE E = {}
    <3>1. row = new /\ F = E
      BY <2>1, <2>3, <2>5 DEF RowTo
    <3>2. RowSafe(w, X, r, new, E)
      BY <1>1, <2>2, <2>4 DEF RowSafe, Stamp, CopyOf
    <3>3. ASSUME NEW k \in DOMAIN q.batch, q.batch[k].pay.rec = r
          PROVE  ChangeSafe(w, X, r, new, E, ed, q, k)
      <4>1. /\ ChangeSafe(w, X, r, loc, E, ed, p, k)
            /\ ChangeSafe(w, X, r, loc, E, ed, q, k)
            /\ Follows(q, k) <=> Follows(p, k)
        BY <1>1, <1>4, <3>3 DEF RecSafe, Follows
      <4>2. Follows(q, k) => new.ver > q.batch[k].pay.base
        BY <1>1, <2>2, <2>4, <4>1 DEF ChangeSafe
      <4> QED BY <1>1, <4>1, <4>2 DEF ChangeSafe
    <3>4. FormSafe(w, X, r, E, ed)
      BY <1>1 DEF RecSafe
    <3>5. RecSafe(w, X, r, new, E, ed, q)
      BY <1>1, <2>5, <3>2, <3>3, <3>4 DEF RecSafe
    <3> QED BY <3>1, <3>5, SameSafe
  <2>6. CASE E # {}
    <3>1. PICK x : E = {x}
      <4>1. PICK x \in E : TRUE
        BY <2>6
      <4>2. E = {x}
        BY <1>1, <4>1 DEF ViewSound
      <4> QED BY <4>2
    <3>2. row = loc /\ F = {Faced(x, got)}
      BY <2>1, <2>6, <3>1 DEF RowTo
    <3>3. CASE ~IsConflict(x)
      <4>1. F = E
        BY <3>1, <3>2, <3>3 DEF Faced
      <4> QED BY <1>4, <3>2, <4>1, SameSafe
    <3>4. CASE IsConflict(x)
      <4>1. PICK y : y = Beside(x, new)
        OBVIOUS
      <4>2. F = {y}
        BY <2>3, <3>2, <3>4, <4>1 DEF Faced
      <4>3. x \in OutboxEntry
        BY <1>1, <3>1 DEF ViewSound
      <4>4. /\ SameWork(x, y)
            /\ y.base = x.base
            /\ y.status = x.status
            /\ y.kind = x.kind
            /\ y.srv = new
            /\ y.tried = x.tried
        BY <2>4, <4>1, <4>3, BesideFields
      <4>5. /\ y.id = x.id
            /\ y.op = x.op
            /\ y.val = x.val
            /\ IsConflict(y)
        BY <3>4, <4>4 DEF SameWork, IsConflict
      <4>6. EntrySafe(w, X, r, loc, x)
        BY <1>1, <3>1 DEF RecSafe
      <4>7. ConflictSafe(w, X, r, loc, y)
        <5>1. CopyOf(w, r, y.srv)
          BY <2>2, <2>4, <4>4 DEF CopyOf
        <5>2. y.op = "upsert" => y.base < w.row[r].ver
          BY <3>4, <4>4, <4>5, <4>6 DEF EntrySafe, ConflictSafe
        <5> QED BY <1>2, <2>2, <2>4, <4>4, <5>1, <5>2 DEF ConflictSafe
      <4>8. EntrySafe(w, X, r, loc, y)
        <5>1. ~y.tried => Unsent(w, y)
          BY <4>4, <4>5, <4>6 DEF EntrySafe, Unsent
        <5> QED BY <4>4, <4>5, <4>6, <4>7, <5>1 DEF EntrySafe
      <4>9. RowSafe(w, X, r, loc, F)
        BY <1>1, <4>2 DEF RecSafe, RowSafe
      <4>10. FormSafe(w, X, r, F, ed)
        BY <1>1, <3>1, <4>2, <4>5 DEF RecSafe, FormSafe
      <4>11. ASSUME NEW k \in DOMAIN q.batch, q.batch[k].pay.rec = r
             PROVE  ChangeSafe(w, X, r, loc, F, ed, q, k)
        <5>1. ChangeSafe(w, X, r, loc, E, ed, q, k)
          BY <1>4, <4>11 DEF RecSafe
        <5>2. k \in q.todo => y.id # q.batch[k].id
          BY <3>1, <3>4, <4>5, <5>1 DEF ChangeSafe
        <5> QED BY <1>1, <4>2, <5>1, <5>2 DEF ChangeSafe
      <4>12. \A z \in F : EntrySafe(w, X, r, loc, z)
        BY <4>2, <4>8
      <4>13. RecSafe(w, X, r, loc, F, ed, q)
        BY <1>1, <4>9, <4>10, <4>11, <4>12 DEF RecSafe
      <4>14. KeepsTried(n, E, F) /\ Carries(w, X, r, E, F)
        BY <3>1, <4>2, <4>4, <4>5 DEF KeepsTried, Carries
      <4> QED BY <3>2, <4>13, <4>14
    <3> QED BY <3>3, <3>4
  <2> QED BY <2>5, <2>6
<1> QED BY <1>5, <1>6

LEMMA ApplyDownloadSafe ==
    ASSUME Safe, NEW c \in Client, ApplyDownload(c)
    PROVE  Safe'
<1> DEFINE S == cl[c]
           p == pass[c]
           T == ApplyPull(S, p.rows, p.snap)
           pc == "done"
           q == Repulled(p, pc, NoRows, 0)
           X == Excused
           n == used[c]
<1>1. /\ Caught
      /\ p \in Pass
      /\ S \in Store
      /\ p.batch \in Seq(ClientChange)
      /\ PassSound(srv, S, c, n, p)
  BY PassView
<1>2. Caught'
  BY <1>1, ApplyDownloadCaught
<1>3. /\ Worker(c, T, q)
      /\ srv' = srv
      /\ editor' = editor
      /\ late' = late
      /\ p.pc = "downloaded"
  BY DEF ApplyDownload, Repulled
<1>4. /\ p.rows \in [Rec -> ProperRow]
      /\ p.snap \in Nat
  BY <1>1, PassFields
<1>5. \A r \in Rec : Pulls(p.rows[r], S.local[r], EntriesOf(S, r),
                           T.local[r], EntriesOf(T, r))
  BY <1>1, <1>4, ApplyPullView
<1>6. pc = "done"
  OBVIOUS
<1> HIDE DEF T, pc
<1>7. /\ q.pc = pc
      /\ q.batch = p.batch
      /\ q.results = p.results
      /\ q.todo = p.todo
  BY <1>1, RepulledParts
<1> HIDE DEF q, X, n
<1>8. ASSUME NEW r \in Rec
      PROVE  RecordSafe(srv, X, n, S, T, editor[c], q, r)
  <2> DEFINE E == EntriesOf(S, r)
             F == EntriesOf(T, r)
             loc == S.local[r]
             row == T.local[r]
             ed == editor[c]
             got == p.rows[r]
  <2>1. /\ RecSafe(srv, X, r, loc, E, ed, p)
        /\ ViewSound(r, loc, E)
        /\ srv.row[r].ver \in Nat
    BY RecordView DEF X
  <2>2. /\ Pulls(got, loc, E, row, F)
        /\ got \in ProperRow
        /\ got = p.rows[r]
    BY <1>4, <1>5
  <2> HIDE DEF S, E, F, loc, row, ed, p, got
  <2>3. PullFits(srv, X, r, loc, E, ed, p, q)
    BY <1>1, <1>3, <1>6, <1>7, <2>1 DEF PullFits
  <2>4. /\ RecSafe(srv, X, r, row, F, ed, q)
        /\ KeepsTried(n, E, F)
        /\ Carries(srv, X, r, E, F)
    BY <2>2, <2>3, PulledRecord
  <2> QED BY <2>4 DEF RecordSafe, E, F, loc, row, ed
<1>9. \A r \in Rec : RecordSafe(srv, Excused, used[c], cl[c], T, editor'[c],
                                q, r)
  BY <1>3, <1>8 DEF X, n
<1>10. /\ \A d \in Client \ {c} : editor'[d] = editor[d]
       /\ q.pc # "idle"
  BY <1>3, <1>6, <1>7
<1> QED BY <1>2, <1>3, <1>9, <1>10, QuietWorkerSafe

-----------------------------------------------------------------------------
(* Every step keeps the fourth invariant                                   *)

LEMMA InitSafe == Init => Safe
<1> SUFFICES ASSUME Init
             PROVE  Safe
  OBVIOUS
<1>1. /\ \A r \in Rec : srv.row[r] = NoRow
      /\ \A i \in ChangeId : srv.rcpt[i] = NoReceipt
      /\ late = {}
      /\ free = Edit
  BY DEF Init, InitWork
<1>2. Caught
  BY InitCaught
<1>3. NoRow.ver = 0 /\ NoLocal.ver = 0
  BY DEF NoRow, NoLocal
<1>4. ASSUME NEW c \in Client
      PROVE  DeviceSafe(srv, Excused, cl[c], editor[c], pass[c])
  <2>1. /\ pass[c] = NoPass
        /\ editor[c] = Closed
        /\ \A r \in Rec : cl[c].local[r] = NoLocal
        /\ cl[c].box = {}
    BY <1>4 DEF Init, InitStore
  <2>2. /\ NoPass.batch = <<>>
        /\ NoPass.pc # "downloaded"
    BY NoPassParts
  <2>3. DOMAIN NoPass.batch = {}
    BY <2>2
  <2>4. ASSUME NEW r \in Rec
        PROVE  RecSafe(srv, Excused, r, NoLocal, {}, Closed, NoPass)
    <3>1. RowSafe(srv, Excused, r, NoLocal, {})
      BY <1>1, <1>3 DEF RowSafe, Stamp
    <3>2. FormSafe(srv, Excused, r, {}, Closed)
      BY ClosedForm DEF FormSafe
    <3> QED BY <2>2, <2>3, <3>1, <3>2 DEF RecSafe
  <2>5. \A r \in Rec : EntriesOf(cl[c], r) = {}
    BY <2>1 DEF EntriesOf
  <2> QED BY <2>1, <2>2, <2>4, <2>5 DEF DeviceSafe
<1>5. SafeBy(srv, Excused)
  BY <1>1, <1>4 DEF SafeBy, ReceiptsSafe
<1>6. EditsAccountedFor
  BY <1>1 DEF EditsAccountedFor
<1> QED BY <1>2, <1>5, <1>6 DEF Safe

LEMMA StepSafe ==
    ASSUME Safe, Unversioned = {}, ResolveDuringPass = FALSE, [Next]_vars
    PROVE  Safe'
<1>1. scope.devices \subseteq Client /\ scope.records \subseteq Rec
  BY ScopeFields DEF Safe, Caught, Traced, WellFormed
<1>2. ASSUME NEW c \in Client, Edits(c)
      PROVE  Safe'
  <2>1. ASSUME NEW r \in scope.records, NEW e \in Edit, Create(c, r, e)
        PROVE  Safe'
    BY <1>1, <2>1, CreateSafe
  <2>2. ASSUME NEW r \in Rec, Open(c, r)
        PROVE  Safe'
    BY <2>2, OpenSafe
  <2>3. CASE Close(c)
    BY <2>3, CloseSafe
  <2>4. ASSUME NEW e \in Edit, Save(c, e)
        PROVE  Safe'
    BY <2>4, SaveSafe
  <2>5. CASE Delete(c)
    BY <2>5, DeleteSafe
  <2>6. ASSUME NEW e \in Edit, DeleteDirty(c, e)
        PROVE  Safe'
    BY <2>6, DeleteDirtySafe
  <2>7. ASSUME NEW x \in cl[c].box,
               ResolveKeepMine(c, x) \/ ResolveUseServer(c, x)
               \/ ResolveMerge(c, x)
        PROVE  Safe'
    BY <2>7, KeepMineSafe, UseServerSafe, MergeSafe
  <2> QED BY <1>2, <2>1, <2>2, <2>3, <2>4, <2>5, <2>6, <2>7 DEF Edits
<1>3. ASSUME NEW c \in Client, PassStep(c)
      PROVE  Safe'
  <2>1. ASSUME NEW due, Select(c, due)
        PROVE  Safe'
    BY <2>1, SelectSafe
  <2>2. ASSUME NEW fails \in BOOLEAN, Push(c, fails)
        PROVE  Safe'
    BY <2>2, PushStepSafe
  <2>3. ASSUME NEW k, SettleResult(c, k)
        PROVE  Safe'
    BY <2>3, SettleSafe
  <2> QED BY <1>3, <2>1, <2>2, <2>3, FailBatchSafe, AcknowledgeSafe,
             DownloadSafe, ApplyDownloadSafe, FinishSafe DEF PassStep
<1>4. ASSUME NEW c \in Client, Faults(c)
      PROVE  Safe'
  BY <1>4, PushFailsSafe, PullFailsSafe, CrashSafe DEF Faults
<1>5. CASE UNCHANGED vars
  <2>1. /\ srv' = srv
        /\ cl' = cl
        /\ pass' = pass
        /\ editor' = editor
        /\ late' = late
        /\ free' = free
        /\ Excused' = Excused
    BY <1>5 DEF vars, history, Excused
  <2>2. Caught'
    BY StepCaught DEF Safe
  <2>3. SafeBy(srv, Excused) /\ EditsAccountedFor
    BY DEF Safe
  <2>4. SafeBy(srv, Excused)'
    BY <2>1, <2>3 DEF SafeBy
  <2>5. EditsAccountedFor'
    BY <2>1, <2>3 DEF EditsAccountedFor
  <2> QED BY <2>2, <2>4, <2>5 DEF Safe
<1>6. ASSUME NEW c \in Client, Login(c)
      PROVE  Safe'
  BY <1>6, LoginSafe
<1>7. ASSUME NEW m \in late, LateDelivery(m)
      PROVE  Safe'
  BY <1>7, LateDeliverySafe
<1> QED BY <1>1, <1>2, <1>3, <1>4, <1>5, <1>6, <1>7 DEF Next

\* The steps that change the server are requests, and those keep its edits.
LEMMA StepKeepsAll ==
    ASSUME Safe, [Next]_vars
    PROVE  KeepsAll(srv, srv', Excused)
<1>1. scope.devices \subseteq Client
  BY ScopeFields DEF Safe, Caught, Traced, WellFormed
<1>2. CASE srv' = srv
  BY <1>2, KeepsAllReflexive
<1>3. ASSUME NEW c \in Client, NEW fails \in BOOLEAN,
             srv' = PushChanges(srv, c, pass[c].batch, fails).work
      PROVE  KeepsAll(srv, srv', Excused)
  <2> DEFINE v == PushChanges(srv, c, pass[c].batch, fails).work
  <2>1. Handled(srv, Excused, v, pass[c].batch)
    BY PassView, BatchFits, PushHandled, UserIsClient
  <2> HIDE DEF v
  <2>2. KeepsAll(srv, v, Excused)
    BY <2>1 DEF Handled, SafeSofar
  <2> QED BY <1>3, <2>2 DEF v
<1>4. ASSUME NEW m \in late, LateDelivery(m)
      PROVE  KeepsAll(srv, srv', Excused)
  <2> DEFINE v == PushChanges(srv, m.user, m.batch, FALSE).work
  <2>1. /\ SafeBy(srv, Excused)
        /\ WellFormed
        /\ TypeOK
        /\ ServerSound(srv)
    BY DEF Safe, Caught, Traced, WellFormed
  <2>2. /\ m.user \in User
        /\ GoodBatch(m.batch)
        /\ ReceiptsSafe(srv, Excused)
        /\ AllFit(srv, Excused, m.batch)
    BY <2>1 DEF TypeOK, WellFormed, BatchSound, SafeBy
  <2>3. Handled(srv, Excused, v, m.batch)
    BY <2>1, <2>2, PushHandled
  <2>4. srv' = v
    BY <1>4 DEF LateDelivery
  <2> HIDE DEF v
  <2>5. KeepsAll(srv, v, Excused)
    BY <2>3 DEF Handled, SafeSofar
  <2> QED BY <2>4, <2>5
<1>5. ASSUME NEW c \in Client, Edits(c)
      PROVE  srv' = srv
  BY <1>5 DEF Edits, Window, Create, Open, Close, Save, Delete, DeleteDirty,
     ResolveKeepMine, ResolveUseServer, ResolveMerge
<1>6. ASSUME NEW c \in Client, PassStep(c)
      PROVE  \/ srv' = srv
             \/ \E fails \in BOOLEAN :
                   srv' = PushChanges(srv, c, pass[c].batch, fails).work
  BY <1>6 DEF PassStep, Select, Push, FailBatch, AcknowledgeResults,
     SettleResult, Download, ApplyDownload, Finish
<1>7. ASSUME NEW c \in Client, Faults(c)
      PROVE  \/ srv' = srv
             \/ \E fails \in BOOLEAN :
                   srv' = PushChanges(srv, c, pass[c].batch, fails).work
  BY <1>7 DEF Faults, PushFails, PullFails, Crash
<1>8. ASSUME NEW c \in Client, Login(c)
      PROVE  srv' = srv
  BY <1>8 DEF Login, Window
<1>9. CASE UNCHANGED vars
  BY <1>2, <1>9 DEF vars
<1> QED BY <1>1, <1>2, <1>3, <1>4, <1>5, <1>6, <1>7, <1>8, <1>9 DEF Next

\* No edit disappears. For every set of devices, records, edits and changes,
\* and through lost answers, late requests, crashes, conflicts, pulls and
\* resolutions, every edit that a user has saved is in a row of the server or
\* in an entry of some outbox, but for those a user has discarded or could not
\* see when a form claimed a version that has them (create_entity,
\* update_entity, _replace_outbox_entry, acknowledge_accepted_results,
\* apply_pull_*, resolve_conflict, push_changes). The hypotheses are those of
\* the run: every saved form claims the version it was loaded at, and conflicts
\* are resolved while no pass is under way.
THEOREM EditsAlwaysAccountedFor ==
    ASSUME Unversioned = {}, ResolveDuringPass = FALSE
    PROVE  Spec => []EditsAccountedFor
<1>1. Safe /\ [Next]_vars => Safe'
  BY StepSafe
<1>2. Safe => EditsAccountedFor
  BY DEF Safe
<1> QED BY <1>1, <1>2, InitSafe, PTL DEF Spec

\* The version check never lets a write overwrite silently: no step of any
\* number of devices takes an edit from a row of the server, but for the edits
\* excused before the step. A queued change has the server's edits whenever
\* the version it claims is the server's (push_changes, override of
\* base_version by the editors, acknowledge_accepted_results). Under the same
\* hypotheses.
THEOREM NeverOverwritesSilently ==
    ASSUME Unversioned = {}, ResolveDuringPass = FALSE
    PROVE  Spec => NoSilentOverwrite
<1>1. Safe /\ [Next]_vars => Safe'
  BY StepSafe
<1>2. Safe /\ [Next]_vars =>
         [\A r \in Rec : srv.row[r].ver > 0 =>
             srv.row[r].val \subseteq srv'.row[r].val \cup Excused]_vars
  BY StepKeepsAll DEF KeepsAll
<1> QED BY <1>1, <1>2, InitSafe, PTL DEF Spec, NoSilentOverwrite

=============================================================================
