---------------------- MODULE ServerTransactions_proofs ----------------------
(***************************************************************************)
(* Proofs about ServerTransactions for every set of rows and transactions, *)
(* every batch size, version bound and page size. At most one transaction  *)
(* holds the project's counter, and only that one has written anything;    *)
(* what it has written is a prefix of the batch it commits.                *)
(***************************************************************************)
EXTENDS ServerTransactions, TLAPS, FiniteSetTheorems, SequenceTheorems,
        WellFoundedInduction

Active(t) == tx[t].pc \notin {"new", "done"}

\* The statements during which a transaction holds the counter's lock.
HasCounter(t) ==
    \/ tx[t].pc \in {"fetch", "write", "commit"}
    \/ IsPush(t) /\ tx[t].pc \in {"claim", "flush"}

\* What the place of a transaction says of its request.
Placed(t) ==
    /\ tx[t].pc \in {"lock", "fetch"} => IsPush(t)
    /\ tx[t].pc = "load" => tx[t].kind = "rest_delete"
    /\ tx[t].pc = "claim" => tx[t].kind # "rest_delete"
    /\ tx[t].pc \in {"lock", "fetch", "load", "claim", "flush", "write"} =>
           /\ 0 < Len(tx[t].todo)
           /\ Len(tx[t].todo) <= MaxBatch
           /\ ~IsPush(t) => Len(tx[t].todo) = 1

Locked(t) ==
    /\ cntLock = t <=> HasCounter(t)
    /\ \A r \in Rec : rowLock[r] = t =>
          Active(t) /\ (tx[t].pc = "claim" => IsPush(t))
    /\ \A r \in Rec : tx[t].pend[r] # Clean /\ Active(t) =>
          rowLock[r] = t /\ HasCounter(t)
    /\ tx[t].pc = "new" => \A r \in Rec : tx[t].pend[r] = Clean

\* A transaction that claimed a version keeps the row as it claimed it; a
\* REST delete has loaded a version the row once had.
Claimed(t) ==
    tx[t].pc \in {"flush", "write"} =>
        IF tx[t].kind = "rest_delete"
        THEN tx[t].seen \in 1..counter + 1
        ELSE /\ rowLock[Target(t)] = t
             /\ tx[t].seen = Sees(t, Target(t)).ver

Change == [rec: Rec, delete: BOOLEAN]

\* What a transaction may have written so far.
Prefixes == UNION {[1..n -> Change] : n \in 0..MaxBatch}

\* What transaction t has written is what the batch b writes.
HasWritten(t, b) ==
    /\ tx[t].num = counter + Len(b) + (IF tx[t].pc = "write" THEN 1 ELSE 0)
    /\ tx[t].pc # "commit" => Len(b) + Len(tx[t].todo) <= MaxBatch
    /\ \A r \in Rec :
          tx[t].pend[r] = IF Committed!Writes(b, r) = {} THEN Clean
                          ELSE Committed!Written(t, b, r)

\* The row a REST delete that loaded the version seen makes of r.
Deleted(r, seen) ==
    [row[r] EXCEPT !.ver = seen + 1, !.del = TRUE, !.seq = counter + 1]

\* What a REST delete has written.
HasDeleted(t) ==
    /\ tx[t].num = counter + 1
    /\ tx[t].pc # "commit" => \A r \in Rec : tx[t].pend[r] = Clean
    /\ tx[t].pc = "commit" =>
          \E d \in Rec, seen \in 1..counter + 1 : \A r \in Rec :
              tx[t].pend[r] = IF r = d THEN Deleted(r, seen) ELSE Clean

Wrote(t) ==
    HasCounter(t) =>
        IF tx[t].kind = "rest_delete" THEN HasDeleted(t)
        ELSE \E b \in Prefixes : HasWritten(t, b)

Numbered ==
    \A r \in Rec : /\ row[r].seq <= counter
                   /\ 1 <= row[r].ver /\ row[r].ver <= counter + 1

\* The pages read so far hold every row at or below the cursor.
PagesSound ==
    /\ dev.wm <= counter
    /\ PullComplete
    /\ dev.pc = "pages" =>
          /\ dev.wm <= dev.snap /\ dev.snap <= counter
          /\ dev.cursor <= dev.snap
          /\ \A r \in Rec : row[r].seq <= dev.cursor => dev.got[r] = row[r]

WriterInv(t) == Placed(t) /\ Locked(t) /\ Claimed(t) /\ Wrote(t)

IInv == TypeOK /\ Numbered /\ PagesSound /\ \A t \in Txn : WriterInv(t)

-----------------------------------------------------------------------------
(* Smallest and largest numbers                                            *)

\* A set of numbers has a smallest one.
LEMMA SmallestNumber ==
    ASSUME NEW S \in SUBSET Nat, S # {}
    PROVE  \E k \in S : \A j \in S : k <= j
<1>1. PICK k \in S : \A j \in S : ~ (<<j, k>> \in OpToRel(<, Nat))
  BY NatLessThanWellFounded, WFMin
<1>2. \A j \in S : ~ (j < k)
  BY <1>1 DEF OpToRel
<1> QED BY <1>2

\* A bounded set of numbers has a largest one, which Max chooses.
LEMMA LargestNumber ==
    ASSUME NEW S \in SUBSET Nat, S # {}, NEW n \in Nat, \A s \in S : s <= n
    PROVE  Max(S) \in S /\ \A s \in S : s <= Max(S)
<1> DEFINE B == {m \in Nat : \A s \in S : s <= m}
<1>1. PICK m \in B : \A k \in B : m <= k
  <2>1. B \in SUBSET Nat /\ n \in B
    OBVIOUS
  <2> QED BY <2>1, SmallestNumber
<1>2. m \in S
  <2> SUFFICES ASSUME m \notin S PROVE FALSE
    OBVIOUS
  <2>1. PICK s \in S : TRUE
    OBVIOUS
  <2>2. m - 1 \in B
    BY <2>1
  <2> QED BY <1>1, <2>2
<1>3. \E x \in S : \A y \in S : x >= y
  BY <1>1, <1>2
<1> QED BY <1>3 DEF Max

-----------------------------------------------------------------------------
(* What a batch writes                                                     *)

\* VersionedRows counts as this module does.
LEMMA SameCounting ==
    ASSUME NEW S
    PROVE  /\ Committed!Cardinality(S) = Cardinality(S)
           /\ Committed!Max(S) = Max(S)
<1>1. Committed!Cardinality(S) = Cardinality(S)
  BY DEF Committed!Cardinality, Cardinality
<1>2. Committed!Max(S) = Max(S)
  BY DEF Committed!Max, Max
<1> QED BY <1>1, <1>2

\* A prefix is a sequence of at most MaxBatch changes.
LEMMA PrefixFacts ==
    ASSUME NEW b \in Prefixes
    PROVE  /\ b \in Seq(Change)
           /\ Len(b) \in Nat /\ Len(b) <= MaxBatch
           /\ DOMAIN b = 1..Len(b)
           /\ \A k \in 1..Len(b) : b[k] \in Change
<1>1. PICK n \in 0..MaxBatch : b \in [1..n -> Change]
  BY DEF Prefixes
<1>2. n \in Nat
  BY TransactionsAssumption
<1>3. b \in Seq(Change)
  BY <1>1, <1>2, SeqDef
<1>4. Len(b) \in Nat /\ DOMAIN b = 1..Len(b)
  BY <1>3, LenProperties
<1>5. Len(b) = n
  BY <1>1, <1>2, <1>4
<1> QED BY <1>1, <1>3, <1>4, <1>5, TransactionsAssumption

\* At the start of a transaction nothing is written.
LEMMA EmptyPrefix ==
    /\ <<>> \in Prefixes
    /\ Len(<<>>) = 0
    /\ \A r \in Rec : Committed!Writes(<<>>, r) = {}
<1>1. <<>> \in [1..0 -> Change]
  OBVIOUS
<1>2. 0 \in 0..MaxBatch
  BY TransactionsAssumption
<1>3. <<>> \in Prefixes
  BY <1>1, <1>2 DEF Prefixes
<1> QED BY <1>3, PrefixFacts DEF Committed!Writes

\* One more change makes a longer prefix.
LEMMA LongerPrefix ==
    ASSUME NEW b \in Prefixes, Len(b) < MaxBatch, NEW c \in Change
    PROVE  /\ Append(b, c) \in Prefixes
           /\ Len(Append(b, c)) = Len(b) + 1
           /\ \A k \in 1..Len(b) : Append(b, c)[k] = b[k]
           /\ Append(b, c)[Len(b) + 1] = c
           /\ \A r \in Rec :
                 Committed!Writes(Append(b, c), r) =
                     Committed!Writes(b, r)
                         \cup (IF c.rec = r THEN {Len(b) + 1} ELSE {})
<1> DEFINE d == Append(b, c)
<1>1. b \in Seq(Change) /\ Len(b) \in Nat /\ DOMAIN b = 1..Len(b)
  BY PrefixFacts
<1>2. /\ d \in Seq(Change)
      /\ Len(d) = Len(b) + 1
      /\ \A k \in 1..Len(b) : d[k] = b[k]
      /\ d[Len(b) + 1] = c
  BY <1>1, AppendProperties
<1> HIDE DEF d
<1>3. DOMAIN d = 1..(Len(b) + 1) /\ d \in [1..(Len(b) + 1) -> Change]
  BY <1>2, LenProperties
<1>4. d \in Prefixes
  <2>1. Len(b) + 1 \in 0..MaxBatch
    BY <1>1, TransactionsAssumption
  <2> QED BY <1>3, <2>1 DEF Prefixes
<1>5. \A r \in Rec :
         Committed!Writes(d, r) =
             Committed!Writes(b, r)
                 \cup (IF c.rec = r THEN {Len(b) + 1} ELSE {})
  BY <1>1, <1>2, <1>3 DEF Committed!Writes
<1> QED BY <1>2, <1>4, <1>5 DEF d

\* The positions at which a prefix writes a row.
LEMMA WritesFacts ==
    ASSUME NEW b \in Prefixes, NEW r \in Rec
    PROVE  LET W == Committed!Writes(b, r)
           IN  /\ W \subseteq 1..Len(b)
               /\ IsFiniteSet(W)
               /\ Cardinality(W) \in Nat /\ Cardinality(W) <= Len(b)
               /\ W # {} => /\ 1 <= Cardinality(W)
                            /\ Max(W) \in 1..Len(b)
                            /\ \A k \in W : k <= Max(W)
<1> DEFINE W == Committed!Writes(b, r)
<1>1. Len(b) \in Nat /\ W \subseteq 1..Len(b)
  BY PrefixFacts DEF Committed!Writes
<1> HIDE DEF W
<1>2. IsFiniteSet(1..Len(b)) /\ Cardinality(1..Len(b)) = Len(b)
  BY <1>1, FS_Interval
<1>3. IsFiniteSet(W) /\ Cardinality(W) <= Len(b)
  BY <1>1, <1>2, FS_Subset
<1>4. Cardinality(W) \in Nat
  BY <1>3, FS_CardinalityType
<1>5. W # {} => 1 <= Cardinality(W)
  BY <1>3, <1>4, FS_EmptySet
<1>6. ASSUME W # {} PROVE Max(W) \in 1..Len(b) /\ \A k \in W : k <= Max(W)
  <2>1. W \in SUBSET Nat /\ \A k \in W : k <= Len(b)
    BY <1>1
  <2>2. Max(W) \in W /\ \A k \in W : k <= Max(W)
    BY <1>1, <1>6, <2>1, LargestNumber
  <2> QED BY <1>1, <2>2
<1> QED BY <1>1, <1>3, <1>4, <1>5, <1>6 DEF W

\* A written row has a sequence of its own beyond the counter and a later
\* version.
LEMMA WrittenFacts ==
    ASSUME row \in [Rec -> Row], counter \in Nat,
           NEW t \in Txn, NEW b \in Prefixes, NEW r \in Rec,
           Committed!Writes(b, r) # {}
    PROVE  LET w == Committed!Written(t, b, r)
           IN  /\ w \in Row
               /\ w # Clean
               /\ counter < w.seq /\ w.seq <= counter + Len(b)
               /\ row[r].ver < w.ver /\ w.ver <= row[r].ver + Len(b)
<1> DEFINE W == Committed!Writes(b, r)
           w == Committed!Written(t, b, r)
<1>1. /\ Len(b) \in Nat
      /\ Cardinality(W) \in Nat /\ 1 <= Cardinality(W)
      /\ Cardinality(W) <= Len(b)
      /\ Max(W) \in 1..Len(b)
  BY WritesFacts, PrefixFacts
<1>2. row[r] \in Row
  OBVIOUS
<1>3. /\ w = [ver |-> row[r].ver + Cardinality(W),
              by |-> IF \A k \in W : b[k].delete THEN row[r].by ELSE t,
              del |-> row[r].del \/ \E k \in W : b[k].delete,
              seq |-> counter + Max(W)]
  BY SameCounting DEF Committed!Written
<1>4. (IF \A k \in W : b[k].delete THEN row[r].by ELSE t) \in Txn \cup {NoTxn}
  BY <1>2 DEF Row
<1>5. (row[r].del \/ \E k \in W : b[k].delete) \in BOOLEAN
  BY Zenon
<1> HIDE DEF w, W
<1>6. w \in Row /\ w.seq = counter + Max(W) /\ w.ver = row[r].ver + Cardinality(W)
  BY <1>1, <1>2, <1>3, <1>4, <1>5 DEF Row
<1>7. row[r].ver \in Nat
  BY <1>2 DEF Row
<1>8. w # Clean
  BY <1>1, <1>6 DEF Clean
<1> QED BY <1>1, <1>6, <1>7, <1>8 DEF w

\* One more change to a row makes the next version of it, with the number
\* that follows; the other rows stay.
LEMMA WrittenNext ==
    ASSUME row \in [Rec -> Row], counter \in Nat,
           NEW t \in Txn, NEW b \in Prefixes, Len(b) < MaxBatch,
           NEW c \in Change
    PROVE  /\ \A r \in Rec \ {c.rec} :
                 Committed!Written(t, Append(b, c), r) =
                     Committed!Written(t, b, r)
           /\ LET old == Committed!Written(t, b, c.rec)
              IN  Committed!Written(t, Append(b, c), c.rec) =
                    [ver |-> old.ver + 1,
                     by |-> IF c.delete THEN old.by ELSE t,
                     del |-> old.del \/ c.delete,
                     seq |-> counter + Len(b) + 1]
<1> DEFINE d == Append(b, c)
           q == c.rec
           V == Committed!Writes(b, q)
           W == Committed!Writes(d, q)
           n == Len(b) + 1
<1>1. /\ Len(b) \in Nat
      /\ d \in Prefixes
      /\ Len(d) = n
      /\ \A k \in 1..Len(b) : d[k] = b[k]
      /\ d[n] = c
      /\ \A r \in Rec : Committed!Writes(d, r) =
             Committed!Writes(b, r) \cup (IF q = r THEN {n} ELSE {})
  BY PrefixFacts, LongerPrefix
<1> HIDE DEF d
<1>2. q \in Rec /\ c.delete \in BOOLEAN
  BY DEF Change
<1>3. ASSUME NEW r \in Rec \ {q}
      PROVE  Committed!Written(t, d, r) = Committed!Written(t, b, r)
  <2>1. Committed!Writes(d, r) = Committed!Writes(b, r)
    BY <1>1
  <2>2. \A k \in Committed!Writes(b, r) : d[k] = b[k]
    BY <1>1, WritesFacts
  <2>3. \A k \in Committed!Writes(b, r) : d[k].delete = b[k].delete
    BY <2>2
  <2> QED BY <2>1, <2>3, Zenon DEF Committed!Written
<1>4. W = V \cup {n} /\ V \subseteq 1..Len(b) /\ n \notin V /\ IsFiniteSet(V)
      /\ Cardinality(V) \in Nat
  <2>1. W = V \cup {n}
    BY <1>1, <1>2
  <2>2. V \subseteq 1..Len(b) /\ IsFiniteSet(V) /\ Cardinality(V) \in Nat
    BY <1>2, WritesFacts
  <2>3. n \notin V
    BY <1>1, <2>2
  <2> QED BY <2>1, <2>2, <2>3
<1>5. W # {} /\ Max(W) = n /\ Cardinality(W) = Cardinality(V) + 1
  <2>1. W # {}
    BY <1>4
  <2>2. Max(W) \in 1..n /\ \A k \in W : k <= Max(W)
    BY <1>1, <1>2, <2>1, WritesFacts
  <2>3. n \in W /\ n \in Nat
    BY <1>1, <1>4
  <2> HIDE DEF n, W
  <2>4. Max(W) = n
    BY <2>2, <2>3
  <2> QED BY <1>4, <2>1, <2>4, FS_AddElement
<1>6. /\ (\A k \in W : d[k].delete) <=> (\A k \in V : b[k].delete) /\ c.delete
      /\ (\E k \in W : d[k].delete) <=> (\E k \in V : b[k].delete) \/ c.delete
  <2>1. d[n] = c /\ \A k \in V : d[k] = b[k]
    BY <1>1, <1>4
  <2>2. \A k \in V : d[k].delete = b[k].delete
    BY <2>1
  <2>3. d[n].delete = c.delete
    BY <2>1
  <2>4. W = V \cup {n}
    BY <1>4
  <2> HIDE DEF V, W, n
  <2> QED BY <2>2, <2>3, <2>4, Zenon
<1>7. Committed!Written(t, d, q) =
         [ver |-> row[q].ver + (Cardinality(V) + 1),
          by |-> IF (\A k \in V : b[k].delete) /\ c.delete
                 THEN row[q].by ELSE t,
          del |-> row[q].del \/ ((\E k \in V : b[k].delete) \/ c.delete),
          seq |-> counter + n]
  <2>1. Committed!Written(t, d, q) =
           [ver |-> row[q].ver + Cardinality(W),
            by |-> IF \A k \in W : d[k].delete THEN row[q].by ELSE t,
            del |-> row[q].del \/ (\E k \in W : d[k].delete),
            seq |-> counter + Max(W)]
    BY <1>5, SameCounting DEF Committed!Written
  <2> HIDE DEF V, W, n, q
  <2>2. (IF \A k \in W : d[k].delete THEN row[q].by ELSE t) =
        (IF (\A k \in V : b[k].delete) /\ c.delete THEN row[q].by ELSE t)
    BY <1>6, Zenon
  <2>3. (row[q].del \/ (\E k \in W : d[k].delete)) =
        (row[q].del \/ ((\E k \in V : b[k].delete) \/ c.delete))
    BY <1>6, Zenon
  <2> QED BY <2>1, <2>2, <2>3, <1>5, Zenon
<1> DEFINE old == Committed!Written(t, b, q)
<1>8. CASE V = {}
  <2>1. old = row[q]
    BY <1>8 DEF Committed!Written
  <2>2. Cardinality(V) = 0
    BY <1>8, FS_EmptySet
  <2>3. row[q] \in Row /\ row[q].ver \in Nat
    BY <1>2 DEF Row
  <2>4. row[q].ver + (Cardinality(V) + 1) = old.ver + 1
        /\ counter + n = counter + Len(b) + 1
    BY <1>1, <2>1, <2>2, <2>3
  <2>5. ((\A k \in V : b[k].delete) /\ c.delete) = c.delete
        /\ ((\E k \in V : b[k].delete) \/ c.delete) = c.delete
    <3> HIDE DEF V
    <3> QED BY <1>2, <1>8, Zenon
  <2> HIDE DEF V, n, q, old
  <2> QED BY <1>3, <1>7, <2>1, <2>4, <2>5, Zenon DEF d, q, old
<1>9. CASE V # {}
  <2>1. old = [ver |-> row[q].ver + Cardinality(V),
               by |-> IF \A k \in V : b[k].delete THEN row[q].by ELSE t,
               del |-> row[q].del \/ (\E k \in V : b[k].delete),
               seq |-> counter + Max(V)]
    BY <1>9, SameCounting DEF Committed!Written
  <2>2. /\ old.ver = row[q].ver + Cardinality(V)
        /\ old.by = IF \A k \in V : b[k].delete THEN row[q].by ELSE t
        /\ old.del = (row[q].del \/ (\E k \in V : b[k].delete))
    <3> HIDE DEF V, q, old
    <3> QED BY <2>1, Zenon
  <2>3. row[q].ver \in Nat
    BY <1>2 DEF Row
  <2>4. row[q].ver + (Cardinality(V) + 1) = old.ver + 1
        /\ counter + n = counter + Len(b) + 1
    BY <1>1, <1>4, <2>2, <2>3
  <2> HIDE DEF V, n, q, old
  <2>5. (IF (\A k \in V : b[k].delete) /\ c.delete THEN row[q].by ELSE t)
        = (IF c.delete THEN old.by ELSE t)
    BY <2>2, Zenon
  <2>6. (row[q].del \/ ((\E k \in V : b[k].delete) \/ c.delete))
        = (old.del \/ c.delete)
    BY <2>2, Zenon
  <2> QED BY <1>3, <1>7, <2>4, <2>5, <2>6, Zenon DEF d, q, old
<1> QED BY <1>8, <1>9

-----------------------------------------------------------------------------
(* The pull                                                                *)

\* A page that is not the last one takes the pull up to its last sequence:
\* it holds every row between the cursor and that sequence.
LEMMA PageFacts ==
    ASSUME TypeOK, Page # Left
    PROVE  LET last == Max({row[r].seq : r \in Page})
           IN  /\ last \in Nat
               /\ last <= dev.snap
               /\ \A r \in Rec :
                     dev.cursor < row[r].seq /\ row[r].seq <= last =>
                         r \in Page
<1> DEFINE before(r) == {s \in Left : row[s].seq < row[r].seq}
           seqs == {row[r].seq : r \in Page}
<1>1. /\ Page \subseteq Left /\ Left \subseteq Rec
      /\ \A r \in Rec : row[r].seq \in Nat
      /\ dev.snap \in Nat /\ dev.cursor \in Nat
  BY DEF TypeOK, Row, Device, Page, Left
<1>2. IsFiniteSet(Left)
  BY <1>1, FS_Subset, TransactionsAssumption
<1>3. ASSUME NEW r \in Left, NEW q \in Left, row[r].seq <= row[q].seq,
             q \in Page
      PROVE  r \in Page
  <2>1. before(r) \subseteq before(q)
    BY <1>1, <1>3
  <2>2. before(q) \in SUBSET Left
    OBVIOUS
  <2>3. IsFiniteSet(before(q))
    BY <1>2, <2>2, FS_Subset
  <2>4. /\ IsFiniteSet(before(r))
        /\ Cardinality(before(r)) <= Cardinality(before(q))
    BY <2>1, <2>3, FS_Subset
  <2>5. Cardinality(before(q)) < PageSize
    BY <1>3 DEF Page
  <2>6. Cardinality(before(r)) \in Nat /\ Cardinality(before(q)) \in Nat
    BY <2>3, <2>4, FS_CardinalityType
  <2>7. Cardinality(before(r)) < PageSize
    <3> HIDE DEF before
    <3> QED BY <2>4, <2>5, <2>6, TransactionsAssumption
  <2> QED BY <2>7 DEF Page
<1>4. Page # {}
  <2>1. Left # {}
    BY <1>1
  <2>2. {row[r].seq : r \in Left} \in SUBSET Nat
        /\ {row[r].seq : r \in Left} # {}
    BY <1>1, <2>1
  <2>3. PICK k \in {row[r].seq : r \in Left} :
            \A j \in {row[r].seq : r \in Left} : k <= j
    BY <2>2, SmallestNumber
  <2>4. PICK r \in Left : row[r].seq = k
    BY <2>3
  <2>5. before(r) = {}
    <3>1. \A q \in Left : row[r].seq <= row[q].seq
      BY <2>3, <2>4
    <3>2. \A q \in Left : row[q].seq \in Nat /\ row[r].seq \in Nat
      BY <1>1
    <3> QED BY <3>1, <3>2
  <2>6. Cardinality(before(r)) < PageSize
    BY <2>5, FS_EmptySet, TransactionsAssumption
  <2> QED BY <2>6 DEF Page
<1>5. Max(seqs) \in seqs /\ \A k \in seqs : k <= Max(seqs)
  <2>1. seqs \in SUBSET Nat /\ seqs # {}
    BY <1>1, <1>4
  <2>2. \A k \in seqs : k <= dev.snap
    BY <1>1 DEF Left
  <2> QED BY <1>1, <2>1, <2>2, LargestNumber
<1>6. PICK q \in Page : row[q].seq = Max(seqs)
  BY <1>5
<1>7. q \in Left /\ row[q].seq <= dev.snap
  BY <1>1, <1>6 DEF Left
<1>8. ASSUME NEW r \in Rec, dev.cursor < row[r].seq, row[r].seq <= Max(seqs)
      PROVE  r \in Page
  <2>1. r \in Left
    BY <1>1, <1>6, <1>7, <1>8 DEF Left
  <2> QED BY <1>3, <1>6, <1>7, <1>8, <2>1
<1> QED BY <1>1, <1>6, <1>7, <1>8

\* Reading pages keeps what the pull has read complete.
LEMMA PullSteps ==
    ASSUME TypeOK, PagesSound, StartPull \/ ReadPage \/ PullFails
    PROVE  TypeOK' /\ PagesSound'
<1>1. /\ row \in [Rec -> Row] /\ counter \in Nat /\ dev \in Device
      /\ \A r \in Rec : row[r] \in Row /\ row[r].seq \in Nat
      /\ UNCHANGED <<row, counter, tx, rowLock, cntLock>>
  BY DEF TypeOK, Row, StartPull, ReadPage, PullFails
<1>2. dev.wm \in Nat /\ dev.snap \in Nat /\ dev.cursor \in Nat
      /\ dev.got \in [Rec -> Row] /\ dev.copy \in [Rec -> Row]
  BY <1>1 DEF Device
<1>3. CASE StartPull
  <2>1. dev' = [dev EXCEPT !.pc = "pages", !.snap = counter,
                           !.cursor = dev.wm, !.got = dev.copy]
    BY <1>3 DEF StartPull
  <2>2. dev' \in Device
    BY <1>1, <1>2, <2>1 DEF Device
  <2>3. /\ dev'.wm = dev.wm /\ dev'.copy = dev.copy /\ dev'.snap = counter
        /\ dev'.cursor = dev.wm /\ dev'.got = dev.copy
    BY <1>1, <2>1 DEF Device
  <2> QED BY <1>1, <1>2, <2>2, <2>3 DEF TypeOK, PagesSound, PullComplete
<1>4. CASE PullFails
  <2>1. dev' = [dev EXCEPT !.pc = "idle", !.snap = 0, !.cursor = 0]
    BY <1>4 DEF PullFails
  <2>2. dev' \in Device /\ dev'.wm = dev.wm /\ dev'.copy = dev.copy
        /\ dev'.pc = "idle"
    BY <1>1, <1>2, <2>1 DEF Device
  <2> QED BY <1>1, <2>2 DEF TypeOK, PagesSound, PullComplete
<1>5. CASE ReadPage
  <2> DEFINE got == [r \in Rec |-> IF r \in Page THEN row[r] ELSE dev.got[r]]
             last == Max({row[r].seq : r \in Page})
  <2>1. /\ dev.pc = "pages"
        /\ dev' = IF Page # Left
                  THEN [dev EXCEPT !.got = got, !.cursor = last]
                  ELSE [dev EXCEPT !.pc = "idle", !.wm = dev.snap,
                                   !.copy = got, !.snap = 0, !.cursor = 0]
    BY <1>5 DEF ReadPage
  <2>2. got \in [Rec -> Row]
    BY <1>1, <1>2
  <2>3. /\ dev.wm <= dev.snap /\ dev.snap <= counter
        /\ \A r \in Rec : row[r].seq <= dev.cursor => dev.got[r] = row[r]
    BY <2>1 DEF PagesSound
  <2>4. \A r \in Rec : got[r] = IF r \in Page THEN row[r] ELSE dev.got[r]
    OBVIOUS
  <2>5. CASE Page # Left
    <3>1. /\ last \in Nat /\ last <= dev.snap
          /\ \A r \in Rec : dev.cursor < row[r].seq /\ row[r].seq <= last =>
                r \in Page
      BY <2>5, PageFacts
    <3> HIDE DEF got, last
    <3>2. dev' = [dev EXCEPT !.got = got, !.cursor = last]
      BY <2>1, <2>5
    <3>3. /\ dev' \in Device
          /\ dev'.wm = dev.wm /\ dev'.copy = dev.copy /\ dev'.snap = dev.snap
          /\ dev'.cursor = last /\ dev'.got = got
      BY <1>1, <1>2, <2>2, <3>1, <3>2 DEF Device
    <3>4. \A r \in Rec : row[r].seq <= last => got[r] = row[r]
      BY <1>1, <1>2, <2>3, <2>4, <3>1
    <3> QED BY <1>1, <2>3, <3>1, <3>3, <3>4 DEF TypeOK, PagesSound, PullComplete
  <2>6. CASE Page = Left
    <3> HIDE DEF got
    <3>1. dev' = [dev EXCEPT !.pc = "idle", !.wm = dev.snap, !.copy = got,
                             !.snap = 0, !.cursor = 0]
      BY <2>1, <2>6
    <3>2. /\ dev' \in Device /\ dev'.pc = "idle"
          /\ dev'.wm = dev.snap /\ dev'.copy = got
      BY <1>1, <1>2, <2>2, <3>1 DEF Device
    <3>3. \A r \in Rec : row[r].seq <= dev.snap => got[r] = row[r]
      BY <1>1, <1>2, <2>3, <2>4, <2>6 DEF Left
    <3> QED BY <1>1, <2>3, <3>2, <3>3 DEF TypeOK, PagesSound, PullComplete
  <2> QED BY <2>5, <2>6
<1> QED BY <1>3, <1>4, <1>5

\* A commit that numbers its rows beyond the counter disturbs no pull.
LEMMA CommitKeepsPulls ==
    ASSUME TypeOK, PagesSound, dev' = dev, counter' \in Nat,
           counter <= counter', row' \in [Rec -> Row],
           \A r \in Rec : row'[r] # row[r] => counter < row'[r].seq
    PROVE  PagesSound'
<1>1. /\ counter \in Nat /\ dev.wm \in Nat /\ dev.snap \in Nat
      /\ dev.cursor \in Nat
      /\ \A r \in Rec : row'[r].seq \in Nat
  BY DEF TypeOK, Device, Row
<1>2. dev.wm <= counter /\ dev.wm <= counter'
  BY <1>1 DEF PagesSound
<1>3. PullComplete'
  <2> SUFFICES ASSUME NEW r \in Rec, row'[r].seq <= dev.wm
               PROVE  dev.copy[r] = row'[r]
    BY DEF PullComplete
  <2>1. row'[r] = row[r]
    BY <1>1, <1>2
  <2> QED BY <2>1 DEF PagesSound, PullComplete
<1>4. ASSUME dev.pc = "pages"
      PROVE  /\ dev.wm <= dev.snap /\ dev.snap <= counter'
             /\ dev.cursor <= dev.snap
             /\ \A r \in Rec :
                   row'[r].seq <= dev.cursor => dev.got[r] = row'[r]
  <2>1. /\ dev.wm <= dev.snap /\ dev.snap <= counter
        /\ dev.cursor <= dev.snap
        /\ \A r \in Rec : row[r].seq <= dev.cursor => dev.got[r] = row[r]
    BY <1>4 DEF PagesSound
  <2>2. dev.cursor <= counter /\ dev.snap <= counter'
    BY <1>1, <2>1
  <2>3. ASSUME NEW r \in Rec, row'[r].seq <= dev.cursor
        PROVE  dev.got[r] = row'[r]
    <3>1. row'[r] = row[r]
      BY <1>1, <2>2, <2>3
    <3> QED BY <2>1, <2>3, <3>1
  <2> QED BY <2>1, <2>2, <2>3
<1> QED BY <1>2, <1>3, <1>4 DEF PagesSound

-----------------------------------------------------------------------------
(* One transaction and the others                                          *)

\* A step of t that commits nothing and touches no lock or record of another
\* transaction u leaves u as it was.
LEMMA OthersStay ==
    ASSUME NEW t \in Txn, NEW u \in Txn, u # t, WriterInv(u),
           row' = row, counter' = counter, tx'[u] = tx[u],
           cntLock' = u <=> cntLock = u,
           \A r \in Rec : rowLock'[r] = u <=> rowLock[r] = u,
           Target(u) \in Rec \/ tx[u].pc \notin {"flush", "write"}
    PROVE  WriterInv(u)'
<1>1. (HasCounter(u)' <=> HasCounter(u)) /\ (Active(u)' <=> Active(u))
  BY DEF HasCounter, Active, IsPush
<1>2. Placed(u)'
  BY DEF WriterInv, Placed, IsPush
<1>3. Locked(u)'
  BY <1>1 DEF WriterInv, Locked, IsPush
<1>4. Claimed(u)'
  BY DEF WriterInv, Claimed, Target, Sees
<1>5. Wrote(u)'
  <2>1. \A b \in Prefixes : HasWritten(u, b)' <=> HasWritten(u, b)
    BY DEF HasWritten, Committed!Written, Committed!Writes
  <2>2. HasDeleted(u)' <=> HasDeleted(u)
    BY DEF HasDeleted, Deleted
  <2> QED BY <1>1, <2>1, <2>2, Zenon DEF WriterInv, Wrote
<1> QED BY <1>2, <1>3, <1>4, <1>5 DEF WriterInv

\* What the next change of a transaction is, and what After leaves.
LEMMA AfterFacts ==
    ASSUME TypeOK, NEW t \in Txn, 0 < Len(tx[t].todo)
    PROVE  /\ Target(t) \in Rec
           /\ After(t) \in TxState
           /\ After(t).kind = tx[t].kind /\ After(t).num = tx[t].num
           /\ After(t).pend = tx[t].pend /\ After(t).seen = tx[t].seen
           /\ Len(After(t).todo) = Len(tx[t].todo) - 1
           /\ Len(tx[t].todo) \in Nat
           /\ After(t).pc =
                 IF Len(tx[t].todo) = 1 THEN "commit" ELSE "fetch"
<1> DEFINE todo == tx[t].todo
<1>1. tx[t] \in TxState /\ todo \in Seq(Request)
  BY DEF TypeOK, TxState
<1>2. todo # <<>> /\ Len(todo) \in Nat
  BY <1>1, EmptySeq, LenProperties
<1>3. /\ Head(todo) \in Request /\ Tail(todo) \in Seq(Request)
      /\ Len(Tail(todo)) = Len(todo) - 1
  BY <1>1, <1>2, HeadTailProperties
<1>4. Target(t) \in Rec
  BY <1>3 DEF Target, Request
<1> DEFINE x == Tail(todo)
           p == IF Len(todo) = 1 THEN "commit" ELSE "fetch"
<1>5. After(t) = [tx[t] EXCEPT !.todo = x, !.pc = p]
  BY DEF After
<1>6. p \in Pc
  BY DEF Pc
<1>7. p = IF Len(todo) = 1 THEN "commit" ELSE "fetch"
  OBVIOUS
<1> HIDE DEF x, p
<1>8. /\ After(t) \in TxState
      /\ After(t).kind = tx[t].kind /\ After(t).num = tx[t].num
      /\ After(t).pend = tx[t].pend /\ After(t).seen = tx[t].seen
      /\ After(t).todo = x /\ After(t).pc = p
  BY <1>1, <1>3, <1>5, <1>6 DEF TxState, x
<1> QED BY <1>2, <1>3, <1>4, <1>7, <1>8 DEF x

\* A step of t that commits nothing and leaves the others alone.
Quiet(t) ==
    /\ UNCHANGED <<row, counter, dev>>
    /\ \A u \in Txn \ {t} :
          /\ tx'[u] = tx[u]
          /\ cntLock' = u <=> cntLock = u
          /\ \A r \in Rec : rowLock'[r] = u <=> rowLock[r] = u

\* Such a step need only be looked at from its own transaction.
LEMMA QuietStep ==
    ASSUME IInv, NEW t \in Txn, Quiet(t), TypeOK', WriterInv(t)'
    PROVE  IInv'
<1>1. Numbered' /\ PagesSound'
  BY DEF IInv, Quiet, Numbered, PagesSound, PullComplete
<1>2. ASSUME NEW u \in Txn, u # t PROVE WriterInv(u)'
  <2>1. WriterInv(u) /\ TypeOK
    BY DEF IInv
  <2>2. Target(u) \in Rec \/ tx[u].pc \notin {"flush", "write"}
    BY <2>1, AfterFacts DEF WriterInv, Placed
  <2> QED BY <1>2, <2>1, <2>2, OthersStay DEF Quiet
<1> QED BY <1>1, <1>2 DEF IInv

\* What the invariant says of one transaction, and of its next change.
LEMMA OwnFacts ==
    ASSUME IInv, NEW t \in Txn
    PROVE  /\ TypeOK /\ WriterInv(t)
           /\ tx \in [Txn -> TxState] /\ tx[t] \in TxState
           /\ tx[t].pend \in [Rec -> Row]
           /\ tx[t].num \in Nat /\ tx[t].seen \in Nat
           /\ tx[t].todo \in Seq(Request) /\ Len(tx[t].todo) \in Nat
           /\ row \in [Rec -> Row] /\ counter \in Nat
           /\ t # NoTxn
BY LenProperties, TransactionsAssumption DEF IInv, TypeOK, TxState

\* push_changes and the REST handlers: a request arrives.
LEMMA BeginStep ==
    ASSUME IInv, NEW t \in Txn, NEW kind \in Kinds, NEW todo \in Todos,
           Begin(t, kind, todo)
    PROVE  Quiet(t) /\ TypeOK' /\ WriterInv(t)'
<1> DEFINE p == CASE kind = "rest_update" -> "claim"
                  [] kind = "rest_delete" -> "load"
                  [] OTHER -> "lock"
<1>1. todo \in Seq(Request) /\ Len(todo) \in Nat /\ 0 < Len(todo)
      /\ Len(todo) <= MaxBatch
  <2>1. PICK n \in 1..MaxBatch : todo \in [1..n -> Request]
    BY DEF Todos
  <2>2. n \in Nat /\ 0 < n /\ n <= MaxBatch
    BY TransactionsAssumption
  <2>3. todo \in Seq(Request)
    BY <2>1, <2>2, SeqDef
  <2>4. Len(todo) \in Nat /\ DOMAIN todo = 1..Len(todo)
    BY <2>3, LenProperties
  <2>5. Len(todo) = n
    BY <2>1, <2>2, <2>4
  <2> QED BY <2>2, <2>3, <2>5
<1>2. kind \in AllKinds
  BY TransactionsAssumption
<1>3. /\ p \in {"claim", "load", "lock"}
      /\ p = "claim" <=> kind = "rest_update"
      /\ p = "load" <=> kind = "rest_delete"
      /\ p = "lock" <=> kind \in {"upsert", "delete"}
  BY <1>2 DEF AllKinds
<1>4. /\ tx' = [tx EXCEPT ![t].kind = kind, ![t].todo = todo, ![t].pc = p]
      /\ tx[t].pc = "new"
      /\ kind \in {"rest_update", "rest_delete"} => Len(todo) = 1
      /\ UNCHANGED <<row, counter, rowLock, cntLock, dev>>
  BY DEF Begin
<1> HIDE DEF p
<1>5. TypeOK /\ tx \in [Txn -> TxState] /\ tx[t] \in TxState /\ WriterInv(t)
  BY OwnFacts
<1>6. /\ tx' \in [Txn -> TxState]
      /\ \A u \in Txn \ {t} : tx'[u] = tx[u]
      /\ tx'[t].kind = kind /\ tx'[t].todo = todo /\ tx'[t].pc = p
      /\ tx'[t].pend = tx[t].pend
  BY <1>1, <1>2, <1>3, <1>4, <1>5 DEF TxState, Pc
<1>7. Quiet(t) /\ TypeOK'
  BY <1>4, <1>5, <1>6 DEF Quiet, TypeOK
<1>8. ~HasCounter(t) /\ cntLock # t /\ (\A r \in Rec : rowLock[r] # t)
      /\ \A r \in Rec : tx[t].pend[r] = Clean
  BY <1>4, <1>5 DEF HasCounter, IsPush, WriterInv, Locked, Active
<1>9. ~HasCounter(t)'
  BY <1>3, <1>6 DEF HasCounter, IsPush
<1>10. Placed(t)'
  BY <1>1, <1>2, <1>3, <1>4, <1>6 DEF Placed, IsPush, AllKinds
<1>11. Locked(t)'
  BY <1>3, <1>4, <1>6, <1>8, <1>9 DEF Locked, Active
<1>12. Claimed(t)' /\ Wrote(t)'
  BY <1>3, <1>6, <1>9 DEF Claimed, Wrote
<1> QED BY <1>7, <1>10, <1>11, <1>12 DEF WriterInv

\* push_changes: the counter's row is locked before anything is written.
LEMMA LockCounterStep ==
    ASSUME IInv, NEW t \in Txn, LockCounter(t)
    PROVE  Quiet(t) /\ TypeOK' /\ WriterInv(t)'
<1>1. /\ tx[t].pc = "lock" /\ cntLock \in {NoTxn, t} /\ cntLock' = t
      /\ tx' = [tx EXCEPT ![t].pc = "fetch", ![t].num = counter]
      /\ UNCHANGED <<row, counter, rowLock, dev>>
  BY DEF LockCounter, CounterFree
<1>2. /\ TypeOK /\ tx \in [Txn -> TxState] /\ tx[t] \in TxState
      /\ WriterInv(t) /\ counter \in Nat /\ t # NoTxn
      /\ \A u \in Txn : u # NoTxn
  BY OwnFacts, TransactionsAssumption
<1>3. /\ tx' \in [Txn -> TxState]
      /\ \A u \in Txn \ {t} : tx'[u] = tx[u]
      /\ tx'[t].kind = tx[t].kind /\ tx'[t].todo = tx[t].todo
      /\ tx'[t].pc = "fetch" /\ tx'[t].pend = tx[t].pend
      /\ tx'[t].num = counter
  BY <1>1, <1>2 DEF TxState, Pc
<1>4. Quiet(t) /\ TypeOK'
  BY <1>1, <1>2, <1>3 DEF Quiet, TypeOK
<1>5. ~HasCounter(t) /\ \A r \in Rec : tx[t].pend[r] = Clean
  BY <1>1, <1>2 DEF HasCounter, WriterInv, Locked, Active
<1>6. Placed(t)'
  BY <1>1, <1>2, <1>3 DEF WriterInv, Placed, IsPush
<1>7. Locked(t)'
  BY <1>1, <1>3, <1>5 DEF Locked, HasCounter, Active
<1>8. Claimed(t)'
  BY <1>3 DEF Claimed
<1>9. Wrote(t)'
  <2>1. tx[t].kind # "rest_delete" /\ Len(tx[t].todo) <= MaxBatch
        /\ Len(tx[t].todo) \in Nat
    BY <1>1, <1>2, OwnFacts DEF WriterInv, Placed, IsPush
  <2>2. HasWritten(t, <<>>)'
    BY <1>1, <1>2, <1>3, <1>5, <2>1, EmptyPrefix
       DEF HasWritten, Committed!Writes
  <2> QED BY <1>3, <2>1, <2>2, EmptyPrefix DEF Wrote
<1> QED BY <1>4, <1>6, <1>7, <1>8, <1>9 DEF WriterInv

\* What t has written stays written while the tables and its writes stay.
LEMMA StillWritten ==
    ASSUME counter \in Nat, NEW t \in Txn, NEW b \in Prefixes,
           HasWritten(t, b), row' = row, counter' = counter,
           tx'[t].pend = tx[t].pend, Len(b) \in Nat,
           tx'[t].num = counter + Len(b)
                            + (IF tx'[t].pc = "write" THEN 1 ELSE 0),
           tx'[t].pc # "commit" => Len(b) + Len(tx'[t].todo) <= MaxBatch
    PROVE  HasWritten(t, b)'
<1>1. \A r \in Rec : /\ Committed!Writes(b, r)' = Committed!Writes(b, r)
                     /\ Committed!Written(t, b, r)' = Committed!Written(t, b, r)
  BY DEF Committed!Writes, Committed!Written
<1> QED BY <1>1, Zenon DEF HasWritten

\* A push that gives a change up goes on with what it has written.
LEMMA GoesOn ==
    ASSUME IInv, NEW t \in Txn, IsPush(t), tx[t].pc \in {"fetch", "claim"},
           tx' = [tx EXCEPT ![t] = After(t)],
           UNCHANGED <<row, counter, rowLock, cntLock, dev>>
    PROVE  Quiet(t) /\ TypeOK' /\ WriterInv(t)'
<1>1. /\ TypeOK /\ tx \in [Txn -> TxState] /\ WriterInv(t)
      /\ 0 < Len(tx[t].todo) /\ Len(tx[t].todo) <= MaxBatch
      /\ Len(tx[t].todo) \in Nat
  BY OwnFacts DEF WriterInv, Placed
<1>2. /\ After(t) \in TxState
      /\ After(t).kind = tx[t].kind /\ After(t).num = tx[t].num
      /\ After(t).pend = tx[t].pend
      /\ Len(After(t).todo) = Len(tx[t].todo) - 1
      /\ After(t).pc = IF Len(tx[t].todo) = 1 THEN "commit" ELSE "fetch"
  BY <1>1, AfterFacts
<1>3. tx' \in [Txn -> TxState] /\ tx'[t] = After(t)
      /\ \A u \in Txn \ {t} : tx'[u] = tx[u]
  BY <1>1, <1>2
<1>4. Quiet(t) /\ TypeOK'
  BY <1>1, <1>3 DEF Quiet, TypeOK
<1>5. HasCounter(t) /\ HasCounter(t)' /\ Active(t) /\ Active(t)'
      /\ tx'[t].pc \in {"commit", "fetch"}
  BY <1>2, <1>3 DEF HasCounter, Active
<1>6. Placed(t)'
  <2>1. tx'[t].kind \in {"upsert", "delete"}
    BY <1>2, <1>3 DEF IsPush
  <2>2. tx'[t].pc = "fetch" => 0 < Len(tx'[t].todo)
                               /\ Len(tx'[t].todo) <= MaxBatch
    <3>1. /\ Len(tx'[t].todo) = Len(tx[t].todo) - 1
          /\ tx'[t].pc = "fetch" => Len(tx[t].todo) # 1
      BY <1>2, <1>3
    <3>2. \A n \in Nat, m \in Nat : 0 < n /\ n <= m =>
             n - 1 <= m /\ (n # 1 => 0 < n - 1)
      OBVIOUS
    <3> QED BY <1>1, <3>1, <3>2, TransactionsAssumption
  <2> QED BY <1>5, <2>1, <2>2 DEF Placed, IsPush
<1>7. Locked(t)'
  BY <1>1, <1>2, <1>3, <1>5 DEF WriterInv, Locked
<1>8. Claimed(t)'
  BY <1>5 DEF Claimed
<1>9. Wrote(t)'
  <2>1. PICK b \in Prefixes : HasWritten(t, b)
    BY <1>1, <1>5 DEF WriterInv, Wrote, IsPush
  <2>2. Len(b) \in Nat
    BY PrefixFacts
  <2>3. HasWritten(t, b)'
    <3>1. tx[t].num = counter + Len(b)
          /\ Len(b) + Len(tx[t].todo) <= MaxBatch
      BY <2>1, <2>2, OwnFacts DEF HasWritten
    <3>2. /\ tx'[t].num = counter + Len(b)
          /\ tx'[t].pc # "write" /\ tx'[t].pend = tx[t].pend
          /\ Len(b) + Len(tx'[t].todo) <= MaxBatch
      BY <1>1, <1>2, <1>3, <1>5, <2>2, <3>1, TransactionsAssumption
    <3> QED BY <1>1, <2>1, <2>2, <3>2, OwnFacts, StillWritten
  <2>4. tx'[t].kind # "rest_delete"
    BY <1>2, <1>3 DEF IsPush
  <2> QED BY <2>3, <2>4 DEF Wrote
<1> QED BY <1>4, <1>6, <1>7, <1>8, <1>9 DEF WriterInv

\* fetch_obj and _check_base_version.
LEMMA FetchStep ==
    ASSUME IInv, NEW t \in Txn, Fetch(t)
    PROVE  Quiet(t) /\ TypeOK' /\ WriterInv(t)'
<1>1. /\ tx[t].pc = "fetch"
      /\ UNCHANGED <<row, counter, rowLock, cntLock, dev>>
      /\ \/ tx' = [tx EXCEPT ![t] = [tx[t] EXCEPT !.pc = "claim"]]
         \/ tx' = [tx EXCEPT ![t] = After(t)]
  BY DEF Fetch
<1>2. /\ TypeOK /\ tx \in [Txn -> TxState] /\ tx[t] \in TxState
      /\ WriterInv(t) /\ IsPush(t)
  BY <1>1, OwnFacts DEF WriterInv, Placed
<1>3. CASE tx' = [tx EXCEPT ![t] = After(t)]
  BY <1>1, <1>2, <1>3, GoesOn
<1>4. CASE tx' = [tx EXCEPT ![t] = [tx[t] EXCEPT !.pc = "claim"]]
  <2>1. /\ tx' \in [Txn -> TxState]
        /\ \A u \in Txn \ {t} : tx'[u] = tx[u]
        /\ tx'[t].kind = tx[t].kind /\ tx'[t].todo = tx[t].todo
        /\ tx'[t].pc = "claim" /\ tx'[t].pend = tx[t].pend
        /\ tx'[t].num = tx[t].num
    BY <1>2, <1>4 DEF TxState, Pc
  <2>2. Quiet(t) /\ TypeOK'
    BY <1>1, <1>2, <2>1 DEF Quiet, TypeOK
  <2>3. HasCounter(t) /\ HasCounter(t)' /\ IsPush(t)'
    BY <1>1, <1>2, <2>1 DEF HasCounter, IsPush
  <2>4. Placed(t)'
    BY <1>1, <1>2, <2>1 DEF WriterInv, Placed, IsPush
  <2>5. Locked(t)'
    BY <1>1, <1>2, <2>1, <2>3 DEF WriterInv, Locked, Active
  <2>6. Claimed(t)'
    BY <2>1 DEF Claimed
  <2>7. Wrote(t)'
    <3>1. PICK b \in Prefixes : HasWritten(t, b)
      BY <1>2, <2>3 DEF WriterInv, Wrote, IsPush
    <3>2. HasWritten(t, b)'
      <4>1. tx[t].num = counter + Len(b)
            /\ Len(b) + Len(tx[t].todo) <= MaxBatch
        BY <1>1, <3>1, PrefixFacts, OwnFacts DEF HasWritten
      <4>2. counter \in Nat /\ Len(b) \in Nat
        BY PrefixFacts, OwnFacts
      <4>3. tx'[t].num = counter + Len(b)
                             + (IF tx'[t].pc = "write" THEN 1 ELSE 0)
        BY <2>1, <4>1, <4>2
      <4> QED BY <1>1, <2>1, <3>1, <4>1, <4>2, <4>3, StillWritten
    <3> QED BY <2>3, <3>2 DEF Wrote, IsPush
  <2> QED BY <2>2, <2>4, <2>5, <2>6, <2>7 DEF WriterInv
<1> QED BY <1>1, <1>3, <1>4

\* delete_item: the row is read without a lock.
LEMMA LoadStep ==
    ASSUME IInv, NEW t \in Txn, Load(t)
    PROVE  Quiet(t) /\ TypeOK' /\ WriterInv(t)'
<1>1. /\ tx[t].pc = "load"
      /\ UNCHANGED <<row, counter, rowLock, cntLock, dev>>
      /\ tx' = [tx EXCEPT ![t].pc = "flush",
                          ![t].seen = Sees(t, Target(t)).ver]
  BY DEF Load
<1>2. /\ TypeOK /\ tx \in [Txn -> TxState] /\ tx[t] \in TxState
      /\ WriterInv(t) /\ tx[t].kind = "rest_delete"
      /\ 0 < Len(tx[t].todo) /\ row \in [Rec -> Row] /\ counter \in Nat
  BY <1>1, OwnFacts DEF WriterInv, Placed
<1>3. ~HasCounter(t) /\ \A r \in Rec : tx[t].pend[r] = Clean
  BY <1>1, <1>2 DEF WriterInv, Locked, HasCounter, Active
<1>4. Target(t) \in Rec
  BY <1>2, AfterFacts
<1>5. Sees(t, Target(t)) = row[Target(t)]
  BY <1>3, <1>4 DEF Sees
<1>6. row[Target(t)].ver \in Nat /\ row[Target(t)].ver \in 1..counter + 1
  BY <1>2, <1>4 DEF IInv, Numbered, Row
<1>7. /\ tx' \in [Txn -> TxState]
      /\ \A u \in Txn \ {t} : tx'[u] = tx[u]
      /\ tx'[t].kind = tx[t].kind /\ tx'[t].todo = tx[t].todo
      /\ tx'[t].pc = "flush" /\ tx'[t].pend = tx[t].pend
      /\ tx'[t].seen = row[Target(t)].ver
  BY <1>1, <1>2, <1>5, <1>6 DEF TxState, Pc
<1>8. Quiet(t) /\ TypeOK'
  BY <1>1, <1>2, <1>7 DEF Quiet, TypeOK
<1>9. ~HasCounter(t)'
  BY <1>2, <1>7 DEF HasCounter, IsPush
<1>10. Placed(t)' /\ Locked(t)'
  BY <1>1, <1>2, <1>3, <1>7, <1>9
     DEF WriterInv, Placed, Locked, IsPush, Active
<1>11. Claimed(t)' /\ Wrote(t)'
  BY <1>1, <1>2, <1>6, <1>7, <1>9 DEF Claimed, Wrote
<1> QED BY <1>8, <1>10, <1>11 DEF WriterInv

\* UPDATE ... WHERE version = base: the row is claimed and locked.
LEMMA ClaimStep ==
    ASSUME IInv, NEW t \in Txn, Claim(t)
    PROVE  Quiet(t) /\ TypeOK' /\ WriterInv(t)'
<1> DEFINE q == Target(t)
<1>1. /\ tx[t].pc = "claim" /\ rowLock[q] \in {NoTxn, t}
      /\ Sees(t, q).ver = Base(t)
      /\ rowLock' = [rowLock EXCEPT ![q] = t]
      /\ tx' = [tx EXCEPT ![t].pc = "flush", ![t].seen = Base(t)]
      /\ UNCHANGED <<row, counter, cntLock, dev>>
  BY DEF Claim, RowFree
<1>2. /\ TypeOK /\ tx \in [Txn -> TxState] /\ tx[t] \in TxState
      /\ WriterInv(t) /\ tx[t].kind # "rest_delete"
      /\ 0 < Len(tx[t].todo) /\ row \in [Rec -> Row] /\ counter \in Nat
      /\ tx[t].pend \in [Rec -> Row]
      /\ rowLock \in [Rec -> Txn \cup {NoTxn}]
      /\ \A u \in Txn : u # NoTxn
  BY <1>1, OwnFacts, TransactionsAssumption DEF WriterInv, Placed, TypeOK
<1>3. q \in Rec
  BY <1>2, AfterFacts
<1>4. Sees(t, q).ver \in Nat /\ Base(t) \in Nat
  BY <1>1, <1>2, <1>3 DEF Sees, Row
<1> HIDE DEF q
<1>5. /\ tx' \in [Txn -> TxState]
      /\ \A u \in Txn \ {t} : tx'[u] = tx[u]
      /\ tx'[t].kind = tx[t].kind /\ tx'[t].todo = tx[t].todo
      /\ tx'[t].pc = "flush" /\ tx'[t].pend = tx[t].pend
      /\ tx'[t].num = tx[t].num
      /\ tx'[t].seen = Base(t)
  BY <1>1, <1>2, <1>4 DEF TxState, Pc
<1>6. /\ rowLock' \in [Rec -> Txn \cup {NoTxn}] /\ rowLock'[q] = t
      /\ \A r \in Rec \ {q} : rowLock'[r] = rowLock[r]
  BY <1>1, <1>2, <1>3
<1>7. Quiet(t) /\ TypeOK'
  BY <1>1, <1>2, <1>5, <1>6 DEF Quiet, TypeOK
<1>8. (HasCounter(t)' <=> HasCounter(t)) /\ Active(t) /\ Active(t)'
  BY <1>1, <1>5 DEF HasCounter, IsPush, Active
<1>9. Placed(t)'
  BY <1>1, <1>2, <1>5 DEF WriterInv, Placed, IsPush
<1>10. Locked(t)'
  BY <1>1, <1>2, <1>5, <1>6, <1>8 DEF WriterInv, Locked
<1>11. Claimed(t)'
  <2>1. Target(t)' = q /\ Sees(t, q)' = Sees(t, q)
    BY <1>1, <1>5 DEF Target, Sees, q
  <2> QED BY <1>1, <1>2, <1>5, <1>6, <2>1 DEF Claimed, Sees
<1>12. Wrote(t)'
  <2> SUFFICES ASSUME HasCounter(t)
               PROVE  \E b \in Prefixes : HasWritten(t, b)'
    BY <1>2, <1>5, <1>8 DEF Wrote
  <2>1. PICK b \in Prefixes : HasWritten(t, b)
    BY <1>2 DEF WriterInv, Wrote
  <2>2. HasWritten(t, b)'
    <3>1. tx[t].num = counter + Len(b)
          /\ Len(b) + Len(tx[t].todo) <= MaxBatch
      BY <1>1, <1>2, <2>1, PrefixFacts DEF HasWritten
    <3> QED BY <1>1, <1>2, <1>5, <2>1, <3>1, PrefixFacts, StillWritten
  <2> QED BY <2>2
<1> QED BY <1>7, <1>9, <1>10, <1>11, <1>12 DEF WriterInv

\* The row has moved on: the push goes on, the REST request ends.
LEMMA ClaimFailsStep ==
    ASSUME IInv, NEW t \in Txn, ClaimFails(t)
    PROVE  Quiet(t) /\ TypeOK' /\ WriterInv(t)'
<1>1. /\ tx[t].pc = "claim"
      /\ UNCHANGED <<row, counter, rowLock, cntLock, dev>>
      /\ tx' = [tx EXCEPT ![t] = IF IsPush(t) THEN After(t)
                                 ELSE [tx[t] EXCEPT !.pc = "done"]]
  BY DEF ClaimFails
<1>2. TypeOK /\ tx \in [Txn -> TxState] /\ tx[t] \in TxState /\ WriterInv(t)
  BY OwnFacts
<1>3. CASE IsPush(t)
  BY <1>1, <1>3, GoesOn
<1>4. CASE ~IsPush(t)
  <2>1. tx' = [tx EXCEPT ![t] = [tx[t] EXCEPT !.pc = "done"]]
    BY <1>1, <1>4
  <2>2. /\ tx' \in [Txn -> TxState]
        /\ \A u \in Txn \ {t} : tx'[u] = tx[u]
        /\ tx'[t].pc = "done"
    BY <1>2, <2>1 DEF TxState, Pc
  <2>3. Quiet(t) /\ TypeOK'
    BY <1>1, <1>2, <2>2 DEF Quiet, TypeOK
  <2>4. ~HasCounter(t) /\ cntLock # t /\ \A r \in Rec : rowLock[r] # t
    BY <1>1, <1>2, <1>4 DEF WriterInv, Locked, HasCounter
  <2>5. ~HasCounter(t)' /\ ~Active(t)'
    BY <2>2 DEF HasCounter, Active
  <2> QED BY <1>1, <2>2, <2>3, <2>4, <2>5
          DEF WriterInv, Placed, Locked, Claimed, Wrote
<1> QED BY <1>3, <1>4

\* before_update: a number is reserved under the counter's lock.
LEMMA TakeSequenceStep ==
    ASSUME IInv, NEW t \in Txn, TakeSequence(t)
    PROVE  Quiet(t) /\ TypeOK' /\ WriterInv(t)'
<1> DEFINE n == (IF cntLock = t THEN tx[t].num ELSE counter) + 1
<1>1. /\ tx[t].pc = "flush" /\ cntLock \in {NoTxn, t} /\ cntLock' = t
      /\ tx' = [tx EXCEPT ![t].pc = "write", ![t].num = n]
      /\ UNCHANGED <<row, counter, rowLock, dev>>
  <2>1. [tx EXCEPT ![t].pc = "write",
                   ![t].num = (IF cntLock = t THEN @ ELSE counter) + 1]
        = [tx EXCEPT ![t].pc = "write", ![t].num = n]
    BY OwnFacts DEF TxState
  <2> QED BY <2>1 DEF TakeSequence, CounterFree
<1>2. /\ TypeOK /\ tx \in [Txn -> TxState] /\ tx[t] \in TxState
      /\ WriterInv(t) /\ counter \in Nat /\ tx[t].num \in Nat
      /\ Len(tx[t].todo) \in Nat
      /\ t # NoTxn /\ \A u \in Txn : u # NoTxn
  BY OwnFacts, TransactionsAssumption
<1>3. n \in Nat
  BY <1>2
<1>4. n = (IF HasCounter(t) THEN tx[t].num ELSE counter) + 1
  BY <1>2 DEF WriterInv, Locked
<1> HIDE DEF n
<1>5. /\ tx' \in [Txn -> TxState]
      /\ \A u \in Txn \ {t} : tx'[u] = tx[u]
      /\ tx'[t].kind = tx[t].kind /\ tx'[t].todo = tx[t].todo
      /\ tx'[t].pc = "write" /\ tx'[t].pend = tx[t].pend
      /\ tx'[t].num = n /\ tx'[t].seen = tx[t].seen
  BY <1>1, <1>2, <1>3 DEF TxState, Pc
<1>6. Quiet(t) /\ TypeOK'
  BY <1>1, <1>2, <1>5 DEF Quiet, TypeOK
<1>7. HasCounter(t)' /\ Active(t)' /\ Active(t)
  BY <1>1, <1>5 DEF HasCounter, Active
<1>8. Placed(t)'
  BY <1>1, <1>2, <1>5 DEF WriterInv, Placed, IsPush
<1>9. Locked(t)'
  BY <1>1, <1>2, <1>5, <1>7 DEF WriterInv, Locked
<1>10. Claimed(t)'
  BY <1>1, <1>2, <1>5 DEF WriterInv, Claimed, Target, Sees
<1>11. ~HasCounter(t) => \A r \in Rec : tx[t].pend[r] = Clean
  BY <1>2, <1>7 DEF WriterInv, Locked
<1>12. Wrote(t)'
  <2>1. CASE tx[t].kind = "rest_delete"
    <3>1. ~HasCounter(t)
      BY <1>1, <2>1 DEF HasCounter, IsPush
    <3>2. HasDeleted(t)'
      BY <1>1, <1>4, <1>5, <1>11, <3>1 DEF HasDeleted
    <3> QED BY <1>5, <2>1, <3>2 DEF Wrote
  <2>2. CASE tx[t].kind # "rest_delete" /\ HasCounter(t)
    <3>1. PICK b \in Prefixes : HasWritten(t, b)
      BY <1>2, <2>2 DEF WriterInv, Wrote
    <3>2. Len(b) \in Nat
      BY PrefixFacts
    <3>3. tx[t].num = counter + Len(b)
          /\ Len(b) + Len(tx[t].todo) <= MaxBatch
      BY <1>1, <1>2, <3>1, <3>2 DEF HasWritten
    <3>4. tx'[t].num = counter + Len(b)
                           + (IF tx'[t].pc = "write" THEN 1 ELSE 0)
      BY <1>2, <1>4, <1>5, <2>2, <3>2, <3>3
    <3>5. HasWritten(t, b)'
      BY <1>1, <1>2, <1>5, <3>1, <3>2, <3>3, <3>4, StillWritten
    <3> QED BY <1>5, <2>2, <3>5 DEF Wrote
  <2>3. CASE tx[t].kind # "rest_delete" /\ ~HasCounter(t)
    <3>1. Len(tx[t].todo) <= MaxBatch
      BY <1>1, <1>2 DEF WriterInv, Placed
    <3>2. HasWritten(t, <<>>)'
      BY <1>1, <1>2, <1>4, <1>5, <1>11, <2>3, <3>1, EmptyPrefix
         DEF HasWritten, Committed!Writes
    <3> QED BY <1>5, <2>3, <3>2, EmptyPrefix DEF Wrote
  <2> QED BY <2>1, <2>2, <2>3
<1> QED BY <1>6, <1>8, <1>9, <1>10, <1>12 DEF WriterInv

\* A transaction sees the row its writes so far make.
LEMMA SeesWritten ==
    ASSUME row \in [Rec -> Row], counter \in Nat, NEW t \in Txn,
           NEW b \in Prefixes, HasWritten(t, b), NEW r \in Rec
    PROVE  Sees(t, r) = Committed!Written(t, b, r)
<1>1. CASE Committed!Writes(b, r) = {}
  BY <1>1 DEF HasWritten, Sees, Committed!Written
<1>2. CASE Committed!Writes(b, r) # {}
  <2>1. Committed!Written(t, b, r) # Clean
    BY <1>2, WrittenFacts
  <2> QED BY <1>2, <2>1 DEF HasWritten, Sees
<1> QED BY <1>1, <1>2

\* The fields of a row that a REST delete leaves.
LEMMA DeletedRow ==
    ASSUME NEW x \in Row, NEW n \in Nat, NEW m \in Nat
    PROVE  [x EXCEPT !.ver = n, !.del = TRUE, !.seq = m]
               = [ver |-> n, by |-> x.by, del |-> TRUE, seq |-> m]
<1>1. ASSUME NEW e \in BOOLEAN
      PROVE  [x EXCEPT !.ver = n, !.del = e, !.seq = m]
                 = [ver |-> n, by |-> x.by, del |-> e, seq |-> m]
  <2> DEFINE y == [x EXCEPT !.ver = n, !.del = e, !.seq = m]
  <2>1. y \in Row /\ y.ver = n /\ y.by = x.by /\ y.del = e /\ y.seq = m
    BY DEF Row
  <2>2. \A z \in Row : z = [ver |-> z.ver, by |-> z.by, del |-> z.del,
                            seq |-> z.seq]
    BY DEF Row
  <2> HIDE DEF y
  <2>3. y = [ver |-> n, by |-> x.by, del |-> e, seq |-> m]
    BY <2>1, <2>2, Zenon
  <2> QED BY <2>3 DEF y
<1> QED BY <1>1, Zenon

\* The flush writes the row: the batch grows by one change.
LEMMA WriteRowStep ==
    ASSUME IInv, NEW t \in Txn, WriteRow(t)
    PROVE  Quiet(t) /\ TypeOK' /\ WriterInv(t)'
<1> DEFINE q == Target(t)
           old == Sees(t, q)
           deletes == tx[t].kind \in {"delete", "rest_delete"}
           new == [ver |-> tx[t].seen + 1,
                   by |-> IF deletes THEN old.by ELSE t,
                   del |-> old.del \/ deletes,
                   seq |-> tx[t].num]
           x == [After(t) EXCEPT !.pend = [After(t).pend EXCEPT ![q] = new]]
<1>1. /\ tx[t].pc = "write" /\ rowLock[q] \in {NoTxn, t}
      /\ rowLock' = [rowLock EXCEPT ![q] = t]
      /\ tx' = [tx EXCEPT ![t] = x]
      /\ UNCHANGED <<row, counter, cntLock, dev>>
  BY DEF WriteRow, RowFree
<1>2. /\ TypeOK /\ tx \in [Txn -> TxState] /\ tx[t] \in TxState
      /\ WriterInv(t) /\ counter \in Nat /\ tx[t].num \in Nat
      /\ tx[t].seen \in Nat /\ row \in [Rec -> Row]
      /\ tx[t].pend \in [Rec -> Row]
      /\ rowLock \in [Rec -> Txn \cup {NoTxn}]
      /\ 0 < Len(tx[t].todo) /\ Len(tx[t].todo) \in Nat
      /\ Len(tx[t].todo) <= MaxBatch
      /\ t # NoTxn /\ \A u \in Txn : u # NoTxn
  BY <1>1, OwnFacts, TransactionsAssumption DEF WriterInv, Placed, TypeOK
<1>3. /\ q \in Rec
      /\ After(t) \in TxState
      /\ After(t).kind = tx[t].kind /\ After(t).num = tx[t].num
      /\ After(t).pend = tx[t].pend
      /\ Len(After(t).todo) = Len(tx[t].todo) - 1
      /\ After(t).pc = IF Len(tx[t].todo) = 1 THEN "commit" ELSE "fetch"
  BY <1>2, AfterFacts
<1>4. new \in Row
  <2>1. old \in Row
    BY <1>2, <1>3 DEF Sees
  <2>2. /\ (IF deletes THEN old.by ELSE t) \in Txn \cup {NoTxn}
        /\ old.del \in BOOLEAN
    BY <2>1 DEF Row
  <2>3. (old.del \/ deletes) \in BOOLEAN
    BY Zenon
  <2> QED BY <1>2, <2>2, <2>3 DEF Row
<1> HIDE DEF new, q
<1>5. /\ x \in TxState /\ x.kind = tx[t].kind /\ x.num = tx[t].num
      /\ x.todo = After(t).todo /\ x.pc = After(t).pc
      /\ x.pend = [tx[t].pend EXCEPT ![q] = new]
  BY <1>2, <1>3, <1>4 DEF TxState
<1> HIDE DEF x
<1>6. /\ tx' \in [Txn -> TxState] /\ tx'[t] = x
      /\ \A u \in Txn \ {t} : tx'[u] = tx[u]
  BY <1>1, <1>2, <1>5
<1>7. /\ tx'[t].kind = tx[t].kind /\ tx'[t].num = tx[t].num
      /\ Len(tx'[t].todo) = Len(tx[t].todo) - 1
      /\ tx'[t].pc = IF Len(tx[t].todo) = 1 THEN "commit" ELSE "fetch"
      /\ tx'[t].pend[q] = new
      /\ \A r \in Rec \ {q} : tx'[t].pend[r] = tx[t].pend[r]
  BY <1>2, <1>3, <1>5, <1>6
<1>8. /\ rowLock' \in [Rec -> Txn \cup {NoTxn}] /\ rowLock'[q] = t
      /\ \A r \in Rec \ {q} : rowLock'[r] = rowLock[r]
  BY <1>1, <1>2, <1>3
<1>9. Quiet(t) /\ TypeOK'
  BY <1>1, <1>2, <1>6, <1>8 DEF Quiet, TypeOK
<1>10. /\ HasCounter(t) /\ HasCounter(t)' /\ Active(t) /\ Active(t)'
       /\ tx'[t].pc \in {"commit", "fetch"}
  BY <1>1, <1>7 DEF HasCounter, Active
<1>11. Placed(t)'
  <2>1. tx'[t].pc = "fetch" =>
           /\ tx'[t].kind \in {"upsert", "delete"}
           /\ 0 < Len(tx'[t].todo) /\ Len(tx'[t].todo) <= MaxBatch
    <3>1. \A n \in Nat, m \in Nat : 0 < n /\ n <= m =>
             n - 1 <= m /\ (n # 1 => 0 < n - 1)
      OBVIOUS
    <3>2. tx'[t].pc = "fetch" => IsPush(t)
      BY <1>1, <1>2, <1>7 DEF WriterInv, Placed
    <3>3. tx'[t].pc = "fetch" => Len(tx[t].todo) # 1
      BY <1>7
    <3> QED BY <1>2, <1>7, <3>1, <3>2, <3>3, TransactionsAssumption DEF IsPush
  <2> QED BY <1>10, <2>1 DEF Placed, IsPush
<1>12. Locked(t)'
  BY <1>1, <1>2, <1>7, <1>8, <1>10 DEF WriterInv, Locked
<1>13. Claimed(t)'
  BY <1>10 DEF Claimed
<1>14. Wrote(t)'
  <2>1. CASE tx[t].kind = "rest_delete"
    <3>1. /\ tx[t].num = counter + 1
          /\ \A r \in Rec : tx[t].pend[r] = Clean
      BY <1>1, <1>2, <1>10, <2>1 DEF WriterInv, Wrote, HasDeleted
    <3>2. tx[t].seen \in 1..counter + 1
      BY <1>1, <1>2, <2>1 DEF WriterInv, Claimed
    <3>3. old = row[q] /\ row[q] \in Row
      BY <1>2, <1>3, <3>1 DEF Sees
    <3>4. new = Deleted(q, tx[t].seen)
      <4>1. deletes
        BY <2>1
      <4>2. new = [ver |-> tx[t].seen + 1, by |-> row[q].by, del |-> TRUE,
                   seq |-> counter + 1]
        BY <3>1, <3>3, <4>1, Zenon DEF new
      <4>3. tx[t].seen + 1 \in Nat /\ counter + 1 \in Nat
        BY <1>2
      <4>4. Deleted(q, tx[t].seen) =
               [ver |-> tx[t].seen + 1, by |-> row[q].by, del |-> TRUE,
                seq |-> counter + 1]
        BY <3>3, <4>3, DeletedRow DEF Deleted
      <4> QED BY <4>2, <4>4
    <3>5. \A r \in Rec :
             tx'[t].pend[r] = IF r = q THEN Deleted(r, tx[t].seen) ELSE Clean
      BY <1>3, <1>7, <3>1, <3>4, Zenon
    <3>6. Len(tx[t].todo) = 1
      BY <1>1, <1>2, <2>1 DEF WriterInv, Placed, IsPush
    <3>7. tx'[t].pc = "commit"
      BY <1>7, <3>6
    <3>8. HasDeleted(t)'
      <4>1. PICK d \in Rec, seen \in 1..counter + 1 : \A r \in Rec :
                tx'[t].pend[r] = IF r = d THEN Deleted(r, seen) ELSE Clean
        BY <1>3, <3>2, <3>5, Zenon
      <4>2. \A r \in Rec : Deleted(r, seen)' = Deleted(r, seen)
        BY <1>1 DEF Deleted
      <4>3. \A r \in Rec :
               tx'[t].pend[r] = IF r = d THEN Deleted(r, seen)' ELSE Clean
        BY <4>1, <4>2, Zenon
      <4> QED BY <1>1, <1>7, <3>1, <3>7, <4>3 DEF HasDeleted
    <3> QED BY <1>7, <2>1, <3>8 DEF Wrote
  <2>2. CASE tx[t].kind # "rest_delete"
    <3>1. PICK b \in Prefixes : HasWritten(t, b)
      BY <1>2, <1>10, <2>2 DEF WriterInv, Wrote
    <3>2. Len(b) \in Nat /\ MaxBatch \in Nat
      BY PrefixFacts, TransactionsAssumption
    <3>3. tx[t].num = counter + Len(b) + 1
          /\ Len(b) + Len(tx[t].todo) <= MaxBatch
      BY <1>1, <3>1 DEF HasWritten
    <3> DEFINE c == [rec |-> q, delete |-> tx[t].kind = "delete"]
               d == Append(b, c)
    <3>4. Len(b) < MaxBatch
      BY <1>2, <3>2, <3>3
    <3>5. c \in Change /\ c.rec = q /\ c.delete = (tx[t].kind = "delete")
      <4>1. (tx[t].kind = "delete") \in BOOLEAN
        OBVIOUS
      <4> QED BY <1>3, <4>1, Zenon DEF Change
    <3> HIDE DEF c
    <3>6. /\ d \in Prefixes /\ Len(d) = Len(b) + 1
          /\ \A r \in Rec : Committed!Writes(d, r) =
                 Committed!Writes(b, r) \cup (IF q = r THEN {Len(b) + 1} ELSE {})
      BY <3>4, <3>5, LongerPrefix
    <3>7. /\ \A r \in Rec \ {q} :
                Committed!Written(t, d, r) = Committed!Written(t, b, r)
          /\ LET w == Committed!Written(t, b, q)
             IN  Committed!Written(t, d, q) =
                   [ver |-> w.ver + 1,
                    by |-> IF c.delete THEN w.by ELSE t,
                    del |-> w.del \/ c.delete,
                    seq |-> counter + Len(b) + 1]
      BY <1>2, <3>4, <3>5, WrittenNext
    <3>8. old = Committed!Written(t, b, q)
      BY <1>2, <1>3, <3>1, SeesWritten
    <3>9. new = Committed!Written(t, d, q)
      <4>1. tx[t].seen = old.ver
        BY <1>1, <1>2, <2>2 DEF WriterInv, Claimed, q
      <4>2. deletes <=> c.delete
        BY <2>2, <3>5, Zenon
      <4>3. (IF deletes THEN old.by ELSE t) = (IF c.delete THEN old.by ELSE t)
            /\ (old.del \/ deletes) = (old.del \/ c.delete)
        BY <4>2, Zenon
      <4> HIDE DEF old, deletes, d
      <4> QED BY <3>3, <3>7, <3>8, <4>1, <4>3, Zenon DEF new
    <3>10. PICK e \in Prefixes : e = d
      BY <3>6
    <3> HIDE DEF d
    <3>11. \A r \in Rec :
              tx'[t].pend[r] = IF Committed!Writes(d, r) = {} THEN Clean
                               ELSE Committed!Written(t, d, r)
      <4> SUFFICES ASSUME NEW r \in Rec
                   PROVE  tx'[t].pend[r] =
                              IF Committed!Writes(d, r) = {} THEN Clean
                              ELSE Committed!Written(t, d, r)
        OBVIOUS
      <4>1. CASE r = q
        <5>1. Committed!Writes(d, r) # {}
          BY <1>3, <3>6, <4>1
        <5> QED BY <1>7, <3>9, <4>1, <5>1
      <4>2. CASE r # q
        <5>1. Committed!Writes(d, r) = Committed!Writes(b, r)
          BY <3>6, <4>2
        <5>2. tx[t].pend[r] = IF Committed!Writes(b, r) = {} THEN Clean
                              ELSE Committed!Written(t, b, r)
          BY <3>1 DEF HasWritten
        <5> QED BY <1>7, <3>7, <4>2, <5>1, <5>2
      <4> QED BY <4>1, <4>2
    <3>12. /\ tx'[t].num = counter + Len(d)
                                + (IF tx'[t].pc = "write" THEN 1 ELSE 0)
           /\ Len(d) + Len(tx'[t].todo) <= MaxBatch
      <4>1. tx'[t].pc # "write"
        BY <1>10
      <4>2. /\ tx'[t].num = counter + Len(b) + 1
            /\ Len(d) = Len(b) + 1
            /\ Len(tx'[t].todo) = Len(tx[t].todo) - 1
        BY <1>7, <3>3, <3>6
      <4>3. \A k \in Nat, n \in Nat : k + n <= MaxBatch =>
               (k + 1) + (n - 1) <= MaxBatch
        BY <3>2
      <4>4. counter + Len(b) + 1 = counter + (Len(b) + 1) + 0
        BY <1>2, <3>2
      <4> QED BY <1>2, <3>2, <3>3, <4>1, <4>2, <4>3, <4>4, Zenon
    <3>13. \A r \in Rec :
              /\ Committed!Writes(e, r)' = Committed!Writes(e, r)
              /\ Committed!Written(t, e, r)' = Committed!Written(t, e, r)
      BY <1>1 DEF Committed!Writes, Committed!Written
    <3>14. \A r \in Rec :
              tx'[t].pend[r] = IF Committed!Writes(e, r) = {} THEN Clean
                               ELSE Committed!Written(t, e, r)
      BY <3>11, <3>10, Zenon
    <3>15. HasWritten(t, e)'
      <4>1. \A r \in Rec :
               tx'[t].pend[r] = IF Committed!Writes(e, r)' = {} THEN Clean
                                ELSE Committed!Written(t, e, r)'
        BY <3>13, <3>14, Zenon
      <4> QED BY <1>1, <3>12, <3>10, <4>1, Zenon DEF HasWritten
    <3> QED BY <1>7, <2>2, <3>15 DEF Wrote
  <2> QED BY <2>1, <2>2
<1> QED BY <1>9, <1>11, <1>12, <1>13, <1>14 DEF WriterInv

\* A lost connection, a failed commit or a deadlock: the locks go, and with
\* them the number that was reserved.
LEMMA AbortStep ==
    ASSUME IInv, NEW t \in Txn, Abort(t)
    PROVE  Quiet(t) /\ TypeOK' /\ WriterInv(t)'
<1>1. /\ rowLock' = [r \in Rec |-> IF rowLock[r] = t THEN NoTxn
                                   ELSE rowLock[r]]
      /\ cntLock' = IF cntLock = t THEN NoTxn ELSE cntLock
      /\ tx' = [tx EXCEPT ![t].pc = "done"]
      /\ UNCHANGED <<row, counter, dev>>
  BY DEF Abort, Release, Move
<1>2. /\ TypeOK /\ tx \in [Txn -> TxState] /\ tx[t] \in TxState
      /\ \A u \in Txn : u # NoTxn
  BY OwnFacts, TransactionsAssumption
<1>3. /\ tx' \in [Txn -> TxState] /\ tx'[t].pc = "done"
      /\ \A u \in Txn \ {t} : tx'[u] = tx[u]
  BY <1>1, <1>2 DEF TxState, Pc
<1>4. /\ rowLock' \in [Rec -> Txn \cup {NoTxn}]
      /\ cntLock' \in Txn \cup {NoTxn} /\ cntLock' # t
      /\ \A r \in Rec : rowLock'[r] # t
  BY <1>1, <1>2 DEF TypeOK
<1>5. Quiet(t)
  BY <1>1, <1>2, <1>3 DEF Quiet, TypeOK
<1>6. TypeOK'
  BY <1>1, <1>2, <1>3, <1>4 DEF TypeOK
<1>7. ~HasCounter(t)' /\ ~Active(t)'
  BY <1>3 DEF HasCounter, Active
<1>8. WriterInv(t)'
  BY <1>3, <1>4, <1>7 DEF WriterInv, Placed, Locked, Claimed, Wrote
<1> QED BY <1>5, <1>6, <1>8

\* What a commit makes visible: the batch, under numbers beyond the counter
\* and on rows the transaction has locked.
LEMMA CommitEffect ==
    ASSUME IInv, NEW t \in Txn, Commit(t)
    PROVE  /\ row' \in [Rec -> Row] /\ counter' \in Nat
           /\ counter <= counter'
           /\ \A r \in Rec : row'[r] # row[r] =>
                 counter < row'[r].seq /\ row'[r].seq <= counter'
           /\ \A r \in Rec : row'[r] # row[r] => rowLock[r] = t
           /\ Numbered'
           /\ Committed!Next \/ UNCHANGED <<row, counter>>
<1>1. /\ tx[t].pc = "commit"
      /\ row' = [r \in Rec |-> Sees(t, r)]
      /\ counter' = IF cntLock = t THEN tx[t].num ELSE counter
  BY DEF Commit
<1>2. /\ WriterInv(t) /\ counter \in Nat /\ tx[t].num \in Nat
      /\ row \in [Rec -> Row] /\ tx[t].pend \in [Rec -> Row]
  BY OwnFacts
<1>3. HasCounter(t) /\ Active(t)
  BY <1>1 DEF HasCounter, Active
<1>4. counter' = tx[t].num
  BY <1>1, <1>2, <1>3 DEF WriterInv, Locked
<1>5. \A r \in Rec : row'[r] = Sees(t, r)
  BY <1>1
<1>6. \A r \in Rec : row'[r] # row[r] => rowLock[r] = t
  BY <1>2, <1>3, <1>5 DEF WriterInv, Locked, Sees
<1>7. row' \in [Rec -> Row]
  BY <1>1, <1>2 DEF Sees
<1>8. \A r \in Rec : /\ row[r].ver \in Nat /\ row[r].seq \in Nat
                     /\ row[r].seq <= counter
                     /\ 1 <= row[r].ver /\ row[r].ver <= counter + 1
  BY <1>2 DEF IInv, Numbered, Row
<1>9. CASE tx[t].kind # "rest_delete"
  <2>1. PICK b \in Prefixes : HasWritten(t, b)
    BY <1>2, <1>3, <1>9 DEF WriterInv, Wrote
  <2>2. Len(b) \in Nat /\ counter' = counter + Len(b)
        /\ counter' \in Nat /\ counter <= counter'
    BY <1>1, <1>2, <1>4, <2>1, PrefixFacts DEF HasWritten
  <2>3. \A r \in Rec : row'[r] = Committed!Written(t, b, r)
    BY <1>2, <1>5, <2>1, SeesWritten
  <2>4. ASSUME NEW r \in Rec, row'[r] # row[r]
        PROVE  /\ counter < row'[r].seq /\ row'[r].seq <= counter + Len(b)
               /\ row[r].ver < row'[r].ver /\ row'[r].ver <= row[r].ver + Len(b)
    <3>1. Committed!Writes(b, r) # {}
      BY <2>3, <2>4 DEF Committed!Written
    <3> QED BY <1>2, <2>3, <3>1, WrittenFacts
  <2>5. Numbered'
    <3> SUFFICES ASSUME NEW r \in Rec
                 PROVE  /\ row'[r].seq <= counter'
                        /\ 1 <= row'[r].ver /\ row'[r].ver <= counter' + 1
      BY DEF Numbered
    <3>1. row'[r].ver \in Nat /\ row'[r].seq \in Nat
      BY <1>7 DEF Row
    <3>2. CASE row'[r] = row[r]
      BY <1>2, <1>8, <2>2, <3>2
    <3>3. CASE row'[r] # row[r]
      BY <1>2, <1>8, <2>2, <2>4, <3>1, <3>3
    <3> QED BY <3>2, <3>3
  <2>6. CASE Len(b) = 0
    <3>1. \A r \in Rec : row'[r] = row[r]
      BY <1>2, <1>7, <2>4, <2>6 DEF Row
    <3>2. row' = row
      BY <1>2, <1>7, <3>1
    <3> QED BY <1>2, <1>6, <1>7, <2>2, <2>4, <2>5, <2>6, <3>2
  <2>7. CASE Len(b) # 0
    <3>1. b \in Committed!Batches
      <4>1. b \in [1..Len(b) -> Change] /\ Len(b) \in 1..MaxBatch
        BY <2>2, <2>7, PrefixFacts, LenProperties
      <4> QED BY <4>1 DEF Committed!Batches, Change
    <3>2. row' = [r \in Rec |-> Committed!Written(t, b, r)]
      BY <1>7, <2>3
    <3>3. Committed!Transaction(t, b)
      BY <2>2, <3>2 DEF Committed!Transaction
    <3>4. Committed!Next
      BY <3>1, <3>3 DEF Committed!Next
    <3> QED BY <1>6, <1>7, <2>2, <2>4, <2>5, <3>4
  <2> QED BY <2>6, <2>7
<1>10. CASE tx[t].kind = "rest_delete"
  <2>1. HasDeleted(t)
    BY <1>2, <1>3, <1>10 DEF WriterInv, Wrote
  <2>2. PICK d \in Rec, seen \in 1..counter + 1 : \A r \in Rec :
            tx[t].pend[r] = IF r = d THEN Deleted(r, seen) ELSE Clean
    BY <1>1, <2>1 DEF HasDeleted
  <2>3. counter' = counter + 1
    BY <1>4, <2>1 DEF HasDeleted
  <2>4. seen \in Nat /\ seen + 1 \in Nat /\ counter + 1 \in Nat
        /\ 1 <= seen + 1 /\ seen + 1 <= counter + 2
    BY <1>2
  <2>5. Deleted(d, seen) = [ver |-> seen + 1, by |-> row[d].by, del |-> TRUE,
                            seq |-> counter + 1]
    BY <1>2, <2>4, DeletedRow DEF Deleted
  <2>6. Deleted(d, seen) # Clean /\ Deleted(d, seen).seq = counter + 1
        /\ Deleted(d, seen).ver = seen + 1
    BY <1>2, <2>4, <2>5 DEF Clean
  <2>7. row'[d] = Deleted(d, seen)
        /\ \A r \in Rec \ {d} : row'[r] = row[r]
    BY <1>5, <2>2, <2>6 DEF Sees
  <2>8. row' = [row EXCEPT ![d] = Deleted(d, seen)]
    BY <1>2, <1>7, <2>7
  <2>9. Committed!UnclaimedDelete(d, seen)
    <3>1. [row EXCEPT ![d] = [@ EXCEPT !.ver = seen + 1, !.del = TRUE,
                                       !.seq = counter + 1]]
          = [row EXCEPT ![d] = Deleted(d, seen)]
      BY DEF Deleted
    <3> QED BY <2>3, <2>8, <3>1 DEF Committed!UnclaimedDelete
  <2>10. Committed!Next
    BY <2>9 DEF Committed!Next
  <2>11. Numbered'
    <3> SUFFICES ASSUME NEW r \in Rec
                 PROVE  /\ row'[r].seq <= counter'
                        /\ 1 <= row'[r].ver /\ row'[r].ver <= counter' + 1
      BY DEF Numbered
    <3>1. CASE r = d
      BY <1>2, <2>3, <2>4, <2>6, <2>7, <3>1
    <3>2. CASE r # d
      BY <1>2, <1>8, <2>3, <2>7, <3>2
    <3> QED BY <3>1, <3>2
  <2>12. \A r \in Rec : row'[r] # row[r] =>
            counter < row'[r].seq /\ row'[r].seq <= counter'
    BY <1>2, <2>3, <2>6, <2>7
  <2> QED BY <1>2, <1>6, <1>7, <2>3, <2>10, <2>11, <2>12
<1> QED BY <1>9, <1>10

\* While t holds the counter and commits, the others have written nothing
\* and keep the rows they claimed.
LEMMA CommitStep ==
    ASSUME IInv, NEW t \in Txn, Commit(t)
    PROVE  IInv'
<1>1. /\ rowLock' = [r \in Rec |-> IF rowLock[r] = t THEN NoTxn
                                   ELSE rowLock[r]]
      /\ cntLock' = IF cntLock = t THEN NoTxn ELSE cntLock
      /\ tx' = [tx EXCEPT ![t].pc = "done"] /\ tx[t].pc = "commit"
      /\ UNCHANGED dev
  BY DEF Commit, Release, Move
<1>2. /\ TypeOK /\ tx \in [Txn -> TxState] /\ tx[t] \in TxState
      /\ counter \in Nat /\ \A u \in Txn : u # NoTxn
  BY OwnFacts, TransactionsAssumption
<1>3. cntLock = t
  BY <1>1, OwnFacts DEF WriterInv, Locked, HasCounter
<1>4. /\ tx' \in [Txn -> TxState] /\ tx'[t].pc = "done"
      /\ \A u \in Txn \ {t} : tx'[u] = tx[u]
  BY <1>1, <1>2 DEF TxState, Pc
<1>5. /\ row' \in [Rec -> Row] /\ counter' \in Nat /\ counter <= counter'
      /\ \A r \in Rec : row'[r] # row[r] => counter < row'[r].seq
      /\ \A r \in Rec : row'[r] # row[r] => rowLock[r] = t
      /\ Numbered'
  BY CommitEffect
<1>6. /\ rowLock' \in [Rec -> Txn \cup {NoTxn}] /\ cntLock' = NoTxn
      /\ \A r \in Rec : rowLock'[r] # t
      /\ \A r \in Rec, u \in Txn \ {t} : rowLock'[r] = u <=> rowLock[r] = u
  BY <1>1, <1>2, <1>3 DEF TypeOK
<1>7. TypeOK'
  BY <1>1, <1>2, <1>4, <1>5, <1>6 DEF TypeOK
<1>8. PagesSound'
  BY <1>1, <1>2, <1>5, CommitKeepsPulls DEF IInv
<1>9. WriterInv(t)'
  BY <1>2, <1>4, <1>6
     DEF WriterInv, Placed, Locked, Claimed, Wrote, HasCounter, Active
<1>10. ASSUME NEW u \in Txn, u # t PROVE WriterInv(u)'
  <2>1. WriterInv(u) /\ ~HasCounter(u) /\ tx'[u] = tx[u] /\ u # NoTxn
    BY <1>2, <1>3, <1>4, <1>10 DEF IInv, WriterInv, Locked
  <2>2. ~HasCounter(u)' /\ (Active(u)' <=> Active(u)) /\ (IsPush(u)' <=> IsPush(u))
    BY <2>1 DEF HasCounter, IsPush, Active
  <2>3. Placed(u)'
    BY <2>1 DEF WriterInv, Placed, IsPush
  <2>4. Locked(u)'
    BY <1>6, <1>10, <2>1, <2>2 DEF WriterInv, Locked
  <2>5. Claimed(u)'
    <3> SUFFICES ASSUME tx[u].pc \in {"flush", "write"}
                 PROVE  IF tx[u].kind = "rest_delete"
                        THEN tx[u].seen \in 1..counter' + 1
                        ELSE /\ rowLock'[Target(u)'] = u
                             /\ tx[u].seen = (Sees(u, Target(u))').ver
      BY <2>1 DEF Claimed
    <3>1. Target(u) \in Rec /\ Target(u)' = Target(u)
      BY <1>2, <2>1, AfterFacts DEF WriterInv, Placed, Target
    <3>2. CASE tx[u].kind = "rest_delete"
      BY <1>2, <1>5, <2>1, <3>2 DEF WriterInv, Claimed
    <3>3. CASE tx[u].kind # "rest_delete"
      <4>1. rowLock[Target(u)] = u /\ tx[u].seen = Sees(u, Target(u)).ver
        BY <2>1, <3>3 DEF WriterInv, Claimed
      <4>2. row'[Target(u)] = row[Target(u)]
        BY <1>5, <1>10, <3>1, <4>1
      <4>3. Sees(u, Target(u))' = Sees(u, Target(u))
        BY <2>1, <3>1, <4>2 DEF Sees
      <4> QED BY <1>6, <1>10, <3>1, <3>3, <4>1, <4>3
    <3> QED BY <3>2, <3>3
  <2>6. Wrote(u)'
    BY <2>2 DEF Wrote
  <2> QED BY <2>3, <2>4, <2>5, <2>6 DEF WriterInv
<1> QED BY <1>5, <1>7, <1>8, <1>9, <1>10 DEF IInv

-----------------------------------------------------------------------------
(* The theorems                                                            *)

\* Nothing is written and nobody holds a lock before the first request.
LEMMA InitSound == Init => IInv
<1> SUFFICES ASSUME Init PROVE IInv
  OBVIOUS
<1>1. Clean \in Row /\ Fresh \in [Rec -> Row]
  BY DEF Clean, Fresh, Row
<1>2. <<>> \in Seq(Request)
  BY EmptySeq
<1>3. tx \in [Txn -> TxState] /\ \A t \in Txn : tx[t].pc = "new"
      /\ \A r \in Rec : tx[t].pend[r] = Clean
  BY <1>1, <1>2 DEF Init, TxState, Pc, AllKinds
<1>4. TypeOK
  BY <1>1, <1>3 DEF Init, TypeOK, Device
<1>5. Numbered /\ PagesSound
  BY DEF Init, Numbered, PagesSound, PullComplete, Fresh
<1>6. ASSUME NEW t \in Txn PROVE WriterInv(t)
  BY <1>3, TransactionsAssumption
     DEF Init, WriterInv, Placed, Locked, Claimed, Wrote, HasCounter, Active
<1> QED BY <1>4, <1>5, <1>6 DEF IInv

\* Every statement of a writer and every page of a pull keeps the invariant.
LEMMA NextSound == IInv /\ [Next]_vars => IInv'
<1> SUFFICES ASSUME IInv, [Next]_vars PROVE IInv'
  OBVIOUS
<1>1. CASE UNCHANGED vars
  <2>1. TypeOK' /\ Numbered' /\ PagesSound'
    BY <1>1 DEF vars, IInv, TypeOK, Numbered, PagesSound, PullComplete
  <2>2. ASSUME NEW t \in Txn PROVE IInv'
    <3>1. Quiet(t)
      BY <1>1 DEF vars, Quiet
    <3>2. WriterInv(t)'
      <4>1. WriterInv(t)
        BY DEF IInv
      <4>2. \A b \in Prefixes : HasWritten(t, b)' <=> HasWritten(t, b)
        BY <1>1 DEF vars, HasWritten, Committed!Written, Committed!Writes
      <4>3. HasDeleted(t)' <=> HasDeleted(t)
        BY <1>1 DEF vars, HasDeleted, Deleted
      <4>4. Wrote(t)'
        BY <1>1, <4>1, <4>2, <4>3
           DEF vars, WriterInv, Wrote, HasCounter, IsPush
      <4>5. Placed(t)' /\ Locked(t)' /\ Claimed(t)'
        BY <1>1, <4>1 DEF vars, WriterInv, Placed, Locked, Claimed,
                          HasCounter, IsPush, Active, Target, Sees
      <4> QED BY <4>4, <4>5 DEF WriterInv
    <3> QED BY <2>1, <3>1, <3>2, QuietStep
  <2> QED BY <2>1, <2>2 DEF IInv
<1>2. ASSUME NEW t \in Txn, Writer(t) PROVE IInv'
  <2>1. CASE \E kind \in Kinds, todo \in Todos : Begin(t, kind, todo)
    BY <2>1, BeginStep, QuietStep
  <2>2. CASE LockCounter(t)
    BY <2>2, LockCounterStep, QuietStep
  <2>3. CASE Fetch(t)
    BY <2>3, FetchStep, QuietStep
  <2>4. CASE Load(t)
    BY <2>4, LoadStep, QuietStep
  <2>5. CASE Claim(t)
    BY <2>5, ClaimStep, QuietStep
  <2>6. CASE ClaimFails(t)
    BY <2>6, ClaimFailsStep, QuietStep
  <2>7. CASE TakeSequence(t)
    BY <2>7, TakeSequenceStep, QuietStep
  <2>8. CASE WriteRow(t)
    BY <2>8, WriteRowStep, QuietStep
  <2>9. CASE Commit(t)
    BY <2>9, CommitStep
  <2>10. CASE Abort(t)
    BY <2>10, AbortStep, QuietStep
  <2> QED BY <1>2, <2>1, <2>2, <2>3, <2>4, <2>5, <2>6, <2>7, <2>8, <2>9,
             <2>10 DEF Writer
<1>3. CASE StartPull \/ ReadPage \/ PullFails
  <2>1. TypeOK' /\ PagesSound'
    BY <1>3, PullSteps DEF IInv
  <2>2. UNCHANGED <<row, counter, tx, rowLock, cntLock>>
    BY <1>3 DEF StartPull, ReadPage, PullFails
  <2>3. Numbered'
    BY <2>2 DEF IInv, Numbered
  <2>4. ASSUME NEW t \in Txn PROVE WriterInv(t)'
    <3>1. WriterInv(t)
      BY DEF IInv
    <3>2. \A b \in Prefixes : HasWritten(t, b)' <=> HasWritten(t, b)
      BY <2>2 DEF HasWritten, Committed!Written, Committed!Writes
    <3>3. HasDeleted(t)' <=> HasDeleted(t)
      BY <2>2 DEF HasDeleted, Deleted
    <3>4. Wrote(t)'
      BY <2>2, <3>1, <3>2, <3>3 DEF WriterInv, Wrote, HasCounter, IsPush
    <3>5. Placed(t)' /\ Locked(t)' /\ Claimed(t)'
      BY <2>2, <3>1 DEF WriterInv, Placed, Locked, Claimed, HasCounter,
                        IsPush, Active, Target, Sees
    <3> QED BY <3>4, <3>5 DEF WriterInv
  <2> QED BY <2>1, <2>3, <2>4 DEF IInv
<1> QED BY <1>1, <1>2, <1>3 DEF Next

\* The invariant holds throughout.
THEOREM InvariantHolds == Spec => []IInv
<1> QED BY InitSound, NextSound, PTL DEF Spec

\* A device that pulls in pages while transactions commit between them has
\* every row at or below its watermark as the server has it.
THEOREM PullsInPagesSound == Spec => []PagedPullSound
<1>1. IInv => PagedPullSound
  BY DEF IInv, PagesSound, PagedPullSound
<1> QED BY <1>1, InvariantHolds, PTL

\* A step changes rows only by committing.
LEMMA OnlyCommits ==
    ASSUME IInv, [Next]_vars
    PROVE  \/ UNCHANGED <<row, counter>>
           \/ \E t \in Txn : Commit(t)
BY DEF Next, Writer, vars, Begin, LockCounter, Fetch, Load, Claim, ClaimFails,
       TakeSequence, WriteRow, Abort, StartPull, ReadPage, PullFails

\* Whatever becomes visible is numbered beyond everything visible before,
\* in whichever order rows were locked and numbers reserved.
THEOREM CommitsAreOrdered == Spec => CommitsInOrder
<1>1. IInv /\ [Next]_vars =>
         [\A r \in Rec : row'[r] # row[r] =>
             /\ counter < row'[r].seq
             /\ row'[r].seq <= counter']_vars
  BY OnlyCommits, CommitEffect
<1> QED BY <1>1, InvariantHolds, PTL DEF Spec, CommitsInOrder

\* Statements of concurrent transactions take effect as if each transaction
\* had run alone at its commit: the specification implements VersionedRows.
THEOREM TransactionsAreAtomic == Spec => WritesAreAtomic
<1>1. Init => Committed!Init
  BY DEF Init, Fresh, Committed!Init
<1>2. IInv /\ [Next]_vars => [Committed!Next]_<<row, counter>>
  BY OnlyCommits, CommitEffect
<1> QED BY <1>1, <1>2, InvariantHolds, PTL
        DEF Spec, WritesAreAtomic, Committed!Spec

=============================================================================
