----------------------------- MODULE SyncServer -----------------------------
(***************************************************************************)
(* The synchronization server of one project: push transactions, the REST  *)
(* writes that share its rows, receipt pruning, and devices that pull.     *)
(*                                                                         *)
(* A push is one database transaction. SQLite takes the write reservation  *)
(* before anything is read and PostgreSQL locks the project's counter row, *)
(* so at most one push of the project is open at a time. It processes its  *)
(* changes in request order on a working copy and then commits or, when    *)
(* the commit fails, leaves the tables as they were.                       *)
(***************************************************************************)
EXTENDS SyncEngine, FiniteSets

CONSTANTS
    Sendable,   \* the changes clients may send, any number of times
    MaxBatch,   \* bound on the changes of one push
    MaxSeq,     \* bound on the sequence numbers a behaviour hands out
    MaxPruned,  \* bound on the receipts maintenance deletes, each once
    RestBorn,   \* records the REST API creates, with an id it makes up
    LiveUpdate, \* records a PATCH finds only while live (actions, tickets)
    LiveDelete, \* records a DELETE finds only while live (tickets)
    Device      \* devices that pull

ASSUME ServerAssumption ==
    /\ Sendable \subseteq Change
    /\ MaxBatch \in Nat
    /\ MaxSeq \in Nat
    /\ MaxPruned \in Nat
    /\ RestBorn \subseteq Rec
    /\ LiveUpdate \subseteq Rec
    /\ LiveDelete \subseteq Rec

VARIABLES
    db,       \* the committed tables
    txn,      \* the open push transaction, or Idle
    pruned,   \* change_ids whose receipt maintenance has deleted
    dev       \* per device: its watermark and its copy of the rows

vars == <<db, txn, pruned, dev>>

Idle == [open |-> FALSE]

Entry == [change: Change, result: Result]

Txn == [open: {TRUE}, user: User, manager: BOOLEAN,
        rest: Seq(Change), work: Work, done: Seq(Entry)]

DeviceState == [wm: Nat, copy: [Rec -> Row]]

\* The tables, the open push and the devices are well formed; a receipt names a
\* status and a failure kind of the protocol.
TypeOK ==
    /\ db \in Work
    /\ txn \in Txn \cup {Idle}
    /\ pruned \subseteq ChangeId
    /\ dev \in [Device -> DeviceState]

Init ==
    /\ db = InitWork
    /\ txn = Idle
    /\ pruned = {}
    /\ dev = [d \in Device |-> [wm |-> 0, copy |-> [r \in Rec |-> NoRow]]]

-----------------------------------------------------------------------------
(* Push                                                                    *)

Batches == UNION {[1..n -> Sendable] : n \in 1..MaxBatch}

\* A client knows a record of the REST API only once it exists.
Known(c) == c.pay.rec \in RestBorn => db.row[c.pay.rec].ver > 0

\* POST /sync/push: a member's request opens the transaction.
BeginPush(u, manager, batch) ==
    /\ ~txn.open
    /\ \A k \in 1..Len(batch) : Known(batch[k])
    /\ db.seq + Len(batch) <= MaxSeq
    /\ txn' = [open |-> TRUE, user |-> u, manager |-> manager,
               rest |-> batch, work |-> db, done |-> <<>>]
    /\ UNCHANGED <<db, pruned, dev>>

\* One change of the batch, in request order.
ProcessNext(fails) ==
    /\ txn.open
    /\ txn.rest # <<>>
    /\ LET c == Head(txn.rest)
           o == Process(db.rcpt, txn.work, txn.user, txn.manager, txn.done,
                        c, fails)
       IN  txn' = [txn EXCEPT !.rest = Tail(txn.rest),
                              !.work = o.work,
                              !.done = Append(txn.done,
                                  [change |-> c, result |-> o.result])]
    /\ UNCHANGED <<db, pruned, dev>>

CommitPush ==
    /\ txn.open
    /\ txn.rest = <<>>
    /\ db' = txn.work
    /\ txn' = Idle
    /\ UNCHANGED <<pruned, dev>>

\* The commit fails, or the process dies: HTTP 500 and nothing is kept.
AbortPush ==
    /\ txn.open
    /\ txn' = Idle
    /\ UNCHANGED <<db, pruned, dev>>

-----------------------------------------------------------------------------
(* REST writes and maintenance, serialized with pushes by the database     *)

RestCreate(u, r, v) ==
    /\ ~txn.open
    /\ db.seq < MaxSeq
    /\ r \in RestBorn
    /\ db.row[r].ver = 0
    /\ Parent[r] # NoRec => db.row[Parent[r]].ver > 0
    /\ db' = WriteRow(db, r, [ver |-> 1, val |-> v, del |-> FALSE, by |-> u,
                              seq |-> 0])
    /\ UNCHANGED <<txn, pruned, dev>>

\* PATCH with the version the caller read; a stale one is answered 409. It
\* may set status = deleted. An assessment is its assessor's to write, and
\* writing it undeletes it.
RestUpdate(u, r, base, v, delete) ==
    /\ ~txn.open
    /\ db.seq < MaxSeq
    /\ db.row[r].ver = base
    /\ r \in LiveUpdate => ~db.row[r].del
    /\ r \in Owned => db.row[r].by = u
    /\ db' = WriteRow(db, r,
               [db.row[r] EXCEPT !.ver = base + 1,
                                 !.val = v,
                                 !.del = IF r \in Owned THEN FALSE
                                         ELSE db.row[r].del \/ delete])
    /\ UNCHANGED <<txn, pruned, dev>>

\* DELETE carries no version; assessments have none.
RestDelete(r) ==
    /\ ~txn.open
    /\ db.seq < MaxSeq
    /\ r \notin Owned
    /\ db.row[r].ver > 0
    /\ r \in LiveDelete => ~db.row[r].del
    /\ db' = WriteRow(db, r, [db.row[r] EXCEPT !.ver = db.row[r].ver + 1,
                                               !.del = TRUE])
    /\ UNCHANGED <<txn, pruned, dev>>

\* POST /maintenance/prune deletes the receipts that are old enough.
PruneReceipts(old) ==
    /\ ~txn.open
    /\ \A i \in old : db.rcpt[i] # NoReceipt
    /\ old # {}
    /\ old \cap pruned = {}
    /\ Cardinality(pruned \cup old) <= MaxPruned
    /\ db' = [db EXCEPT !.rcpt = [i \in ChangeId |->
                  IF i \in old THEN NoReceipt ELSE db.rcpt[i]]]
    /\ pruned' = pruned \cup old
    /\ UNCHANGED <<txn, dev>>

-----------------------------------------------------------------------------
(* Pull: an unpaginated pull sees the committed tables at one instant.      *)

Pull(d) ==
    /\ dev' = [dev EXCEPT ![d] =
          [wm |-> db.seq,
           copy |-> [r \in Rec |->
               IF r \in PullSet(db, dev[d].wm, db.seq)
               THEN db.row[r] ELSE dev[d].copy[r]]]]
    /\ UNCHANGED <<db, txn, pruned>>

Next ==
    \/ \E u \in User, m \in BOOLEAN, b \in Batches : BeginPush(u, m, b)
    \/ \E f \in BOOLEAN : ProcessNext(f)
    \/ CommitPush
    \/ AbortPush
    \/ \E u \in User, r \in Rec, v \in Val : RestCreate(u, r, v)
    \/ \E u \in User, r \in Rec, base \in 1..MaxSeq, v \in Val,
          delete \in BOOLEAN : RestUpdate(u, r, base, v, delete)
    \/ \E r \in Rec : RestDelete(r)
    \/ \E old \in SUBSET ChangeId : PruneReceipts(old)
    \/ \E d \in Device : Pull(d)

Spec == Init /\ [][Next]_vars

-----------------------------------------------------------------------------
(* Properties                                                              *)

\* Every working copy a transaction may commit, the committed one included.
Tables == {db} \cup (IF txn.open THEN {txn.work} ELSE {})

\* push_changes replays a receipt instead of applying its change again: a
\* change_id is applied at most once however often, by whomever and with
\* whatever payload it is sent, until maintenance prunes its receipt.
AppliedOnce ==
    \A w \in Tables : \A i \in ChangeId \ pruned : w.applied[i] <= 1

\* An applied change has an accepted receipt and an accepted receipt an
\* applied change: a replay never reports "accepted" for lost work.
ReceiptsTellTheTruth ==
    \A w \in Tables : \A i \in ChangeId \ pruned :
        w.applied[i] > 0 <=> w.rcpt[i].status = "accepted"

\* A change takes effect exactly once and answers as it did: replays neither
\* apply it again nor invent or forget its result (push_changes).
ExactlyOnce == AppliedOnce /\ ReceiptsTellTheTruth

\* No two rows share a change_sequence and none is ahead of the counter.
SequencesUnique(w) ==
    /\ \A r \in Rec : w.row[r].seq <= w.seq
    /\ \A r, s \in Rec :
          r # s /\ w.row[r].ver > 0 => w.row[r].seq # w.row[s].seq

\* In the committed tables and in an open push a sequence is a cursor
\* position that separates what a pull has seen from what it has not
\* (_assign_change_sequence).
SequenceOrder == \A w \in Tables : SequencesUnique(w)

\* A version of a row is claimed by one change only: two accepted receipts
\* of a record never name the same version, so no accepted writer has
\* overwritten another unseen.
VersionsClaimedOnce ==
    \A w \in Tables : \A i, j \in ChangeId :
        /\ i # j
        /\ w.rcpt[i].status = "accepted"
        /\ w.rcpt[j].status = "accepted"
        /\ w.rcpt[i].pay.rec = w.rcpt[j].pay.rec
        /\ w.rcpt[i].ver = w.rcpt[j].ver
        => w.rcpt[i].ver = 0

\* A child is never stored without its parent item, in whatever order the
\* batch carries them.
ChildHasParent ==
    \A w \in Tables : \A r \in Rec :
        w.row[r].ver > 0 /\ Parent[r] # NoRec => w.row[Parent[r]].ver > 0

\* What a device holds at or below its watermark is what the server holds:
\* no row is skipped by a pull while pushes abort, commit and interleave.
PullComplete ==
    \A d \in Device, r \in Rec :
        db.row[r].seq <= dev[d].wm => dev[d].copy[r] = db.row[r]

\* The cursor of a pull is sound: sequences separate the rows it has seen
\* from the rest, and it has missed none of them (pull_since).
PullsSound == SequenceOrder /\ PullComplete

\* A committed row only moves forward: its version grows and its sequence
\* lies beyond every sequence a pull can have returned as a watermark.
RowsOnlyAdvance ==
    [][\A r \in Rec : db'.row[r] # db.row[r] =>
          /\ db'.row[r].ver > db.row[r].ver
          /\ db'.row[r].seq > db.seq]_vars

\* An accepted result in an open push never reports a row older than what
\* the same result, or its receipt, says it produced.
ResultsCurrent ==
    txn.open => \A k \in 1..Len(txn.done) :
        LET res == txn.done[k].result
        IN  res.status = "accepted" =>
                /\ res.rver <= res.ver
                /\ res.ver <= txn.work.row[res.rec].ver

=============================================================================
