------------------------- MODULE ServerTransactions -------------------------
(***************************************************************************)
(* The writers of a project's rows on PostgreSQL, one step per statement.  *)
(* At READ COMMITTED a statement sees what was committed when it starts,   *)
(* and an UPDATE waits for the row's lock and checks its WHERE again on    *)
(* what was committed meanwhile. Locks are kept until the transaction ends *)
(* (server/riskapp_server: sync/engine.py, sync/mutations.py,              *)
(* core/items_crud.py, db/models.py, sync/pull.py).                        *)
(*                                                                         *)
(* A push locks the project's counter first and then each row it changes;  *)
(* a REST write locks its row first and the counter when it is flushed. A  *)
(* device reads its pull in pages, statement by statement, without locks.  *)
(***************************************************************************)
EXTENDS Integers, Sequences, FiniteSets, FiniteSetsExt

CONSTANTS
    Rec,        \* existing rows of one table
    Txn,        \* transactions, each run at most once
    NoTxn,
    Kinds,      \* the requests that are made, of AllKinds
    MaxBatch,   \* bound on the changes of a push
    MaxVer,     \* bound on the versions a request may name
    PageSize    \* rows in a page of a pull

AllKinds == {"upsert", "delete", "rest_update", "rest_delete"}

ASSUME TransactionsAssumption ==
    /\ IsFiniteSet(Rec)
    /\ NoTxn \notin Txn
    /\ Kinds \subseteq AllKinds
    /\ MaxBatch \in Nat /\ MaxVer \in Nat
    /\ PageSize \in Nat \ {0}

VARIABLES
    row,      \* committed rows
    counter,  \* committed last_sequence
    tx,       \* per transaction: where it is and what it has written
    rowLock,  \* per row: the transaction that holds its lock
    cntLock,  \* the transaction that holds the counter's lock
    dev       \* a device that pulls

vars == <<row, counter, tx, rowLock, cntLock, dev>>

\* by: the transaction whose values a row holds.
Row == [ver: Nat, by: Txn \cup {NoTxn}, del: BOOLEAN, seq: Nat]

\* A row the transaction has not written.
Clean == [ver |-> 0, by |-> NoTxn, del |-> FALSE, seq |-> 0]

Request == [rec: Rec, base: 1..MaxVer]

Pc == {"new", "lock", "fetch", "load", "claim", "flush", "write", "commit",
       "done"}

TxState == [pc: Pc, kind: AllKinds, todo: Seq(Request), seen: Nat, num: Nat,
            pend: [Rec -> Row]]

Device == [pc: {"idle", "pages"}, wm: Nat, snap: Nat, cursor: Nat,
           got: [Rec -> Row], copy: [Rec -> Row]]

\* Rows, locks, transactions and the pulling device are well formed.
TypeOK ==
    /\ row \in [Rec -> Row]
    /\ counter \in Nat
    /\ tx \in [Txn -> TxState]
    /\ rowLock \in [Rec -> Txn \cup {NoTxn}]
    /\ cntLock \in Txn \cup {NoTxn}
    /\ dev \in Device

Fresh == [r \in Rec |-> [ver |-> 1, by |-> NoTxn, del |-> FALSE, seq |-> 0]]

Init ==
    /\ row = Fresh
    /\ counter = 0
    /\ tx = [t \in Txn |-> [pc |-> "new", kind |-> "upsert", todo |-> <<>>,
                            seen |-> 0, num |-> 0,
                            pend |-> [r \in Rec |-> Clean]]]
    /\ rowLock = [r \in Rec |-> NoTxn]
    /\ cntLock = NoTxn
    /\ dev = [pc |-> "idle", wm |-> 0, snap |-> 0, cursor |-> 0,
              got |-> Fresh, copy |-> Fresh]

-----------------------------------------------------------------------------
(* Writers                                                                 *)

IsPush(t) == tx[t].kind \in {"upsert", "delete"}

Target(t) == Head(tx[t].todo).rec
Base(t) == Head(tx[t].todo).base

\* A transaction sees its own writes and otherwise what is committed.
Sees(t, r) == IF tx[t].pend[r] # Clean THEN tx[t].pend[r] ELSE row[r]

RowFree(t, r) == rowLock[r] \in {NoTxn, t}
CounterFree(t) == cntLock \in {NoTxn, t}

Move(t, pc) == tx' = [tx EXCEPT ![t].pc = pc]

Begin(t, kind, todo) ==
    /\ tx[t].pc = "new"
    /\ kind \in Kinds
    /\ kind \in {"rest_update", "rest_delete"} => Len(todo) = 1
    /\ tx' = [tx EXCEPT ![t].kind = kind, ![t].todo = todo,
                        ![t].pc = CASE kind = "rest_update" -> "claim"
                                    [] kind = "rest_delete" -> "load"
                                    [] OTHER -> "lock"]
    /\ UNCHANGED <<row, counter, rowLock, cntLock, dev>>

\* push_changes: SELECT ... FOR UPDATE on the counter's row.
LockCounter(t) ==
    /\ tx[t].pc = "lock"
    /\ CounterFree(t)
    /\ cntLock' = t
    /\ tx' = [tx EXCEPT ![t].pc = "fetch", ![t].num = counter]
    /\ UNCHANGED <<row, counter, rowLock, dev>>

\* A push goes on to its next change; after the last one it commits.
After(t) ==
    [tx[t] EXCEPT !.todo = Tail(tx[t].todo),
                  !.pc = IF Len(tx[t].todo) = 1 THEN "commit" ELSE "fetch"]

\* fetch_obj and _check_base_version: a stale base is a conflict, and the
\* push goes on.
Fetch(t) ==
    /\ tx[t].pc = "fetch"
    /\ tx' = [tx EXCEPT ![t] =
          IF Sees(t, Target(t)).ver = Base(t) THEN [@ EXCEPT !.pc = "claim"]
          ELSE After(t)]
    /\ UNCHANGED <<row, counter, rowLock, cntLock, dev>>

\* delete_item reads the row without a lock and without a version.
Load(t) ==
    /\ tx[t].pc = "load"
    /\ tx' = [tx EXCEPT ![t].pc = "flush",
                        ![t].seen = Sees(t, Target(t)).ver]
    /\ UNCHANGED <<row, counter, rowLock, cntLock, dev>>

\* Mutant: the update does not check the version again.
ClaimUnconditional(t) ==
    /\ tx[t].pc = "claim"
    /\ RowFree(t, Target(t))
    /\ rowLock' = [rowLock EXCEPT ![Target(t)] = t]
    /\ tx' = [tx EXCEPT ![t].pc = "flush", ![t].seen = Base(t)]
    /\ UNCHANGED <<row, counter, cntLock, dev>>

\* UPDATE ... SET version = version + 1 WHERE version = base.
Claim(t) ==
    /\ tx[t].pc = "claim"
    /\ RowFree(t, Target(t))
    /\ Sees(t, Target(t)).ver = Base(t)
    /\ rowLock' = [rowLock EXCEPT ![Target(t)] = t]
    /\ tx' = [tx EXCEPT ![t].pc = "flush", ![t].seen = Base(t)]
    /\ UNCHANGED <<row, counter, cntLock, dev>>

\* The row has moved on: a conflict in a push, HTTP 409 from REST.
ClaimFails(t) ==
    /\ tx[t].pc = "claim"
    /\ RowFree(t, Target(t))
    /\ Sees(t, Target(t)).ver # Base(t)
    /\ tx' = [tx EXCEPT ![t] = IF IsPush(t) THEN After(t)
                               ELSE [@ EXCEPT !.pc = "done"]]
    /\ UNCHANGED <<row, counter, rowLock, cntLock, dev>>

\* Mutant: the number is read without the counter's lock.
TakeSequenceUnlocked(t) ==
    /\ tx[t].pc = "flush"
    /\ tx' = [tx EXCEPT ![t].pc = "write", ![t].num = counter + 1]
    /\ UNCHANGED <<row, counter, rowLock, cntLock, dev>>

\* before_update: reserve the next sequence under the counter's lock.
TakeSequence(t) ==
    /\ tx[t].pc = "flush"
    /\ CounterFree(t)
    /\ cntLock' = t
    /\ tx' = [tx EXCEPT ![t].pc = "write",
                        ![t].num = (IF cntLock = t THEN @ ELSE counter) + 1]
    /\ UNCHANGED <<row, counter, rowLock, dev>>

\* The flush writes the changed columns: the version that follows the one
\* the transaction claimed, or loaded.
WriteRow(t) ==
    /\ tx[t].pc = "write"
    /\ RowFree(t, Target(t))
    /\ rowLock' = [rowLock EXCEPT ![Target(t)] = t]
    /\ LET old == Sees(t, Target(t))
           deletes == tx[t].kind \in {"delete", "rest_delete"}
           new == [ver |-> tx[t].seen + 1,
                   by |-> IF deletes THEN old.by ELSE t,
                   del |-> old.del \/ deletes,
                   seq |-> tx[t].num]
       IN  tx' = [tx EXCEPT ![t] =
              [After(t) EXCEPT !.pend = [@ EXCEPT ![Target(t)] = new]]]
    /\ UNCHANGED <<row, counter, cntLock, dev>>

Release(t) ==
    /\ rowLock' = [r \in Rec |-> IF rowLock[r] = t THEN NoTxn ELSE rowLock[r]]
    /\ cntLock' = IF cntLock = t THEN NoTxn ELSE cntLock

Commit(t) ==
    /\ tx[t].pc = "commit"
    /\ row' = [r \in Rec |-> Sees(t, r)]
    /\ counter' = IF cntLock = t THEN tx[t].num ELSE counter
    /\ Release(t)
    /\ Move(t, "done")
    /\ UNCHANGED dev

\* A lost connection, a failed commit or the victim of a deadlock.
Abort(t) ==
    /\ tx[t].pc \notin {"new", "done"}
    /\ Release(t)
    /\ Move(t, "done")
    /\ UNCHANGED <<row, counter, dev>>

-----------------------------------------------------------------------------
(* Pull                                                                    *)

\* The first page fixes the snapshot for the pages that follow.
StartPull ==
    /\ dev.pc = "idle"
    /\ dev' = [dev EXCEPT !.pc = "pages", !.snap = counter, !.cursor = dev.wm,
                          !.got = dev.copy]
    /\ UNCHANGED <<row, counter, tx, rowLock, cntLock>>

\* The rows of the next page: in sequence order, after the cursor and not
\* after the snapshot.
Left == {r \in Rec : dev.cursor < row[r].seq /\ row[r].seq <= dev.snap}

Page ==
    {r \in Left : Cardinality({s \in Left : row[s].seq < row[r].seq})
                      < PageSize}

\* Mutant: what does not fit into the first page is not fetched.
ReadPageOnce ==
    /\ dev.pc = "pages"
    /\ dev' = [dev EXCEPT !.pc = "idle", !.wm = dev.snap, !.snap = 0,
                  !.cursor = 0,
                  !.copy = [r \in Rec |-> IF r \in Page THEN row[r]
                                          ELSE dev.copy[r]]]
    /\ UNCHANGED <<row, counter, tx, rowLock, cntLock>>

ReadPage ==
    /\ dev.pc = "pages"
    /\ LET got == [r \in Rec |-> IF r \in Page THEN row[r] ELSE dev.got[r]]
       IN  dev' = IF Page # Left
                  THEN [dev EXCEPT !.got = got,
                                   !.cursor = Max({row[r].seq : r \in Page})]
                  ELSE [dev EXCEPT !.pc = "idle", !.wm = dev.snap,
                                   !.copy = got, !.snap = 0, !.cursor = 0]
    /\ UNCHANGED <<row, counter, tx, rowLock, cntLock>>

\* A page fails: nothing of the pull is applied.
PullFails ==
    /\ dev.pc = "pages"
    /\ dev' = [dev EXCEPT !.pc = "idle", !.snap = 0, !.cursor = 0]
    /\ UNCHANGED <<row, counter, tx, rowLock, cntLock>>

-----------------------------------------------------------------------------

Todos == UNION {[1..n -> Request] : n \in 1..MaxBatch}

Writer(t) ==
    \/ \E kind \in Kinds, todo \in Todos : Begin(t, kind, todo)
    \/ LockCounter(t) \/ Fetch(t) \/ Load(t)
    \/ Claim(t) \/ ClaimFails(t)
    \/ TakeSequence(t) \/ WriteRow(t)
    \/ Commit(t) \/ Abort(t)

Next ==
    \/ \E t \in Txn : Writer(t)
    \/ StartPull \/ ReadPage \/ PullFails

Spec == Init /\ [][Next]_vars

-----------------------------------------------------------------------------
(* Properties                                                              *)

\* "The per-project counter row serializes concurrent writers until commit,
\* and a rollback also releases the number it reserved": whatever becomes
\* visible is numbered beyond everything that was visible before, without a
\* gap, although rows are locked and numbers reserved in different orders.
CommitsInOrder ==
    [][\A r \in Rec : row'[r] # row[r] =>
          /\ counter < row'[r].seq
          /\ row'[r].seq <= counter']_vars

\* A device that read its pages while writers committed between them has
\* every row at or below its watermark as the server has it: a row that
\* moves out of a page's window has moved beyond the watermark.
PullComplete ==
    \A r \in Rec : row[r].seq <= dev.wm => dev.copy[r] = row[r]

\* The same with well-formed tables, locks and transactions.
PagedPullSound == TypeOK /\ PullComplete

\* "a stale concurrent writer becomes an explicit conflict": no committed
\* write replaces a version its request did not name, so versions advance
\* one at a time. No run checks it: a REST delete names no version (README).
ClaimsHold ==
    [][\A r \in Rec : row'[r] # row[r] => row'[r].ver > row[r].ver]_vars

\* The committed tables as the state of VersionedRows.
Committed ==
    INSTANCE VersionedRows WITH Rec <- Rec, Txn <- Txn, NoTxn <- NoTxn,
                                MaxBatch <- MaxBatch, row <- row,
                                counter <- counter

\* The statements of concurrent transactions take effect as if each one had
\* run alone at its commit, on the versions it names (push_changes, and the
\* REST writes of items_crud.py): the specification VersionedRows.
WritesAreAtomic == Committed!Spec

=============================================================================
