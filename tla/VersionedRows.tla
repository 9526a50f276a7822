---------------------------- MODULE VersionedRows ----------------------------
(***************************************************************************)
(* What the server promises the writers of a project's existing rows,      *)
(* whatever the database does between their statements: a transaction's    *)
(* writes take effect together and in order; each one moves its row to the *)
(* next version, but for the REST deletes, which claim none, and takes the *)
(* project's next sequence number                                          *)
(* (docs/ARCHITECTURE.md, section 5).                                      *)
(***************************************************************************)
EXTENDS Integers, Sequences, FiniteSetsExt

CONSTANTS Rec, Txn, NoTxn, MaxBatch

VARIABLES row, counter

\* by: the transaction whose values the row holds.
Row == [ver: Nat, by: Txn \cup {NoTxn}, del: BOOLEAN, seq: Nat]

Batches == UNION {[1..n -> [rec: Rec, delete: BOOLEAN]] : n \in 1..MaxBatch}

\* The positions at which a batch writes record r.
Writes(batch, r) == {k \in DOMAIN batch : batch[k].rec = r}

\* The row of r after all writes of a batch, one version and one sequence
\* number each.
Written(t, batch, r) ==
    LET W == Writes(batch, r)
    IN  IF W = {} THEN row[r]
        ELSE [ver |-> row[r].ver + Cardinality(W),
              by |-> IF \A k \in W : batch[k].delete THEN row[r].by ELSE t,
              del |-> row[r].del \/ \E k \in W : batch[k].delete,
              seq |-> counter + Max(W)]

Transaction(t, batch) ==
    /\ row' = [r \in Rec |-> Written(t, batch, r)]
    /\ counter' = counter + Len(batch)

\* A REST delete claims no version: it writes the one that follows a version
\* the row once had.
UnclaimedDelete(r, seen) ==
    /\ row' = [row EXCEPT ![r] = [@ EXCEPT !.ver = seen + 1, !.del = TRUE,
                                          !.seq = counter + 1]]
    /\ counter' = counter + 1

Init ==
    /\ row = [r \in Rec |-> [ver |-> 1, by |-> NoTxn, del |-> FALSE,
                             seq |-> 0]]
    /\ counter = 0

Next ==
    \/ \E t \in Txn, batch \in Batches : Transaction(t, batch)
    \/ \E r \in Rec, seen \in 1..counter + 1 : UnclaimedDelete(r, seen)

Spec == Init /\ [][Next]_<<row, counter>>

=============================================================================
