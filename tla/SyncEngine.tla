----------------------------- MODULE SyncEngine -----------------------------
(***************************************************************************)
(* What the server decides for one change of a push, as operators on a     *)
(* working copy w of the project's tables inside the push transaction      *)
(* (server/riskapp_server/sync: engine.py, mutations.py, receipts.py).     *)
(*                                                                         *)
(* A working copy is a record                                              *)
(*   row     the synchronized row of each record (version 0: no row),      *)
(*   seq     the project's change_sequence counter (sync_project_state),   *)
(*   rcpt    the receipt stored for each change_id (status "none": none),  *)
(*   applied how many times each change_id has been applied: a history     *)
(*           variable, not a column of the database.                       *)
(*                                                                         *)
(* Field contents are opaque values; is_deleted of an upsert's record is   *)
(* absent, true or false (flag); a record that fails schema validation or  *)
(* a database constraint has valid = FALSE.                                *)
(***************************************************************************)
EXTENDS Naturals, Sequences

CONSTANTS
    Rec,            \* records of one project
    Val,            \* contents of a record
    NoVal,          \* the content of a row that does not exist
    User,           \* users who push
    NoUser,
    ChangeId,       \* receipt identifiers
    Parent,         \* Parent[r]: the item r belongs to, or NoRec
    NoRec,
    ManagerDelete,  \* records only a manager may delete or undelete
    Owned           \* records only their creator may change (assessments)

ASSUME EngineAssumption ==
    /\ NoVal \notin Val
    /\ NoUser \notin User
    /\ NoRec \notin Rec
    /\ Parent \in [Rec -> Rec \cup {NoRec}]
    /\ ManagerDelete \subseteq Rec
    /\ Owned \subseteq Rec

Ops == {"upsert", "delete"}
Flag == {"absent", "true", "false"}
Status == {"accepted", "conflict", "error"}
Kind == {"none", "conflict", "validation", "permission", "authentication",
         "transient"}

\* A synchronized row. "by" is its creator.
Row == [ver: Nat, val: Val \cup {NoVal}, del: BOOLEAN,
        by: User \cup {NoUser}, seq: Nat]

NoRow == [ver |-> 0, val |-> NoVal, del |-> FALSE, by |-> NoUser, seq |-> 0]

\* What a payload_hash distinguishes: everything but the receipt identifier.
\* base = 0 stands for a missing base_version: the engine treats None and
\* any value below 1 alike.
Payload == [rec: Rec, op: Ops \cup {"other"}, base: Nat, val: Val,
            flag: Flag, valid: BOOLEAN]

Change == [id: ChangeId, pay: Payload]

Receipt == [user: User, pay: Payload, status: Status, kind: Kind,
            ver: Nat, row: Row]

NoReceipt == [status |-> "none"]

Result == [id: ChangeId, rec: Rec, status: Status, kind: Kind,
           ver: Nat, row: Row, rver: Nat, replayed: BOOLEAN]

Work == [row: [Rec -> Row], seq: Nat,
         rcpt: [ChangeId -> Receipt \cup {NoReceipt}],
         applied: [ChangeId -> Nat]]

InitWork == [row |-> [r \in Rec |-> NoRow], seq |-> 0,
             rcpt |-> [i \in ChangeId |-> NoReceipt],
             applied |-> [i \in ChangeId |-> 0]]

-----------------------------------------------------------------------------
(* Writing rows and receipts                                               *)

\* Every insert or update of a synchronized row takes the project's next
\* change_sequence in the same transaction.
WriteRow(w, r, row) ==
    [w EXCEPT !.seq = w.seq + 1,
              !.row = [w.row EXCEPT ![r] = [row EXCEPT !.seq = w.seq + 1]]]

\* The receipt kept for change c of user u.
StoreReceipt(w, u, c, status, kind, row) ==
    [w EXCEPT !.rcpt = [w.rcpt EXCEPT ![c.id] =
        [user |-> u, pay |-> c.pay, status |-> status, kind |-> kind,
         ver |-> row.ver, row |-> row]]]

Count(w, c) ==
    [w EXCEPT !.applied = [w.applied EXCEPT ![c.id] = @ + 1]]

-----------------------------------------------------------------------------
(* Applying one change                                                     *)

\* Deletes, and upserts that delete or undelete, of manager-only records.
RequiresManager(w, p) ==
    /\ p.rec \in ManagerDelete
    /\ \/ p.op = "delete"
       \/ p.flag = "true"
       \/ p.flag = "false" /\ w.row[p.rec].ver > 0 /\ w.row[p.rec].del

\* An assessment's row belongs to its assessor.
NotOwner(w, u, p) == p.rec \in Owned /\ w.row[p.rec].by # u

\* Mutant: only a missing base_version is a conflict.
StaleBaseMissingOnly(w, p) == p.base < 1

\* A missing base_version and a stale one are both conflicts.
StaleBase(w, p) == p.base < 1 \/ w.row[p.rec].ver # p.base

\* Mutant: the parent item is not looked up.
TargetMissingIgnored(w, p) == FALSE

TargetMissing(w, p) ==
    Parent[p.rec] # NoRec /\ w.row[Parent[p.rec]].ver = 0

CreateNew(w, u, p) ==
    WriteRow(w, p.rec,
        [ver |-> 1, val |-> p.val, del |-> p.flag = "true", by |-> u,
         seq |-> 0])

\* Mutant: the update keeps the version.
UpdateExistingSameVersion(w, p) ==
    WriteRow(w, p.rec, [w.row[p.rec] EXCEPT !.val = p.val])

UpdateExisting(w, p) ==
    LET old == w.row[p.rec]
    IN  WriteRow(w, p.rec,
            [old EXCEPT !.ver = old.ver + 1,
                        !.val = p.val,
                        !.del = IF p.flag = "absent" THEN old.del
                                ELSE p.flag = "true"])

\* Mutant: the delete keeps the version.
SoftDeleteSameVersion(w, p) ==
    WriteRow(w, p.rec, [w.row[p.rec] EXCEPT !.del = TRUE])

SoftDelete(w, p) ==
    LET old == w.row[p.rec]
    IN  WriteRow(w, p.rec, [old EXCEPT !.ver = old.ver + 1, !.del = TRUE])

\* The working copy after change c is accepted with mutated tables m: the
\* receipt carries the row as the transaction now sees it.
Accept(m, u, c) ==
    StoreReceipt(Count(m, c), u, c, "accepted", "none", m.row[c.pay.rec])

\* A rejection that is final is remembered, a transient one is not.
Reject(w, u, c, kind) == StoreReceipt(w, u, c, "error", kind, NoRow)

Conflict(w, u, c) ==
    StoreReceipt(w, u, c, "conflict", "conflict", w.row[c.pay.rec])

\* The outcome of a change that has no receipt: its status, its failure kind
\* and the working copy it leaves. fails: an unexpected exception while the
\* change is applied, whose savepoint is rolled back without a receipt.
ProcessNew(w, u, manager, c, fails) ==
    LET p == c.pay
        exists == w.row[p.rec].ver > 0
        out(status, kind, w2) ==
            [status |-> status, kind |-> kind, work |-> w2]
        reject(kind) == out("error", kind, Reject(w, u, c, kind))
    IN  IF p.op \notin Ops THEN reject("validation")
        ELSE IF RequiresManager(w, p) /\ ~manager THEN reject("permission")
        ELSE IF fails THEN out("error", "transient", w)
        ELSE IF ~exists /\ p.op = "delete"
             THEN out("accepted", "none", Accept(w, u, c))
        ELSE IF exists /\ NotOwner(w, u, p) THEN reject("permission")
        ELSE IF exists /\ StaleBase(w, p)
             THEN out("conflict", "conflict", Conflict(w, u, c))
        ELSE IF p.op = "delete"
             THEN out("accepted", "none", Accept(SoftDelete(w, p), u, c))
        ELSE IF ~p.valid \/ TargetMissing(w, p) THEN reject("validation")
        ELSE IF exists
             THEN out("accepted", "none", Accept(UpdateExisting(w, p), u, c))
        ELSE out("accepted", "none", Accept(CreateNew(w, u, p), u, c))

\* The result the client receives for a change processed for the first time.
NewResult(c, o) ==
    LET row == IF o.status = "error" THEN NoRow ELSE o.work.row[c.pay.rec]
    IN  [id |-> c.id, rec |-> c.pay.rec, status |-> o.status, kind |-> o.kind,
         ver |-> row.ver, row |-> row, rver |-> 0, replayed |-> FALSE]

-----------------------------------------------------------------------------
(* A change_id that has been seen before                                   *)

\* current_server_state: the row, unless it is another user's assessment.
Visible(w, u, r) ==
    w.row[r].ver > 0 /\ (r \in Owned => w.row[r].by = u)

\* Mutant: the two versions are reported the wrong way round.
RefreshAcceptedReplaySwapped(w, u, res) ==
    IF res.status = "accepted" /\ Visible(w, u, res.rec)
    THEN [res EXCEPT !.rver = w.row[res.rec].ver, !.row = w.row[res.rec]]
    ELSE res

\* An accepted replay reports the row as it is now, and apart from it the
\* version its first acceptance produced; any other outcome is repeated.
RefreshAcceptedReplay(w, u, res) ==
    IF res.status = "accepted" /\ Visible(w, u, res.rec)
    THEN [res EXCEPT !.rver = res.ver,
                     !.ver = w.row[res.rec].ver,
                     !.row = w.row[res.rec]]
    ELSE res

ReceiptResult(c, rc) ==
    [id |-> c.id, rec |-> rc.pay.rec, status |-> rc.status, kind |-> rc.kind,
     ver |-> rc.ver, row |-> rc.row, rver |-> 0, replayed |-> TRUE]

\* A repeated identifier replays only for the same user and payload.
MayReplay(u, c, rc) == rc.user = u /\ rc.pay = c.pay

DuplicateError(c) ==
    [id |-> c.id, rec |-> c.pay.rec, status |-> "error",
     kind |-> "validation", ver |-> 0, row |-> NoRow, rver |-> 0,
     replayed |-> FALSE]

ReplayResult(w, u, c, rc) ==
    IF MayReplay(u, c, rc)
    THEN RefreshAcceptedReplay(w, u, ReceiptResult(c, rc))
    ELSE DuplicateError(c)

-----------------------------------------------------------------------------
(* One change of a batch. old: the receipts that existed when the          *)
(* transaction began; prior: the sequence of changes and results of the    *)
(* same batch that came before.                                            *)

\* The first change of the batch with c's identifier, if any.
Earlier(prior, c) == {k \in 1..Len(prior) : prior[k].change.id = c.id}

Repeat(w, u, c, first) ==
    IF first.change.pay = c.pay
    THEN RefreshAcceptedReplay(w, u, [first.result EXCEPT !.replayed = TRUE])
    ELSE DuplicateError(c)

\* Mutant: the receipts that existed before the batch are not consulted.
ProcessForgetful(old, w, u, manager, prior, c, fails) ==
    LET o == ProcessNew(w, u, manager, c, fails)
    IN  [work |-> o.work, result |-> NewResult(c, o)]

Process(old, w, u, manager, prior, c, fails) ==
    IF old[c.id] # NoReceipt
    THEN [work |-> w, result |-> ReplayResult(w, u, c, old[c.id])]
    ELSE IF Earlier(prior, c) # {}
    THEN LET first == CHOOSE k \in Earlier(prior, c) :
                          \A j \in Earlier(prior, c) : k <= j
         IN  [work |-> w, result |-> Repeat(w, u, c, prior[first])]
    ELSE LET o == ProcessNew(w, u, manager, c, fails)
         IN  [work |-> o.work, result |-> NewResult(c, o)]

-----------------------------------------------------------------------------
(* Pull                                                                    *)

\* Mutant: the first change after the watermark is skipped.
PullSetOffByOne(w, since, snapshot) ==
    {r \in Rec : since + 1 < w.row[r].seq /\ w.row[r].seq <= snapshot}

\* The records a pull returns: rows changed after the caller's watermark and
\* not after the snapshot the server fixed for the pull.
PullSet(w, since, snapshot) ==
    {r \in Rec : since < w.row[r].seq /\ w.row[r].seq <= snapshot}

=============================================================================
