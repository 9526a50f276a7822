----------------------------- MODULE ItemCodes -----------------------------
(***************************************************************************)
(* The codes of risks (R-001, R-002, ...): chosen offline by each device,  *)
(* assigned again by the server when they are taken, unique in the project *)
(* on the server and, by an index, on every device (mutations.py,          *)
(* entity_store.py, server_state.py, sync_outbox_queue.py). A code is its  *)
(* number. Deletion leaves codes alone and is left out; so is the version  *)
(* an open editor adds to a save (Editors).                                *)
(***************************************************************************)
EXTENDS Integers, Sequences, FiniteSets, Functions

CONSTANTS
    Device, Risk,
    Home,      \* the device that creates each item
    Code,      \* numbers a user or an API client may ask for
    Budget     \* bounds: what a behaviour may spend

ASSUME CodesAssumption ==
    /\ IsFiniteSet(Risk)
    /\ Code \subseteq Nat \ {0}
    /\ Home \in [Risk -> Device]
    /\ Budget \subseteq
         [saves : Nat, typed : Nat, renames : Nat, losses : Nat, late : BOOLEAN]

VARIABLES
    srv,      \* table items: code, version and change sequence
    seq,      \* the project's change sequence
    receipt,  \* sync_receipts: identifier, outcome, and the row then
    row,      \* table risks of each device
    queue,    \* its outbox, oldest entry first
    mark,     \* its watermark
    call,     \* what its pass is waiting for
    failed,   \* a statement of a pass was rejected by the index of codes
    spent, budget

serverVars == <<srv, seq, receipt>>
deviceVars == <<row, queue, mark, call, failed>>
codeVars == <<serverVars, deviceVars, spent, budget>>

NoCode == 0
Absent == -1     \* the version of a row that is not there
Idle == [kind |-> "idle"]

\* The lowest number that is not used.
FirstFree(used) == CHOOSE n \in 1..(Cardinality(used) + 1) :
    n \notin used /\ \A m \in 1..(n - 1) : m \in used

\* The members of s that are in keep, in their order.
Only(s, keep) ==
    LET f[k \in 0..Len(s)] == IF k = 0 THEN <<>>
                              ELSE IF s[k] \in keep THEN Append(f[k - 1], s[k])
                              ELSE f[k - 1]
    IN  f[Len(s)]

-----------------------------------------------------------------------------
(* The server                                                              *)

Others(table, i) == {table[j].code : j \in Risk \ {i}} \ {NoCode}

\* Mutant: a code that is taken is kept.
CanonicalKept(table, i, code) == code

\* _canonical_item_code
Canonical(table, i, code) ==
    IF code \in Others(table, i) THEN FirstFree(Others(table, i)) ELSE code

Result(e, outcome, cur, version) ==
    [id |-> e.id, item |-> e.item, outcome |-> outcome, code |-> cur.code,
     ver |-> cur.ver, acked |-> version]

\* _apply_upsert with its receipt: st is the transaction so far.
Accept(st, e, code) ==
    LET new == [code |-> code, ver |-> st.srv[e.item].ver + 1, seq |-> st.seq + 1]
    IN  [srv |-> [st.srv EXCEPT ![e.item] = new],
         seq |-> st.seq + 1,
         receipt |-> st.receipt \cup
                        {[id |-> e.id, outcome |-> "accepted", row |-> new]},
         results |-> Append(st.results, Result(e, "accepted", new, new.ver))]

Refuse(st, e, outcome) ==
    [st EXCEPT
        !.receipt = @ \cup {[id |-> e.id, outcome |-> outcome,
                             row |-> st.srv[e.item]]},
        !.results = Append(@, Result(e, outcome, st.srv[e.item], 0))]

\* The answer to a change that was processed before: an acceptance reports
\* the row of today (refresh_accepted_replay), a refusal the row of then.
Replay(st, e, r) ==
    IF r.outcome = "accepted"
    THEN Result(e, r.outcome, st.srv[e.item], r.row.ver)
    ELSE Result(e, r.outcome, r.row, 0)

\* One change of push_changes. A create may be given another code; an update
\* to a code that is taken violates the constraint.
Process(st, e) ==
    LET cur == st.srv[e.item]
        old == {r \in st.receipt : r.id = e.id}
    IN  IF old # {}
        THEN [st EXCEPT !.results =
                 Append(@, Replay(st, e, CHOOSE r \in old : TRUE))]
        ELSE IF cur.ver = 0
        THEN LET code == Canonical(st.srv, e.item, e.code)
             IN  IF code \in Others(st.srv, e.item) THEN Refuse(st, e, "error")
                 ELSE Accept(st, e, code)
        ELSE IF e.base # cur.ver THEN Refuse(st, e, "conflict")
        ELSE IF e.code \in Others(st.srv, e.item) THEN Refuse(st, e, "error")
        ELSE Accept(st, e, e.code)

\* push_changes for the pending entries of an outbox, oldest first.
PushChanges(st, entries) ==
    LET f[k \in 0..Len(entries)] ==
            IF k = 0 THEN st
            ELSE IF entries[k].state = "pending" THEN Process(f[k - 1], entries[k])
            ELSE f[k - 1]
    IN  f[Len(entries)]

\* update_item: an API client gives an item another code.
Rename(i, code) ==
    /\ spent.renames < budget.renames
    /\ spent' = [spent EXCEPT !.renames = @ + 1]
    /\ srv[i].ver > 0 /\ code # srv[i].code
    /\ code \notin Others(srv, i)
    /\ srv' = [srv EXCEPT ![i] = [code |-> code, ver |-> @.ver + 1,
                                  seq |-> seq + 1]]
    /\ seq' = seq + 1
    /\ UNCHANGED <<receipt, deviceVars, budget>>

-----------------------------------------------------------------------------
(* The tables of a device                                                  *)

\* A statement that gives item i a code; ok says whether the index accepts it.
SetCode(st, i, code, ver) ==
    [st EXCEPT !.rows = [@ EXCEPT ![i] = [code |-> code, ver |-> ver]],
               !.ok = @ /\ code \notin Others(st.rows, i)]

\* _apply_pull_scored_entities for one row.
ApplyRow(st, r) ==
    SetCode([st EXCEPT !.rows =
                [j \in Risk |-> IF j # r.item /\ @[j].code = r.code
                                THEN [@[j] EXCEPT !.code = NoCode] ELSE @[j]]],
            r.item, r.code, r.ver)

\* The rows of a pull that have no queued change, oldest first.
ApplyRows(st, rows, free) ==
    LET f[k \in 0..Len(rows)] == IF k = 0 THEN st
                                 ELSE IF rows[k].item \in free
                                 THEN ApplyRow(f[k - 1], rows[k])
                                 ELSE f[k - 1]
    IN  f[Len(rows)]

Accepted(results) == {k \in DOMAIN results : results[k].outcome = "accepted"}

\* Mutant: the codes of the batch are not released first.
ReleaseNone(rows, results) == rows

\* release_scored_codes_for_acknowledgements
Release(rows, results) ==
    [j \in Risk |->
        IF \E k \in Accepted(results) :
              results[k].item = j \/ results[k].code = rows[j].code
        THEN [rows[j] EXCEPT !.code = NoCode] ELSE rows[j]]

\* _acknowledge_sent, or _advance_replacement when a newer save has taken the
\* place of what was sent.
Acknowledge(st, r) ==
    IF \E k \in DOMAIN st.queue : st.queue[k].id = r.id
    THEN ApplyRow([st EXCEPT !.queue = Only(@, {e \in Range(@) : e.id # r.id})], r)
    ELSE IF \E k \in DOMAIN st.queue :
               st.queue[k].item = r.item /\ st.queue[k].state = "pending"
    THEN LET moved == [k \in DOMAIN st.queue |->
                 IF st.queue[k].item # r.item THEN st.queue[k]
                 ELSE [st.queue[k] EXCEPT !.code = r.code,
                           !.base = IF @ > r.acked THEN @ ELSE r.acked]]
             old == st.rows[r.item].ver
         IN  SetCode([st EXCEPT !.queue = moved], r.item, r.code,
                     IF old > r.acked THEN old ELSE r.acked)
    ELSE st

\* acknowledge_accepted_results, one transaction.
AcknowledgeAll(st, results) ==
    LET f[k \in 0..Len(results)] ==
            IF k = 0 THEN st
            ELSE IF k \in Accepted(results) THEN Acknowledge(f[k - 1], results[k])
            ELSE f[k - 1]
    IN  f[Len(results)]

\* block_outbox_id for the conflicts and errors of an answer.
Blocked(entries, results) ==
    [k \in DOMAIN entries |->
        LET mine == {n \in DOMAIN results :
                        results[n].id = entries[k].id
                        /\ results[n].outcome # "accepted"}
        IN  IF mine = {} THEN entries[k]
            ELSE LET r == results[CHOOSE n \in mine : TRUE]
                 IN  [entries[k] EXCEPT !.state = r.outcome,
                                        !.copy = [code |-> r.code, ver |-> r.ver]]]

\* _next_code
NextCode(d) ==
    LET used == {row[d][i].code : i \in Risk}
    IN  (CHOOSE n \in used \cup {0} : \A m \in used : m <= n) + 1

Open(d, i) == {k \in DOMAIN queue[d] : queue[d][k].item = i}
EntryOf(d, i) == queue[d][CHOOSE k \in Open(d, i) : TRUE]

Without(d, i) == Only(queue[d], {e \in Range(queue[d]) : e.item # i})

\* _replace_outbox_entry
Replaced(d, e) == Append(Without(d, e.item), e)

NewEntry(d, i, code, typed, base) ==
    [item |-> i, code |-> code, typed |-> typed, base |-> base,
     id |-> <<d, spent.saves>>, sent |-> FALSE, state |-> "pending",
     copy |-> [code |-> NoCode, ver |-> 0]]

Queued(d, i, code, typed) ==
    IF Open(d, i) = {}
    THEN Replaced(d, NewEntry(d, i, code, typed,
                              IF row[d][i].ver > 0 THEN row[d][i].ver ELSE 0))
    ELSE LET old == EntryOf(d, i)
         IN  IF old.state = "conflict"
             THEN [k \in DOMAIN queue[d] |->
                     IF k \in Open(d, i)
                     THEN [queue[d][k] EXCEPT !.code = code, !.typed = typed]
                     ELSE queue[d][k]]
             ELSE Replaced(d, NewEntry(d, i, code, typed,
                     IF old.base = 0 /\ old.sent THEN 1 ELSE old.base))

CountSave == spent.saves < budget.saves

-----------------------------------------------------------------------------
(* The user                                                                *)

\* create and update of the service: a blank code is the row's, or the next
\* one (_ensure_code); one that another row has is refused by the index.
Save(d, i, asked) ==
    LET blank == IF row[d][i].ver # Absent /\ row[d][i].code # NoCode
                 THEN row[d][i].code ELSE NextCode(d)
        code == IF asked = NoCode THEN blank ELSE asked
        typed == asked \notin {NoCode, row[d][i].code}
    IN  /\ CountSave
        /\ row[d][i].ver = Absent => Home[i] = d
        /\ typed => spent.typed < budget.typed
        /\ ~budget.late => call[d] = Idle
        /\ code \notin Others(row[d], i)
        /\ row' = [row EXCEPT ![d][i] = [code |-> code,
                       ver |-> IF @.ver = Absent THEN 0 ELSE @.ver]]
        /\ queue' = [queue EXCEPT ![d] = Queued(d, i, code, typed)]
        /\ spent' = [spent EXCEPT !.saves = @ + 1,
                                  !.typed = IF typed THEN @ + 1 ELSE @]
        /\ UNCHANGED <<serverVars, mark, call, failed, budget>>

Conflicting(d, i) ==
    call[d] = Idle /\ Open(d, i) # {} /\ EntryOf(d, i).state = "conflict"

\* _keep_mine
KeepMine(d, i) ==
    LET old == EntryOf(d, i)
        newest == IF row[d][i].ver > old.copy.ver THEN row[d][i].ver
                  ELSE old.copy.ver
    IN  /\ Conflicting(d, i)
        /\ CountSave
        /\ queue' = [queue EXCEPT ![d] =
                        Replaced(d, NewEntry(d, i, old.code, old.typed, newest))]
        /\ spent' = [spent EXCEPT !.saves = @ + 1]
        /\ UNCHANGED <<serverVars, row, mark, call, failed, budget>>

SavedCopy(d, i) ==
    [item |-> i, code |-> EntryOf(d, i).copy.code, ver |-> EntryOf(d, i).copy.ver]

\* Mutant: the watermark is left where it was.
UseServerAhead(d, i) ==
    /\ Conflicting(d, i)
    /\ row' = [row EXCEPT ![d] =
                  ApplyRow([rows |-> @, ok |-> TRUE], SavedCopy(d, i)).rows]
    /\ queue' = [queue EXCEPT ![d] = Without(d, i)]
    /\ UNCHANGED <<serverVars, mark, call, failed, spent, budget>>

\* _use_server: the copy saved with the conflict may be old by now.
UseServer(d, i) ==
    /\ Conflicting(d, i)
    /\ row' = [row EXCEPT ![d] =
                  ApplyRow([rows |-> @, ok |-> TRUE], SavedCopy(d, i)).rows]
    /\ queue' = [queue EXCEPT ![d] = Without(d, i)]
    /\ mark' = [mark EXCEPT ![d] = 0]
    /\ UNCHANGED <<serverVars, call, failed, spent, budget>>

\* _merge with the local code on the server's copy; the index may refuse it.
MergeMine(d, i) ==
    LET old == EntryOf(d, i)
        taken == ApplyRow([rows |-> row[d], ok |-> TRUE], SavedCopy(d, i)).rows
    IN  /\ Conflicting(d, i)
        /\ CountSave
        /\ row[d][i].ver <= old.copy.ver
        /\ old.code # old.copy.code
        /\ old.code \notin Others(taken, i)
        /\ row' = [row EXCEPT ![d] = [taken EXCEPT ![i].code = old.code]]
        /\ queue' = [queue EXCEPT ![d] =
               Replaced(d, NewEntry(d, i, old.code, old.typed, old.copy.ver))]
        /\ mark' = [mark EXCEPT ![d] = 0]
        /\ spent' = [spent EXCEPT !.saves = @ + 1]
        /\ UNCHANGED <<serverVars, call, failed, budget>>

-----------------------------------------------------------------------------
(* A pass                                                                  *)

Lose == /\ spent.losses < budget.losses
        /\ spent' = [spent EXCEPT !.losses = @ + 1]

\* _process_push up to the answer: the entries are marked as sent, and the
\* server works on them in one transaction, unless the request is lost.
Send(d, arrives) ==
    LET after == PushChanges([srv |-> srv, seq |-> seq, receipt |-> receipt,
                              results |-> <<>>], queue[d])
    IN  /\ call[d] = Idle
        /\ \E k \in DOMAIN queue[d] : queue[d][k].state = "pending"
        /\ queue' = [queue EXCEPT ![d] = [k \in DOMAIN @ |->
                        IF @[k].state = "pending"
                        THEN [@[k] EXCEPT !.sent = TRUE] ELSE @[k]]]
        /\ IF arrives
           THEN /\ srv' = after.srv /\ seq' = after.seq
                /\ receipt' = after.receipt
                /\ call' = [call EXCEPT ![d] =
                               [kind |-> "push", results |-> after.results]]
                /\ UNCHANGED spent
           ELSE Lose /\ UNCHANGED <<serverVars, call>>
        /\ UNCHANGED <<row, mark, failed, budget>>

LoseAnswer(d) ==
    /\ call[d].kind = "push"
    /\ Lose
    /\ call' = [call EXCEPT ![d] = Idle]
    /\ UNCHANGED <<serverVars, row, queue, mark, failed, budget>>

\* What was accepted is acknowledged, then the other entries are blocked.
Receive(d) ==
    LET results == call[d].results
        after == AcknowledgeAll([rows |-> Release(row[d], results),
                                 queue |-> queue[d], ok |-> TRUE], results)
    IN  /\ call[d].kind = "push"
        /\ row' = [row EXCEPT ![d] = after.rows]
        /\ queue' = [queue EXCEPT ![d] = Blocked(after.queue, results)]
        /\ failed' = (failed \/ ~after.ok)
        /\ call' = [call EXCEPT ![d] = Idle]
        /\ UNCHANGED <<serverVars, mark, spent, budget>>

\* _fetch_pull: the rows above the watermark, in order of their sequences.
Fetch(d) ==
    LET changed == {i \in Risk : srv[i].seq > mark[d]}
    IN  /\ call[d] = Idle /\ changed # {}
        /\ \E order \in Bijection(1..Cardinality(changed), changed) :
            /\ \A k, n \in DOMAIN order :
                  k < n => srv[order[k]].seq < srv[order[n]].seq
            /\ call' = [call EXCEPT ![d] =
                   [kind |-> "pull", upto |-> seq,
                    rows |-> [k \in DOMAIN order |->
                                [item |-> order[k], code |-> srv[order[k]].code,
                                 ver |-> srv[order[k]].ver]]]]
        /\ UNCHANGED <<serverVars, row, queue, mark, failed, spent, budget>>

\* _apply_pull: an item with a queued change keeps its row; a conflict keeps
\* the newer copy.
Apply(d) ==
    LET rows == call[d].rows
        after == ApplyRows([rows |-> row[d], ok |-> TRUE], rows,
                           {i \in Risk : Open(d, i) = {}})
    IN  /\ call[d].kind = "pull"
        /\ row' = [row EXCEPT ![d] = after.rows]
        /\ queue' = [queue EXCEPT ![d] = [k \in DOMAIN @ |->
               LET newer == {n \in DOMAIN rows : rows[n].item = @[k].item}
               IN  IF @[k].state # "conflict" \/ newer = {} THEN @[k]
                   ELSE LET r == rows[CHOOSE n \in newer : TRUE]
                        IN  [@[k] EXCEPT !.copy = [code |-> r.code,
                                                   ver |-> r.ver]]]]
        /\ mark' = [mark EXCEPT ![d] = call[d].upto]
        /\ failed' = (failed \/ ~after.ok)
        /\ call' = [call EXCEPT ![d] = Idle]
        /\ UNCHANGED <<serverVars, spent, budget>>

-----------------------------------------------------------------------------

CodesInit ==
    /\ srv = [i \in Risk |-> [code |-> NoCode, ver |-> 0, seq |-> 0]]
    /\ seq = 0 /\ receipt = {}
    /\ row = [d \in Device |-> [i \in Risk |-> [code |-> NoCode, ver |-> Absent]]]
    /\ queue = [d \in Device |-> <<>>]
    /\ mark = [d \in Device |-> 0]
    /\ call = [d \in Device |-> Idle]
    /\ failed = FALSE
    /\ budget \in Budget
    /\ spent = [saves |-> 0, typed |-> 0, renames |-> 0, losses |-> 0]

CodesNext ==
    \/ \E d \in Device, i \in Risk :
          \/ \E asked \in Code \cup {NoCode} : Save(d, i, asked)
          \/ KeepMine(d, i) \/ UseServer(d, i) \/ MergeMine(d, i)
    \/ \E d \in Device :
          \/ \E arrives \in BOOLEAN : Send(d, arrives)
          \/ LoseAnswer(d) \/ Receive(d) \/ Fetch(d) \/ Apply(d)
    \/ \E i \in Risk, code \in Code : Rename(i, code)

CodesSpec == CodesInit /\ [][CodesNext]_codeVars

-----------------------------------------------------------------------------
(* Properties                                                              *)

\* Tables and calls are well formed, with one queued change per item.
CodesTypeOK ==
    /\ \A i \in Risk : srv[i].code \in Nat /\ srv[i].ver \in Nat
                       /\ srv[i].seq \in 0..seq
    /\ \A d \in Device :
        /\ mark[d] \in 0..seq
        /\ call[d].kind \in {"idle", "push", "pull"}
        /\ \A i \in Risk : /\ Cardinality(Open(d, i)) <= 1
                           /\ row[d][i].ver >= Absent
        /\ \A k \in DOMAIN queue[d] :
            queue[d][k].state \in {"pending", "conflict", "error"}
            /\ queue[d][k].base \in Nat

\* "Clearing all affected owners first prevents the per-project unique index
\* from rejecting an otherwise valid batch", "Release it instead of failing
\* the pull" (server_state.py): no statement of an acknowledgement or a pull
\* is rejected, whatever codes were swapped, assigned or typed meanwhile.
IndexNeverRejects == ~failed

\* The tables of the devices stay well formed without a rejected statement.
IndexSound == CodesTypeOK /\ IndexNeverRejects

\* "that row's own server state brings its current code" (server_state.py):
\* a released code is not lost. Once a device has pulled everything, every
\* item without a queued change has the code it has on the server.
CodesArrive ==
    \A d \in Device, i \in Risk :
        call[d] = Idle /\ mark[d] = seq /\ Open(d, i) = {} /\ srv[i].ver > 0
            => row[d][i].code = srv[i].code

\* "Offline devices may independently choose R-001/O-001" (mutations.py): a
\* new item always reaches the server, whatever code its device chose.
CreatesAccepted ==
    \A d \in Device : \A k \in DOMAIN queue[d] :
        queue[d][k].state = "error" => srv[queue[d][k].item].ver > 0

\* A code the device chose by itself is never why a save is refused: only a
\* code that somebody typed may be. No run checks it (README).
ChosenCodesAccepted ==
    spent.typed + spent.renames = 0 =>
        \A d \in Device : \A k \in DOMAIN queue[d] : queue[d][k].state # "error"

\* "must never overwrite its editable field values" (sync_outbox_queue.py,
\* _advance_replacement): an answer leaves the code that was typed into a
\* newer save. No run checks it (README).
TypedCodeKept ==
    [][\A d \in Device : call'[d] # call[d] =>
        \A k \in DOMAIN queue[d], n \in DOMAIN queue'[d] :
            queue[d][k].id = queue'[d][n].id /\ queue[d][k].typed =>
                queue'[d][n].code = queue[d][k].code]_codeVars

=============================================================================
