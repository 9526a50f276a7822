------------------------------ MODULE Sessions ------------------------------
(***************************************************************************)
(* The sessions of one account: refresh tokens on the server               *)
(* (auth/service.py and the routes that call it), statement by statement   *)
(* as PostgreSQL runs them at READ COMMITTED, and the desktop client whose *)
(* threads share one authentication state (rest_api_client.py).            *)
(*                                                                         *)
(* A token is known by its position in the table. An access token is       *)
(* issued with every refresh token and is known by the same number, so     *)
(* what the client holds is one number. Time passes in ticks.              *)
(***************************************************************************)
EXTENDS Naturals, Sequences, FiniteSets

CONSTANTS
    Thread,        \* threads of the client that call the server
    NoThread,
    Request,       \* /refresh requests the server works on at once
    Operator,      \* concurrent account operations: passwords, resets, state
    AccessLife,    \* ACCESS_TOKEN_MINUTES
    RefreshLife,   \* REFRESH_TOKEN_DAYS
    Grace,         \* REFRESH_TOKEN_REUSE_GRACE_SECONDS
    ResetLife,     \* PASSWORD_RESET_TOKEN_MINUTES
    Attempts,      \* rotate_refresh_token gives up after this many
    MaxTime, MaxTok, MaxLogin,   \* bounds of the instances
    Budget         \* what a behaviour may spend: faults, ops, tokens

ASSUME SessionAssumption ==
    /\ NoThread \notin Thread
    /\ IsFiniteSet(Thread) /\ IsFiniteSet(Request)
    /\ Attempts \in Nat \ {0}
    /\ {AccessLife, RefreshLife, Grace, ResetLife,
        MaxTime, MaxTok, MaxLogin} \subseteq Nat
    /\ Grace < RefreshLife
    /\ Budget \subseteq [faults : Nat, ops : Nat, toks : 1..MaxTok]

VARIABLES
    clock,
    tok,      \* table refresh_tokens: committed rows in order of insertion
    enabled,  \* users.is_active
    resets,   \* table password_reset_tokens
    req,      \* what each /refresh request is doing
    op,       \* what each account operation is doing
    login,    \* a /login of another device has checked its password
    auth,     \* _AuthState of the client: token held and owner of the lock
    thread,   \* what each client thread is doing
    budget,   \* the member of Budget this behaviour has
    spent,    \* faults and account operations so far, and whether a refresh
              \* overtook an abandoned one
    ended,    \* history: families revoked because of a reused token
    cut       \* history: tokens in the table when the last revocation of all
              \* sessions read its list, and when it committed

sessionVars == <<clock, tok, enabled, resets, req, op, login, auth, thread,
                 budget, spent, ended, cut>>

\* What a /refresh request never writes, and what an account operation and
\* the client do not.
notRefresh == <<clock, enabled, resets, op, login, auth, thread, budget,
                spent, cut>>
notAccount == <<clock, req, login, auth, thread, budget, ended>>
server == <<clock, tok, enabled, resets, op, login, budget, ended, cut>>

-----------------------------------------------------------------------------
(* Tables                                                                  *)

Never == MaxTime + 1      \* revoked_at IS NULL
NoTok == 0

Token == [issued : 0..MaxTime, rev : 0..Never, next : 0..MaxTok,
          root : 1..MaxTok]

\* _new_refresh_token. The root is history: the login the token descends from.
NewToken(now, root) ==
    [issued |-> now, rev |-> Never, next |-> NoTok, root |-> root]

Expired(t, now) == tok[t].issued + RefreshLife <= now
Active(t) == tok[t].rev = Never

\* get_current_user: the token is signed, unexpired, and the user is active.
AccessValid(t) == enabled /\ clock <= tok[t].issued + AccessLife

NoRequest == [pc |-> "free", who |-> NoThread, tok |-> NoTok, now |-> 0,
         tries |-> 0, locks |-> {}, answer |-> NoTok]

\* Rows of refresh_tokens that another request has written or selected FOR
\* UPDATE and not yet released.
LockedByOthers(q) == UNION {req[p].locks : p \in Request \ {q}}

Answer(q, t) == [req EXCEPT ![q].pc = "answered", ![q].answer = t,
                            ![q].locks = {}]

\* The next attempt of rotate_refresh_token, or 401 after the last.
TryAgain(q) ==
    IF req[q].tries + 1 = Attempts THEN Answer(q, NoTok)
    ELSE [req EXCEPT ![q].pc = "begin", ![q].tries = @ + 1, ![q].locks = {}]

\* The row update of _claim_refresh_token with the insert of the new token.
Rotated(old, now) ==
    Append([tok EXCEPT ![old].rev = now, ![old].next = Len(tok) + 1],
           NewToken(now, tok[old].root))

\* _claim_refresh_token: the condition of the update, on the row as it is
\* once its lock is granted.
Claimable(t, now) == Active(t) /\ tok[t].next = NoTok /\ ~Expired(t, now)

\* _refresh_family_ids: the tokens of ids connected to t by replacements.
Linked(a, b) == tok[a].next = b \/ tok[b].next = a

Family(ids, t) ==
    {u \in ids : \A S \in SUBSET ids :
        t \in S /\ (\A a \in S, b \in ids : Linked(a, b) => b \in S) => u \in S}

-----------------------------------------------------------------------------
(* /refresh on the server                                                  *)

\* The time of an attempt is read before its first statement.
BeginAttempt(q) ==
    /\ req[q].pc = "begin"
    /\ req' = [req EXCEPT ![q].pc = "lookup", ![q].now = clock]
    /\ UNCHANGED <<tok, ended, notRefresh>>

Lookup(q) ==
    LET t == req[q].tok
    IN  /\ req[q].pc = "lookup"
        /\ req' = IF ~enabled THEN Answer(q, NoTok)
                  ELSE IF ~Active(t)
                       THEN [req EXCEPT ![q].pc = "lock"]
                  ELSE IF Expired(t, req[q].now) THEN Answer(q, NoTok)
                  ELSE [req EXCEPT ![q].pc = "claim"]
        /\ UNCHANGED <<tok, ended, notRefresh>>

\* The conditional update waits for the row's lock and keeps it.
Claim(q) ==
    LET t == req[q].tok
    IN  /\ req[q].pc = "claim"
        /\ t \notin LockedByOthers(q)
        /\ req' = IF Claimable(t, req[q].now)
                  THEN [req EXCEPT ![q].pc = "commit", ![q].locks = {t}]
                  ELSE TryAgain(q)
        /\ UNCHANGED <<tok, ended, notRefresh>>

CommitRotation(q) ==
    /\ req[q].pc = "commit"
    /\ tok' = Rotated(req[q].tok, req[q].now)
    /\ req' = Answer(q, Len(tok) + 1)
    /\ UNCHANGED <<ended, notRefresh>>

\* _locked_user_refresh_tokens, first statement: its snapshot is taken now,
\* the locks are granted when every row of the snapshot is free.
SnapshotTokens(q) ==
    /\ req[q].pc = "lock"
    /\ req' = [req EXCEPT ![q].pc = "wait", ![q].answer = Len(tok)]
    /\ UNCHANGED <<tok, ended, notRefresh>>

LockTokens(q) ==
    LET ids == 1..req[q].answer
    IN  /\ req[q].pc = "wait"
        /\ ids \cap LockedByOthers(q) = {}
        /\ req' = [req EXCEPT ![q].pc = "follow", ![q].locks = ids,
                              ![q].answer = NoTok]
        /\ UNCHANGED <<tok, ended, notRefresh>>

\* The loop: replacements committed while the first statement waited are
\* locked too, until the tail is reached.
Missing(q) ==
    {tok[i].next : i \in req[q].locks} \ (req[q].locks \cup {NoTok})

\* Mutant: replacements that the snapshot missed are not looked for.
FollowLinksNever(q) ==
    /\ req[q].pc = "follow"
    /\ req' = [req EXCEPT ![q].pc = "decide"]
    /\ UNCHANGED <<tok, ended, notRefresh>>

FollowLinks(q) ==
    /\ req[q].pc = "follow"
    /\ Missing(q) \cap LockedByOthers(q) = {}
    /\ req' = IF Missing(q) = {} THEN [req EXCEPT ![q].pc = "decide"]
              ELSE [req EXCEPT ![q].locks = @ \cup Missing(q)]
    /\ UNCHANGED <<tok, ended, notRefresh>>

\* One lost answer may be asked for again while its token is unused.
WithinGrace(q) ==
    LET rev == tok[req[q].tok].rev
    IN  Grace > 0 /\ rev <= req[q].now /\ req[q].now <= rev + Grace

GraceEligible(q) ==
    /\ WithinGrace(q)
    /\ tok[req[q].tok].next # NoTok
    /\ Claimable(tok[req[q].tok].next, req[q].now)

Recover(q) ==
    /\ req[q].pc = "decide"
    /\ GraceEligible(q)
    /\ tok' = Rotated(tok[req[q].tok].next, req[q].now)
    /\ req' = Answer(q, Len(tok) + 1)
    /\ UNCHANGED <<ended, notRefresh>>

RevokeFamily(q) ==
    LET fam == Family(req[q].locks, req[q].tok)
    IN  /\ req[q].pc = "decide"
        /\ ~GraceEligible(q)
        /\ tok' = [i \in DOMAIN tok |->
                      IF i \in fam /\ Active(i)
                      THEN [tok[i] EXCEPT !.rev = req[q].now] ELSE tok[i]]
        /\ ended' = ended \cup {[root |-> tok[req[q].tok].root,
                               grace |-> WithinGrace(q)]}
        /\ req' = Answer(q, NoTok)
        /\ UNCHANGED notRefresh

-----------------------------------------------------------------------------
(* Logins and account operations                                           *)

\* A request inserts one token at most: room is kept for those under way.
Reserved ==
    Cardinality({q \in Request : req[q].pc \notin {"free", "answered"}})
    + Cardinality({t \in Thread : thread[t].pc = "refused"})
    + (IF login THEN 1 ELSE 0)

Room == Len(tok) + Reserved < budget.toks

\* /login of another device: its session is a family of its own.
LoginVerify ==
    /\ enabled
    /\ ~login
    /\ Room
    /\ Cardinality({tok[i].root : i \in DOMAIN tok}) < MaxLogin
    /\ login' = TRUE
    /\ UNCHANGED <<clock, tok, enabled, resets, req, op, auth, thread,
                   budget, spent, ended, cut>>

LoginCommit ==
    /\ login
    /\ login' = FALSE
    /\ tok' = Append(tok, NewToken(clock, Len(tok) + 1))
    /\ UNCHANGED <<clock, enabled, resets, req, op, auth, thread,
                   budget, spent, ended, cut>>

NoOp == [pc |-> "free", kind |-> "none", reset |-> 0, seen |-> {},
         upto |-> 0, now |-> 0]

CountOp == spent.ops < budget.ops /\ spent' = [spent EXCEPT !.ops = @ + 1]

\* Mutant: the reset token is read without a lock.
ResetNotHeld(r) == FALSE

\* SELECT ... FOR UPDATE of confirm_password_reset: the row is held until the
\* operation commits.
ResetHeld(r) == \E o \in Operator : op[o].kind = "confirm" /\ op[o].reset = r

Usable(r) == ~resets[r].used /\ clock < resets[r].exp

\* change_password and admin_set_password ("change"), admin_deactivate_user
\* and confirm_password_reset up to the read of revoke_user_refresh_tokens.
ReadSessions(o, kind, r) ==
    /\ op[o] = NoOp
    /\ CountOp
    /\ kind = "confirm" => /\ r \in DOMAIN resets
                           /\ ~ResetHeld(r)
                           /\ Usable(r)
                           /\ enabled
    /\ op' = [op EXCEPT ![o] =
                 [pc |-> "read", kind |-> kind,
                  reset |-> IF kind = "confirm" THEN r ELSE 0,
                  seen |-> {i \in DOMAIN tok : Active(i)},
                  upto |-> Len(tok), now |-> clock]]
    /\ UNCHANGED <<tok, enabled, resets, cut, notAccount>>

\* The flush updates by primary key the rows it read, whatever they are by
\* now, once their locks are free, and commits.
EndSessions(o) ==
    LET me == op[o]
    IN  /\ me.pc = "read" /\ me.kind # "request"
        /\ me.seen \cap UNION {req[q].locks : q \in Request} = {}
        /\ tok' = [i \in DOMAIN tok |->
                      IF i \in me.seen THEN [tok[i] EXCEPT !.rev = me.now]
                      ELSE tok[i]]
        /\ enabled' = (enabled /\ me.kind # "deactivate")
        /\ resets' = IF me.kind = "confirm"
                     THEN [resets EXCEPT ![me.reset].used = TRUE,
                                         ![me.reset].uses = @ + 1]
                     ELSE resets
        /\ cut' = [read |-> IF me.upto > cut.read THEN me.upto ELSE cut.read,
                   commit |-> Len(tok)]
        /\ op' = [op EXCEPT ![o] = NoOp]
        /\ UNCHANGED <<spent, notAccount>>

\* admin_activate_user
Activate ==
    /\ ~enabled
    /\ enabled' = TRUE
    /\ UNCHANGED <<tok, resets, op, spent, cut, notAccount>>

\* request_password_reset: reads the unused tokens ...
ReadResets(o) ==
    /\ op[o] = NoOp
    /\ enabled
    /\ CountOp
    /\ op' = [op EXCEPT ![o] =
                 [NoOp EXCEPT !.pc = "read", !.kind = "request", !.now = clock,
                     !.seen = {r \in DOMAIN resets : ~resets[r].used}]]
    /\ UNCHANGED <<tok, enabled, resets, cut, notAccount>>

\* ... marks those used and inserts a new one.
IssueReset(o) ==
    LET me == op[o]
    IN  /\ me.pc = "read" /\ me.kind = "request"
        /\ \A r \in me.seen : ~ResetHeld(r)
        /\ resets' = Append([r \in DOMAIN resets |->
                                [resets[r] EXCEPT !.used =
                                    @ \/ r \in me.seen]],
                            [used |-> FALSE, uses |-> 0,
                             exp |-> me.now + ResetLife])
        /\ op' = [op EXCEPT ![o] = NoOp]
        /\ UNCHANGED <<tok, enabled, spent, cut, notAccount>>

-----------------------------------------------------------------------------
(* The client                                                              *)

Waiting(t) == {q \in Request : req[q].who = t}

\* _req: a call with the held access token is refused. The token is read
\* under the lock, so not while another thread refreshes. A call that is
\* answered changes nothing here.
Call(t) ==
    /\ thread[t].pc = "idle"
    /\ auth.lock = NoThread
    /\ ~AccessValid(auth.held)
    /\ Room
    /\ thread' = [thread EXCEPT ![t] = [pc |-> "refused", used |-> auth.held]]
    /\ UNCHANGED <<server, req, auth, spent>>

\* Requests the client gave up on and the server is still at work on.
Abandoned ==
    {q \in Request : req[q].who = NoThread
                      /\ req[q].pc \notin {"free", "answered"}}

\* The server can take another request.
Free == {q \in Request : req[q].pc = "free"}

\* Mutant: a refresh does not take the lock of the shared session.
RefreshUnlocked(t) ==
    /\ thread[t].pc = "refused"
    /\ thread' = [thread EXCEPT ![t].pc = "waiting"]
    /\ \E q \in Request : req[q].pc = "free" /\ req' = [req EXCEPT ![q] =
           [NoRequest EXCEPT !.pc = "begin", !.who = t, !.tok = auth.held]]
    /\ UNCHANGED <<server, auth, spent>>

\* _refresh_unless_rotated: under the lock, only the thread that used the
\* current access token asks for another; the rest retry with what is held.
Refresh(t) ==
    /\ thread[t].pc = "refused"
    /\ auth.lock = NoThread
    /\ IF auth.held # thread[t].used
       THEN /\ thread' = [thread EXCEPT ![t].pc = "retry"]
            /\ UNCHANGED <<req, auth>>
       ELSE /\ thread' = [thread EXCEPT ![t].pc = "waiting"]
            /\ auth' = [auth EXCEPT !.lock = t]
            /\ Free # {}
            /\ req' = [req EXCEPT ![CHOOSE q \in Free : TRUE] =
                          [NoRequest EXCEPT !.pc = "begin", !.who = t,
                                       !.tok = auth.held]]
    /\ spent' = [spent EXCEPT !.late = @ \/ Abandoned # {}]
    /\ UNCHANGED server

\* Mutant: an answered refresh keeps the lock.
ReceiveLocked(t) ==
    \E q \in Waiting(t) :
        /\ req[q].pc = "answered"
        /\ auth' = IF req[q].answer = NoTok THEN auth
                   ELSE [held |-> req[q].answer, lock |-> NoThread]
        /\ thread' = [thread EXCEPT ![t].pc =
                         IF req[q].answer = NoTok THEN "idle" ELSE "retry"]
        /\ req' = [req EXCEPT ![q] = NoRequest]
        /\ UNCHANGED <<server, spent>>

\* The answer arrives: the tokens are replaced, or the call ends with 401.
\* Leaving the block releases the lock either way.
Receive(t) ==
    \E q \in Waiting(t) :
        /\ req[q].pc = "answered"
        /\ auth' = [held |-> IF req[q].answer = NoTok THEN auth.held
                             ELSE req[q].answer,
                    lock |-> NoThread]
        /\ thread' = [thread EXCEPT ![t].pc =
                         IF req[q].answer = NoTok THEN "idle" ELSE "retry"]
        /\ req' = [req EXCEPT ![q] = NoRequest]
        /\ UNCHANGED <<server, spent>>

\* The call is made once more with the new access token, and ends.
Retry(t) ==
    /\ thread[t].pc = "retry"
    /\ auth.lock = NoThread
    /\ thread' = [thread EXCEPT ![t] = [pc |-> "idle", used |-> NoTok]]
    /\ UNCHANGED <<server, req, auth, spent>>

\* Timeout or broken connection: the request never arrived (or was refused
\* by the rate limiter), its answer is lost, or the server is still at work
\* on it and nobody will read the answer.
GiveUp(t, arrived) ==
    \E q \in Waiting(t) :
        /\ spent.faults < budget.faults
        /\ spent' = [spent EXCEPT !.faults = @ + 1]
        /\ arrived \/ (req[q].pc = "begin" /\ req[q].tries = 0)
        /\ req' = [req EXCEPT ![q] =
                      IF ~arrived \/ @.pc = "answered" THEN NoRequest
                      ELSE [@ EXCEPT !.who = NoThread]]
        /\ auth' = [auth EXCEPT !.lock = NoThread]
        /\ thread' = [thread EXCEPT ![t] = [pc |-> "idle", used |-> NoTok]]
        /\ UNCHANGED server

\* The answer to an abandoned request goes nowhere.
Discard(q) ==
    /\ req[q].pc = "answered" /\ req[q].who = NoThread
    /\ req' = [req EXCEPT ![q] = NoRequest]
    /\ UNCHANGED <<server, auth, thread, spent>>

Tick ==
    /\ clock < MaxTime
    /\ clock' = clock + 1
    /\ UNCHANGED <<tok, enabled, resets, req, op, login, auth, thread,
                   budget, spent, ended, cut>>

-----------------------------------------------------------------------------

\* The account after its first login: the client holds token 1.
SessionsInit ==
    /\ clock = 0
    /\ tok = <<NewToken(0, 1)>>
    /\ enabled = TRUE
    /\ resets = <<>>
    /\ req = [q \in Request |-> NoRequest]
    /\ op = [o \in Operator |-> NoOp]
    /\ login = FALSE
    /\ auth = [held |-> 1, lock |-> NoThread]
    /\ thread = [t \in Thread |-> [pc |-> "idle", used |-> NoTok]]
    /\ budget \in Budget
    /\ spent = [faults |-> 0, ops |-> 0, late |-> FALSE]
    /\ ended = {}
    /\ cut = [read |-> 0, commit |-> 0]

ServerStep(q) ==
    \/ BeginAttempt(q) \/ Lookup(q) \/ Claim(q) \/ CommitRotation(q)
    \/ SnapshotTokens(q) \/ LockTokens(q) \/ FollowLinks(q)
    \/ Recover(q) \/ RevokeFamily(q)

ThreadStep(t) == Refresh(t) \/ Receive(t) \/ Retry(t)

Account(o) ==
    \/ \E kind \in {"change", "deactivate", "confirm"}, r \in 0..Len(resets) :
          (kind = "confirm" <=> r # 0) /\ ReadSessions(o, kind, r)
    \/ EndSessions(o)
    \/ ReadResets(o)
    \/ IssueReset(o)

SessionsNext ==
    \/ \E q \in Request : ServerStep(q) \/ Discard(q)
    \/ \E t \in Thread : Call(t) \/ ThreadStep(t)
                         \/ \E arrived \in BOOLEAN : GiveUp(t, arrived)
    \/ \E o \in Operator : Account(o)
    \/ LoginVerify \/ LoginCommit \/ Activate \/ Tick

SessionsSpec == SessionsInit /\ [][SessionsNext]_sessionVars

\* Server threads and client threads run; database locks are granted.
Fairness ==
    /\ \A q \in Request : WF_sessionVars(ServerStep(q))
    /\ \A t \in Thread : SF_sessionVars(ThreadStep(t))
    /\ \A o \in Operator : WF_sessionVars(EndSessions(o))

FairSpec == SessionsSpec /\ Fairness

-----------------------------------------------------------------------------
(* Properties                                                              *)

\* The tables, requests, operations and threads are well formed; a request has a
\* token exactly while it runs, and the client holds one that was issued.
SessionsTypeOK ==
    /\ clock \in 0..MaxTime
    /\ tok \in Seq(Token) /\ Len(tok) <= MaxTok
    /\ enabled \in BOOLEAN /\ login \in BOOLEAN
    /\ \A q \in Request :
        /\ req[q].tok \in 0..Len(tok) /\ req[q].locks \subseteq DOMAIN tok
        /\ req[q].answer \in 0..Len(tok) /\ req[q].tries < Attempts
        /\ req[q].pc = "free" <=> req[q].tok = NoTok
    /\ \A o \in Operator : op[o].kind \in
        {"none", "change", "deactivate", "confirm", "request"}
    /\ auth.held \in DOMAIN tok /\ auth.lock \in Thread \cup {NoThread}
    /\ \A t \in Thread : thread[t].pc \in
        {"idle", "refused", "waiting", "retry"}

Reused == {e.root : e \in ended}
Newest(root) == CHOOSE i \in DOMAIN tok :
    /\ tok[i].root = root
    /\ \A j \in DOMAIN tok : tok[j].root = root => j <= i

\* "Refresh rotation forms a single replacement chain" (ARCHITECTURE.md:312):
\* however requests for one token interleave, a login has one active token,
\* its newest, until the family is revoked, and another family's reuse does
\* not end it.
SingleChain ==
    \A root \in {tok[i].root : i \in DOMAIN tok} :
        /\ \A i \in DOMAIN tok :
            Active(i) /\ tok[i].root = root => i = Newest(root)
        /\ root \notin Reused /\ Newest(root) > cut.read => Active(Newest(root))

\* "any other reuse revokes that token family" (ARCHITECTURE.md:312): for
\* good, also when a rotation commits while the revocation collects the rows.
ReuseEndsFamily ==
    \A i \in DOMAIN tok : tok[i].root \in Reused => ~Active(i)

\* Rotation as a whole: however two threads and their retries interleave, a
\* session is one chain of tokens, and the chain ends when one of them is
\* used again outside its grace period (rotate_refresh_token).
RotationSound == SessionsTypeOK /\ SingleChain /\ ReuseEndsFamily

\* A client loses its session to reuse detection only after an answer was
\* lost, and one loss is forgiven within the grace period: threads that share
\* the session never cause it. (A request that is still running when the
\* client refreshes again may: it rotates the token the client then holds.)
OneLossForgiven ==
    spent.ops = 0 /\ ~spent.late =>
        \A e \in ended : spent.faults > IF e.grace THEN 1 ELSE 0

\* A password change or deactivation leaves no token active that was in the
\* table when it read its list, though rotations replace tokens meanwhile.
ListedSessionsEnd == \A i \in 1..cut.read : ~Active(i)

\* "Replace a user's password ... and end their sessions" (auth/service.py:355):
\* once the change has committed, only sessions that began later are alive.
\* No run checks it: a rotation under way when the list is read is not on it
\* (README).
OldSessionsEnd == \A i \in DOMAIN tok : Active(i) => tok[i].root > cut.commit

\* A reset token changes the password once, also when it is confirmed twice
\* at the same time.
ResetOnce == \A r \in DOMAIN resets : resets[r].uses <= 1

\* The operations on an account beside rotations and beside each other: the
\* sessions they list end, and a reset token serves one of them.
AccountOperationsHold == ListedSessionsEnd /\ ResetOnce

\* Every call of every thread ends: no thread waits for ever for the lock of
\* the shared session or for a request that waits for row locks.
CallsEnd ==
    \A t \in Thread : thread[t].pc # "idle" ~> thread[t].pc = "idle"

=============================================================================
