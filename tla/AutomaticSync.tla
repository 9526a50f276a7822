---------------------------- MODULE AutomaticSync ----------------------------
(***************************************************************************)
(* When a device synchronizes: a single-shot timer on the window's thread  *)
(* (ui_v2/workers/automatic_sync.py) that starts jobs on the one worker    *)
(* thread (ui_v2/workers/background_jobs.py), beside the jobs a user       *)
(* starts, cancellation, and a close of the window that waits for the      *)
(* worker and may be refused (ui_v2/mixins/background_jobs_mixin.py,       *)
(* main_application_window.py).                                            *)
(*                                                                         *)
(* The steps of the window are its slots, which Qt runs one at a time.     *)
(* Time passes in ticks; delays are what is left of them.                  *)
(***************************************************************************)
EXTENDS Naturals

CONSTANTS
    Projects,      \* number of projects a pass visits
    Interval,      \* ticks between passes
    InitialDelay,  \* ticks before the first one
    BusyRetry,     \* ticks before a busy runner is tried again
    SoonDelay,     \* ticks by which a local change is debounced
    FirstBackoff,  \* ticks after the first failure, doubled by each more
    MaxBackoff,
    MaxRetry,      \* bound on the ticks until a saved retry time
    NoRetry,       \* no saved retry time
    MaxManual,     \* bound on the jobs users start
    MaxRefused     \* bound on the closes that are refused

ASSUME SchedulerAssumption ==
    /\ Projects \in Nat \ {0}
    /\ Interval \in Nat \ {0} /\ InitialDelay \in Nat
    /\ BusyRetry \in Nat /\ SoonDelay \in Nat
    /\ FirstBackoff \in Nat \ {0} /\ MaxBackoff \in Nat
    /\ FirstBackoff <= MaxBackoff
    /\ MaxRetry \in Nat /\ NoRetry \notin Nat
    /\ MaxManual \in Nat /\ MaxRefused \in Nat

VARIABLES
    sched,    \* the scheduler and its timer
    job,      \* the worker thread, or NoJob
    outcome,  \* the signal of the job on its way to the window
    win,      \* "open", "closing" (the slot waits for the worker), "closed"
    dirty,    \* does an editor hold unsaved text?
    manual,   \* jobs users have started
    refused   \* history: the closes refused, and whether one was since the
              \* scheduler last took its delay from an outcome

vars == <<sched, job, outcome, win, dirty, manual, refused>>

Kinds == {"automatic_sync", "sync", "other"}

SyncStates == {"complete", "retry_wait", "attention_required",
               "authentication_required", "permission_denied", "cancelled"}

Transient == {"authentication_required", "failed", "offline", "retry_wait"}

Retries == 0..MaxRetry \cup {NoRetry}

\* backoff is the delay that _failure_count stands for, 0 for no failure.
Scheduler == [running: BOOLEAN, inFlight: BOOLEAN, backoff: Nat,
              notBefore: Nat, armed: BOOLEAN, left: Nat]

\* pc: the thread is started, between projects, inside one, has reported,
\* has ended. moved: a local project was published.
Job == [kind: Kinds \cup {"none"},
        pc: {"none", "start", "run", "project", "done", "ended"},
        cancel: BOOLEAN, left: Nat, states: SUBSET SyncStates,
        moved: BOOLEAN]

NoJob == [kind |-> "none", pc |-> "none", cancel |-> FALSE, left |-> 0,
          states |-> {}, moved |-> FALSE]

Outcome == [type: {"none", "succeeded", "failed", "cancelled"},
            state: SyncStates, retry: Retries]

NoOutcome == [type |-> "none", state |-> "complete", retry |-> NoRetry]

\* The scheduler, the job, its outcome and the window are well formed.
TypeOK ==
    /\ sched \in Scheduler
    /\ job \in Job
    /\ outcome \in Outcome
    /\ win \in {"open", "closing", "closed"}
    /\ dirty \in BOOLEAN
    /\ manual \in 0..MaxManual
    /\ refused \in [recent: BOOLEAN, all: 0..MaxRefused]

-----------------------------------------------------------------------------
(* The scheduler                                                           *)

Larger(m, n) == IF m >= n THEN m ELSE n
Smaller(m, n) == IF m <= n THEN m ELSE n
Less(n) == IF n = 0 THEN 0 ELSE n - 1

Schedule(s, delay) ==
    IF s.running THEN [s EXCEPT !.armed = TRUE, !.left = delay] ELSE s

StartScheduler(s) ==
    IF s.running THEN s
    ELSE Schedule([s EXCEPT !.running = TRUE], InitialDelay)

StopScheduler(s) ==
    [s EXCEPT !.running = FALSE, !.inFlight = FALSE, !.armed = FALSE]

\* Mutant: a local change wakes the scheduler out of its backoff.
SoonerEager(s) ==
    IF s.running /\ ~s.inFlight THEN Schedule(s, SoonDelay) ELSE s

\* request_soon: never before an active backoff, never later than armed.
Sooner(s) ==
    LET delay == Larger(SoonDelay, s.notBefore)
    IN  IF ~s.running \/ s.inFlight THEN s
        ELSE IF s.armed /\ s.left <= delay THEN s
        ELSE Schedule(s, delay)

\* _backoff_seconds for one failure more.
NextBackoff(b) == IF b = 0 THEN FirstBackoff ELSE Smaller(2 * b, MaxBackoff)

\* Mutant: a permission failure leaves the timer as it was.
FinishUnlessDenied(s, state, retry) ==
    IF ~s.running \/ state = "permission_denied" \/ state = "attention_required"
    THEN s ELSE Schedule([s EXCEPT !.backoff = 0, !.notBefore = 0], Interval)

\* _finish, and job_failed with state "failed": back off, at least until the
\* saved retry time, or wait for the interval.
Finish(s, state, retry) ==
    LET transient == \/ state \in Transient
                     \/ state = "complete" /\ retry # NoRetry
        b == NextBackoff(s.backoff)
        delay == IF retry = NoRetry THEN b ELSE Larger(b, retry)
    IN  IF ~s.running THEN s
        ELSE IF transient
        THEN Schedule([s EXCEPT !.backoff = b, !.notBefore = delay], delay)
        ELSE Schedule([s EXCEPT !.backoff = 0, !.notBefore = 0], Interval)

Init ==
    /\ sched = StartScheduler([running |-> FALSE, inFlight |-> FALSE,
                               backoff |-> 0, notBefore |-> 0,
                               armed |-> FALSE, left |-> 0])
    /\ job = NoJob
    /\ outcome = NoOutcome
    /\ win = "open"
    /\ dirty = FALSE
    /\ manual = 0
    /\ refused = [recent |-> FALSE, all |-> 0]

-----------------------------------------------------------------------------
(* The window's slots                                                      *)

\* BackgroundJobRunner.start when the runner is free.
NewJob(kind) ==
    [kind |-> kind, pc |-> "start", cancel |-> FALSE,
     left |-> IF kind = "automatic_sync" THEN Projects ELSE 0,
     states |-> {}, moved |-> FALSE]

\* Sync now, snapshot, history.
StartManual(kind) ==
    /\ win = "open"
    /\ job = NoJob
    /\ manual < MaxManual
    /\ kind # "automatic_sync"
    /\ job' = NewJob(kind)
    /\ manual' = manual + 1
    /\ UNCHANGED <<sched, outcome, win, dirty, refused>>

\* _update_sync_status: the status bar has read whether the project has
\* queued changes.
ReadStatus(s, queued) == IF queued THEN Sooner(s) ELSE s

\* Text is typed into an editor.
Edit ==
    /\ win = "open"
    /\ dirty' = TRUE
    /\ UNCHANGED <<sched, job, outcome, win, manual, refused>>

\* The text is saved, which may queue a change, or dropped.
LeaveEditor(queued) ==
    /\ win = "open"
    /\ dirty
    /\ dirty' = FALSE
    /\ sched' = ReadStatus(sched, queued)
    /\ UNCHANGED <<job, outcome, win, manual, refused>>

\* A change queued without an editor, or a conflict resolved.
RequestSoon ==
    /\ win = "open"
    /\ sched' = ReadStatus(sched, TRUE)
    /\ UNCHANGED <<job, outcome, win, dirty, manual, refused>>

\* The cancel button is shown for manual synchronization only.
CancelManual ==
    /\ win = "open"
    /\ job.kind = "sync"
    /\ job' = [job EXCEPT !.cancel = TRUE]
    /\ UNCHANGED <<sched, outcome, win, dirty, manual, refused>>

\* _on_timeout: start a pass unless an editor holds unsaved text or the
\* runner is busy.
Timeout ==
    /\ win = "open"
    /\ sched.armed /\ sched.left = 0
    /\ LET s == [sched EXCEPT !.armed = FALSE]
       IN  IF ~s.running \/ s.inFlight
           THEN sched' = s /\ UNCHANGED job
           ELSE IF job = NoJob /\ ~dirty
           THEN /\ job' = NewJob("automatic_sync")
                /\ sched' = [s EXCEPT !.inFlight = TRUE]
           ELSE sched' = Schedule(s, BusyRetry) /\ UNCHANGED job
    /\ UNCHANGED <<outcome, win, dirty, manual, refused>>

\* Does the outcome of this job set the scheduler's next delay?
SetsDelay(kind, type) ==
    kind = "automatic_sync" \/ (kind = "sync" /\ type = "succeeded")

\* The callback of the job's outcome.
Observe(s, kind, o) ==
    LET landed == [s EXCEPT !.inFlight = FALSE]
    IN  CASE kind = "automatic_sync" /\ o.type = "succeeded" ->
               Finish(landed, o.state, o.retry)
          [] kind = "automatic_sync" /\ o.type = "failed" ->
               Finish(landed, "failed", NoRetry)
          [] kind = "automatic_sync" /\ o.type = "cancelled" ->
               Finish(landed, "complete", NoRetry)
          [] kind = "sync" /\ o.type = "succeeded" ->
               Finish(s, o.state, o.retry)
          [] OTHER -> s

\* _handle_success, _handle_failure, _handle_cancelled: the callback, and
\* for synchronizations the views it refreshes.
HandleOutcome(queued) ==
    /\ win = "open"
    /\ outcome.type # "none"
    /\ queued => /\ job.kind # "other"
                 /\ ~(job.kind = "automatic_sync" /\ outcome.type = "cancelled")
    /\ sched' = ReadStatus(Observe(sched, job.kind, outcome), queued)
    /\ outcome' = NoOutcome
    /\ refused' = [refused EXCEPT !.recent =
                      @ /\ ~SetsDelay(job.kind, outcome.type)]
    /\ UNCHANGED <<job, win, dirty, manual>>

\* Mutant: the thread of a cancelled job is not forgotten.
HandleThreadFinishedBusy(queued) ==
    /\ win = "open"
    /\ job.pc = "ended"
    /\ outcome.type = "none"
    /\ ~job.cancel
    /\ job' = NoJob
    /\ sched' = ReadStatus(sched, queued)
    /\ UNCHANGED <<outcome, win, dirty, manual, refused>>

\* The thread's finished signal comes behind the job's own. The runner is
\* free and the status bar is read.
HandleThreadFinished(queued) ==
    /\ win = "open"
    /\ job.pc = "ended"
    /\ outcome.type = "none"
    /\ job' = NoJob
    /\ sched' = ReadStatus(sched, queued)
    /\ UNCHANGED <<outcome, win, dirty, manual, refused>>

Running == job.pc \in {"start", "run", "project", "done"}

\* Mutant: the window does not wait for the worker.
CloseWindowAtOnce ==
    /\ win = "open"
    /\ sched' = StopScheduler(sched)
    /\ win' = "closed"
    /\ UNCHANGED <<job, outcome, dirty, manual, refused>>

\* closeEvent: stop the scheduler, cancel the job and wait for its thread.
CloseWindow ==
    /\ win = "open"
    /\ sched' = StopScheduler(sched)
    /\ job' = IF job = NoJob THEN job ELSE [job EXCEPT !.cancel = TRUE]
    /\ win' = IF Running THEN "closing" ELSE "closed"
    /\ UNCHANGED <<outcome, dirty, manual, refused>>

CloseSucceeds ==
    /\ win = "closing"
    /\ ~Running
    /\ win' = "closed"
    /\ UNCHANGED <<sched, job, outcome, dirty, manual, refused>>

\* The wait times out: the window stays and schedules again.
CloseRefused ==
    /\ win = "closing"
    /\ Running
    /\ refused.all < MaxRefused
    /\ win' = "open"
    /\ sched' = StartScheduler(sched)
    /\ refused' = [recent |-> TRUE, all |-> refused.all + 1]
    /\ UNCHANGED <<job, outcome, dirty, manual>>

-----------------------------------------------------------------------------
(* The worker                                                              *)

Report(type, state, retry) ==
    /\ outcome' = [type |-> type, state |-> state, retry |-> retry]
    /\ job' = [job EXCEPT !.pc = "done"]

\* run: a job cancelled before it begins; a backend that cannot be built or
\* a list of projects that cannot be read.
BeginJob(fails) ==
    /\ job.pc = "start"
    /\ IF job.cancel THEN Report("cancelled", "cancelled", NoRetry)
       ELSE IF fails THEN Report("failed", "complete", NoRetry)
       ELSE job' = [job EXCEPT !.pc = "run"] /\ UNCHANGED outcome
    /\ UNCHANGED <<sched, win, dirty, manual, refused>>

\* The loop of _run_automatic_sync: cancellation is noticed between
\* projects, and kept back when a project was published.
NextProject ==
    /\ job.kind = "automatic_sync"
    /\ job.pc = "run"
    /\ job.left > 0
    /\ IF ~job.cancel THEN job' = [job EXCEPT !.pc = "project"]
                           /\ UNCHANGED outcome
       ELSE IF job.moved THEN job' = [job EXCEPT !.left = 0]
                              /\ UNCHANGED outcome
       ELSE Report("cancelled", "cancelled", NoRetry)
    /\ UNCHANGED <<sched, win, dirty, manual, refused>>

\* One project's summary. A request that failed ends the pass.
EndProject(state, requestFailed, moved) ==
    /\ job.pc = "project"
    /\ state = "cancelled" => job.cancel
    /\ requestFailed => state \in {"authentication_required", "retry_wait"}
    /\ job' = [job EXCEPT !.pc = "run",
                          !.left = IF requestFailed THEN 0 ELSE Less(@),
                          !.states = @ \cup {state},
                          !.moved = @ \/ moved]
    /\ UNCHANGED <<sched, outcome, win, dirty, manual, refused>>

\* _combined_state: the most urgent state across projects.
Combined(states) ==
    IF "authentication_required" \in states THEN "authentication_required"
    ELSE IF "retry_wait" \in states THEN "retry_wait"
    ELSE IF states \subseteq {"complete"} THEN "complete"
    ELSE "attention_required"

\* The result of the pass; exporting the session may still fail.
EndPass(fails, retry) ==
    /\ job.kind = "automatic_sync"
    /\ job.pc = "run"
    /\ job.left = 0
    /\ IF fails THEN Report("failed", "complete", NoRetry)
       ELSE Report("succeeded", Combined(job.states), retry)
    /\ UNCHANGED <<sched, win, dirty, manual, refused>>

\* A manual synchronization, a snapshot or a history query.
EndManual(type, state, retry) ==
    /\ job.kind \in {"sync", "other"}
    /\ job.pc = "run"
    /\ type = "cancelled" => (job.kind = "sync" /\ job.cancel)
    /\ type = "succeeded" => state # "cancelled"
    /\ Report(type, state, retry)
    /\ UNCHANGED <<sched, win, dirty, manual, refused>>

ThreadEnds ==
    /\ job.pc = "done"
    /\ job' = [job EXCEPT !.pc = "ended"]
    /\ UNCHANGED <<sched, outcome, win, dirty, manual, refused>>

Tick ==
    /\ (sched.armed /\ sched.left > 0) \/ sched.notBefore > 0
    /\ sched' = [sched EXCEPT !.left = Less(@), !.notBefore = Less(@)]
    /\ UNCHANGED <<job, outcome, win, dirty, manual, refused>>

-----------------------------------------------------------------------------

User ==
    \/ \E kind \in Kinds : StartManual(kind)
    \/ \E queued \in BOOLEAN : LeaveEditor(queued)
    \/ Edit \/ RequestSoon \/ CancelManual \/ CloseWindow

Worker ==
    \/ \E fails \in BOOLEAN : BeginJob(fails)
    \/ NextProject
    \/ \E state \in SyncStates, requestFailed, moved \in BOOLEAN :
          EndProject(state, requestFailed, moved)
    \/ \E fails \in BOOLEAN, retry \in Retries : EndPass(fails, retry)
    \/ \E type \in {"succeeded", "failed", "cancelled"},
          state \in SyncStates, retry \in Retries :
          EndManual(type, state, retry)
    \/ ThreadEnds

Slots ==
    \E queued \in BOOLEAN : HandleOutcome(queued) \/ HandleThreadFinished(queued)

Next ==
    \/ User
    \/ Timeout \/ Slots
    \/ CloseSucceeds \/ CloseRefused
    \/ Worker
    \/ Tick

Spec == Init /\ [][Next]_vars

\* Qt runs queued slots, timers fire and the worker goes on: every network
\* call it makes has a timeout.
Fairness ==
    /\ WF_vars(Timeout) /\ WF_vars(Tick)
    /\ WF_vars(Slots) /\ WF_vars(Worker)

FairSpec == Spec /\ Fairness

-----------------------------------------------------------------------------
(* Properties                                                              *)

\* An outcome of a pass that the window has yet to see.
PassPending ==
    /\ job.kind = "automatic_sync"
    /\ job.pc \notin {"done", "ended"} \/ outcome.type # "none"

\* Automatic synchronization never dies silently: whatever was cancelled,
\* refused, busy or failed, an open window has an armed timer or a pass whose
\* outcome will arm it (the single-shot timer is armed by hand on every path).
NeverStalled ==
    win = "open" => sched.armed \/ (sched.inFlight /\ PassPending)

\* closeEvent: "Never destroy the window while its worker thread is still
\* active", although the worker may report while the close waits for it.
CloseIsSafe == win = "closed" => ~Running

\* The scheduler "honours saved retry times and its own reconnect backoff"
\* (ARCHITECTURE.md, section 5): a pass starts only when the backoff is over,
\* through debounced changes, busy runners and manual synchronizations. A
\* refused close starts the timer anew without looking at the backoff.
BackoffHonoured ==
    [][~sched.inFlight /\ sched'.inFlight =>
          sched.notBefore = 0 \/ refused.recent]_vars

\* While the window stays open and the editors clean, passes keep starting and
\* ending: what OfflineSync assumes of the scheduler.
KeepsSyncing ==
    <>[](win = "open" /\ ~dirty) =>
        /\ []<>(sched.inFlight)
        /\ []<>(~sched.inFlight)

=============================================================================
