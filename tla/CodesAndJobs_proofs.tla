------------------------ MODULE CodesAndJobs_proofs ------------------------
(***************************************************************************)
(* Proofs about three parts that keep state of their own on a device. The  *)
(* first two act on a timer through the one background job runner.         *)
(*                                                                         *)
(* AutomaticSync: the scheduler never stalls, never closes its window over *)
(* a running worker and honours its backoff, for any delays and any number *)
(* of projects, manual jobs and refused closes.                            *)
(*                                                                         *)
(* ScoreHistory: what a job of the runner carries with it from its start   *)
(* to its callback is still right when it arrives, for every set of        *)
(* projects and items, every interval and every bound.                     *)
(*                                                                         *)
(* ItemCodes: no index rejects a code, every code arrives and every new    *)
(* item is accepted, for any devices, codes and budgets and any finite set *)
(* of items. What the recursive functions of the model compute is proved   *)
(* with the least counterexample (LeastNat, StepsKeep).                    *)
(***************************************************************************)
EXTENDS AutomaticSync, ScoreHistory, ItemCodes, TLAPS, SequenceTheorems,
        WellFoundedInduction, NaturalsInduction, FiniteSetTheorems

-----------------------------------------------------------------------------
(* AutomaticSync: the invariant                                            *)

\* The scheduler runs exactly while the window is open, and only then is a
\* pass in flight.
RunsWhileOpen ==
    /\ win = "open" <=> sched.running
    /\ sched.inFlight => win = "open"

\* A pass in flight is the job of the worker, and its outcome is to come.
FlightPending == sched.inFlight => PassPending

\* An armed timer does not go off before the backoff is over, unless a close
\* was refused since the last outcome.
TimerAfterBackoff ==
    win = "open" /\ sched.armed /\ ~refused.recent
        => sched.notBefore <= sched.left

\* The inductive invariant.
SchedInv ==
    /\ TypeOK
    /\ RunsWhileOpen
    /\ FlightPending
    /\ NeverStalled
    /\ CloseIsSafe
    /\ TimerAfterBackoff

-----------------------------------------------------------------------------
(* The scheduler's operators                                               *)

\* _schedule arms the timer of a running scheduler and touches nothing else.
LEMMA ScheduleArms ==
    ASSUME NEW s \in Scheduler, NEW delay \in Nat
    PROVE  /\ Schedule(s, delay) \in Scheduler
           /\ Schedule(s, delay).running = s.running
           /\ Schedule(s, delay).inFlight = s.inFlight
           /\ Schedule(s, delay).notBefore = s.notBefore
           /\ s.running => /\ Schedule(s, delay).armed
                           /\ Schedule(s, delay).left = delay
    BY DEF Schedule, Scheduler

\* request_soon never disarms the timer and arms it for after the backoff.
LEMMA SoonerKeeps ==
    ASSUME NEW s \in Scheduler
    PROVE  /\ Sooner(s) \in Scheduler
           /\ Sooner(s).running = s.running
           /\ Sooner(s).inFlight = s.inFlight
           /\ s.armed => Sooner(s).armed
           /\ Sooner(s) = s \/ Sooner(s).notBefore <= Sooner(s).left
    <1> DEFINE delay == Larger(SoonDelay, s.notBefore)
    <1>1. delay \in Nat /\ s.notBefore <= delay
        BY SchedulerAssumption DEF Larger, Scheduler
    <1>2. Sooner(s) = s \/ (s.running /\ Sooner(s) = Schedule(s, delay))
        BY DEF Sooner
    <1> QED
        BY <1>1, <1>2, ScheduleArms

\* Reading the status bar does what request_soon does, or nothing.
LEMMA StatusKeeps ==
    ASSUME NEW s \in Scheduler, NEW queued \in BOOLEAN
    PROVE  /\ ReadStatus(s, queued) \in Scheduler
           /\ ReadStatus(s, queued).running = s.running
           /\ ReadStatus(s, queued).inFlight = s.inFlight
           /\ s.armed => ReadStatus(s, queued).armed
           /\ \/ ReadStatus(s, queued) = s
              \/ ReadStatus(s, queued).notBefore <= ReadStatus(s, queued).left
    BY SoonerKeeps DEF ReadStatus

\* _finish always arms the timer of a running scheduler, for no earlier than
\* the backoff it sets.
LEMMA FinishArms ==
    ASSUME NEW s \in Scheduler, NEW state, NEW retry \in Retries
    PROVE  /\ Finish(s, state, retry) \in Scheduler
           /\ Finish(s, state, retry).running = s.running
           /\ Finish(s, state, retry).inFlight = s.inFlight
           /\ s.running =>
                /\ Finish(s, state, retry).armed
                /\ Finish(s, state, retry).notBefore
                       <= Finish(s, state, retry).left
    <1> DEFINE b == NextBackoff(s.backoff)
               delay == IF retry = NoRetry THEN b ELSE Larger(b, retry)
               waiting == [s EXCEPT !.backoff = b, !.notBefore = delay]
               clear == [s EXCEPT !.backoff = 0, !.notBefore = 0]
    <1>1. b \in Nat
        BY SchedulerAssumption DEF NextBackoff, Smaller, Scheduler
    <1>2. delay \in Nat
        BY <1>1, SchedulerAssumption DEF Larger, Retries
    <1>3. /\ waiting \in Scheduler /\ waiting.notBefore = delay
          /\ waiting.running = s.running /\ waiting.inFlight = s.inFlight
        BY <1>1, <1>2 DEF Scheduler
    <1>4. /\ clear \in Scheduler /\ clear.notBefore = 0
          /\ clear.running = s.running /\ clear.inFlight = s.inFlight
        BY DEF Scheduler
    <1>5. Interval \in Nat
        BY SchedulerAssumption
    <1>6. \/ ~s.running /\ Finish(s, state, retry) = s
          \/ Finish(s, state, retry) = Schedule(waiting, delay)
          \/ Finish(s, state, retry) = Schedule(clear, Interval)
        BY DEF Finish
    <1>7. CASE ~s.running /\ Finish(s, state, retry) = s
        BY <1>7
    <1>8. CASE Finish(s, state, retry) = Schedule(waiting, delay)
        <2> HIDE DEF waiting, delay
        <2> QED  BY <1>8, <1>2, <1>3, ScheduleArms
    <1>9. CASE Finish(s, state, retry) = Schedule(clear, Interval)
        <2> HIDE DEF clear
        <2> QED  BY <1>9, <1>4, <1>5, ScheduleArms
    <1> QED
        BY <1>6, <1>7, <1>8, <1>9

\* The outcome of a pass lands it and arms the timer, however it went; the
\* outcome of another job leaves a pass alone.
LEMMA ObserveArms ==
    ASSUME NEW s \in Scheduler, NEW kind, NEW o \in Outcome,
           o.type # "none", s.running
    PROVE  /\ Observe(s, kind, o) \in Scheduler
           /\ Observe(s, kind, o).running
           /\ kind = "automatic_sync" => ~Observe(s, kind, o).inFlight
           /\ kind # "automatic_sync" =>
                Observe(s, kind, o).inFlight = s.inFlight
           /\ SetsDelay(kind, o.type) =>
                /\ Observe(s, kind, o).armed
                /\ Observe(s, kind, o).notBefore <= Observe(s, kind, o).left
           /\ ~SetsDelay(kind, o.type) => Observe(s, kind, o) = s
    <1> DEFINE landed == [s EXCEPT !.inFlight = FALSE]
    <1>1. /\ landed \in Scheduler /\ landed.running /\ ~landed.inFlight
        BY DEF Scheduler
    <1>2. o.retry \in Retries /\ NoRetry \in Retries
        BY DEF Outcome, Retries
    <1>3. o.type \in {"succeeded", "failed", "cancelled"}
        BY DEF Outcome
    <1>4. s.inFlight \in BOOLEAN
        BY DEF Scheduler
    <1>5. CASE kind = "automatic_sync"
        <2>1. PICK state \in SyncStates \cup {"failed"}, retry \in Retries :
                  Observe(s, kind, o) = Finish(landed, state, retry)
            BY <1>2, <1>3, <1>5 DEF Observe, Outcome, SyncStates
        <2> HIDE DEF landed
        <2> QED  BY <1>1, <1>5, <2>1, FinishArms DEF SetsDelay
    <1>6. CASE kind # "automatic_sync" /\ SetsDelay(kind, o.type)
        <2>1. Observe(s, kind, o) = Finish(s, o.state, o.retry)
            BY <1>6 DEF Observe, SetsDelay
        <2> QED  BY <1>2, <1>4, <1>6, <2>1, FinishArms
    <1>7. CASE ~SetsDelay(kind, o.type)
        <2>1. Observe(s, kind, o) = s
            BY <1>3, <1>7 DEF Observe, SetsDelay
        <2> QED  BY <1>4, <1>7, <2>1 DEF SetsDelay
    <1> QED
        BY <1>5, <1>6, <1>7

-----------------------------------------------------------------------------
(* The inductive invariant                                                 *)

USE DEF TypeOK, RunsWhileOpen, FlightPending, NeverStalled, PassPending,
        CloseIsSafe, TimerAfterBackoff, Running

\* The window opens with a started scheduler and no job.
LEMMA InitSchedInv == Init => SchedInv
    <1> SUFFICES ASSUME Init PROVE SchedInv
        OBVIOUS
    <1> DEFINE s0 == [running |-> TRUE, inFlight |-> FALSE, backoff |-> 0,
                      notBefore |-> 0, armed |-> TRUE, left |-> InitialDelay]
    <1>1. sched = s0
        BY DEF Init, StartScheduler, Schedule
    <1>2. s0 \in Scheduler
        BY SchedulerAssumption DEF Scheduler
    <1>3. job \in Job /\ outcome \in Outcome
        BY DEF Init, NoJob, Job, Kinds, NoOutcome, Outcome, SyncStates, Retries
    <1>4. manual \in 0..MaxManual /\ refused \in [recent: BOOLEAN, all: 0..MaxRefused]
        BY SchedulerAssumption DEF Init
    <1>5. /\ sched.running /\ ~sched.inFlight /\ sched.armed
          /\ sched.notBefore = 0 /\ sched.left \in Nat
        BY <1>1, SchedulerAssumption
    <1>6. win = "open" /\ dirty \in BOOLEAN
        BY DEF Init
    <1> HIDE DEF s0
    <1> QED
        BY <1>1, <1>2, <1>3, <1>4, <1>5, <1>6 DEF SchedInv

\* A step that leaves the scheduler and the window alone keeps the invariant
\* if it keeps a pass in flight pending and starts no job under a closed
\* window.
LEMMA JobStepKeeps ==
    ASSUME SchedInv,
           UNCHANGED <<sched, win, refused>>,
           job' \in Job, outcome' \in Outcome, dirty' \in BOOLEAN,
           manual' \in 0..MaxManual,
           PassPending => PassPending',
           win = "closed" => ~Running'
    PROVE  SchedInv'
    BY DEF SchedInv

\* The worker's report keeps a pass pending: it is an outcome.
LEMMA ReportKeeps ==
    ASSUME SchedInv,
           job.pc \in {"start", "run", "project"},
           NEW type \in {"succeeded", "failed", "cancelled"},
           NEW state \in SyncStates, NEW retry \in Retries,
           Report(type, state, retry),
           UNCHANGED <<sched, win, dirty, manual, refused>>
    PROVE  SchedInv'
    <1>1. job' \in Job /\ outcome' \in Outcome
        BY DEF Report, Job, Outcome, SchedInv
    <1>2. PassPending => PassPending'
        BY DEF Report, Job, SchedInv
    <1>3. win = "closed" => ~Running'
        BY DEF Report, Job, SchedInv
    <1> QED
        BY <1>1, <1>2, <1>3, JobStepKeeps DEF SchedInv

\* Every step of the worker keeps the invariant.
LEMMA WorkerKeeps == SchedInv /\ Worker => SchedInv'
    <1> SUFFICES ASSUME SchedInv, Worker PROVE SchedInv'
        OBVIOUS
    <1> USE DEF Retries
    <1>1. ASSUME NEW fails \in BOOLEAN, BeginJob(fails) PROVE SchedInv'
        <2>1. CASE job.cancel \/ fails
            BY <1>1, <2>1, ReportKeeps DEF BeginJob, SyncStates
        <2>2. CASE ~(job.cancel \/ fails)
            <3>1. /\ job.pc = "start" /\ job' = [job EXCEPT !.pc = "run"]
                  /\ outcome' = outcome
                  /\ UNCHANGED <<sched, win, dirty, manual, refused>>
                BY <1>1, <2>2 DEF BeginJob
            <3>2. job' \in Job /\ job'.pc = "run" /\ job'.kind = job.kind
                BY <3>1 DEF Job, SchedInv
            <3> QED
                BY <3>1, <3>2, JobStepKeeps DEF SchedInv
        <2> QED  BY <2>1, <2>2
    <1>2. ASSUME NextProject PROVE SchedInv'
        <2>1. CASE job.cancel /\ ~job.moved
            BY <1>2, <2>1, ReportKeeps DEF NextProject, SyncStates
        <2>2. CASE ~(job.cancel /\ ~job.moved)
            <3>1. /\ job.pc = "run" /\ outcome' = outcome
                  /\ \/ job' = [job EXCEPT !.pc = "project"]
                     \/ job' = [job EXCEPT !.left = 0]
                  /\ UNCHANGED <<sched, win, dirty, manual, refused>>
                BY <1>2, <2>2 DEF NextProject
            <3>2. /\ job' \in Job /\ job'.pc \in {"run", "project"}
                  /\ job'.kind = job.kind
                BY <3>1 DEF Job, SchedInv
            <3> QED
                BY <3>1, <3>2, JobStepKeeps DEF SchedInv
        <2> QED  BY <2>1, <2>2
    <1>3. ASSUME NEW state \in SyncStates, NEW requestFailed \in BOOLEAN,
                 NEW moved \in BOOLEAN, EndProject(state, requestFailed, moved)
          PROVE  SchedInv'
        <2>1. /\ job.pc = "project" /\ outcome' = outcome
              /\ UNCHANGED <<sched, win, dirty, manual, refused>>
            BY <1>3 DEF EndProject
        <2>2. job' \in Job /\ job'.pc = "run" /\ job'.kind = job.kind
            <3> DEFINE left == IF requestFailed THEN 0 ELSE Less(job.left)
                       moves == job.moved \/ moved
            <3>1. job \in Job
                BY DEF SchedInv
            <3>2. left \in Nat
                BY <3>1 DEF Less, Job
            <3>3. job.states \cup {state} \in SUBSET SyncStates
                BY <3>1 DEF Job
            <3>4. moves \in BOOLEAN
                OBVIOUS
            <3>5. job' = [job EXCEPT !.pc = "run", !.left = left,
                                     !.states = job.states \cup {state},
                                     !.moved = moves]
                BY <1>3 DEF EndProject
            <3> HIDE DEF left, moves
            <3> QED
                BY <3>1, <3>2, <3>3, <3>4, <3>5 DEF Job
        <2> QED
            BY <2>1, <2>2, JobStepKeeps DEF SchedInv
    <1>4. ASSUME NEW fails \in BOOLEAN, NEW retry \in Retries,
                 EndPass(fails, retry)
          PROVE  SchedInv'
        <2>1. Combined(job.states) \in SyncStates
            BY DEF Combined, SyncStates
        <2>2. \/ Report("failed", "complete", NoRetry)
              \/ Report("succeeded", Combined(job.states), retry)
            BY <1>4 DEF EndPass
        <2>3. /\ job.pc = "run"
              /\ UNCHANGED <<sched, win, dirty, manual, refused>>
            BY <1>4 DEF EndPass
        <2>4. "complete" \in SyncStates
            BY DEF SyncStates
        <2> QED
            BY <2>1, <2>2, <2>3, <2>4, ReportKeeps
    <1>5. ASSUME NEW type \in {"succeeded", "failed", "cancelled"},
                 NEW state \in SyncStates, NEW retry \in Retries,
                 EndManual(type, state, retry)
          PROVE  SchedInv'
        BY <1>5, ReportKeeps DEF EndManual
    <1>6. ASSUME ThreadEnds PROVE SchedInv'
        <2>1. /\ job.pc = "done" /\ outcome' = outcome
              /\ UNCHANGED <<sched, win, dirty, manual, refused>>
            BY <1>6 DEF ThreadEnds
        <2>2. job' \in Job /\ job'.pc = "ended" /\ job'.kind = job.kind
            BY <1>6 DEF ThreadEnds, Job, SchedInv
        <2> QED
            BY <2>1, <2>2, JobStepKeeps DEF SchedInv
    <1> QED
        BY <1>1, <1>2, <1>3, <1>4, <1>5, <1>6 DEF Worker

\* A step of an open window that replaces the scheduler keeps the invariant
\* if the new one runs, is armed or has a pass pending, and is armed for after
\* the backoff.
LEMMA SchedStepKeeps ==
    ASSUME SchedInv, win = "open", win' = "open",
           sched' \in Scheduler, job' \in Job, outcome' \in Outcome,
           dirty' \in BOOLEAN, manual' = manual,
           refused' \in [recent: BOOLEAN, all: 0..MaxRefused],
           sched'.running,
           sched'.inFlight => PassPending',
           sched'.armed \/ sched'.inFlight,
           sched'.armed /\ ~refused'.recent => sched'.notBefore <= sched'.left
    PROVE  SchedInv'
    BY DEF SchedInv

\* Every slot of the window keeps the invariant.
LEMMA WindowKeeps ==
    ASSUME SchedInv,
           \/ User \/ Timeout \/ Slots \/ CloseSucceeds \/ CloseRefused
    PROVE  SchedInv'
    <1>0. /\ sched \in Scheduler /\ job \in Job /\ outcome \in Outcome
          /\ refused \in [recent: BOOLEAN, all: 0..MaxRefused]
          /\ sched.running \in BOOLEAN /\ sched.inFlight \in BOOLEAN
          /\ sched.armed \in BOOLEAN /\ dirty \in BOOLEAN
        BY DEF SchedInv, Scheduler
    <1>1. ASSUME NEW kind \in Kinds, StartManual(kind) PROVE SchedInv'
        <2>1. NewJob(kind) \in Job
            BY SchedulerAssumption DEF NewJob, Job, Kinds
        <2>2. manual' \in 0..MaxManual
            <3>1. /\ manual \in 0..MaxManual /\ manual < MaxManual
                  /\ manual' = manual + 1
                BY <1>1 DEF StartManual, SchedInv
            <3> QED
                BY <3>1, SchedulerAssumption
        <2>3. ~PassPending
            BY <1>1 DEF StartManual, NoJob
        <2> QED
            BY <1>1, <2>1, <2>2, <2>3, JobStepKeeps DEF StartManual, SchedInv
    <1>2. ASSUME Edit PROVE SchedInv'
        BY <1>2, JobStepKeeps DEF Edit, SchedInv
    <1>3. ASSUME NEW queued \in BOOLEAN, LeaveEditor(queued) PROVE SchedInv'
        <2>1. /\ win = "open" /\ sched' = ReadStatus(sched, queued)
              /\ dirty' = FALSE
              /\ UNCHANGED <<job, outcome, win, manual, refused>>
            BY <1>3 DEF LeaveEditor
        <2> QED
            BY <1>0, <2>1, StatusKeeps, SchedStepKeeps DEF SchedInv
    <1>4. ASSUME RequestSoon PROVE SchedInv'
        <2>1. /\ win = "open" /\ sched' = ReadStatus(sched, TRUE)
              /\ UNCHANGED <<job, outcome, win, dirty, manual, refused>>
            BY <1>4 DEF RequestSoon
        <2> QED
            BY <1>0, <2>1, StatusKeeps, SchedStepKeeps DEF SchedInv
    <1>5. ASSUME CancelManual PROVE SchedInv'
        <2>1. /\ job' = [job EXCEPT !.cancel = TRUE]
              /\ UNCHANGED <<sched, outcome, win, dirty, manual, refused>>
            BY <1>5 DEF CancelManual
        <2>2. job' \in Job /\ job'.pc = job.pc /\ job'.kind = job.kind
            BY <1>0, <2>1 DEF Job
        <2> QED
            BY <2>1, <2>2, JobStepKeeps DEF SchedInv
    <1>6. ASSUME CloseWindow PROVE SchedInv'
        <2>1. sched' \in Scheduler /\ ~sched'.inFlight /\ ~sched'.running
            BY <1>0, <1>6 DEF CloseWindow, StopScheduler, Scheduler
        <2>2. /\ job' \in Job /\ job'.pc = job.pc
            BY <1>0, <1>6 DEF CloseWindow, Job
        <2>3. /\ win' \in {"closing", "closed"}
              /\ win' = "closed" => ~Running
              /\ UNCHANGED <<outcome, dirty, manual, refused>>
            BY <1>6 DEF CloseWindow
        <2> QED
            BY <1>0, <2>1, <2>2, <2>3 DEF SchedInv
    <1>7. ASSUME Timeout PROVE SchedInv'
        <2> DEFINE s == [sched EXCEPT !.armed = FALSE]
        <2>1. /\ win = "open" /\ sched.armed /\ sched.left = 0
              /\ UNCHANGED <<outcome, win, dirty, manual, refused>>
              /\ sched.running
            BY <1>7 DEF Timeout, SchedInv
        <2>2. s \in Scheduler /\ s.running /\ s.inFlight = sched.inFlight
              /\ s.notBefore = sched.notBefore /\ ~s.armed
            BY <1>0, <2>1 DEF Scheduler
        <2>3. CASE sched.inFlight
            <3>1. sched' = s /\ job' = job
                BY <1>7, <2>2, <2>3 DEF Timeout
            <3> HIDE DEF s
            <3> QED
                BY <1>0, <2>1, <2>2, <2>3, <3>1, SchedStepKeeps DEF SchedInv
        <2>4. CASE ~sched.inFlight /\ job = NoJob /\ ~dirty
            <3>1. /\ job' = NewJob("automatic_sync")
                  /\ sched' = [s EXCEPT !.inFlight = TRUE]
                BY <1>7, <2>2, <2>4 DEF Timeout
            <3>2. /\ job' \in Job /\ job'.kind = "automatic_sync"
                  /\ job'.pc = "start"
                BY <3>1, SchedulerAssumption DEF NewJob, Job, Kinds
            <3>3. /\ sched' \in Scheduler /\ sched'.running
                  /\ sched'.inFlight /\ ~sched'.armed
                BY <2>2, <3>1 DEF Scheduler
            <3> HIDE DEF s
            <3> QED
                BY <1>0, <2>1, <3>2, <3>3, SchedStepKeeps
        <2>5. CASE ~sched.inFlight /\ ~(job = NoJob /\ ~dirty)
            <3>1. sched' = Schedule(s, BusyRetry) /\ job' = job
                BY <1>7, <2>1, <2>2, <2>5 DEF Timeout
            <3>2. BusyRetry \in Nat
                BY SchedulerAssumption
            <3>3. ~refused.recent => sched.notBefore = 0
                BY <1>0, <2>1 DEF SchedInv, Scheduler
            <3> HIDE DEF s
            <3>4. /\ sched' \in Scheduler /\ sched'.running
                  /\ sched'.inFlight = sched.inFlight
                  /\ sched'.armed /\ sched'.left = BusyRetry
                  /\ sched'.notBefore = sched.notBefore
                BY <2>2, <3>1, <3>2, ScheduleArms
            <3>5. ~refused'.recent => sched'.notBefore <= sched'.left
                BY <2>1, <3>2, <3>3, <3>4
            <3> QED
                BY <1>0, <2>1, <2>5, <3>1, <3>4, <3>5, SchedStepKeeps
        <2> QED
            BY <2>3, <2>4, <2>5
    <1>8. ASSUME NEW queued \in BOOLEAN, HandleOutcome(queued) PROVE SchedInv'
        <2> DEFINE s == Observe(sched, job.kind, outcome)
        <2>1. /\ win = "open" /\ outcome.type # "none" /\ sched.running
              /\ sched' = ReadStatus(s, queued) /\ outcome' = NoOutcome
              /\ UNCHANGED <<job, win, dirty, manual>>
            BY <1>8 DEF HandleOutcome, SchedInv
        <2>2. /\ refused' \in [recent: BOOLEAN, all: 0..MaxRefused]
              /\ ~refused'.recent =>
                   ~refused.recent \/ SetsDelay(job.kind, outcome.type)
            BY <1>0, <1>8 DEF HandleOutcome, SetsDelay
        <2>3. outcome' \in Outcome
            BY <2>1 DEF NoOutcome, Outcome, SyncStates, Retries
        <2>4. /\ s \in Scheduler /\ s.running
              /\ job.kind = "automatic_sync" => ~s.inFlight
              /\ job.kind # "automatic_sync" => s.inFlight = sched.inFlight
              /\ SetsDelay(job.kind, outcome.type) =>
                   s.armed /\ s.notBefore <= s.left
              /\ ~SetsDelay(job.kind, outcome.type) => s = sched
            BY <1>0, <2>1, ObserveArms
        <2> HIDE DEF s
        <2>5. ~s.inFlight /\ s.armed
            BY <2>1, <2>4 DEF SchedInv
        <2>6. ~refused'.recent => s.notBefore <= s.left
            BY <2>1, <2>2, <2>4 DEF SchedInv, SetsDelay
        <2>7. /\ sched' \in Scheduler /\ sched'.running
              /\ sched'.inFlight = s.inFlight /\ sched'.armed
              /\ sched' = s \/ sched'.notBefore <= sched'.left
            BY <2>1, <2>4, <2>5, StatusKeeps
        <2> QED
            BY <1>0, <2>1, <2>2, <2>3, <2>5, <2>6, <2>7, SchedStepKeeps
    <1>9. ASSUME NEW queued \in BOOLEAN, HandleThreadFinished(queued)
          PROVE  SchedInv'
        <2>1. /\ win = "open" /\ sched' = ReadStatus(sched, queued)
              /\ job.pc = "ended" /\ outcome.type = "none" /\ job' = NoJob
              /\ UNCHANGED <<outcome, win, dirty, manual, refused>>
            BY <1>9 DEF HandleThreadFinished
        <2>2. NoJob \in Job
            BY DEF NoJob, Job, Kinds
        <2>3. ~sched.inFlight /\ sched.armed /\ sched.running
            BY <2>1 DEF SchedInv
        <2> QED
            BY <1>0, <2>1, <2>2, <2>3, StatusKeeps, SchedStepKeeps DEF SchedInv
    <1>10. ASSUME CloseSucceeds PROVE SchedInv'
        BY <1>10 DEF CloseSucceeds, SchedInv
    <1>11. ASSUME CloseRefused PROVE SchedInv'
        <2>1. /\ sched' \in Scheduler /\ sched'.inFlight = sched.inFlight
              /\ sched'.running
              /\ sched' = sched \/ sched'.armed
            BY <1>0, <1>11, SchedulerAssumption
            DEF CloseRefused, StartScheduler, Schedule, Scheduler
        <2>2. ~sched.running
            BY <1>11 DEF CloseRefused, SchedInv
        <2> QED
            <3>1. /\ win = "closing" /\ win' = "open"
                  /\ refused.all < MaxRefused
                  /\ refused' = [recent |-> TRUE, all |-> refused.all + 1]
                  /\ UNCHANGED <<job, outcome, dirty, manual>>
                BY <1>11 DEF CloseRefused
            <3>2. /\ refused' \in [recent: BOOLEAN, all: 0..MaxRefused]
                  /\ refused'.recent
                BY <1>0, <3>1, SchedulerAssumption
            <3>3. ~sched.inFlight
                BY <3>1 DEF SchedInv
            <3> QED
                BY <1>0, <2>1, <2>2, <3>1, <3>2, <3>3 DEF SchedInv
    <1> QED
        BY <1>1, <1>2, <1>3, <1>4, <1>5, <1>6, <1>7, <1>8, <1>9, <1>10,
           <1>11
        DEF User, Slots

\* Time passing keeps the invariant: the timer and the backoff run down
\* together.
LEMMA TickKeeps == SchedInv /\ Tick => SchedInv'
    <1> SUFFICES ASSUME SchedInv, Tick PROVE SchedInv'
        OBVIOUS
    <1>1. /\ sched \in Scheduler
          /\ sched' = [sched EXCEPT !.left = Less(@), !.notBefore = Less(@)]
          /\ UNCHANGED <<job, outcome, win, dirty, manual, refused>>
        BY DEF Tick, SchedInv
    <1>2. /\ sched' \in Scheduler /\ sched'.running = sched.running
          /\ sched'.inFlight = sched.inFlight /\ sched'.armed = sched.armed
          /\ sched.notBefore <= sched.left => sched'.notBefore <= sched'.left
        <2>1. /\ sched.left \in Nat /\ sched.notBefore \in Nat
            BY <1>1 DEF Scheduler
        <2>2. /\ Less(sched.left) \in Nat /\ Less(sched.notBefore) \in Nat
              /\ sched.notBefore <= sched.left =>
                   Less(sched.notBefore) <= Less(sched.left)
            BY <2>1 DEF Less
        <2> QED
            BY <1>1, <2>2 DEF Scheduler
    <1> QED
        BY <1>1, <1>2 DEF SchedInv

\* SchedInv is an invariant of AutomaticSync.
THEOREM SchedInvariant == Spec => []SchedInv
    <1>1. SchedInv /\ [Next]_vars => SchedInv'
        <2> SUFFICES ASSUME SchedInv, [Next]_vars PROVE SchedInv'
            OBVIOUS
        <2>1. CASE User \/ Timeout \/ Slots \/ CloseSucceeds \/ CloseRefused
            BY <2>1, WindowKeeps
        <2>2. CASE Worker
            BY <2>2, WorkerKeeps
        <2>3. CASE Tick
            BY <2>3, TickKeeps
        <2>4. CASE UNCHANGED vars
            BY <2>4 DEF vars, SchedInv
        <2> QED
            BY <2>1, <2>2, <2>3, <2>4 DEF Next
    <1> QED
        BY InitSchedInv, <1>1, PTL DEF Spec

-----------------------------------------------------------------------------
(* The properties                                                          *)

\* The state of the scheduler, the worker and the window has its type.
THEOREM TypeCorrect == Spec => []TypeOK
    <1>1. SchedInv => TypeOK
        BY DEF SchedInv
    <1> QED
        BY SchedInvariant, <1>1, PTL

\* Automatic synchronization never dies under an open window: on every path
\* through _finish, job_failed, _on_timeout, stop and start, the single-shot
\* timer is armed or the outcome that will arm it is still to come.
THEOREM NeverStalls == Spec => []NeverStalled
    <1>1. SchedInv => NeverStalled
        BY DEF SchedInv
    <1> QED
        BY SchedInvariant, <1>1, PTL

\* closeEvent destroys the window only when its worker thread has ended.
THEOREM ClosesSafely == Spec => []CloseIsSafe
    <1>1. SchedInv => CloseIsSafe
        BY DEF SchedInv
    <1> QED
        BY SchedInvariant, <1>1, PTL

\* No pass starts inside the backoff, unless a close was refused: debounced
\* changes, a busy runner and manual synchronizations all respect it.
THEOREM HonoursBackoff == Spec => BackoffHonoured
    <1> DEFINE Honoured == ~sched.inFlight /\ sched'.inFlight =>
                              sched.notBefore = 0 \/ refused.recent
    <1>1. SchedInv /\ [Next]_vars => [Honoured]_vars
        <2> SUFFICES ASSUME SchedInv, Next, ~sched.inFlight, sched'.inFlight,
                            ~refused.recent
                     PROVE  sched.notBefore = 0
            BY DEF vars
        <2>1. Timeout
            <3>0. sched \in Scheduler
                BY DEF SchedInv
            <3>1. CASE User
                <4>1. \/ sched' = sched \/ sched' = StopScheduler(sched)
                      \/ \E queued \in BOOLEAN : sched' = ReadStatus(sched, queued)
                    BY <3>1 DEF User, StartManual, Edit, LeaveEditor,
                                RequestSoon, CancelManual, CloseWindow
                <4>2. \A queued \in BOOLEAN : ~ReadStatus(sched, queued).inFlight
                    BY <3>0, StatusKeeps
                <4>3. ~StopScheduler(sched).inFlight
                    BY <3>0 DEF StopScheduler, Scheduler
                <4> QED
                    BY <4>1, <4>2, <4>3
            <3>2. CASE Slots
                <4>1. PICK queued \in BOOLEAN :
                          HandleOutcome(queued) \/ HandleThreadFinished(queued)
                    BY <3>2 DEF Slots
                <4>2. CASE HandleOutcome(queued)
                    <5> DEFINE s == Observe(sched, job.kind, outcome)
                    <5>1. s \in Scheduler /\ ~s.inFlight
                        BY <3>0, <4>2, ObserveArms DEF HandleOutcome, SchedInv
                    <5>2. sched' = ReadStatus(s, queued)
                        BY <4>2 DEF HandleOutcome
                    <5> HIDE DEF s
                    <5> QED
                        BY <5>1, <5>2, StatusKeeps
                <4>3. CASE HandleThreadFinished(queued)
                    BY <3>0, <4>3, StatusKeeps DEF HandleThreadFinished
                <4> QED
                    BY <4>1, <4>2, <4>3
            <3>3. CASE CloseSucceeds \/ CloseRefused
                BY <3>0, <3>3 DEF CloseSucceeds, CloseRefused, StartScheduler,
                                  Schedule, Scheduler
            <3>4. CASE Worker
                BY <3>4 DEF Worker, BeginJob, NextProject, EndProject, EndPass,
                            EndManual, ThreadEnds
            <3>5. CASE Tick
                BY <3>0, <3>5 DEF Tick, Scheduler
            <3> QED
                BY <3>1, <3>2, <3>3, <3>4, <3>5 DEF Next
        <2> QED
            BY <2>1 DEF Timeout, SchedInv, Scheduler
    <1> QED
        BY SchedInvariant, <1>1, PTL DEF Spec, BackoffHonoured

-----------------------------------------------------------------------------
(* ScoreHistory: the invariant                                             *)

Rows == SUBSET [item: Item, score: Scores]
Batch == [project: Project, at: Int, rows: Rows]
Ranges == [kind: Kind, limit: Nat, from: Int, to: Int]
Answer == SUBSET [batch: Nat, top: Rows]

\* A job that creates a snapshot or loads the history.
HistoryJob ==
    [type: {"history", "snapshot"}, project: Project, request: Ranges,
     kinds: SUBSET Kind, auto: BOOLEAN, started: 0..MaxTime, at: Int,
     rows: Rows, batch: Nat, answer: Answer,
     state: {"running", "created", "done", "partial", "failed"}]

OtherJob == {NoRun, [type |-> "sync"], [type |-> "ending"]}

HistoryType ==
    /\ clock \in 0..MaxTime /\ events \in 0..MaxEvents
    /\ score \in [Project -> [Item -> Scores \cup {0}]]
    /\ batches \in Seq(Batch)
    /\ current \in Project /\ online \in BOOLEAN
    /\ view \in [kind: Kind, limit: Nat, period: STRING, from: Int, to: Int]
    /\ run \in HistoryJob \cup OtherJob
    /\ table.project \in Project \cup {"none"}
    /\ last \in [Project -> -1..MaxTime]
    /\ taken \subseteq [project: Project, at: 0..MaxTime]

\* A range without an end has no beginning.
OpenRange(r) == r.to = -1 => r.from = -1

\* What a job answers is of its project, and holds the batch it created.
AnswerSound(j) ==
    /\ OpenRange(j.request)
    /\ j.type = "snapshot" /\ j.state \in {"created", "done"} =>
          /\ j.batch \in 1..Len(batches)
          /\ batches[j.batch].project = j.project
    /\ j.state = "done" =>
          /\ \A a \in j.answer : /\ a.batch \in 1..Len(batches)
                                 /\ batches[a.batch].project = j.project
          /\ /\ j.type = "snapshot"
             /\ j.request.to = -1
             /\ RowsOf(j.batch, j.request.kind) # {}
             => \E a \in j.answer : a.batch = j.batch

\* An automatic snapshot was begun an interval after the last one that the
\* window knows of, and that time is kept while it runs.
AutoSound ==
    /\ \A t \in taken : t.at <= last[t.project]
    /\ run \in HistoryJob /\ run.auto =>
          /\ run.started <= clock
          /\ last[run.project] # -1 => run.started - last[run.project] >= Days

JobSound == run \in HistoryJob => AnswerSound(run)

IInv == HistoryType /\ OpenRange(view) /\ JobSound /\ AutoSound /\ AutoSpaced

-----------------------------------------------------------------------------
(* Jobs                                                                    *)

\* Which jobs there are, by their type.
LEMMA JobTypes ==
    ASSUME HistoryType
    PROVE  /\ run \in HistoryJob <=> run.type \in {"history", "snapshot"}
           /\ run \in HistoryJob => run # NoRun
           /\ [type |-> "ending"] \in OtherJob /\ [type |-> "sync"] \in OtherJob
           /\ NoRun \in OtherJob
           /\ \A j \in OtherJob : j \notin HistoryJob
<1>1. \A j \in HistoryJob : j.type \in {"history", "snapshot"}
  BY DEF HistoryJob
<1>2. \A j \in OtherJob : j.type \in {"none", "sync", "ending"}
  BY DEF OtherJob, NoRun
<1>3. /\ [type |-> "ending"] \in OtherJob /\ [type |-> "sync"] \in OtherJob
      /\ NoRun \in OtherJob
  BY DEF OtherJob
<1> QED BY <1>1, <1>2, <1>3 DEF HistoryType

\* A job as it is started.
LEMMA StartFacts ==
    ASSUME HistoryType, OpenRange(view),
           NEW type \in {"history", "snapshot"}, NEW kinds \in SUBSET Kind,
           NEW auto \in BOOLEAN, NEW p \in Project
    PROVE  LET j == [Start(type, kinds, auto) EXCEPT !.project = p]
           IN  /\ j \in HistoryJob
               /\ j.project = p /\ j.auto = auto /\ j.started = clock
               /\ AnswerSound(j)
<1> DEFINE j == [type |-> type, project |-> p, request |-> Request,
                 kinds |-> kinds, auto |-> auto, started |-> clock, at |-> -1,
                 rows |-> {}, batch |-> 0, answer |-> {}, state |-> "running"]
<1>1. [Start(type, kinds, auto) EXCEPT !.project = p] = j
  BY DEF Start
<1>2. Request \in Ranges /\ OpenRange(Request)
  BY DEF HistoryType, Request, Ranges, OpenRange
<1>3. {} \in Rows /\ {} \in Answer /\ -1 \in Int /\ 0 \in Nat
  BY DEF Rows, Answer
<1>4. clock \in 0..MaxTime
  BY DEF HistoryType
<1>5. j \in HistoryJob
  BY <1>2, <1>3, <1>4 DEF HistoryJob
<1>6. j.project = p /\ j.auto = auto /\ j.started = clock
      /\ j.request = Request /\ j.state = "running"
  OBVIOUS
<1> HIDE DEF j
<1>7. AnswerSound(j)
  BY <1>2, <1>6 DEF AnswerSound
<1> QED BY <1>1, <1>5, <1>6, <1>7

\* The same for the selected project.
LEMMA StartCurrent ==
    ASSUME HistoryType, OpenRange(view),
           NEW type \in {"history", "snapshot"}, NEW kinds \in SUBSET Kind,
           NEW auto \in BOOLEAN
    PROVE  LET j == Start(type, kinds, auto)
           IN  /\ j \in HistoryJob
               /\ j.project = current /\ j.auto = auto /\ j.started = clock
               /\ AnswerSound(j)
<1>1. current \in Project
  BY DEF HistoryType
<1>2. [Start(type, kinds, auto) EXCEPT !.project = current]
          = Start(type, kinds, auto)
  BY DEF Start
<1> DEFINE k == [Start(type, kinds, auto) EXCEPT !.project = current]
<1>3. /\ k \in HistoryJob
      /\ k.project = current /\ k.auto = auto /\ k.started = clock
      /\ AnswerSound(k)
  BY <1>1, StartFacts
<1> QED BY <1>2, <1>3

\* The fields of a job.
LEMMA JobFields ==
    ASSUME run \in HistoryJob
    PROVE  /\ run.project \in Project /\ run.request \in Ranges
           /\ run.kinds \in SUBSET Kind /\ run.at \in Int /\ run.rows \in Rows
           /\ run.batch \in Nat /\ run.answer \in Answer
           /\ run.started \in 0..MaxTime /\ run.auto \in BOOLEAN
           /\ run.type \in {"history", "snapshot"}
BY DEF HistoryJob

\* A query of a snapshot leaves the job what it is.
LEMMA JobCaptures ==
    ASSUME run \in HistoryJob, NEW rows \in Rows, NEW kinds \in SUBSET Kind,
           NEW at \in Int,
           run' = [run EXCEPT !.rows = rows, !.kinds = kinds, !.at = at]
    PROVE  /\ run' \in HistoryJob /\ run'.type = run.type
           /\ run'.project = run.project /\ run'.request = run.request
           /\ run'.auto = run.auto /\ run'.started = run.started
           /\ run'.state = run.state /\ run'.batch = run.batch
           /\ run'.answer = run.answer
<1>1. run' \in HistoryJob
  BY DEF HistoryJob
<1>2. /\ run'.type = run.type
      /\ run'.project = run.project /\ run'.request = run.request
      /\ run'.auto = run.auto /\ run'.started = run.started
      /\ run'.state = run.state /\ run'.batch = run.batch
      /\ run'.answer = run.answer
  BY DEF HistoryJob
<1> QED BY <1>1, <1>2

\* A commit, an answer or a failure moves it on.
LEMMA JobMoves ==
    ASSUME run \in HistoryJob, NEW batch \in Nat, NEW answer \in Answer,
           NEW state \in {"running", "created", "done", "partial", "failed"},
           \/ run' = [run EXCEPT !.state = state, !.batch = batch]
              /\ answer = run.answer
           \/ run' = [run EXCEPT !.answer = answer, !.state = state]
              /\ batch = run.batch
           \/ run' = [run EXCEPT !.state = state]
              /\ batch = run.batch /\ answer = run.answer
    PROVE  /\ run' \in HistoryJob /\ run'.type = run.type
           /\ run'.project = run.project /\ run'.request = run.request
           /\ run'.auto = run.auto /\ run'.started = run.started
           /\ run'.state = state /\ run'.batch = batch /\ run'.answer = answer
<1>1. CASE run' = [run EXCEPT !.state = state, !.batch = batch]
           /\ answer = run.answer
  BY <1>1 DEF HistoryJob
<1>2. CASE run' = [run EXCEPT !.answer = answer, !.state = state]
           /\ batch = run.batch
  BY <1>2 DEF HistoryJob
<1>3. CASE run' = [run EXCEPT !.state = state]
           /\ batch = run.batch /\ answer = run.answer
  BY <1>3 DEF HistoryJob
<1> QED BY <1>1, <1>2, <1>3

\* A job that does not change, or goes on for the same project, keeps the
\* interval; so does any other job.
LEMMA AutoKept ==
    ASSUME HistoryType, AutoSound, clock' \in Nat, clock <= clock',
           UNCHANGED <<last, taken>>,
           run' \in HistoryJob /\ run'.auto =>
               /\ run \in HistoryJob /\ run.auto
               /\ run'.started = run.started /\ run'.project = run.project
    PROVE  AutoSound'
<1>1. clock \in Nat
  BY HistoryAssumption DEF HistoryType
<1>2. run \in HistoryJob => run.started \in Nat
  BY HistoryAssumption DEF HistoryJob
<1> QED BY <1>1, <1>2 DEF AutoSound

\* Batches stay where they are when one is appended.
LEMMA BatchesKept ==
    ASSUME batches \in Seq(Batch), NEW b \in Batch,
           batches' = Append(batches, b)
    PROVE  /\ Len(batches) \in Nat /\ Len(batches') = Len(batches) + 1
           /\ batches' \in Seq(Batch)
           /\ batches'[Len(batches) + 1] = b
           /\ \A n \in 1..Len(batches) : batches'[n] = batches[n]
           /\ \A n \in 1..Len(batches) : n \in 1..Len(batches')
<1>1. /\ Len(batches) \in Nat /\ Len(batches') = Len(batches) + 1
      /\ batches' \in Seq(Batch)
      /\ batches'[Len(batches) + 1] = b
      /\ \A n \in 1..Len(batches) : batches'[n] = batches[n]
  BY AppendProperties, LenProperties
<1> QED BY <1>1

-----------------------------------------------------------------------------
(* The actions                                                             *)

\* A step that changes none of the job, the batches and the timer.
LEMMA AloneSound ==
    ASSUME IInv, HistoryType', OpenRange(view)', clock <= clock',
           UNCHANGED <<run, batches, last, taken>>
    PROVE  IInv'
<1>1. JobSound'
  BY DEF IInv, JobSound, AnswerSound, RowsOf
<1>2. clock' \in Nat
  BY HistoryAssumption DEF HistoryType
<1>3. AutoSound'
  BY <1>2, AutoKept DEF IInv
<1>4. AutoSpaced'
  BY DEF IInv, AutoSpaced
<1> QED BY <1>1, <1>3, <1>4 DEF IInv

\* A step that only changes the job.
LEMMA OnlyJobSound ==
    ASSUME IInv, run' \in HistoryJob \cup OtherJob,
           table'.project \in Project \cup {"none"}, current' \in Project,
           UNCHANGED <<clock, events, server, online, view, last, taken>>,
           run' \in HistoryJob => AnswerSound(run'),
           run' \in HistoryJob /\ run'.auto =>
               \/ /\ run \in HistoryJob /\ run.auto
                  /\ run'.started = run.started /\ run'.project = run.project
               \/ /\ run'.started = clock
                  /\ last[run'.project] # -1 =>
                        clock - last[run'.project] >= Days
    PROVE  IInv'
<1>1. HistoryType'
  BY DEF IInv, HistoryType, server
<1>2. OpenRange(view)'
  BY DEF IInv, OpenRange
<1>3. JobSound'
  BY DEF JobSound, AnswerSound, RowsOf, server
<1>4. clock \in Nat
  BY HistoryAssumption DEF IInv, HistoryType
<1>5. AutoSound'
  BY <1>4 DEF IInv, AutoSound
<1>6. AutoSpaced'
  BY DEF IInv, AutoSpaced
<1> QED BY <1>1, <1>2, <1>3, <1>5, <1>6 DEF IInv

\* EditItem.
LEMMA EditItemSound ==
    ASSUME IInv, NEW p \in Project, NEW i \in Item, NEW s \in Scores \cup {0},
           EditItem(p, i, s)
    PROVE  IInv'
<1>1. /\ score' \in [Project -> [Item -> Scores \cup {0}]]
      /\ events' \in 0..MaxEvents
  <2>1. score \in [Project -> [Item -> Scores \cup {0}]]
    BY DEF IInv, HistoryType
  <2>2. score' = [score EXCEPT ![p] = [score[p] EXCEPT ![i] = s]]
    BY DEF EditItem
  <2>3. [score[p] EXCEPT ![i] = s] \in [Item -> Scores \cup {0}]
    BY <2>1
  <2>4. score' \in [Project -> [Item -> Scores \cup {0}]]
    BY <2>1, <2>2, <2>3
  <2>5. events' \in 0..MaxEvents
    BY HistoryAssumption DEF IInv, HistoryType, EditItem
  <2> QED BY <2>4, <2>5
<1>2. HistoryType'
  BY <1>1 DEF IInv, HistoryType, EditItem, window
<1>3. OpenRange(view)'
  BY DEF IInv, OpenRange, EditItem, window
<1>4. clock <= clock' /\ UNCHANGED <<run, batches, last, taken>>
  BY HistoryAssumption DEF IInv, HistoryType, EditItem
<1> QED BY <1>2, <1>3, <1>4, AloneSound

\* ChangeView.
LEMMA ChangeViewSound ==
    ASSUME IInv, NEW v \in Views, ChangeView(v)
    PROVE  IInv'
<1>1. /\ events' \in 0..MaxEvents /\ clock \in Nat
  BY HistoryAssumption DEF IInv, HistoryType, ChangeView
<1>2. v.kind \in Kind /\ v.limit \in Nat /\ v.period \in STRING
  BY HistoryAssumption
<1>3. Max({0, clock - Window}) \in Int /\ -1 \in Int
  <2>1. 0 \in {0, clock - Window} /\ clock - Window \in {0, clock - Window}
    OBVIOUS
  <2>2. clock - Window \in Int
    BY <1>1, HistoryAssumption
  <2>3. \E x \in {0, clock - Window} : \A y \in {0, clock - Window} : x >= y
    BY <2>2
  <2> QED BY <2>2, <2>3 DEF Max
<1>4. view' = InView(v)
  BY DEF ChangeView
<1>5. /\ InView(v) \in [kind: Kind, limit: Nat, period: STRING,
                         from: Int, to: Int]
      /\ OpenRange(InView(v))
  BY <1>1, <1>2, <1>3 DEF InView, OpenRange
<1>6. HistoryType' /\ OpenRange(view)'
  BY <1>1, <1>4, <1>5 DEF IInv, HistoryType, ChangeView, OpenRange, server
<1>7. clock <= clock' /\ UNCHANGED <<run, batches, last, taken>>
  BY <1>1 DEF ChangeView, server
<1> QED BY <1>6, <1>7, AloneSound

\* Connection and Tick.
LEMMA OutsideSound ==
    ASSUME IInv, Connection \/ ClockTick
    PROVE  IInv'
<1>1. clock \in Nat
  BY HistoryAssumption DEF IInv, HistoryType
<1>2. clock' \in 0..MaxTime /\ events' \in 0..MaxEvents
  BY <1>1, HistoryAssumption DEF IInv, HistoryType, Connection, ClockTick
<1>5. online' \in BOOLEAN
  BY Zenon DEF IInv, HistoryType, Connection, ClockTick, window
<1>6. HistoryType'
  BY <1>2, <1>5 DEF IInv, HistoryType, Connection, ClockTick, server, window
<1>3. OpenRange(view)'
  BY DEF IInv, OpenRange, Connection, ClockTick, window
<1>4. clock <= clock' /\ UNCHANGED <<run, batches, last, taken>>
  BY <1>1 DEF Connection, ClockTick, server
<1> QED BY <1>6, <1>3, <1>4, AloneSound

\* CaptureKind.
LEMMA CaptureKindSound ==
    ASSUME IInv, NEW k \in Kind, CaptureKind(k)
    PROVE  IInv'
<1>1. run \in HistoryJob
  BY JobTypes DEF IInv, CaptureKind
<1>2. Captured(run.project, k) \in Rows
  BY <1>1, JobFields, HistoryAssumption DEF IInv, HistoryType, Captured, Rows
<1> DEFINE rows == run.rows \cup Captured(run.project, k)
           kinds == run.kinds \ {k}
           at == IF run.at = -1 THEN clock ELSE run.at
<1>3. rows \in Rows /\ kinds \in SUBSET Kind /\ at \in Int
  BY <1>1, <1>2, JobFields, HistoryAssumption DEF Rows, IInv, HistoryType
<1>4. run' = [run EXCEPT !.rows = rows, !.kinds = kinds, !.at = at]
  BY DEF CaptureKind
<1> HIDE DEF rows, kinds, at
<1>5. /\ run' \in HistoryJob /\ run'.type = run.type
      /\ run'.project = run.project /\ run'.request = run.request
      /\ run'.auto = run.auto /\ run'.started = run.started
      /\ run'.state = run.state /\ run'.batch = run.batch
      /\ run'.answer = run.answer
  BY <1>1, <1>3, <1>4, JobCaptures
<1>6. AnswerSound(run')
  BY <1>1, <1>5 DEF IInv, JobSound, AnswerSound
<1> QED BY <1>1, <1>5, <1>6, OnlyJobSound
    DEF IInv, HistoryType, CaptureKind, window

\* CommitSnapshot.
LEMMA CommitSnapshotSound ==
    ASSUME IInv, CommitSnapshot
    PROVE  IInv'
<1>1. run \in HistoryJob
  BY JobTypes DEF IInv, CommitSnapshot
<1>2. PICK b \in Batch : /\ b.project = run.project
                         /\ batches' = Append(batches, b)
  <2>1. [project |-> run.project, at |-> run.at, rows |-> run.rows] \in Batch
    BY <1>1, JobFields DEF Batch
  <2> QED BY <2>1 DEF CommitSnapshot
<1>3. /\ Len(batches) \in Nat /\ Len(batches') = Len(batches) + 1
      /\ batches' \in Seq(Batch)
      /\ batches'[Len(batches) + 1] = b
      /\ \A n \in 1..Len(batches) : batches'[n] = batches[n]
  BY <1>2, BatchesKept DEF IInv, HistoryType
<1>4. /\ run' \in HistoryJob /\ run'.type = run.type
      /\ run'.project = run.project /\ run'.request = run.request
      /\ run'.auto = run.auto /\ run'.started = run.started
      /\ run'.state = "created" /\ run'.batch = Len(batches) + 1
  <2>1. run.answer \in Answer
    BY <1>1, JobFields
  <2>2. run' = [run EXCEPT !.state = "created", !.batch = Len(batches) + 1]
    BY DEF CommitSnapshot
  <2>3. Len(batches) + 1 \in Nat
    BY <1>3
  <2> QED BY <1>1, <2>1, <2>2, <2>3, JobMoves
<1>5. JobSound'
  <2>1. OpenRange(run'.request)
    BY <1>1, <1>4 DEF IInv, JobSound, AnswerSound
  <2> QED BY <1>2, <1>3, <1>4, <2>1 DEF JobSound, AnswerSound, OpenRange
<1>6. HistoryType'
  BY <1>3, <1>4 DEF IInv, HistoryType, CommitSnapshot, window
<1>7. OpenRange(view)'
  BY DEF IInv, OpenRange, CommitSnapshot, window
<1>8. AutoSound'
  BY <1>1, <1>4 DEF IInv, AutoSound, CommitSnapshot
<1>9. AutoSpaced'
  BY DEF IInv, AutoSpaced, CommitSnapshot
<1> QED BY <1>5, <1>6, <1>7, <1>8, <1>9 DEF IInv

\* What top_history answers: rows of the project's batches, and of every
\* listed one.
LEMMA AnswersFacts ==
    ASSUME batches \in Seq(Batch), NEW p, NEW r \in Ranges,
           NEW answer \in Answers(p, r)
    PROVE  /\ answer \in Answer
           /\ \A a \in answer : /\ a.batch \in 1..Len(batches)
                                 /\ batches[a.batch].project = p
           /\ \A n \in Listed(p, r) : \E a \in answer : a.batch = n
<1>1. DOMAIN batches = 1..Len(batches) /\ Len(batches) \in Nat
  BY LenProperties
<1>2. \A n \in 1..Len(batches) : batches[n] \in Batch
  BY ElementOfSeq
<1> DEFINE listed == Listed(p, r)
           tops == UNION {TopsOf(n, r) : n \in listed}
<1>3. PICK f \in [listed -> tops] :
         /\ \A n \in listed : f[n] \in TopsOf(n, r)
         /\ answer = {[batch |-> n, top |-> f[n]] : n \in listed}
  BY DEF Answers
<1>4. \A n \in listed : n \in 1..Len(batches) /\ batches[n].project = p
  BY <1>1 DEF Listed
<1>5. \A n \in listed : f[n] \in Rows
  <2> SUFFICES ASSUME NEW n \in listed PROVE f[n] \in Rows
    OBVIOUS
  <2>1. f[n] \in SUBSET RowsOf(n, r.kind)
    BY <1>3 DEF TopsOf
  <2>2. RowsOf(n, r.kind) \subseteq batches[n].rows
    BY DEF RowsOf
  <2>3. batches[n].rows \in Rows
    BY <1>2, <1>4 DEF Batch
  <2> QED BY <2>1, <2>2, <2>3 DEF Rows
<1> HIDE DEF listed, tops
<1>6. answer \in Answer
  BY <1>1, <1>3, <1>4, <1>5 DEF Answer
<1>7. \A a \in answer : a.batch \in listed
  BY <1>3
<1>8. \A n \in listed : \E a \in answer : a.batch = n
  <2> SUFFICES ASSUME NEW n \in listed PROVE \E a \in answer : a.batch = n
    OBVIOUS
  <2>1. [batch |-> n, top |-> f[n]] \in answer
    BY <1>3
  <2> QED BY <2>1
<1> QED BY <1>4, <1>6, <1>7, <1>8 DEF listed

\* LoadHistory: the history is loaded after the commit of the snapshot.
LEMMA LoadHistorySound ==
    ASSUME IInv, LoadHistory
    PROVE  IInv'
<1>1. run \in HistoryJob
  BY JobTypes DEF IInv, LoadHistory
<1>2. PICK answer \in Answers(run.project, run.request) :
         run' = [run EXCEPT !.answer = answer, !.state = "done"]
  BY DEF LoadHistory
<1>3. /\ run.request \in Ranges /\ run.batch \in Nat
      /\ batches \in Seq(Batch)
  BY <1>1, JobFields DEF IInv, HistoryType
<1>4. /\ answer \in Answer
      /\ \A a \in answer : /\ a.batch \in 1..Len(batches)
                            /\ batches[a.batch].project = run.project
      /\ \A n \in Listed(run.project, run.request) :
            \E a \in answer : a.batch = n
  BY <1>3, AnswersFacts
<1>5. /\ run' \in HistoryJob /\ run'.type = run.type
      /\ run'.project = run.project /\ run'.request = run.request
      /\ run'.auto = run.auto /\ run'.started = run.started
      /\ run'.state = "done" /\ run'.batch = run.batch
      /\ run'.answer = answer
  BY <1>1, <1>2, <1>3, <1>4, JobMoves
<1>6. /\ OpenRange(run.request)
      /\ run.type = "snapshot" =>
            /\ run.batch \in 1..Len(batches)
            /\ batches[run.batch].project = run.project
  BY <1>1 DEF IInv, JobSound, AnswerSound, LoadHistory
<1>7. ASSUME run.type = "snapshot", run.request.to = -1,
             RowsOf(run.batch, run.request.kind) # {}
      PROVE  \E a \in answer : a.batch = run.batch
  <2>1. run.batch \in DOMAIN batches
    BY <1>3, <1>6, <1>7, LenProperties
  <2>2. run.batch \in Listed(run.project, run.request)
    BY <1>6, <1>7, <2>1 DEF Listed, OpenRange
  <2> QED BY <1>4, <2>2
<1>8. AnswerSound(run')
  BY <1>4, <1>5, <1>6, <1>7 DEF AnswerSound
<1> QED BY <1>1, <1>5, <1>8, OnlyJobSound
    DEF IInv, HistoryType, LoadHistory, window

\* JobFails.
LEMMA JobFailsSound ==
    ASSUME IInv, JobFails
    PROVE  IInv'
<1>1. run \in HistoryJob
  BY JobTypes DEF IInv, JobFails
<1>2. PICK state \in {"partial", "failed"} : run' = [run EXCEPT !.state = state]
  BY DEF JobFails
<1>3. run.batch \in Nat /\ run.answer \in Answer
  BY <1>1, JobFields
<1>4. /\ run' \in HistoryJob /\ run'.type = run.type
      /\ run'.project = run.project /\ run'.request = run.request
      /\ run'.auto = run.auto /\ run'.started = run.started
      /\ run'.state = state
  BY <1>1, <1>2, <1>3, JobMoves
<1>5. AnswerSound(run')
  BY <1>1, <1>4 DEF IInv, JobSound, AnswerSound
<1> QED BY <1>1, <1>4, <1>5, OnlyJobSound
    DEF IInv, HistoryType, JobFails, window

\* Deliver: the time an automatic snapshot was started is kept for the
\* project it was started for.
LEMMA DeliverSound ==
    ASSUME IInv, Deliver
    PROVE  IInv'
<1>1. run \in HistoryJob
  BY JobTypes DEF IInv, Deliver
<1>2. /\ run.project \in Project /\ run.started \in 0..MaxTime
      /\ last \in [Project -> -1..MaxTime]
      /\ taken \subseteq [project: Project, at: 0..MaxTime]
  BY <1>1, JobFields DEF IInv, HistoryType
<1>3. run' = [type |-> "ending"] /\ run' \in OtherJob /\ run' \notin HistoryJob
  BY JobTypes DEF Deliver, IInv
<1>4. table'.project \in Project \cup {"none"}
  BY <1>2 DEF Deliver, AfterAnswer, IInv, HistoryType
<1>5. OpenRange(view)' /\ JobSound'
  BY <1>3 DEF IInv, OpenRange, Deliver, window, JobSound
<1>6. CASE run.auto /\ run.state # "failed"
  <2> DEFINE t0 == [project |-> run.project, at |-> run.started]
  <2>1. /\ last' = [last EXCEPT ![run.project] = run.started]
        /\ taken' = taken \cup {t0}
    BY <1>6 DEF Deliver, Remembered
  <2>2. /\ t0 \in [project: Project, at: 0..MaxTime]
        /\ t0.project = run.project /\ t0.at = run.started
    BY <1>2
  <2>3. /\ last' \in [Project -> -1..MaxTime]
        /\ last'[run.project] = run.started
        /\ \A p \in Project : p # run.project => last'[p] = last[p]
    BY <1>2, <2>1, HistoryAssumption
  <2>4. \A t \in taken : /\ t.project \in Project /\ t.at \in 0..MaxTime
                         /\ t.at <= last[t.project]
    BY <1>2 DEF IInv, AutoSound
  <2>5. \A t \in taken : t.project = run.project => run.started - t.at >= Days
    <3> SUFFICES ASSUME NEW t \in taken, t.project = run.project
                 PROVE  run.started - t.at >= Days
      OBVIOUS
    <3>1. last[run.project] \in -1..MaxTime /\ t.at <= last[run.project]
      BY <1>2, <2>4
    <3>2. run.started - last[run.project] >= Days
      BY <1>1, <1>6, <2>4, <3>1 DEF IInv, AutoSound
    <3> QED BY <1>2, <2>4, <3>1, <3>2, HistoryAssumption
  <2> HIDE DEF t0
  <2>6. taken' \subseteq [project: Project, at: 0..MaxTime]
    BY <1>2, <2>1, <2>2
  <2>7. HistoryType'
    BY <1>3, <1>4, <2>3, <2>6 DEF IInv, HistoryType, Deliver, window, server
  <2>8. \A t \in taken' : t.at <= last'[t.project]
    <3> SUFFICES ASSUME NEW t \in taken' PROVE t.at <= last'[t.project]
      OBVIOUS
    <3>1. CASE t = t0
      BY <1>2, <2>2, <2>3, <3>1
    <3>2. CASE t \in taken /\ t.project = run.project
      BY <1>2, <2>3, <2>4, <2>5, <3>2, HistoryAssumption
    <3>3. CASE t \in taken /\ t.project # run.project
      BY <2>3, <2>4, <3>3
    <3> QED BY <2>1, <3>1, <3>2, <3>3
  <2>9. AutoSound'
    BY <1>3, <2>8 DEF AutoSound
  <2>10. AutoSpaced'
    <3> SUFFICES ASSUME NEW t \in taken', NEW u \in taken',
                        t.project = u.project, t.at < u.at
                 PROVE  u.at - t.at >= Days
      BY DEF AutoSpaced
    <3>1. CASE t \in taken /\ u \in taken
      BY <3>1 DEF IInv, AutoSpaced
    <3>2. CASE t \in taken /\ u = t0
      BY <2>2, <2>5, <3>2
    <3>3. CASE u \in taken /\ t = t0
      <4>1. run.started - u.at >= Days /\ u.at \in 0..MaxTime
        BY <2>2, <2>4, <2>5, <3>3
      <4> QED BY <1>2, <2>2, <3>3, <4>1, HistoryAssumption
    <3>4. CASE t = t0 /\ u = t0
      BY <1>2, <2>2, <3>4
    <3> QED BY <2>1, <3>1, <3>2, <3>3, <3>4
  <2> QED BY <1>5, <2>7, <2>9, <2>10 DEF IInv
<1>7. CASE ~(run.auto /\ run.state # "failed")
  <2>1. UNCHANGED <<last, taken>>
    BY <1>7 DEF Deliver
  <2>2. HistoryType'
    BY <1>3, <1>4, <2>1 DEF IInv, HistoryType, Deliver, window, server
  <2>3. AutoSound' /\ AutoSpaced'
    BY <1>3, <2>1 DEF IInv, AutoSound, AutoSpaced
  <2> QED BY <1>5, <2>2, <2>3 DEF IInv
<1> QED BY <1>6, <1>7

\* StartSync and Finish.
LEMMA OtherJobSound ==
    ASSUME IInv, StartSync \/ FinishRun
    PROVE  IInv'
<1>1. run' \in OtherJob /\ run' \notin HistoryJob
  BY JobTypes DEF IInv, StartSync, FinishRun
<1> QED BY <1>1, OnlyJobSound DEF IInv, HistoryType, StartSync, FinishRun, window

\* _refresh_top_history, when a project is selected or the button pressed.
LEMMA RefreshSound ==
    ASSUME IInv, NEW p \in Project, RefreshTop(p), current' \in Project,
           UNCHANGED <<clock, events, server, online, view, last, taken>>
    PROVE  IInv'
<1>1. table'.project \in Project \cup {"none"}
  <2>1. NoTable.project = "none"
    BY DEF NoTable
  <2>2. table' = NoTable \/ table' = table
    BY DEF RefreshTop
  <2> QED BY <2>1, <2>2 DEF IInv, HistoryType
<1>2. CASE run' = run
  BY <1>1, <1>2, OnlyJobSound DEF IInv, HistoryType, JobSound
<1>3. CASE run' = [Start("history", {}, FALSE) EXCEPT !.project = p]
  <2> DEFINE j == [Start("history", {}, FALSE) EXCEPT !.project = p]
  <2>1. j \in HistoryJob /\ j.auto = FALSE /\ AnswerSound(j)
    BY StartFacts DEF IInv
  <2> HIDE DEF j
  <2>2. run' = j
    BY <1>3 DEF j
  <2> QED BY <1>1, <2>1, <2>2, OnlyJobSound
<1> QED BY <1>2, <1>3 DEF RefreshTop

\* SelectProject and RefreshHistory.
LEMMA TabSound ==
    ASSUME IInv, RefreshHistory \/ \E p \in Project : SelectProject(p)
    PROVE  IInv'
<1>1. CASE RefreshHistory
  BY <1>1, RefreshSound DEF IInv, HistoryType, RefreshHistory, window
<1>2. ASSUME NEW p \in Project, SelectProject(p)
      PROVE  IInv'
  BY <1>2, RefreshSound DEF SelectProject
<1> QED BY <1>1, <1>2

\* SnapshotNow and MaybeAutoSnapshot.
LEMMA SnapshotSound ==
    ASSUME IInv, SnapshotNow \/ MaybeAutoSnapshot
    PROVE  IInv'
<1>1. CASE SnapshotNow
  <2> DEFINE j == Start("snapshot", Kind, FALSE)
  <2>1. j \in HistoryJob /\ j.auto = FALSE /\ AnswerSound(j)
    BY StartCurrent DEF IInv
  <2>2. run' = j
    BY <1>1 DEF SnapshotNow
  <2> HIDE DEF j
  <2> QED BY <1>1, <2>1, <2>2, OnlyJobSound
      DEF IInv, HistoryType, SnapshotNow, window
<1>2. CASE MaybeAutoSnapshot
  <2> DEFINE j == Start("snapshot", AutoKind, TRUE)
  <2>1. /\ j \in HistoryJob /\ AnswerSound(j)
        /\ j.project = current /\ j.started = clock
    BY StartCurrent, HistoryAssumption DEF IInv
  <2>2. run' = j
    BY <1>2 DEF MaybeAutoSnapshot
  <2> HIDE DEF j
  <2> QED BY <1>2, <2>1, <2>2, OnlyJobSound
      DEF IInv, HistoryType, MaybeAutoSnapshot, window
<1> QED BY <1>1, <1>2

-----------------------------------------------------------------------------
(* The theorems                                                            *)

\* The tab, the runner and the server as the window is opened.
LEMMA InitSound == HistoryInit => IInv
<1> SUFFICES ASSUME HistoryInit PROVE IInv
  OBVIOUS
<1>1. PICK v \in Views : v.period = "All" /\ view = InView(v)
  BY DEF HistoryInit
<1>2. view \in [kind: Kind, limit: Nat, period: STRING, from: Int, to: Int]
      /\ OpenRange(view)
  BY <1>1, HistoryAssumption DEF InView, OpenRange
<1>3. NoRun \in OtherJob /\ NoRun \notin HistoryJob
  BY DEF NoRun, OtherJob, HistoryJob
<1>4. HistoryType
  BY <1>2, <1>3, HistoryAssumption, EmptySeq DEF HistoryInit, HistoryType, NoTable
<1> QED BY <1>2, <1>3, <1>4
    DEF HistoryInit, IInv, JobSound, AutoSound, AutoSpaced

\* Every action keeps the invariant.
LEMMA NextSound == IInv /\ [HistoryNext]_hvars => IInv'
<1> SUFFICES ASSUME IInv, [HistoryNext]_hvars PROVE IInv'
  OBVIOUS
<1>1. CASE UNCHANGED hvars
  <2>1. HistoryType' /\ OpenRange(view)'
    BY <1>1 DEF IInv, HistoryType, OpenRange, hvars, window, server
  <2>2. clock <= clock' /\ UNCHANGED <<run, batches, last, taken>>
    BY <1>1, HistoryAssumption DEF IInv, HistoryType, hvars, server
  <2> QED BY <2>1, <2>2, AloneSound
<1> QED
  BY <1>1, EditItemSound, CaptureKindSound, CommitSnapshotSound,
     LoadHistorySound, JobFailsSound, DeliverSound, OtherJobSound, TabSound,
     ChangeViewSound, SnapshotSound, OutsideSound
  DEF HistoryNext

\* The invariant holds in every reachable state (top_history_mixin.py and
\* background_jobs.py).
THEOREM InvariantHolds == HistorySpec => []IInv
BY InitSound, NextSound, PTL DEF HistorySpec

\* Automatic snapshots of one project that the window knows of are an
\* interval apart, and the state is well formed (maybe_auto_snapshot).
THEOREM TimerIsSound == HistorySpec => []TimerSound
<1>1. IInv => TimerSound
  <2> SUFFICES ASSUME IInv PROVE TimerSound
    OBVIOUS
  <2>1. \A n \in DOMAIN batches :
           /\ batches[n].project \in Project
           /\ batches[n].rows \subseteq [item: Item, score: Scores]
    <3> SUFFICES ASSUME NEW n \in DOMAIN batches
                 PROVE  /\ batches[n].project \in Project
                        /\ batches[n].rows \in Rows
      BY DEF Rows
    <3>1. batches[n] \in Batch
      BY ElementOfSeq, LenProperties DEF IInv, HistoryType
    <3> QED BY <3>1 DEF Batch
  <2>2. run.type \in {"none", "sync", "history", "snapshot", "ending"}
    BY DEF IInv, HistoryType, HistoryJob, OtherJob, NoRun
  <2>3. view.kind \in Kind
    BY DEF IInv, HistoryType
  <2> QED BY <2>1, <2>2, <2>3 DEF TimerSound, HistoryTypeOK, IInv, HistoryType
<1> QED BY <1>1, InvariantHolds, PTL

\* The table is only ever filled with batches of the project selected at
\* that moment (_history_succeeded, _snapshot_succeeded).
THEOREM AnswersAreForTheProject == HistorySpec => AnswersForProject
<1>1. IInv /\ [HistoryNext]_hvars =>
        [table' # table =>
          /\ table'.project \in {current, "none"}
          /\ \A line \in table'.rows : batches[line.batch].project = current]_hvars
  <2> SUFFICES ASSUME IInv, HistoryNext, table' # table
               PROVE  /\ table'.project \in {current, "none"}
                      /\ \A line \in table'.rows :
                            batches[line.batch].project = current
    OBVIOUS
  <2>1. CASE Deliver
    <3>1. run \in HistoryJob
      BY <2>1, JobTypes DEF IInv, Deliver
    <3>2. /\ run.state = "done" /\ run.project = current
          /\ table' = [project |-> run.project, rows |-> run.answer]
      BY <2>1 DEF Deliver, AfterAnswer
    <3> QED BY <3>1, <3>2 DEF IInv, JobSound, AnswerSound
  <2>2. CASE table' = NoTable
    BY <2>2 DEF NoTable
  <2> QED BY <2>1, <2>2
      DEF HistoryNext, EditItem, CaptureKind, CommitSnapshot, LoadHistory, JobFails,
          StartSync, FinishRun, SelectProject, RefreshHistory, RefreshTop,
          ChangeView, SnapshotNow, MaybeAutoSnapshot, Connection, ClockTick
<1> QED BY <1>1, InvariantHolds, PTL DEF HistorySpec, AnswersForProject

\* A snapshot that the window reports is in the table it then shows, when
\* the history could be loaded (_run_snapshot loads it after the commit).
THEOREM NewSnapshotsAreListed == HistorySpec => NewSnapshotListed
<1>1. IInv /\ [HistoryNext]_hvars =>
        [(/\ run.type = "snapshot" /\ run' # run /\ run.state = "done"
          /\ run.project = current
          /\ run.request.to = -1
          /\ RowsOf(run.batch, run.request.kind) # {}) =>
         \E line \in table'.rows : line.batch = run.batch]_hvars
  <2> SUFFICES ASSUME IInv, HistoryNext,
                      run.type = "snapshot", run' # run, run.state = "done",
                      run.project = current, run.request.to = -1,
                      RowsOf(run.batch, run.request.kind) # {}
               PROVE  \E line \in table'.rows : line.batch = run.batch
    OBVIOUS
  <2>1. run \in HistoryJob /\ run # NoRun
    BY JobTypes DEF IInv
  <2>2. Deliver
    BY <2>1
    DEF HistoryNext, EditItem, CaptureKind, CommitSnapshot, LoadHistory, JobFails,
        StartSync, FinishRun, SelectProject, RefreshHistory, RefreshTop, Busy,
        ChangeView, SnapshotNow, MaybeAutoSnapshot, Connection, ClockTick
  <2>3. table' = [project |-> run.project, rows |-> run.answer]
    BY <2>2 DEF Deliver, AfterAnswer
  <2> QED BY <2>1, <2>3 DEF IInv, JobSound, AnswerSound
<1> QED BY <1>1, InvariantHolds, PTL DEF HistorySpec, NewSnapshotListed

-----------------------------------------------------------------------------
(* The codes of risks: the inductive invariant                             *)

CodeRow == [code : Nat, ver : Nat]
SrvRow == [code : Nat, ver : Nat, seq : Nat]
Verdict == {"accepted", "conflict", "error"}
ChangeId == Device \X Nat
OutboxEntry ==
    [item : Risk, code : Nat \ {0}, typed : BOOLEAN, base : Nat, id : ChangeId,
     sent : BOOLEAN, state : {"pending", "conflict", "error"}, copy : CodeRow]
PushAnswer == [id : ChangeId, item : Risk, outcome : Verdict, code : Nat,
           ver : Nat, acked : Nat]
PulledRow == [item : Risk, code : Nat \ {0}, ver : Nat]
Stamped == [id : ChangeId, outcome : Verdict, row : SrvRow]

\* The table of the server: a row that exists has a code of its own, and a
\* change sequence that was given out.
TableSound(t, n) ==
    /\ t \in [Risk -> SrvRow]
    /\ n \in Nat
    /\ \A i \in Risk : /\ t[i].seq <= n
                       /\ t[i].ver > 0 <=> t[i].seq > 0
                       /\ t[i].ver > 0 => t[i].code # NoCode
    /\ \A i, j \in Risk : i # j /\ t[i].code # NoCode => t[i].code # t[j].code

\* An outbox of device d whose identifiers are below n: one entry per item.
OutboxFor(d, n, q) ==
    /\ q \in Seq(OutboxEntry)
    /\ \A k \in DOMAIN q : q[k].id[1] = d /\ q[k].id[2] < n
    /\ \A k, m \in DOMAIN q : q[k].item = q[m].item \/ q[k].id = q[m].id => k = m

\* What has been processed under the identifier of a queued change is there.
Processed(t, rs, q) ==
    \A k \in DOMAIN q :
        (q[k].state = "error" \/ \E r \in rs : r.id = q[k].id)
            => t[q[k].item].ver > 0

\* The answers to the entries of q.
AnswersFor(n, t, q, ans) ==
    /\ ans \in Seq(PushAnswer)
    /\ \A k \in DOMAIN ans :
        /\ ans[k].id[2] < n
        /\ t[ans[k].item].ver > 0
        /\ \E m \in DOMAIN q : q[m].item = ans[k].item /\ q[m].state = "pending"
        /\ \A m \in DOMAIN q : q[m].id = ans[k].id => q[m].item = ans[k].item
    /\ \A k, m \in DOMAIN ans : ans[k].item = ans[m].item => k = m

\* The codes cs, each for an item, were those of the table at one time, and
\* rows not newer than mk have not changed since.
CodesOfOnce(t, mk, C) ==
    \A c \in C :
        /\ c.code # NoCode
        /\ t[c.item].seq <= mk => c.code = t[c.item].code
        /\ \A j \in Risk : j # c.item /\ t[j].ver > 0 /\ t[j].seq <= mk
              => t[j].code # c.code
        /\ \A e \in C : e.item # c.item => e.code # c.code

AcceptedAnswers(ans) == {ans[k] : k \in Accepted(ans)}

PulledFor(t, n, mk, c) ==
    /\ c.rows \in Seq(PulledRow)
    /\ c.upto \in mk..n
    /\ \A k, m \in DOMAIN c.rows : c.rows[k].item = c.rows[m].item => k = m
    /\ CodesOfOnce(t, c.upto, Range(c.rows))
    /\ \A i \in Risk : mk < t[i].seq /\ t[i].seq <= c.upto
          => \E k \in DOMAIN c.rows : c.rows[k].item = i

CallFor(n, t, sq, q, mk, c) ==
    /\ c.kind \in {"idle", "push", "pull"}
    /\ c.kind = "push" =>
          /\ AnswersFor(n, t, q, c.results)
          /\ CodesOfOnce(t, mk, AcceptedAnswers(c.results))
    /\ c.kind = "pull" => PulledFor(t, sq, mk, c)

\* Rows that are not newer than the watermark and have no queued change have
\* the code of the server.
Arrived(t, q, mk, rs) ==
    \A i \in Risk :
        t[i].ver > 0 /\ t[i].seq <= mk /\ (\A k \in DOMAIN q : q[k].item # i)
            => rs[i].code = t[i].code

RowsTyped(rs) ==
    /\ rs \in [Risk -> [code : Nat, ver : Int]]
    /\ \A i \in Risk : rs[i].ver >= Absent

DeviceSound(n, t, sq, rc, d, rs, q, mk, c) ==
    /\ RowsTyped(rs)
    /\ OutboxFor(d, n, q)
    /\ Processed(t, rc, q)
    /\ mk \in 0..sq
    /\ CallFor(n, t, sq, q, mk, c)
    /\ Arrived(t, q, mk, rs)

ReceiptsSound(n, rc) ==
    /\ rc \subseteq Stamped
    /\ \A r \in rc : r.id[2] < n

Functional ==
    /\ spent.saves \in Nat
    /\ DOMAIN spent = {"saves", "typed", "renames", "losses"}
    /\ DOMAIN row = Device /\ DOMAIN queue = Device
    /\ DOMAIN mark = Device /\ DOMAIN call = Device

CodesInv ==
    /\ Functional
    /\ failed = FALSE
    /\ TableSound(srv, seq)
    /\ ReceiptsSound(spent.saves, receipt)
    /\ \A d \in Device :
          DeviceSound(spent.saves, srv, seq, receipt, d,
                      row[d], queue[d], mark[d], call[d])

-----------------------------------------------------------------------------
(* Numbers, and induction over the changes of a request                    *)

\* A set of natural numbers that is not empty has a least element.
LEMMA LeastNat ==
    ASSUME NEW T, T \subseteq Nat, T # {}
    PROVE  \E x \in T : \A y \in T : x <= y
<1> DEFINE R == {p \in Nat \X Nat : p[1] < p[2]}
<1>1. IsWellFoundedOn(R, Nat)
  <2>1. R = OpToRel(<, Nat) BY DEF OpToRel
  <2> QED BY <2>1, NatLessThanWellFounded
<1>2. PICK x \in T : \A y \in T : ~ (<<y, x>> \in R)
  BY <1>1, WFMin
<1>3. ASSUME NEW y \in T PROVE x <= y
  <2>1. x \in Nat /\ y \in Nat
    OBVIOUS
  <2>2. ~(y < x)
    BY <2>1, <1>2
  <2> QED BY <2>1, <2>2
<1> QED BY <1>3

\* What holds at first and is kept by every step holds after each. I[n]: the
\* values for which it holds after n steps.
LEMMA StepsKeep ==
    ASSUME NEW f, NEW I, NEW N \in Nat, f[0] \in I[0],
           \A n \in 1..N : f[n - 1] \in I[n - 1] => f[n] \in I[n]
    PROVE  \A n \in 0..N : f[n] \in I[n]
<1> DEFINE T == {n \in Nat : n <= N /\ f[n] \notin I[n]}
<1>1. ASSUME T # {} PROVE FALSE
  <2>1. PICK m \in T : \A y \in T : m <= y
    BY <1>1, LeastNat
  <2>2. m \in Nat /\ m <= N /\ f[m] \notin I[m] /\ m # 0
    OBVIOUS
  <2>3. m - 1 \in Nat /\ m - 1 <= N /\ m \in 1..N /\ ~(m <= m - 1)
    BY <2>2
  <2>4. f[m - 1] \in I[m - 1]
    BY <2>1, <2>3
  <2> QED BY <2>2, <2>3, <2>4
<1>2. T = {}
  BY <1>1
<1>3. ASSUME NEW n \in 0..N PROVE f[n] \in I[n]
  BY <1>2
<1> QED BY <1>3

IsRunOf(f, N, s, step) ==
    f = [n \in 0..N |-> IF n = 0 THEN s ELSE step[<<n, f[n - 1]>>]]

\* Every iteration has a run.
LEMMA RunOfExists ==
    ASSUME NEW N \in Nat, NEW s, NEW step
    PROVE  \E f : IsRunOf(f, N, s, step)
<1> DEFINE T == {n \in Nat : ~ \E f : IsRunOf(f, n, s, step)}
<1>1. SUFFICES ASSUME T # {} PROVE FALSE
  OBVIOUS
<1>2. PICK m \in T : \A y \in T : m <= y
  BY <1>1, LeastNat
<1>3. m \in Nat /\ ~ \E f : IsRunOf(f, m, s, step)
  OBVIOUS
<1>4. m # 0
  <2> DEFINE f == [n \in 0..0 |-> s]
  <2>1. IsRunOf(f, 0, s, step)
    BY DEF IsRunOf
  <2> QED BY <2>1, <1>3
<1>5. m - 1 \in Nat /\ m - 1 \notin T
  <2>1. m - 1 \in Nat /\ ~(m <= m - 1)
    BY <1>3, <1>4
  <2> QED BY <2>1, <1>2
<1>6. PICK f : IsRunOf(f, m - 1, s, step)
  BY <1>5
<1> HIDE DEF T
<1> DEFINE g == [n \in 0..m |-> IF n < m THEN f[n] ELSE step[<<m, f[m - 1]>>]]
<1>7. IsRunOf(g, m, s, step)
  <2>1. ASSUME NEW n \in 0..m
        PROVE  g[n] = IF n = 0 THEN s ELSE step[<<n, g[n - 1]>>]
    <3>1. CASE n = 0
      <4>1. 0 \in 0..(m - 1) /\ 0 < m
        BY <1>3, <1>4
      <4>2. f[0] = s
        BY <4>1, <1>6 DEF IsRunOf
      <4> QED BY <3>1, <4>1, <4>2
    <3>2. CASE n # 0 /\ n < m
      <4>1. n \in 0..(m - 1) /\ n - 1 \in 0..m /\ n - 1 < m
        BY <1>3, <3>2
      <4>2. f[n] = step[<<n, f[n - 1]>>]
        BY <4>1, <3>2, <1>6 DEF IsRunOf
      <4>3. g[n] = f[n] /\ g[n - 1] = f[n - 1]
        BY <4>1, <3>2
      <4> QED BY <3>2, <4>2, <4>3
    <3>3. CASE n = m
      <4>1. m - 1 \in 0..m /\ m - 1 < m /\ m \in 0..m
        BY <1>3, <1>4
      <4>2. g[m - 1] = f[m - 1]
        BY <4>1
      <4>3. g[m] = step[<<m, f[m - 1]>>]
        BY <4>1, <1>3
      <4> QED BY <3>3, <1>4, <4>2, <4>3
    <3> QED BY <1>3, <3>1, <3>2, <3>3
  <2>2. g = [n \in 0..m |-> g[n]]
    OBVIOUS
  <2> HIDE DEF g
  <2> QED BY <2>1, <2>2 DEF IsRunOf
<1> QED BY <1>3, <1>7

\* A run whose values stay in I.
LEMMA RunOfSound ==
    ASSUME NEW N \in Nat, NEW s, NEW step, NEW I, s \in I[0],
           \A n \in 1..N : \A a \in I[n - 1] : step[<<n, a>>] \in I[n]
    PROVE  \E f : IsRunOf(f, N, s, step) /\ \A n \in 0..N : f[n] \in I[n]
<1>1. PICK f : IsRunOf(f, N, s, step)
  BY RunOfExists
<1>2. f[0] = s
  <2>1. 0 \in 0..N OBVIOUS
  <2> QED BY <2>1, <1>1 DEF IsRunOf
<1>3. \A n \in 1..N : f[n] = step[<<n, f[n - 1]>>]
  <2>1. ASSUME NEW n \in 1..N PROVE n \in 0..N /\ n # 0
    OBVIOUS
  <2> QED BY <2>1, <1>1 DEF IsRunOf
<1>4. \A n \in 1..N : f[n - 1] \in I[n - 1] => f[n] \in I[n]
  BY <1>3
<1>5. \A n \in 0..N : f[n] \in I[n]
  BY <1>2, <1>4, StepsKeep
<1> QED BY <1>1, <1>5

-----------------------------------------------------------------------------
(* Selecting from a sequence                                               *)

OnlyStep(s, keep, k, a) == IF s[k] \in keep THEN Append(a, s[k]) ELSE a
IsOnly(f, s, keep) ==
    f = [k \in 0..Len(s) |-> IF k = 0 THEN <<>> ELSE OnlyStep(s, keep, k, f[k - 1])]

LEMMA OnlyInduction ==
    ASSUME NEW s, NEW keep, NEW I, Len(s) \in Nat, <<>> \in I[0],
           \A n \in 1..Len(s) : \A a \in I[n - 1] : OnlyStep(s, keep, n, a) \in I[n]
    PROVE  Only(s, keep) \in I[Len(s)]
<1> DEFINE N == Len(s)
           U == UNION {I[n] : n \in 0..N}
           step == [p \in (1..N) \X U |-> OnlyStep(s, keep, p[1], p[2])]
<1>1. ASSUME NEW n \in 1..N, NEW a \in I[n - 1]
      PROVE  step[<<n, a>>] = OnlyStep(s, keep, n, a)
  <2>1. n - 1 \in 0..N OBVIOUS
  <2>2. a \in U BY <2>1
  <2>3. <<n, a>> \in (1..N) \X U BY <2>2
  <2> QED BY <2>3
<1> DEFINE e == <<>>
<1>0. e \in I[0] OBVIOUS
<1> HIDE DEF step, e
<1>2. \A n \in 1..N : \A a \in I[n - 1] : step[<<n, a>>] \in I[n]
  BY <1>1
<1>3. PICK g : IsRunOf(g, N, e, step) /\ \A n \in 0..N : g[n] \in I[n]
  BY <1>0, <1>2, RunOfSound
<1>4. IsOnly(g, s, keep)
  <2>1. ASSUME NEW n \in 0..N
        PROVE  (IF n = 0 THEN e ELSE step[<<n, g[n - 1]>>])
               = IF n = 0 THEN <<>> ELSE OnlyStep(s, keep, n, g[n - 1])
    <3>1. CASE n = 0 BY <3>1 DEF e
    <3>2. CASE n # 0
      <4>1. n \in 1..N /\ n - 1 \in 0..N BY <3>2
      <4> QED BY <3>2, <4>1, <1>1, <1>3
    <3> QED BY <3>1, <3>2
  <2> QED BY <2>1, <1>3 DEF IsOnly, IsRunOf
<1> DEFINE f == CHOOSE h : IsOnly(h, s, keep)
<1>5. IsOnly(f, s, keep)
  BY <1>4
<1>6. Only(s, keep) = f[N]
  BY DEF Only, IsOnly, OnlyStep
<1> HIDE DEF f
<1>7. f[0] \in I[0]
  <2>1. 0 \in 0..N OBVIOUS
  <2> QED BY <2>1, <1>5 DEF IsOnly
<1>8. \A n \in 1..N : f[n - 1] \in I[n - 1] => f[n] \in I[n]
  <2>1. ASSUME NEW n \in 1..N PROVE f[n] = OnlyStep(s, keep, n, f[n - 1])
    <3>1. n \in 0..N /\ n # 0 OBVIOUS
    <3> QED BY <3>1, <1>5 DEF IsOnly
  <2> QED BY <2>1
<1>9. \A n \in 0..N : f[n] \in I[n]
  BY <1>7, <1>8, StepsKeep
<1> QED BY <1>6, <1>9

\* a holds the members of the first n of s that are in keep, at the places g.
Picks(s, keep, n, a, g) ==
    /\ g \in [1..Len(a) -> 1..n]
    /\ \A k \in 1..Len(a) : a[k] = s[g[k]] /\ s[g[k]] \in keep
    /\ \A k, m \in 1..Len(a) : k < m => g[k] < g[m]
    /\ \A j \in 1..n : s[j] \in keep => \E k \in 1..Len(a) : g[k] = j

\* What is selected keeps its order, and nothing of keep is left out.
LEMMA OnlyPicks ==
    ASSUME NEW E, NEW s \in Seq(E), NEW keep
    PROVE  /\ Only(s, keep) \in Seq(E)
           /\ \E g : Picks(s, keep, Len(s), Only(s, keep), g)
<1> DEFINE I == [n \in 0..Len(s) |->
                   {a \in Seq(E) : \E g : Picks(s, keep, n, a, g)}]
           e == <<>>
<1>1. Len(s) \in Nat OBVIOUS
<1>2. <<>> \in I[0]
  <2>1. e \in Seq(E) /\ Len(e) = 0 OBVIOUS
  <2> DEFINE g == [k \in 1..0 |-> k]
  <2>2. Picks(s, keep, 0, e, g)
    BY <2>1 DEF Picks
  <2>3. 0 \in 0..Len(s) BY <1>1
  <2>4. e \in I[0] BY <2>1, <2>2, <2>3
  <2> QED BY <2>4
<1>3. ASSUME NEW n \in 1..Len(s), NEW a \in I[n - 1]
      PROVE  OnlyStep(s, keep, n, a) \in I[n]
  <2>1. n \in 0..Len(s) /\ n - 1 \in 0..Len(s) BY <1>1
  <2>2. a \in Seq(E) BY <2>1
  <2>3. PICK g : Picks(s, keep, n - 1, a, g) BY <2>1
  <2>4. CASE s[n] \in keep
    <3> DEFINE b == Append(a, s[n])
               L == Len(a)
               h == [k \in 1..(L + 1) |-> IF k = L + 1 THEN n ELSE g[k]]
    <3>1. L \in Nat /\ b \in Seq(E) /\ Len(b) = L + 1
      BY <2>2, <2>4
    <3>2. \A k \in 1..L : b[k] = a[k] /\ h[k] = g[k]
      BY <2>2, <3>1
    <3>3. b[L + 1] = s[n] /\ h[L + 1] = n
      BY <2>2, <3>1
    <3>4. g \in [1..L -> 1..(n - 1)]
      BY <2>3 DEF Picks
    <3> HIDE DEF b
    <3>5. h \in [1..(L + 1) -> 1..n]
      BY <3>1, <3>4
    <3>6. \A k \in 1..(L + 1) : k \in 1..L \/ k = L + 1
      BY <3>1
    <3> HIDE DEF h
    <3>7. \A k \in 1..(L + 1) : b[k] = s[h[k]] /\ s[h[k]] \in keep
      BY <3>2, <3>3, <3>6, <2>3, <2>4 DEF Picks
    <3>8. \A k, m \in 1..(L + 1) : k < m => h[k] < h[m]
      <4> SUFFICES ASSUME NEW k \in 1..(L + 1), NEW m \in 1..(L + 1), k < m
                   PROVE  h[k] < h[m]
        OBVIOUS
      <4>1. k \in 1..L BY <3>1
      <4>2. CASE m \in 1..L BY <4>1, <4>2, <3>2, <2>3 DEF Picks
      <4>3. CASE m = L + 1
        <5>1. g[k] \in 1..(n - 1) BY <4>1, <3>4
        <5> QED BY <5>1, <4>1, <4>3, <3>2, <3>3
      <4> QED BY <4>2, <4>3, <3>6
    <3>9. \A j \in 1..n : s[j] \in keep => \E k \in 1..(L + 1) : h[k] = j
      <4> SUFFICES ASSUME NEW j \in 1..n, s[j] \in keep
                   PROVE  \E k \in 1..(L + 1) : h[k] = j
        OBVIOUS
      <4>1. CASE j = n
        <5>1. L + 1 \in 1..(L + 1) BY <3>1
        <5> QED BY <5>1, <4>1, <3>3
      <4>2. CASE j # n
        <5>1. j \in 1..(n - 1) BY <4>2
        <5>2. PICK k \in 1..L : g[k] = j
          BY <5>1, <2>3 DEF Picks
        <5>3. k \in 1..(L + 1) BY <3>1
        <5> QED BY <5>2, <5>3, <3>2
      <4> QED BY <4>1, <4>2
    <3>10. Picks(s, keep, n, b, h)
      BY <3>1, <3>5, <3>7, <3>8, <3>9 DEF Picks
    <3>11. OnlyStep(s, keep, n, a) = b
      BY <2>4 DEF OnlyStep, b
    <3> QED BY <3>1, <3>10, <3>11, <2>1
  <2>5. CASE s[n] \notin keep
    <3>1. g \in [1..Len(a) -> 1..n]
      BY <2>2, <2>3 DEF Picks
    <3>2. \A j \in 1..n : s[j] \in keep => j \in 1..(n - 1)
      BY <2>5
    <3>3. Picks(s, keep, n, a, g)
      BY <2>3, <3>1, <3>2 DEF Picks
    <3>4. OnlyStep(s, keep, n, a) = a
      BY <2>5 DEF OnlyStep
    <3> QED BY <2>2, <3>3, <3>4, <2>1
  <2> QED BY <2>4, <2>5
<1> HIDE DEF I
<1>4. Only(s, keep) \in I[Len(s)]
  BY <1>1, <1>2, <1>3, OnlyInduction
<1>5. Len(s) \in 0..Len(s) BY <1>1
<1> QED BY <1>4, <1>5 DEF I

\* o has the entries of q that are in keep.
Selected(q, keep, o) ==
    /\ \A k \in DOMAIN o : \E m \in DOMAIN q : o[k] = q[m] /\ q[m] \in keep
    /\ \A m \in DOMAIN q : q[m] \in keep => \E k \in DOMAIN o : o[k] = q[m]

\* Selecting from an outbox leaves an outbox.
LEMMA OnlyOutbox ==
    ASSUME NEW d, NEW n, NEW q, NEW keep, OutboxFor(d, n, q)
    PROVE  /\ OutboxFor(d, n, Only(q, keep))
           /\ Selected(q, keep, Only(q, keep))
<1> DEFINE t == Only(q, keep)
<1>1. q \in Seq(OutboxEntry)
  BY DEF OutboxFor
<1>2. t \in Seq(OutboxEntry) /\ \E g : Picks(q, keep, Len(q), t, g)
  BY <1>1, OnlyPicks
<1> HIDE DEF t
<1>3. PICK g : Picks(q, keep, Len(q), t, g)
  BY <1>2
<1>4. DOMAIN t = 1..Len(t) /\ DOMAIN q = 1..Len(q) /\ Len(t) \in Nat
  BY <1>1, <1>2
<1>5. \A k \in DOMAIN t : g[k] \in DOMAIN q /\ t[k] = q[g[k]] /\ q[g[k]] \in keep
  BY <1>3, <1>4 DEF Picks
<1>6. \A m \in DOMAIN q : q[m] \in keep => \E k \in DOMAIN t : t[k] = q[m]
  BY <1>3, <1>4 DEF Picks
<1>7. \A k, m \in DOMAIN t : g[k] = g[m] => k = m
  <2> SUFFICES ASSUME NEW k \in DOMAIN t, NEW m \in DOMAIN t, g[k] = g[m]
               PROVE  k = m
    OBVIOUS
  <2>1. ~(k < m) /\ ~(m < k)
    <3>1. g[k] \in Nat /\ g[m] \in Nat BY <1>1, <1>4, <1>5
    <3> QED BY <3>1, <1>3, <1>4 DEF Picks
  <2> QED BY <2>1, <1>4
<1>8. \A k \in DOMAIN t : t[k].id[1] = d /\ t[k].id[2] < n
  BY <1>5 DEF OutboxFor
<1>9. \A k, m \in DOMAIN t : t[k].item = t[m].item \/ t[k].id = t[m].id => k = m
  <2> SUFFICES ASSUME NEW k \in DOMAIN t, NEW m \in DOMAIN t,
                      t[k].item = t[m].item \/ t[k].id = t[m].id
               PROVE  k = m
    OBVIOUS
  <2>1. g[k] = g[m]
    BY <1>5 DEF OutboxFor
  <2> QED BY <2>1, <1>7
<1>10. OutboxFor(d, n, t)
  BY <1>2, <1>8, <1>9 DEF OutboxFor
<1> QED BY <1>5, <1>6, <1>10 DEF t, Selected

\* A set of numbers that is finite has a bound.
LEMMA Bounded ==
    ASSUME NEW S, S \subseteq Nat, IsFiniteSet(S)
    PROVE  \E b \in Nat : \A x \in S : x <= b
<1> DEFINE Bad(X) == X \subseteq Nat /\ IsFiniteSet(X)
                     /\ ~ \E b \in Nat : \A x \in X : x <= b
           T == {c \in Nat : \E X : Bad(X) /\ Cardinality(X) = c}
<1>1. ASSUME T # {} PROVE FALSE
  <2>1. PICK c \in T : \A y \in T : c <= y
    BY <1>1, LeastNat
  <2>2. PICK X : Bad(X) /\ Cardinality(X) = c
    OBVIOUS
  <2>3. X # {}
    <3>1. 0 \in Nat OBVIOUS
    <3> QED BY <2>2, <3>1
  <2>4. PICK x \in X : TRUE
    BY <2>3
  <2> DEFINE Y == X \ {x}
  <2>5. IsFiniteSet(Y) /\ Cardinality(Y) = c - 1 /\ c - 1 \in Nat
    <3>1. IsFiniteSet(Y) /\ Cardinality(Y) = Cardinality(X) - 1
      BY <2>2, <2>4, FS_RemoveElement
    <3>2. Cardinality(Y) \in Nat
      BY <3>1, FS_CardinalityType
    <3> QED BY <3>1, <3>2, <2>2
  <2>6. ~ Bad(Y)
    <3>1. c - 1 \notin T BY <2>1, <2>5
    <3> QED BY <3>1, <2>5
  <2>7. PICK b \in Nat : \A z \in Y : z <= b
    BY <2>2, <2>5, <2>6
  <2> DEFINE top == IF x <= b THEN b ELSE x
  <2>8. x \in Nat /\ X \subseteq Nat /\ top \in Nat
    BY <2>2, <2>4
  <2>9. ASSUME NEW z \in X PROVE z <= top
    <3>1. z = x \/ z \in Y OBVIOUS
    <3> QED BY <3>1, <2>7, <2>8
  <2> QED BY <2>2, <2>8, <2>9
<1>2. ~ Bad(S)
  <2>1. Cardinality(S) \in Nat BY FS_CardinalityType
  <2> QED BY <1>1, <2>1
<1> QED BY <1>2

\* A table has finitely many codes.
LEMMA CodesFinite ==
    ASSUME NEW t, NEW J \in SUBSET Risk
    PROVE  IsFiniteSet({t[j].code : j \in J})
<1> DEFINE f == [j \in J |-> t[j].code]
           T == {t[j].code : j \in J}
<1>1. IsFiniteSet(J)
  BY FS_Subset, CodesAssumption
<1>2. f \in [J -> T] /\ \A y \in T : \E x \in J : f[x] = y
  OBVIOUS
<1> HIDE DEF f, T
<1>3. f \in Surjection(J, T)
  BY <1>2 DEF Surjection
<1>4. IsFiniteSet(T)
  BY <1>1, <1>3, FS_Surjection
<1> QED BY <1>4 DEF T

\* The next code of a device is a number that it does not use.
LEMMA NextCodeType ==
    ASSUME NEW d, RowsTyped(row[d])
    PROVE  NextCode(d) \in Nat \ {0}
<1> DEFINE used == {row[d][i].code : i \in Risk}
           z == 0
           S == used \cup {z}
<1>1. used \subseteq Nat
  BY DEF RowsTyped
<1>2. IsFiniteSet(used)
  BY CodesFinite
<1>3. z \in Nat /\ S \subseteq Nat /\ S # {}
  BY <1>1
<1>4. IsFiniteSet(S)
  BY <1>2, FS_AddElement
<1> HIDE DEF S, z
<1>5. PICK b \in Nat : \A x \in S : x <= b
  BY <1>3, <1>4, Bounded
<1> DEFINE B == {m \in Nat : \A x \in S : x <= m}
<1>6. PICK m \in B : \A y \in B : m <= y
  BY <1>5, LeastNat
<1>7. m \in S
  <2> SUFFICES ASSUME m \notin S PROVE FALSE
    OBVIOUS
  <2>1. PICK x \in S : TRUE
    BY <1>3
  <2>2. m - 1 \in B
    BY <2>1, <1>3
  <2> QED BY <1>6, <2>2
<1>8. \E x \in used \cup {0} : \A y \in used : y <= x
  BY <1>6, <1>7 DEF S, z
<1> DEFINE top == CHOOSE x \in used \cup {0} : \A y \in used : y <= x
<1>9. top \in used \cup {0}
  BY <1>8
<1>10. NextCode(d) = top + 1
  BY DEF NextCode
<1> HIDE DEF top
<1>11. \A x \in used \cup {0} : x \in Nat
  BY <1>1
<1> HIDE DEF used
<1>12. top + 1 \in Nat \ {0}
  BY <1>9, <1>11
<1> QED BY <1>10, <1>12

-----------------------------------------------------------------------------
(* What the server does with a batch                                       *)

\* Some number is free, so that the lowest free one exists.
LEMMA FirstFreeIsFree ==
    ASSUME NEW U, U \subseteq Nat, IsFiniteSet(U)
    PROVE  FirstFree(U) \in Nat \ {0} /\ FirstFree(U) \notin U
<1> DEFINE c == Cardinality(U)
           N == 1..(c + 1)
           T == {n \in N : n \notin U}
<1>1. c \in Nat
  BY FS_CardinalityType
<1> HIDE DEF c
<1>2. N \subseteq Nat /\ T \subseteq Nat
  BY <1>1
<1>3. T # {}
  <2> SUFFICES ASSUME N \subseteq U PROVE FALSE
    OBVIOUS
  <2> DEFINE lo == 1
             hi == c + 1
  <2>1. lo \in Int /\ hi \in Int /\ ~(lo > hi) /\ hi - lo + 1 = c + 1
    BY <1>1
  <2> HIDE DEF lo, hi
  <2>2. Cardinality(lo..hi) = c + 1
    BY <2>1, FS_Interval
  <2>3. lo..hi \in SUBSET U
    BY DEF lo, hi
  <2>4. Cardinality(lo..hi) <= Cardinality(U)
    BY <2>3, FS_Subset
  <2> QED BY <2>2, <2>4, <1>1 DEF c
<1>4. PICK x \in T : \A y \in T : x <= y
  BY <1>2, <1>3, LeastNat
<1>5. x \in N /\ x \notin U /\ \A m \in 1..(x - 1) : m \in U
  BY <1>1, <1>4
<1>6. FirstFree(U) \in N /\ FirstFree(U) \notin U
  BY <1>5 DEF FirstFree, c
<1>7. \A m \in N : m \in Nat \ {0}
  BY <1>1
<1> QED BY <1>6, <1>7

\* _canonical_item_code finds a code that no other row has.
LEMMA CanonicalIsFree ==
    ASSUME NEW t, NEW n, TableSound(t, n), NEW i \in Risk, NEW code \in Nat \ {0}
    PROVE  Canonical(t, i, code) \in Nat \ {0} /\ Canonical(t, i, code) \notin Others(t, i)
<1> DEFINE J == Risk \ {i}
           C == {t[j].code : j \in J}
<1>1. J \in SUBSET Risk
  OBVIOUS
<1>2. IsFiniteSet(C)
  BY <1>1, CodesFinite
<1>3. C \subseteq Nat
  BY DEF TableSound, SrvRow
<1>4. Others(t, i) = C \ {NoCode}
  BY DEF Others
<1> HIDE DEF C
<1> DEFINE O == Others(t, i)
<1>5. O \subseteq Nat /\ O \in SUBSET C
  BY <1>3, <1>4
<1> HIDE DEF O
<1>6. IsFiniteSet(O)
  BY <1>2, <1>5, FS_Subset
<1>7. FirstFree(O) \in Nat \ {0} /\ FirstFree(O) \notin O
  BY <1>5, <1>6, FirstFreeIsFree
<1> QED BY <1>7 DEF Canonical, O

\* The answers to the first k entries of q, of which the table is now t.
ResultsOf(k, t, q, ans) ==
    /\ ans \in Seq(PushAnswer)
    /\ \A a \in DOMAIN ans :
          /\ \E m \in 1..k : /\ q[m].state = "pending"
                             /\ q[m].item = ans[a].item
                             /\ q[m].id = ans[a].id
          /\ t[ans[a].item].ver > 0
          /\ ans[a].outcome = "accepted" => ans[a].code = t[ans[a].item].code
    /\ \A a, b \in DOMAIN ans : ans[a].item = ans[b].item => a = b

\* Table t, sequence sq and receipts rc after the first k entries of q, which
\* began with t0, sq0 and rc0.
TablesAfter(n, k, t0, sq0, rc0, q, t, sq, rc) ==
    /\ TableSound(t, sq)
    /\ sq >= sq0
    /\ \A i \in Risk : t[i] = t0[i] \/ (t[i].seq > sq0 /\ t[i].ver > 0)
    /\ ReceiptsSound(n, rc)
    /\ \A r \in rc : \/ r \in rc0
                     \/ \E m \in 1..k : q[m].id = r.id /\ t[q[m].item].ver > 0

\* b is s with a at its end.
Longer(E, b, s, a) ==
    /\ Len(s) \in Nat
    /\ DOMAIN s = 1..Len(s)
    /\ b \in Seq(E)
    /\ DOMAIN b = 1..(Len(s) + 1)
    /\ b[Len(s) + 1] = a
    /\ \A x \in 1..Len(s) : b[x] = s[x]
    /\ \A x \in DOMAIN b : x \in DOMAIN s \/ x = Len(s) + 1

LEMMA AppendFacts ==
    ASSUME NEW E, NEW s \in Seq(E), NEW a \in E
    PROVE  Longer(E, Append(s, a), s, a)
<1>1. Len(s) \in Nat /\ DOMAIN s = 1..Len(s)
  OBVIOUS
<1>2. Append(s, a) \in Seq(E) /\ Len(Append(s, a)) = Len(s) + 1
  OBVIOUS
<1>3. DOMAIN Append(s, a) = 1..(Len(s) + 1)
  BY <1>2
<1>4. Append(s, a)[Len(s) + 1] = a
  BY <1>1
<1>5. ASSUME NEW x \in 1..Len(s) PROVE Append(s, a)[x] = s[x]
  BY <1>1
<1>6. ASSUME NEW x \in 1..(Len(s) + 1) PROVE x \in 1..Len(s) \/ x = Len(s) + 1
  BY <1>1
<1> QED BY <1>1, <1>2, <1>3, <1>4, <1>5, <1>6 DEF Longer

\* One more answer.
LEMMA ResultsAppend ==
    ASSUME NEW d, NEW n, NEW q, OutboxFor(d, n, q), NEW k \in 1..Len(q),
           q[k].state = "pending",
           NEW t, NEW u, NEW ans, ResultsOf(k - 1, t, q, ans),
           \A i \in Risk : i # q[k].item => u[i] = t[i],
           u[q[k].item].ver > 0,
           NEW a \in PushAnswer, a.item = q[k].item, a.id = q[k].id,
           a.outcome = "accepted" => a.code = u[q[k].item].code
    PROVE  ResultsOf(k, u, q, Append(ans, a))
<1> DEFINE b == Append(ans, a)
           L == Len(ans)
<1>1. ans \in Seq(PushAnswer)
  BY DEF ResultsOf
<1>0. Longer(PushAnswer, b, ans, a)
  BY <1>1, AppendFacts
<1> HIDE DEF b
<1>2. /\ L \in Nat /\ b \in Seq(PushAnswer) /\ DOMAIN ans = 1..L
      /\ DOMAIN b = 1..(L + 1) /\ b[L + 1] = a
      /\ \A x \in 1..L : b[x] = ans[x]
  BY <1>0 DEF Longer
<1>3. \A x \in DOMAIN b : x \in DOMAIN ans \/ x = L + 1
  BY <1>0 DEF Longer
<1>4. k \in Nat /\ k \in 1..k /\ \A m \in 1..(k - 1) : m \in 1..k /\ m # k
  <2>1. k \in Nat BY DEF OutboxFor
  <2> QED BY <2>1
<1>5. q \in Seq(OutboxEntry) /\ DOMAIN q = 1..Len(q) /\ k \in DOMAIN q /\ Len(q) \in Nat
  BY DEF OutboxFor
<1>6. \A m \in 1..(k - 1) : m \in DOMAIN q
  BY <1>5
<1>7. ASSUME NEW x \in DOMAIN ans PROVE ans[x].item # q[k].item /\ ans[x].item \in Risk
  <2>1. PICK m \in 1..(k - 1) : q[m].item = ans[x].item
    BY DEF ResultsOf
  <2>2. q[m].item # q[k].item
    BY <1>4, <1>5, <1>6, <2>1 DEF OutboxFor
  <2>3. q[m] \in OutboxEntry
    BY <1>5, <1>6, <2>1
  <2>4. q[m].item \in Risk
    BY <2>3 DEF OutboxEntry
  <2> QED BY <2>1, <2>2, <2>4
<1>8. ASSUME NEW x \in DOMAIN b
      PROVE  /\ \E m \in 1..k : /\ q[m].state = "pending"
                                /\ q[m].item = b[x].item
                                /\ q[m].id = b[x].id
             /\ u[b[x].item].ver > 0
             /\ b[x].outcome = "accepted" => b[x].code = u[b[x].item].code
  <2>1. CASE x = L + 1
    BY <2>1, <1>2, <1>4
  <2>2. CASE x \in DOMAIN ans
    <3>1. b[x] = ans[x]
      BY <2>2, <1>2
    <3>2. u[ans[x].item] = t[ans[x].item]
      BY <2>2, <1>7
    <3>3. PICK m \in 1..(k - 1) : /\ q[m].state = "pending"
                                  /\ q[m].item = ans[x].item
                                  /\ q[m].id = ans[x].id
      BY <2>2 DEF ResultsOf
    <3>4. m \in 1..k
      BY <3>3, <1>4
    <3>5. /\ t[ans[x].item].ver > 0
          /\ ans[x].outcome = "accepted" => ans[x].code = t[ans[x].item].code
      BY <2>2 DEF ResultsOf
    <3> QED BY <3>1, <3>2, <3>3, <3>4, <3>5
  <2> QED BY <2>1, <2>2, <1>3
<1>9. \A x, y \in DOMAIN b : b[x].item = b[y].item => x = y
  <2> SUFFICES ASSUME NEW x \in DOMAIN b, NEW y \in DOMAIN b, b[x].item = b[y].item
               PROVE  x = y
    OBVIOUS
  <2>1. CASE x \in DOMAIN ans /\ y \in DOMAIN ans
    BY <2>1, <1>2 DEF ResultsOf
  <2>2. CASE x = L + 1 /\ y \in DOMAIN ans
    BY <2>2, <1>2, <1>7
  <2>3. CASE y = L + 1 /\ x \in DOMAIN ans
    BY <2>3, <1>2, <1>7
  <2> QED BY <2>1, <2>2, <2>3, <1>3
<1>10. ResultsOf(k, u, q, b)
  BY <1>2, <1>8, <1>9 DEF ResultsOf
<1> QED BY <1>10 DEF b

\* The row a write makes.
Written(t, sq, i, code) == [code |-> code, ver |-> t[i].ver + 1, seq |-> sq + 1]

\* A write of a code that no other row has.
Writes(t, sq, i, code, u) ==
    /\ TableSound(t, sq)
    /\ i \in Risk
    /\ code \in Nat \ {0}
    /\ code \notin Others(t, i)
    /\ u = [t EXCEPT ![i] = Written(t, sq, i, code)]

LEMMA WriteKeeps ==
    ASSUME NEW t, NEW sq, NEW i, NEW code, NEW u, Writes(t, sq, i, code, u)
    PROVE  /\ TableSound(u, sq + 1)
           /\ Written(t, sq, i, code) \in SrvRow
           /\ u[i] = Written(t, sq, i, code)
           /\ u[i].code = code /\ u[i].ver = t[i].ver + 1 /\ u[i].seq = sq + 1
           /\ u[i].ver > 0
           /\ \A j \in Risk : j # i => u[j] = t[j]
<1> DEFINE w == Written(t, sq, i, code)
<1> USE DEF Writes
<1>1. t \in [Risk -> SrvRow] /\ sq \in Nat
  BY DEF TableSound
<1>2. t[i] \in SrvRow
  BY <1>1
<1>3. t[i].ver \in Nat
  BY <1>2 DEF SrvRow
<1>4. w \in SrvRow /\ w.code = code /\ w.ver = t[i].ver + 1 /\ w.seq = sq + 1
  BY <1>1, <1>3 DEF Written, SrvRow
<1> HIDE DEF w
<1>5. u \in [Risk -> SrvRow] /\ u[i] = w /\ \A j \in Risk : j # i => u[j] = t[j]
  BY <1>1, <1>4 DEF w
<1>6. sq + 1 \in Nat
  BY <1>1
<1>7. ASSUME NEW j \in Risk
      PROVE  /\ u[j].seq <= sq + 1
             /\ u[j].ver > 0 <=> u[j].seq > 0
             /\ u[j].ver > 0 => u[j].code # NoCode
  <2>1. CASE j = i
    BY <2>1, <1>1, <1>3, <1>4, <1>5 DEF NoCode
  <2>2. CASE j # i
    <3>1. t[j] \in SrvRow BY <1>1
    <3>2. t[j].seq \in Nat BY <3>1 DEF SrvRow
    <3>3. t[j].seq <= sq BY DEF TableSound
    <3>4. t[j].seq <= sq + 1 BY <3>2, <3>3, <1>1
    <3> QED BY <2>2, <1>5, <3>4 DEF TableSound
  <2> QED BY <2>1, <2>2
<1>8. ASSUME NEW j \in Risk, j # i PROVE t[j].code # code
  BY <1>8 DEF Others, NoCode
<1>9. ASSUME NEW x \in Risk, NEW y \in Risk, x # y, u[x].code # NoCode
      PROVE  u[x].code # u[y].code
  <2>1. CASE x = i
    BY <2>1, <1>4, <1>5, <1>8, <1>9
  <2>2. CASE y = i
    BY <2>2, <1>4, <1>5, <1>8, <1>9
  <2>3. CASE x # i /\ y # i
    BY <2>3, <1>5, <1>9 DEF TableSound
  <2> QED BY <2>1, <2>2, <2>3
<1>10. TableSound(u, sq + 1)
  BY <1>5, <1>6, <1>7, <1>9 DEF TableSound
<1>11. u[i].ver > 0
  BY <1>3, <1>4, <1>5
<1> QED BY <1>4, <1>5, <1>10, <1>11 DEF w

PushStates == [srv : [Risk -> SrvRow], seq : Nat, receipt : SUBSET Stamped,
               results : Seq(PushAnswer)]

\* The transaction of a push after the first k entries of q.
PushedTo(n, k, t0, sq0, rc0, q, st) ==
    /\ st \in PushStates
    /\ TablesAfter(n, k, t0, sq0, rc0, q, st.srv, st.seq, st.receipt)
    /\ ResultsOf(k, st.srv, q, st.results)

\* The receipts after a further change.
LEMMA ReceiptsAfter ==
    ASSUME NEW n, NEW k, k \in Nat, k > 0, NEW t0, NEW sq0, NEW rc0, NEW q,
           NEW t, NEW sq, NEW rc,
           TablesAfter(n, k - 1, t0, sq0, rc0, q, t, sq, rc),
           NEW u, NEW sr,
           TableSound(u, sr), sr >= sq0,
           \A m \in 1..(k - 1) : t[q[m].item].ver > 0 => u[q[m].item].ver > 0,
           u[q[k].item].ver > 0,
           \A i \in Risk : u[i] = t0[i] \/ (u[i].seq > sq0 /\ u[i].ver > 0),
           NEW R, \A r \in R : r \in Stamped /\ r.id = q[k].id /\ r.id[2] < n
    PROVE  TablesAfter(n, k, t0, sq0, rc0, q, u, sr, rc \cup R)
<1>1. ReceiptsSound(n, rc \cup R)
  BY DEF TablesAfter, ReceiptsSound
<1>2. \A m \in 1..(k - 1) : m \in 1..k
  OBVIOUS
<1>3. k \in 1..k
  OBVIOUS
<1>4. ASSUME NEW r \in rc \cup R
      PROVE  \/ r \in rc0
             \/ \E m \in 1..k : q[m].id = r.id /\ u[q[m].item].ver > 0
  <2>1. CASE r \in R
    BY <2>1, <1>3
  <2>2. CASE r \in rc
    <3>1. CASE r \in rc0 BY <3>1
    <3>2. CASE r \notin rc0
      <4>1. PICK m \in 1..(k - 1) : q[m].id = r.id /\ t[q[m].item].ver > 0
        BY <2>2, <3>2 DEF TablesAfter
      <4> QED BY <4>1, <1>2
    <3> QED BY <3>1, <3>2
  <2> QED BY <2>1, <2>2
<1> QED BY <1>1, <1>4 DEF TablesAfter

\* The entry under way: the k-th of an outbox.
AtEntry(d, n, q, k, e) ==
    /\ OutboxFor(d, n, q)
    /\ k \in 1..Len(q)
    /\ e = q[k]
    /\ e.state = "pending"

LEMMA EntryFacts ==
    ASSUME NEW d, NEW n, NEW q, NEW k, NEW e, AtEntry(d, n, q, k, e)
    PROVE  /\ e \in OutboxEntry
           /\ e.item \in Risk /\ e.code \in Nat \ {0} /\ e.id \in ChangeId
           /\ e.id[2] < n
           /\ k \in Nat /\ k > 0 /\ k \in DOMAIN q
           /\ \A m \in 1..(k - 1) : m \in DOMAIN q /\ m # k
                 /\ q[m].item # e.item /\ q[m].id # e.id /\ q[m].item \in Risk
<1>1. q \in Seq(OutboxEntry) /\ k \in 1..Len(q) /\ e = q[k]
  BY DEF AtEntry, OutboxFor
<1>2. DOMAIN q = 1..Len(q) /\ Len(q) \in Nat /\ k \in Nat /\ k > 0 /\ k \in DOMAIN q
  BY <1>1
<1>3. e \in OutboxEntry
  BY <1>1
<1>4. e.item \in Risk /\ e.code \in Nat \ {0} /\ e.id \in ChangeId
  BY <1>3 DEF OutboxEntry
<1>5. e.id[2] < n
  BY <1>1, <1>2 DEF AtEntry, OutboxFor
<1>6. ASSUME NEW m \in 1..(k - 1)
      PROVE  m \in DOMAIN q /\ m # k /\ q[m].item # e.item /\ q[m].id # e.id
             /\ q[m].item \in Risk
  <2>1. m \in DOMAIN q /\ m # k
    BY <1>2
  <2>2. q[m] \in OutboxEntry
    BY <1>1, <2>1
  <2>3. q[m].item \in Risk
    BY <2>2 DEF OutboxEntry
  <2>4. q[m].item # q[k].item /\ q[m].id # q[k].id
    BY <2>1, <1>2 DEF AtEntry, OutboxFor
  <2> QED BY <2>1, <2>3, <2>4, <1>1
<1> QED BY <1>2, <1>3, <1>4, <1>5, <1>6

\* _apply_upsert with its receipt.
LEMMA AcceptKeeps ==
    ASSUME NEW d, NEW n, NEW q, NEW k, NEW e, AtEntry(d, n, q, k, e),
           NEW t0, NEW sq0 \in Nat, NEW rc0, NEW st,
           PushedTo(n, k - 1, t0, sq0, rc0, q, st),
           NEW code \in Nat \ {0}, code \notin Others(st.srv, e.item)
    PROVE  PushedTo(n, k, t0, sq0, rc0, q, Accept(st, e, code))
<1> DEFINE t == st.srv
           sq == st.seq
           w == Written(t, sq, e.item, code)
           u == [t EXCEPT ![e.item] = w]
           ac == "accepted"
           r == [id |-> e.id, outcome |-> ac, row |-> w]
           a == Result(e, ac, w, w.ver)
           sr == sq + 1
           R == {r}
<1>0. /\ e.item \in Risk /\ e.id \in ChangeId /\ e.id[2] < n /\ k \in Nat /\ k > 0
      /\ \A m \in 1..(k - 1) : q[m].item # e.item /\ q[m].item \in Risk
      /\ e = q[k] /\ OutboxFor(d, n, q) /\ k \in 1..Len(q) /\ q[k].state = "pending"
  BY EntryFacts DEF AtEntry
<1>1. TablesAfter(n, k - 1, t0, sq0, rc0, q, t, sq, st.receipt)
  BY DEF PushedTo
<1>2. ResultsOf(k - 1, t, q, st.results)
  BY DEF PushedTo
<1>3. TableSound(t, sq) /\ sq >= sq0 /\ sq \in Nat
  BY <1>1 DEF TablesAfter, TableSound
<1> HIDE DEF t, sq
<1>4. code \notin Others(t, e.item)
  BY DEF t
<1> DEFINE i0 == e.item
<1>41. u = [t EXCEPT ![i0] = Written(t, sq, i0, code)] /\ i0 \in Risk
       /\ code \notin Others(t, i0)
  BY <1>0, <1>4
<1> HIDE DEF u, i0
<1>43. Writes(t, sq, i0, code, u)
  BY <1>3, <1>41 DEF Writes
<1>42. /\ TableSound(u, sq + 1)
       /\ Written(t, sq, i0, code) \in SrvRow
       /\ u[i0] = Written(t, sq, i0, code)
       /\ u[i0].code = code /\ u[i0].ver = t[i0].ver + 1 /\ u[i0].seq = sq + 1
       /\ u[i0].ver > 0
       /\ \A j \in Risk : j # i0 => u[j] = t[j]
  BY <1>43, WriteKeeps
<1>5. /\ TableSound(u, sr)
      /\ w \in SrvRow
      /\ u[e.item] = w
      /\ u[e.item].code = code /\ u[e.item].ver = t[e.item].ver + 1
      /\ u[e.item].seq = sr
      /\ u[e.item].ver > 0
      /\ \A j \in Risk : j # e.item => u[j] = t[j]
  BY <1>42 DEF i0
<1>6. Accept(st, e, code) = [srv |-> u, seq |-> sr, receipt |-> st.receipt \cup R,
                             results |-> Append(st.results, a)]
  BY DEF Accept, Written, t, sq, u
<1>7. w.code = u[e.item].code /\ w.ver \in Nat /\ w.code \in Nat
  BY <1>5 DEF SrvRow
<1> HIDE DEF w
<1>8. ac \in Verdict
  BY DEF Verdict
<1> HIDE DEF ac
<1>9. r \in Stamped /\ r.id = e.id
  BY <1>0, <1>5, <1>8 DEF Stamped
<1>10. a \in PushAnswer /\ a.item = e.item /\ a.id = e.id /\ a.code = u[e.item].code
  BY <1>0, <1>7, <1>8 DEF PushAnswer, Result
<1> HIDE DEF a, r
<1>11. ResultsOf(k, u, q, Append(st.results, a))
  BY <1>0, <1>2, <1>5, <1>10, ResultsAppend
<1>12. ASSUME NEW i \in Risk PROVE u[i] = t0[i] \/ (u[i].seq > sq0 /\ u[i].ver > 0)
  <2>1. CASE i = e.item
    BY <2>1, <1>3, <1>5
  <2>2. CASE i # e.item
    BY <2>2, <1>1, <1>5 DEF TablesAfter
  <2> QED BY <2>1, <2>2
<1>13. \A m \in 1..(k - 1) : t[q[m].item].ver > 0 => u[q[m].item].ver > 0
  BY <1>0, <1>5
<1>14. sr >= sq0 /\ sr \in Nat
  BY <1>3
<1>15. u[q[k].item].ver > 0
  BY <1>0, <1>5
<1>16. \A x \in R : x \in Stamped /\ x.id = q[k].id /\ x.id[2] < n
  BY <1>0, <1>9
<1> HIDE DEF sr, R
<1>17. TablesAfter(n, k, t0, sq0, rc0, q, u, sr, st.receipt \cup R)
  BY <1>0, <1>1, <1>5, <1>12, <1>13, <1>14, <1>15, <1>16, ReceiptsAfter
<1>18. Accept(st, e, code) \in PushStates
  <2>1. u \in [Risk -> SrvRow]
    BY <1>5 DEF TableSound
  <2>2. st.receipt \cup R \in SUBSET Stamped
    BY <1>17 DEF TablesAfter, ReceiptsSound
  <2>3. Append(st.results, a) \in Seq(PushAnswer)
    BY <1>11 DEF ResultsOf
  <2> QED BY <1>6, <1>14, <2>1, <2>2, <2>3 DEF PushStates
<1> QED BY <1>6, <1>11, <1>17, <1>18 DEF PushedTo

\* A change that is answered without a write.
LEMMA AnswerKeeps ==
    ASSUME NEW d, NEW n, NEW q, NEW k, NEW e, AtEntry(d, n, q, k, e),
           NEW t0, NEW sq0 \in Nat, NEW rc0, NEW st,
           PushedTo(n, k - 1, t0, sq0, rc0, q, st),
           st.srv[e.item].ver > 0,
           NEW a \in PushAnswer, a.item = e.item, a.id = e.id,
           a.outcome = "accepted" => a.code = st.srv[e.item].code,
           NEW R, \A r \in R : r \in Stamped /\ r.id = e.id, NEW su,
           su = [srv |-> st.srv, seq |-> st.seq, receipt |-> st.receipt \cup R,
                 results |-> Append(st.results, a)]
    PROVE  PushedTo(n, k, t0, sq0, rc0, q, su)
<1> DEFINE t == st.srv
           sq == st.seq
<1>0. /\ e.item \in Risk /\ e.id[2] < n /\ k \in Nat /\ k > 0
      /\ e = q[k] /\ OutboxFor(d, n, q) /\ k \in 1..Len(q) /\ q[k].state = "pending"
  BY EntryFacts DEF AtEntry
<1>1. TablesAfter(n, k - 1, t0, sq0, rc0, q, t, sq, st.receipt)
  BY DEF PushedTo
<1>2. ResultsOf(k - 1, t, q, st.results)
  BY DEF PushedTo
<1>3. t[q[k].item].ver > 0 /\ (a.outcome = "accepted" => a.code = t[q[k].item].code)
  BY <1>0
<1> HIDE DEF t, sq
<1>4. ResultsOf(k, t, q, Append(st.results, a))
  BY <1>0, <1>2, <1>3, ResultsAppend
<1>5. \A x \in R : x \in Stamped /\ x.id = q[k].id /\ x.id[2] < n
  BY <1>0
<1>6. /\ TableSound(t, sq) /\ sq >= sq0
      /\ \A i \in Risk : t[i] = t0[i] \/ (t[i].seq > sq0 /\ t[i].ver > 0)
  BY <1>1 DEF TablesAfter
<1>7. TablesAfter(n, k, t0, sq0, rc0, q, t, sq, st.receipt \cup R)
  BY <1>0, <1>1, <1>3, <1>5, <1>6, ReceiptsAfter
<1>8. su \in PushStates
  <2>1. t \in [Risk -> SrvRow] /\ sq \in Nat
    BY <1>6 DEF TableSound
  <2>2. st.receipt \cup R \in SUBSET Stamped
    BY <1>7 DEF TablesAfter, ReceiptsSound
  <2>3. Append(st.results, a) \in Seq(PushAnswer)
    BY <1>4 DEF ResultsOf
  <2> QED BY <2>1, <2>2, <2>3 DEF PushStates, t, sq
<1>9. /\ su.srv = t /\ su.seq = sq /\ su.receipt = st.receipt \cup R
      /\ su.results = Append(st.results, a)
  BY DEF t, sq
<1> QED BY <1>4, <1>7, <1>8, <1>9 DEF PushedTo

LEMMA PushRecord ==
    ASSUME NEW st \in PushStates, NEW x, NEW y
    PROVE  [st EXCEPT !.receipt = x, !.results = y]
           = [srv |-> st.srv, seq |-> st.seq, receipt |-> x, results |-> y]
<1> DEFINE b == [st EXCEPT !.receipt = x]
<1>1. st = [srv |-> st.srv, seq |-> st.seq, receipt |-> st.receipt,
            results |-> st.results]
  BY DEF PushStates
<1>2. PICK t, q, c, r : st = [srv |-> t, seq |-> q, receipt |-> c, results |-> r]
  BY <1>1
<1>3. b = [srv |-> t, seq |-> q, receipt |-> x, results |-> r]
  BY <1>2
<1>4. st.srv = t /\ st.seq = q
  BY <1>2
<1> HIDE DEF b
<1>5. [b EXCEPT !.results = y] = [srv |-> t, seq |-> q, receipt |-> x, results |-> y]
  BY <1>3
<1> QED BY <1>4, <1>5 DEF b

\* One change of push_changes.
LEMMA ProcessKeeps ==
    ASSUME NEW d, NEW n, NEW q, NEW k, NEW e, AtEntry(d, n, q, k, e),
           NEW t0, NEW sq0 \in Nat, NEW rc0, Processed(t0, rc0, q), NEW st,
           PushedTo(n, k - 1, t0, sq0, rc0, q, st)
    PROVE  PushedTo(n, k, t0, sq0, rc0, q, Process(st, e))
<1> DEFINE cur == st.srv[e.item]
           old == {r \in st.receipt : r.id = e.id}
           code == Canonical(st.srv, e.item, e.code)
           none == {}
<1>0. /\ e.item \in Risk /\ e.id \in ChangeId /\ e.id[2] < n /\ k \in Nat /\ k > 0
      /\ e.code \in Nat \ {0} /\ k \in DOMAIN q /\ e = q[k]
      /\ \A m \in 1..(k - 1) : q[m].id # e.id
  BY EntryFacts DEF AtEntry
<1>1. /\ TablesAfter(n, k - 1, t0, sq0, rc0, q, st.srv, st.seq, st.receipt)
      /\ st \in PushStates
  BY DEF PushedTo
<1>2. TableSound(st.srv, st.seq)
  BY <1>1 DEF TablesAfter
<1>3. cur \in SrvRow /\ cur.code \in Nat /\ cur.ver \in Nat
  <2>1. cur \in SrvRow
    BY <1>0, <1>2 DEF TableSound
  <2> QED BY <2>1 DEF SrvRow
<1>4. st = [srv |-> st.srv, seq |-> st.seq, receipt |-> st.receipt,
            results |-> st.results]
  BY <1>1 DEF PushStates
<1>5. CASE old # {}
  <2> DEFINE r == CHOOSE x \in old : TRUE
             a == Replay(st, e, r)
             su == [st EXCEPT !.results = Append(@, a)]
  <2>1. r \in st.receipt /\ r.id = e.id
    BY <1>5
  <2>2. Process(st, e) = su
    BY <1>5 DEF Process
  <2> HIDE DEF r
  <2>3. r \in Stamped
    BY <2>1, <1>1 DEF TablesAfter, ReceiptsSound
  <2>4. /\ r.outcome \in Verdict /\ r.row \in SrvRow
        /\ r.row.code \in Nat /\ r.row.ver \in Nat
    BY <2>3 DEF Stamped, SrvRow
  <2>5. cur.ver > 0
    <3>1. CASE r \in rc0
      <4>1. t0[e.item].ver > 0
        BY <3>1, <2>1, <1>0 DEF Processed
      <4> QED BY <4>1, <1>0, <1>1 DEF TablesAfter
    <3>2. CASE r \notin rc0
      <4>1. PICK m \in 1..(k - 1) : q[m].id = r.id
        BY <3>2, <2>1, <1>1 DEF TablesAfter
      <4> QED BY <4>1, <2>1, <1>0
    <3> QED BY <3>1, <3>2
  <2>6. /\ a \in PushAnswer /\ a.item = e.item /\ a.id = e.id
        /\ a.outcome = "accepted" => a.code = cur.code
    <3>1. CASE r.outcome = "accepted"
      <4>1. a = [id |-> e.id, item |-> e.item, outcome |-> r.outcome,
                 code |-> cur.code, ver |-> cur.ver, acked |-> r.row.ver]
        BY <3>1 DEF Replay, Result
      <4> HIDE DEF a, cur
      <4> QED BY <4>1, <1>0, <1>3, <2>4 DEF PushAnswer
    <3>2. CASE r.outcome # "accepted"
      <4>1. a = [id |-> e.id, item |-> e.item, outcome |-> r.outcome,
                 code |-> r.row.code, ver |-> r.row.ver, acked |-> 0]
        BY <3>2 DEF Replay, Result
      <4> HIDE DEF a, cur
      <4> QED BY <4>1, <1>0, <1>3, <2>4, <3>2 DEF PushAnswer
    <3> QED BY <3>1, <3>2
  <2> HIDE DEF a
  <2>7. su = [srv |-> st.srv, seq |-> st.seq, receipt |-> st.receipt \cup none,
              results |-> Append(st.results, a)]
    BY <1>4
  <2>8. \A x \in none : x \in Stamped /\ x.id = e.id
    OBVIOUS
  <2> HIDE DEF none, su
  <2>9. PushedTo(n, k, t0, sq0, rc0, q, su)
    BY <2>5, <2>6, <2>7, <2>8, AnswerKeeps
  <2> QED BY <2>2, <2>9
<1>6. ASSUME cur.ver > 0, NEW verdict \in {"conflict", "error"}
      PROVE  PushedTo(n, k, t0, sq0, rc0, q, Refuse(st, e, verdict))
  <2> DEFINE r == [id |-> e.id, outcome |-> verdict, row |-> cur]
             a == Result(e, verdict, cur, 0)
             R == {r}
             su == Refuse(st, e, verdict)
  <2>1. verdict \in Verdict /\ verdict # "accepted"
    BY DEF Verdict
  <2>2. r \in Stamped /\ r.id = e.id
    <3> HIDE DEF cur
    <3> QED BY <2>1, <1>0, <1>3 DEF Stamped
  <2>3. a \in PushAnswer /\ a.item = e.item /\ a.id = e.id /\ a.outcome # "accepted"
    <3>1. a = [id |-> e.id, item |-> e.item, outcome |-> verdict,
               code |-> cur.code, ver |-> cur.ver, acked |-> 0]
      BY DEF Result
    <3> HIDE DEF a, cur
    <3> QED BY <3>1, <2>1, <1>0, <1>3 DEF PushAnswer
  <2>4. su = [srv |-> st.srv, seq |-> st.seq, receipt |-> st.receipt \cup R,
              results |-> Append(st.results, a)]
    <3> DEFINE x == st.receipt \cup R
               y == Append(st.results, a)
    <3>1. su = [st EXCEPT !.receipt = x, !.results = y]
      BY DEF Refuse
    <3> HIDE DEF x, y, su
    <3>2. su = [srv |-> st.srv, seq |-> st.seq, receipt |-> x, results |-> y]
      BY <3>1, <1>1, PushRecord
    <3> QED BY <3>2 DEF x, y
  <2> HIDE DEF a, r
  <2>5. \A x \in R : x \in Stamped /\ x.id = e.id
    BY <2>2
  <2> HIDE DEF R, su
  <2> QED BY <1>6, <2>3, <2>4, <2>5, AnswerKeeps DEF su
<1>7. CASE old = {} /\ cur.ver = 0
  <2>1. code \in Nat \ {0} /\ code \notin Others(st.srv, e.item)
    <3> DEFINE i0 == e.item
               c0 == e.code
    <3>1. i0 \in Risk /\ c0 \in Nat \ {0}
      BY <1>0
    <3> HIDE DEF i0, c0
    <3>2. /\ Canonical(st.srv, i0, c0) \in Nat \ {0}
          /\ Canonical(st.srv, i0, c0) \notin Others(st.srv, i0)
      BY <3>1, <1>2, CanonicalIsFree
    <3> QED BY <3>2 DEF i0, c0
  <2>2. Process(st, e) = Accept(st, e, code)
    BY <1>7, <2>1 DEF Process
  <2> HIDE DEF code
  <2> QED BY <2>1, <2>2, AcceptKeeps
<1>8. CASE old = {} /\ cur.ver # 0 /\ e.base # cur.ver
  <2>1. Process(st, e) = Refuse(st, e, "conflict")
    BY <1>8 DEF Process
  <2>2. cur.ver > 0
    BY <1>3, <1>8
  <2> QED BY <2>1, <2>2, <1>6
<1>9. CASE old = {} /\ cur.ver # 0 /\ e.base = cur.ver /\ e.code \in Others(st.srv, e.item)
  <2>1. Process(st, e) = Refuse(st, e, "error")
    BY <1>9 DEF Process
  <2>2. cur.ver > 0
    BY <1>3, <1>9
  <2> QED BY <2>1, <2>2, <1>6
<1>10. CASE old = {} /\ cur.ver # 0 /\ e.base = cur.ver /\ e.code \notin Others(st.srv, e.item)
  <2> DEFINE c0 == e.code
  <2>1. Process(st, e) = Accept(st, e, c0)
    BY <1>10 DEF Process
  <2>2. c0 \in Nat \ {0} /\ c0 \notin Others(st.srv, e.item)
    BY <1>10, <1>0
  <2> HIDE DEF c0
  <2> QED BY <2>1, <2>2, AcceptKeeps
<1> QED BY <1>5, <1>7, <1>8, <1>9, <1>10

PushStep(entries, k, st) ==
    IF entries[k].state = "pending" THEN Process(st, entries[k]) ELSE st
IsPush(f, st, entries) ==
    f = [k \in 0..Len(entries) |-> IF k = 0 THEN st
                                   ELSE PushStep(entries, k, f[k - 1])]

LEMMA PushInduction ==
    ASSUME NEW s, NEW q, NEW I, Len(q) \in Nat, s \in I[0],
           \A n \in 1..Len(q) : \A a \in I[n - 1] : PushStep(q, n, a) \in I[n]
    PROVE  PushChanges(s, q) \in I[Len(q)]
<1> DEFINE N == Len(q)
           U == UNION {I[n] : n \in 0..N}
           step == [p \in (1..N) \X U |-> PushStep(q, p[1], p[2])]
<1>1. ASSUME NEW n \in 1..N, NEW a \in I[n - 1]
      PROVE  step[<<n, a>>] = PushStep(q, n, a)
  <2>1. n - 1 \in 0..N OBVIOUS
  <2>2. a \in U BY <2>1
  <2>3. <<n, a>> \in (1..N) \X U BY <2>2
  <2> QED BY <2>3
<1> HIDE DEF step
<1>2. \A n \in 1..N : \A a \in I[n - 1] : step[<<n, a>>] \in I[n]
  BY <1>1
<1>3. PICK g : IsRunOf(g, N, s, step) /\ \A n \in 0..N : g[n] \in I[n]
  BY <1>2, RunOfSound
<1>4. IsPush(g, s, q)
  <2>1. ASSUME NEW n \in 0..N
        PROVE  (IF n = 0 THEN s ELSE step[<<n, g[n - 1]>>])
               = IF n = 0 THEN s ELSE PushStep(q, n, g[n - 1])
    <3>1. CASE n = 0 BY <3>1
    <3>2. CASE n # 0
      <4>1. n \in 1..N /\ n - 1 \in 0..N BY <3>2
      <4> QED BY <3>2, <4>1, <1>1, <1>3
    <3> QED BY <3>1, <3>2
  <2> QED BY <2>1, <1>3 DEF IsPush, IsRunOf
<1> DEFINE f == CHOOSE h : IsPush(h, s, q)
<1>5. IsPush(f, s, q)
  BY <1>4
<1>6. PushChanges(s, q) = f[N]
  BY DEF PushChanges, IsPush, PushStep
<1> HIDE DEF f
<1>7. f[0] \in I[0]
  <2>1. 0 \in 0..N OBVIOUS
  <2> QED BY <2>1, <1>5 DEF IsPush
<1>8. \A n \in 1..N : f[n - 1] \in I[n - 1] => f[n] \in I[n]
  <2>1. ASSUME NEW n \in 1..N PROVE f[n] = PushStep(q, n, f[n - 1])
    <3>1. n \in 0..N /\ n # 0 OBVIOUS
    <3> QED BY <3>1, <1>5 DEF IsPush
  <2> QED BY <2>1
<1>9. \A n \in 0..N : f[n] \in I[n]
  BY <1>7, <1>8, StepsKeep
<1> QED BY <1>6, <1>9

\* The outcome of a push.
LEMMA PushKeeps ==
    ASSUME NEW d, NEW n, NEW q, OutboxFor(d, n, q),
           NEW t, NEW sq, NEW rc, TableSound(t, sq), ReceiptsSound(n, rc),
           Processed(t, rc, q), NEW s,
           s = [srv |-> t, seq |-> sq, receipt |-> rc, results |-> <<>>]
    PROVE  PushedTo(n, Len(q), t, sq, rc, q, PushChanges(s, q))
<1> DEFINE I == [k \in 0..Len(q) |-> {st \in PushStates : PushedTo(n, k, t, sq, rc, q, st)}]
<1>1. Len(q) \in Nat
  BY DEF OutboxFor
<1>2. t \in [Risk -> SrvRow] /\ sq \in Nat
  BY DEF TableSound
<1>3. s \in I[0]
  <2> DEFINE e == <<>>
  <2>1. e \in Seq(PushAnswer) /\ DOMAIN e = {}
    OBVIOUS
  <2>2. s.srv = t /\ s.seq = sq /\ s.receipt = rc /\ s.results = e
    OBVIOUS
  <2> HIDE DEF e
  <2>3. s \in PushStates
    BY <1>2, <2>1, <2>2 DEF PushStates, ReceiptsSound
  <2> DEFINE z == 0
  <2>4. ResultsOf(z, t, q, e)
    BY <2>1 DEF ResultsOf
  <2>5. TablesAfter(n, z, t, sq, rc, q, t, sq, rc)
    BY <1>2 DEF TablesAfter
  <2>6. PushedTo(n, z, t, sq, rc, q, s)
    BY <2>2, <2>3, <2>4, <2>5 DEF PushedTo
  <2>7. 0 \in 0..Len(q)
    BY <1>1
  <2> QED BY <2>3, <2>6, <2>7
<1>4. ASSUME NEW k \in 1..Len(q), NEW st \in I[k - 1]
      PROVE  PushStep(q, k, st) \in I[k]
  <2>1. k \in 0..Len(q) /\ k - 1 \in 0..Len(q)
    BY <1>1
  <2>2. PushedTo(n, k - 1, t, sq, rc, q, st) /\ st \in PushStates
    BY <2>1
  <2>3. PushedTo(n, k, t, sq, rc, q, PushStep(q, k, st))
    <3>1. CASE q[k].state = "pending"
      <4> DEFINE e == q[k]
      <4>1. AtEntry(d, n, q, k, e)
        BY <3>1 DEF AtEntry
      <4> HIDE DEF e
      <4>2. PushedTo(n, k, t, sq, rc, q, Process(st, e))
        BY <4>1, <2>2, <1>2, ProcessKeeps
      <4> QED BY <4>2, <3>1 DEF PushStep, e
    <3>2. CASE q[k].state # "pending"
      <4>1. PushStep(q, k, st) = st
        BY <3>2 DEF PushStep
      <4>2. \A m \in 1..(k - 1) : m \in 1..k
        OBVIOUS
      <4>3. ResultsOf(k, st.srv, q, st.results)
        <5>1. ResultsOf(k - 1, st.srv, q, st.results)
          BY <2>2 DEF PushedTo
        <5> QED BY <5>1, <4>2 DEF ResultsOf
      <4>4. TablesAfter(n, k, t, sq, rc, q, st.srv, st.seq, st.receipt)
        <5>1. TablesAfter(n, k - 1, t, sq, rc, q, st.srv, st.seq, st.receipt)
          BY <2>2 DEF PushedTo
        <5> QED BY <5>1, <4>2 DEF TablesAfter
      <4> QED BY <2>2, <4>1, <4>3, <4>4 DEF PushedTo
    <3> QED BY <3>1, <3>2
  <2>4. PushStep(q, k, st) \in PushStates
    BY <2>3 DEF PushedTo
  <2> QED BY <2>1, <2>3, <2>4
<1> HIDE DEF I
<1>5. PushChanges(s, q) \in I[Len(q)]
  BY <1>1, <1>3, <1>4, PushInduction
<1>6. Len(q) \in 0..Len(q)
  BY <1>1
<1> QED BY <1>5, <1>6 DEF I

-----------------------------------------------------------------------------
(* What a change leaves alone                                              *)

\* The server went on: rows that changed have later sequences.
Advances(t, sq, u, sr) ==
    /\ TableSound(t, sq)
    /\ TableSound(u, sr)
    /\ sr >= sq
    /\ \A i \in Risk : u[i] = t[i] \/ (u[i].seq > sq /\ u[i].ver > 0)

LEMMA StillThere ==
    ASSUME NEW t, NEW sq, NEW u, NEW sr, Advances(t, sq, u, sr), NEW i \in Risk
    PROVE  /\ t[i].ver > 0 => u[i].ver > 0
           /\ \A b \in Nat : b <= sq /\ u[i].seq <= b => u[i] = t[i]
<1>1. t[i].ver > 0 => u[i].ver > 0
  BY DEF Advances
<1>2. u[i] \in SrvRow /\ sq \in Nat
  BY DEF Advances, TableSound
<1>3. u[i].seq \in Nat
  BY <1>2 DEF SrvRow
<1>4. ASSUME NEW b \in Nat, b <= sq, u[i].seq <= b PROVE u[i] = t[i]
  <2>1. ~(u[i].seq > sq)
    BY <1>2, <1>3, <1>4
  <2> QED BY <2>1 DEF Advances
<1> QED BY <1>1, <1>4

LEMMA CodesStay ==
    ASSUME NEW t, NEW sq, NEW u, NEW sr, Advances(t, sq, u, sr), NEW b \in Nat,
           b <= sq, NEW C, \A c \in C : c.item \in Risk, CodesOfOnce(t, b, C)
    PROVE  CodesOfOnce(u, b, C)
<1> SUFFICES ASSUME NEW c \in C
             PROVE  /\ c.code # NoCode
                    /\ u[c.item].seq <= b => c.code = u[c.item].code
                    /\ \A j \in Risk : j # c.item /\ u[j].ver > 0 /\ u[j].seq <= b
                          => u[j].code # c.code
                    /\ \A e \in C : e.item # c.item => e.code # c.code
  BY DEF CodesOfOnce
<1>1. c.item \in Risk
  OBVIOUS
<1>2. \A i \in Risk : u[i].seq <= b => u[i] = t[i]
  BY StillThere
<1> QED BY <1>1, <1>2 DEF CodesOfOnce

\* A device is not disturbed by what the server does.
LEMMA ServerMoves ==
    ASSUME NEW n, NEW t, NEW sq, NEW rc, NEW d, NEW rs, NEW q, NEW mk, NEW c,
           DeviceSound(n, t, sq, rc, d, rs, q, mk, c),
           NEW u, NEW sr, Advances(t, sq, u, sr), NEW rd, Processed(u, rd, q)
    PROVE  DeviceSound(n, u, sr, rd, d, rs, q, mk, c)
<1>1. mk \in Nat /\ mk <= sq /\ sq \in Nat /\ sr \in Nat /\ sq <= sr
  BY DEF DeviceSound, Advances, TableSound
<1>2. mk \in 0..sr
  BY <1>1
<1>3. \A i \in Risk : t[i].ver > 0 => u[i].ver > 0
  BY StillThere
<1>4. \A i \in Risk : \A b \in Nat : b <= sq /\ u[i].seq <= b => u[i] = t[i]
  BY StillThere
<1>5. Arrived(u, q, mk, rs)
  BY <1>1, <1>4 DEF DeviceSound, Arrived
<1>6. CASE c.kind = "push"
  <2>1. AnswersFor(n, t, q, c.results) /\ CodesOfOnce(t, mk, AcceptedAnswers(c.results))
    BY <1>6 DEF DeviceSound, CallFor
  <2>2. \A k \in DOMAIN c.results : c.results[k].item \in Risk
    <3>1. c.results \in Seq(PushAnswer)
      BY <2>1 DEF AnswersFor
    <3>2. ASSUME NEW k \in DOMAIN c.results PROVE c.results[k] \in PushAnswer
      BY <3>1
    <3> QED BY <3>2 DEF PushAnswer
  <2>3. AnswersFor(n, u, q, c.results)
    BY <2>1, <2>2, <1>3 DEF AnswersFor
  <2>4. \A a \in AcceptedAnswers(c.results) : a.item \in Risk
    BY <2>2 DEF AcceptedAnswers, Accepted
  <2>5. CodesOfOnce(u, mk, AcceptedAnswers(c.results))
    BY <2>1, <2>4, <1>1, CodesStay
  <2>6. CallFor(n, u, sr, q, mk, c)
    BY <1>6, <2>3, <2>5 DEF CallFor
  <2> QED BY <1>2, <1>5, <2>6 DEF DeviceSound
<1>7. CASE c.kind = "pull"
  <2>1. PulledFor(t, sq, mk, c)
    BY <1>7 DEF DeviceSound, CallFor
  <2>2. c.upto \in Nat /\ c.upto <= sq /\ c.upto \in mk..sr
    BY <2>1, <1>1 DEF PulledFor
  <2>3. \A r \in Range(c.rows) : r.item \in Risk
    <3>1. c.rows \in Seq(PulledRow)
      BY <2>1 DEF PulledFor
    <3>2. ASSUME NEW k \in DOMAIN c.rows PROVE c.rows[k] \in PulledRow
      BY <3>1
    <3> QED BY <3>2 DEF PulledRow, Range
  <2> DEFINE b == c.upto
             C == Range(c.rows)
  <2>4. b \in Nat /\ b <= sq /\ CodesOfOnce(t, b, C) /\ \A r \in C : r.item \in Risk
    BY <2>1, <2>2, <2>3 DEF PulledFor
  <2> HIDE DEF b, C
  <2>5. CodesOfOnce(u, b, C)
    BY <2>4, CodesStay
  <2>6. \A i \in Risk : mk < u[i].seq /\ u[i].seq <= c.upto
          => \E k \in DOMAIN c.rows : c.rows[k].item = i
    BY <2>1, <2>2, <1>4 DEF PulledFor
  <2>7. PulledFor(u, sr, mk, c)
    BY <2>1, <2>2, <2>5, <2>6 DEF PulledFor, b, C
  <2>8. CallFor(n, u, sr, q, mk, c)
    BY <1>7, <2>7 DEF CallFor
  <2> QED BY <1>2, <1>5, <2>8 DEF DeviceSound
<1>8. CASE c.kind = "idle"
  <2>1. CallFor(n, u, sr, q, mk, c)
    BY <1>8 DEF CallFor
  <2> QED BY <1>2, <1>5, <2>1 DEF DeviceSound
<1>9. c.kind \in {"idle", "push", "pull"}
  BY DEF DeviceSound, CallFor
<1> QED BY <1>6, <1>7, <1>8, <1>9

\* A save elsewhere takes a number.
LEMMA MoreSaves ==
    ASSUME NEW n \in Nat, NEW t, NEW sq, NEW rc, NEW d, NEW rs, NEW q, NEW mk, NEW c,
           DeviceSound(n, t, sq, rc, d, rs, q, mk, c)
    PROVE  DeviceSound(n + 1, t, sq, rc, d, rs, q, mk, c)
<1>1. q \in Seq(OutboxEntry) /\ \A k \in DOMAIN q : q[k].id[2] < n
  BY DEF DeviceSound, OutboxFor
<1>2. ASSUME NEW k \in DOMAIN q PROVE q[k].id[2] < n + 1
  <2>1. q[k] \in OutboxEntry
    BY <1>1
  <2>2. q[k].id \in ChangeId
    BY <2>1 DEF OutboxEntry
  <2>3. q[k].id[2] \in Nat
    BY <2>2 DEF ChangeId
  <2> QED BY <2>3, <1>1
<1>3. OutboxFor(d, n + 1, q)
  BY <1>2 DEF DeviceSound, OutboxFor
<1>4. ASSUME c.kind = "push" PROVE AnswersFor(n + 1, t, q, c.results)
  <2>1. AnswersFor(n, t, q, c.results)
    BY <1>4 DEF DeviceSound, CallFor
  <2>2. ASSUME NEW k \in DOMAIN c.results PROVE c.results[k].id[2] < n + 1
    <3>1. c.results \in Seq(PushAnswer) /\ c.results[k].id[2] < n
      BY <2>1 DEF AnswersFor
    <3>2. c.results[k] \in PushAnswer
      BY <3>1
    <3>3. c.results[k].id \in ChangeId
      BY <3>2 DEF PushAnswer
    <3>4. c.results[k].id[2] \in Nat
      BY <3>3 DEF ChangeId
    <3> QED BY <3>1, <3>4
  <2> QED BY <2>1, <2>2 DEF AnswersFor
<1>5. CallFor(n + 1, t, sq, q, mk, c)
  BY <1>4 DEF DeviceSound, CallFor
<1> QED BY <1>3, <1>5 DEF DeviceSound

LEMMA MoreReceipts ==
    ASSUME NEW n \in Nat, NEW rc, ReceiptsSound(n, rc)
    PROVE  ReceiptsSound(n + 1, rc)
<1>1. ASSUME NEW r \in rc PROVE r.id[2] < n + 1
  <2>1. r \in Stamped /\ r.id[2] < n
    BY DEF ReceiptsSound
  <2>2. r.id \in ChangeId
    BY <2>1 DEF Stamped
  <2>3. r.id[2] \in Nat
    BY <2>2 DEF ChangeId
  <2> QED BY <2>1, <2>3
<1> QED BY <1>1 DEF ReceiptsSound

\* w has the entries of q, each with its item, identifier and state.
SameSkeleton(q, w) ==
    /\ w \in Seq(OutboxEntry)
    /\ DOMAIN w = DOMAIN q
    /\ \A k \in DOMAIN q :
          w[k].item = q[k].item /\ w[k].id = q[k].id /\ w[k].state = q[k].state

LEMMA SkeletonKeeps ==
    ASSUME NEW n, NEW t, NEW sq, NEW rc, NEW d, NEW rs, NEW q, NEW mk, NEW c,
           DeviceSound(n, t, sq, rc, d, rs, q, mk, c), NEW w, SameSkeleton(q, w),
           NEW rw, RowsTyped(rw),
           \A i \in Risk : rw[i].code = rs[i].code \/ \E k \in DOMAIN q : q[k].item = i
    PROVE  DeviceSound(n, t, sq, rc, d, rw, w, mk, c)
<1>1. OutboxFor(d, n, w)
  BY DEF DeviceSound, OutboxFor, SameSkeleton
<1>2. Processed(t, rc, w)
  BY DEF DeviceSound, Processed, SameSkeleton
<1>3. Arrived(t, w, mk, rw)
  BY DEF DeviceSound, Arrived, SameSkeleton
<1>4. ASSUME c.kind = "push" PROVE AnswersFor(n, t, w, c.results)
  <2>1. AnswersFor(n, t, q, c.results)
    BY <1>4 DEF DeviceSound, CallFor
  <2> QED BY <2>1 DEF AnswersFor, SameSkeleton
<1>5. CallFor(n, t, sq, w, mk, c)
  BY <1>4 DEF DeviceSound, CallFor
<1> QED BY <1>1, <1>2, <1>3, <1>5 DEF DeviceSound

\* w is q with a new pending entry e in place of the one of its item.
Replacing(n, d, q, e, w) ==
    /\ e \in OutboxEntry
    /\ e.id = <<d, n>>
    /\ e.state = "pending"
    /\ w = Append(Only(q, {x \in Range(q) : x.item # e.item}), e)

LEMMA ReplacingFacts ==
    ASSUME NEW n \in Nat, NEW d, NEW q, OutboxFor(d, n, q), NEW e, NEW w,
           Replacing(n, d, q, e, w)
    PROVE  /\ OutboxFor(d, n + 1, w)
           /\ \A k \in DOMAIN w :
                 w[k] = e \/ \E m \in DOMAIN q : w[k] = q[m] /\ q[m].item # e.item
           /\ \A m \in DOMAIN q : q[m].item # e.item =>
                 \E k \in DOMAIN w : w[k] = q[m]
           /\ \E k \in DOMAIN w : w[k] = e
<1> DEFINE keep == {x \in Range(q) : x.item # e.item}
           o == Only(q, keep)
           L == Len(o)
<1>1. /\ OutboxFor(d, n, o)
      /\ \A k \in DOMAIN o : \E m \in DOMAIN q : o[k] = q[m] /\ q[m] \in keep
      /\ \A m \in DOMAIN q : q[m] \in keep => \E k \in DOMAIN o : o[k] = q[m]
  <2> HIDE DEF keep
  <2>1. OutboxFor(d, n, o) /\ Selected(q, keep, o)
    BY OnlyOutbox
  <2> HIDE DEF o
  <2> QED BY <2>1 DEF Selected
<1>2. \A m \in DOMAIN q : q[m] \in keep <=> q[m].item # e.item
  BY DEF Range
<1>3. w = Append(o, e)
  BY DEF Replacing
<1> HIDE DEF o, keep
<1>4. o \in Seq(OutboxEntry) /\ e \in OutboxEntry
  BY <1>1 DEF OutboxFor, Replacing
<1>5. Longer(OutboxEntry, w, o, e)
  BY <1>3, <1>4, AppendFacts
<1>6. /\ L \in Nat /\ w \in Seq(OutboxEntry) /\ DOMAIN o = 1..L
      /\ DOMAIN w = 1..(L + 1) /\ w[L + 1] = e
      /\ \A x \in 1..L : w[x] = o[x]
      /\ \A x \in DOMAIN w : x \in DOMAIN o \/ x = L + 1
  BY <1>5 DEF Longer
<1>7. L + 1 \in DOMAIN w /\ \A x \in DOMAIN o : x \in DOMAIN w
  BY <1>6
<1>8. \A k \in DOMAIN o : \E m \in DOMAIN q : o[k] = q[m] /\ q[m].item # e.item
  BY <1>1, <1>2
<1>9. \A k \in DOMAIN w :
         w[k] = e \/ \E m \in DOMAIN q : w[k] = q[m] /\ q[m].item # e.item
  BY <1>6, <1>8
<1>10. \A m \in DOMAIN q : q[m].item # e.item => \E k \in DOMAIN w : w[k] = q[m]
  BY <1>1, <1>2, <1>6, <1>7
<1>11. e.id[1] = d /\ e.id[2] = n
  BY DEF Replacing
<1>12. ASSUME NEW x \in DOMAIN o
       PROVE  /\ o[x].id[1] = d /\ o[x].id[2] < n /\ o[x].id[2] \in Nat
              /\ o[x].item # e.item /\ o[x].id # e.id
  <2>1. o[x].id[1] = d /\ o[x].id[2] < n
    BY <1>1 DEF OutboxFor
  <2>2. o[x] \in OutboxEntry
    BY <1>4
  <2>3. o[x].id \in ChangeId
    BY <2>2 DEF OutboxEntry
  <2>4. o[x].id[2] \in Nat
    BY <2>3 DEF ChangeId
  <2>5. o[x].item # e.item
    BY <1>8
  <2>6. o[x].id # e.id
    BY <2>1, <2>4, <1>11
  <2> QED BY <2>1, <2>4, <2>5, <2>6
<1>13. ASSUME NEW k \in DOMAIN w PROVE w[k].id[1] = d /\ w[k].id[2] < n + 1
  <2>1. CASE k = L + 1 BY <2>1, <1>6, <1>11
  <2>2. CASE k \in DOMAIN o BY <2>2, <1>6, <1>12
  <2> QED BY <2>1, <2>2, <1>6
<1>14. ASSUME NEW k \in DOMAIN w, NEW m \in DOMAIN w,
              w[k].item = w[m].item \/ w[k].id = w[m].id
       PROVE  k = m
  <2>1. CASE k \in DOMAIN o /\ m \in DOMAIN o
    BY <2>1, <1>1, <1>6, <1>14 DEF OutboxFor
  <2>2. CASE k = L + 1 /\ m \in DOMAIN o
    BY <2>2, <1>6, <1>12, <1>14
  <2>3. CASE m = L + 1 /\ k \in DOMAIN o
    BY <2>3, <1>6, <1>12, <1>14
  <2> QED BY <2>1, <2>2, <2>3, <1>6
<1>15. OutboxFor(d, n + 1, w)
  BY <1>6, <1>13, <1>14 DEF OutboxFor
<1> QED BY <1>6, <1>7, <1>9, <1>10, <1>15

\* A new entry has an identifier that nothing was processed under.
LEMMA ReplacingProcessed ==
    ASSUME NEW n \in Nat, NEW d, NEW q, OutboxFor(d, n, q), NEW e, NEW w,
           Replacing(n, d, q, e, w), NEW t, NEW rc, ReceiptsSound(n, rc),
           Processed(t, rc, q)
    PROVE  Processed(t, rc, w)
<1>1. \A k \in DOMAIN w : w[k] = e \/ \E m \in DOMAIN q : w[k] = q[m]
  BY ReplacingFacts
<1>2. ASSUME NEW r \in rc PROVE r.id # e.id
  <2>1. r \in Stamped /\ r.id[2] < n
    BY DEF ReceiptsSound
  <2>2. e.id[2] = n
    BY DEF Replacing
  <2> QED BY <2>1, <2>2
<1>3. e.state # "error"
  BY DEF Replacing
<1>4. ASSUME NEW k \in DOMAIN w,
             w[k].state = "error" \/ \E r \in rc : r.id = w[k].id
      PROVE  t[w[k].item].ver > 0
  <2>1. w[k] # e
    BY <1>2, <1>3, <1>4
  <2>2. PICK m \in DOMAIN q : w[k] = q[m]
    BY <1>1, <2>1
  <2> QED BY <2>2, <1>4 DEF Processed
<1> QED BY <1>4 DEF Processed

\* A save or a decision that replaces the entry of one item.
LEMMA ReplacingKeeps ==
    ASSUME NEW n \in Nat, NEW t, NEW sq, NEW rc, NEW d, NEW rs, NEW q, NEW mk, NEW c,
           DeviceSound(n, t, sq, rc, d, rs, q, mk, c), ReceiptsSound(n, rc),
           NEW e, NEW w, Replacing(n, d, q, e, w),
           NEW rw, RowsTyped(rw),
           \A i \in Risk : i # e.item => rw[i].code = rs[i].code
    PROVE  DeviceSound(n + 1, t, sq, rc, d, rw, w, mk, c)
<1>1. OutboxFor(d, n, q) /\ Processed(t, rc, q)
  BY DEF DeviceSound
<1>2. /\ OutboxFor(d, n + 1, w)
      /\ \A k \in DOMAIN w :
            w[k] = e \/ \E m \in DOMAIN q : w[k] = q[m] /\ q[m].item # e.item
      /\ \A m \in DOMAIN q : q[m].item # e.item => \E k \in DOMAIN w : w[k] = q[m]
      /\ \E k \in DOMAIN w : w[k] = e
  BY <1>1, ReplacingFacts
<1>3. Processed(t, rc, w)
  BY <1>1, ReplacingProcessed
<1>4. Arrived(t, w, mk, rw)
  <2> SUFFICES ASSUME NEW i \in Risk, t[i].ver > 0, t[i].seq <= mk,
                      \A k \in DOMAIN w : w[k].item # i
               PROVE  rw[i].code = t[i].code
    BY DEF Arrived
  <2>1. i # e.item
    BY <1>2
  <2>2. \A m \in DOMAIN q : q[m].item # i
    BY <1>2, <2>1
  <2>3. rs[i].code = t[i].code
    BY <2>2 DEF DeviceSound, Arrived
  <2> QED BY <2>1, <2>3
<1>5. DeviceSound(n + 1, t, sq, rc, d, rs, q, mk, c)
  BY MoreSaves
<1>6. ASSUME c.kind = "push" PROVE AnswersFor(n + 1, t, w, c.results)
  <2>1. AnswersFor(n, t, q, c.results) /\ AnswersFor(n + 1, t, q, c.results)
    BY <1>6, <1>5 DEF DeviceSound, CallFor
  <2>2. ASSUME NEW k \in DOMAIN c.results
        PROVE  /\ \E m \in DOMAIN w : w[m].item = c.results[k].item /\ w[m].state = "pending"
               /\ \A m \in DOMAIN w : w[m].id = c.results[k].id
                     => w[m].item = c.results[k].item
    <3>1. PICK m \in DOMAIN q : q[m].item = c.results[k].item /\ q[m].state = "pending"
      BY <2>1 DEF AnswersFor
    <3>2. \E x \in DOMAIN w : w[x].item = c.results[k].item /\ w[x].state = "pending"
      <4>1. CASE q[m].item = e.item
        BY <4>1, <3>1, <1>2 DEF Replacing
      <4>2. CASE q[m].item # e.item
        BY <4>2, <3>1, <1>2
      <4> QED BY <4>1, <4>2
    <3>3. c.results[k].id # e.id
      <4>1. c.results[k].id[2] < n /\ e.id[2] = n
        BY <2>1 DEF AnswersFor, Replacing
      <4> QED BY <4>1
    <3>4. ASSUME NEW x \in DOMAIN w, w[x].id = c.results[k].id
          PROVE  w[x].item = c.results[k].item
      <4>1. PICK y \in DOMAIN q : w[x] = q[y]
        BY <1>2, <3>3, <3>4
      <4> QED BY <4>1, <3>4, <2>1 DEF AnswersFor
    <3> QED BY <3>2, <3>4
  <2> QED BY <2>1, <2>2 DEF AnswersFor
<1>7. CallFor(n + 1, t, sq, w, mk, c)
  BY <1>6 DEF DeviceSound, CallFor
<1> QED BY <1>2, <1>3, <1>4, <1>7 DEF DeviceSound

\* A device that pulls everything again has nothing to show for it yet.
LEMMA Rewound ==
    ASSUME NEW n, NEW t, NEW sq, TableSound(t, sq), NEW rc, NEW d, NEW rs, NEW q,
           RowsTyped(rs), OutboxFor(d, n, q), Processed(t, rc, q)
    PROVE  DeviceSound(n, t, sq, rc, d, rs, q, 0, Idle)
<1>1. CallFor(n, t, sq, q, 0, Idle)
  BY DEF CallFor, Idle
<1>2. ASSUME NEW i \in Risk, t[i].ver > 0 PROVE ~(t[i].seq <= 0)
  <2>1. t[i] \in SrvRow /\ t[i].seq > 0
    BY <1>2 DEF TableSound
  <2>2. t[i].seq \in Nat
    BY <2>1 DEF SrvRow
  <2> QED BY <2>1, <2>2
<1>3. Arrived(t, q, 0, rs)
  BY <1>2 DEF Arrived
<1>4. 0 \in 0..sq
  BY DEF TableSound
<1> QED BY <1>1, <1>3, <1>4 DEF DeviceSound

-----------------------------------------------------------------------------
(* The statements of a device                                              *)

\* A row of the server over the rows rs: no other row has its code.
RowsWith(rs, i, code, ver) ==
    [j \in Risk |->
        IF j = i THEN [code |-> code, ver |-> ver]
        ELSE IF rs[j].code = code THEN [rs[j] EXCEPT !.code = NoCode] ELSE rs[j]]

\* su is st with a code for item i.
CodeSet(st, i, code, ver, su) ==
    /\ su.rows = [st.rows EXCEPT ![i] = [code |-> code, ver |-> ver]]
    /\ su.ok = (st.ok /\ code \notin Others(st.rows, i))
    /\ "queue" \in DOMAIN st => su.queue = st.queue
    /\ DOMAIN su = DOMAIN st

LEMMA SetCodeFacts ==
    ASSUME NEW st, "rows" \in DOMAIN st, "ok" \in DOMAIN st,
           NEW i \in Risk, NEW code, NEW ver
    PROVE  CodeSet(st, i, code, ver, SetCode(st, i, code, ver))
<1> DEFINE w == [st.rows EXCEPT ![i] = [code |-> code, ver |-> ver]]
           b == st.ok /\ code \notin Others(st.rows, i)
           s1 == [st EXCEPT !.rows = w]
           s2 == [s1 EXCEPT !.ok = b]
<1>1. SetCode(st, i, code, ver) = s2
  <2>1. s1.ok = st.ok
    OBVIOUS
  <2> QED BY <2>1 DEF SetCode
<1> HIDE DEF w, b
<1>2. s1.rows = w /\ DOMAIN s1 = DOMAIN st /\ ("queue" \in DOMAIN st => s1.queue = st.queue)
  OBVIOUS
<1> HIDE DEF s1
<1>3. /\ s2.rows = s1.rows /\ DOMAIN s2 = DOMAIN s1 /\ s2.ok = b
      /\ ("queue" \in DOMAIN s1 => s2.queue = s1.queue)
  BY <1>2
<1>4. CodeSet(st, i, code, ver, s2)
  BY <1>2, <1>3 DEF w, b, CodeSet
<1> QED BY <1>1, <1>4

\* _apply_pull_scored_entities: the index accepts the statement.
LEMMA ApplyRowFacts ==
    ASSUME NEW st, "rows" \in DOMAIN st, "ok" \in DOMAIN st, RowsTyped(st.rows),
           st.ok \in BOOLEAN, NEW r, r.item \in Risk
    PROVE  /\ ApplyRow(st, r).rows = RowsWith(st.rows, r.item, r.code, r.ver)
           /\ ApplyRow(st, r).ok = st.ok
           /\ "queue" \in DOMAIN st => ApplyRow(st, r).queue = st.queue
           /\ DOMAIN ApplyRow(st, r) = DOMAIN st
<1> DEFINE w == [j \in Risk |-> IF j # r.item /\ st.rows[j].code = r.code
                                THEN [st.rows[j] EXCEPT !.code = NoCode]
                                ELSE st.rows[j]]
           s1 == [st EXCEPT !.rows = w]
<1>1. ApplyRow(st, r) = SetCode(s1, r.item, r.code, r.ver)
  BY DEF ApplyRow
<1>2. ASSUME NEW j \in Risk, j # r.item
      PROVE  w[j] = RowsWith(st.rows, r.item, r.code, r.ver)[j]
             /\ (w[j].code # r.code \/ w[j].code = NoCode)
  <2>1. st.rows[j] \in [code : Nat, ver : Int]
    BY DEF RowsTyped
  <2>2. CASE st.rows[j].code = r.code
    <3>1. [st.rows[j] EXCEPT !.code = NoCode].code = NoCode
      BY <2>1
    <3> QED BY <3>1, <2>2, <1>2 DEF RowsWith
  <2>3. CASE st.rows[j].code # r.code
    BY <2>3, <1>2 DEF RowsWith
  <2> QED BY <2>2, <2>3
<1>3. r.code \notin Others(w, r.item)
  <2> HIDE DEF w
  <2> QED BY <1>2 DEF Others
<1>4. [w EXCEPT ![r.item] = [code |-> r.code, ver |-> r.ver]]
       = RowsWith(st.rows, r.item, r.code, r.ver)
  <2>1. w = [j \in Risk |-> w[j]]
    OBVIOUS
  <2> HIDE DEF w
  <2> QED BY <2>1, <1>2 DEF RowsWith
<1> HIDE DEF w
<1>5. /\ s1.rows = w /\ s1.ok = st.ok /\ DOMAIN s1 = DOMAIN st
      /\ "queue" \in DOMAIN st => s1.queue = st.queue
  OBVIOUS
<1> HIDE DEF s1
<1> DEFINE i0 == r.item
           c0 == r.code
           v0 == r.ver
           s2 == SetCode(s1, i0, c0, v0)
<1>6. "rows" \in DOMAIN s1 /\ "ok" \in DOMAIN s1 /\ i0 \in Risk
  BY <1>5
<1> HIDE DEF i0, c0, v0
<1>7. /\ s2.rows = [s1.rows EXCEPT ![i0] = [code |-> c0, ver |-> v0]]
      /\ s2.ok = (s1.ok /\ c0 \notin Others(s1.rows, i0))
      /\ "queue" \in DOMAIN s1 => s2.queue = s1.queue
      /\ DOMAIN s2 = DOMAIN s1
  <2>1. CodeSet(s1, i0, c0, v0, s2)
    BY <1>6, SetCodeFacts
  <2> HIDE DEF s2
  <2> QED BY <2>1 DEF CodeSet
<1>8. c0 \notin Others(s1.rows, i0)
  BY <1>3, <1>5 DEF i0, c0
<1>9. s2.ok = st.ok
  BY <1>5, <1>7, <1>8
<1>10. s2.rows = RowsWith(st.rows, r.item, r.code, r.ver)
  BY <1>4, <1>5, <1>7 DEF i0, c0, v0
<1>11. ApplyRow(st, r) = s2
  BY <1>1 DEF i0, c0, v0
<1> QED BY <1>5, <1>7, <1>9, <1>10, <1>11

RowPlaced(rs, i, code, ru) ==
    /\ RowsTyped(ru)
    /\ ru[i].code = code
    /\ \A j \in Risk : j # i /\ rs[j].code # code => ru[j].code = rs[j].code
    /\ \A j \in Risk : j # i => ru[j].code \in {NoCode, rs[j].code}

LEMMA RowsFacts ==
    ASSUME NEW rs, RowsTyped(rs), NEW i \in Risk, NEW code \in Nat, NEW ver \in Nat
    PROVE  RowPlaced(rs, i, code, RowsWith(rs, i, code, ver))
<1> DEFINE w == RowsWith(rs, i, code, ver)
<1>1. ASSUME NEW j \in Risk
      PROVE  /\ w[j] \in [code : Nat, ver : Int] /\ w[j].ver >= Absent
             /\ j # i /\ rs[j].code # code => w[j].code = rs[j].code
             /\ j # i => w[j].code \in {NoCode, rs[j].code}
             /\ j = i => w[j].code = code
  <2>1. rs[j] \in [code : Nat, ver : Int] /\ rs[j].ver >= Absent
    BY DEF RowsTyped
  <2>2. CASE j = i
    <3>1. w[j] = [code |-> code, ver |-> ver]
      BY <2>2 DEF RowsWith
    <3> HIDE DEF w
    <3> QED BY <3>1, <2>2 DEF Absent
  <2>3. CASE j # i /\ rs[j].code = code
    <3>1. w[j] = [rs[j] EXCEPT !.code = NoCode]
      BY <2>3 DEF RowsWith
    <3> HIDE DEF w
    <3>2. NoCode \in Nat
      BY DEF NoCode
    <3>3. w[j] \in [code : Nat, ver : Int] /\ w[j].code = NoCode /\ w[j].ver = rs[j].ver
      BY <3>1, <3>2, <2>1
    <3> QED BY <3>3, <2>1, <2>3
  <2>4. CASE j # i /\ rs[j].code # code
    <3>1. w[j] = rs[j]
      BY <2>4 DEF RowsWith
    <3> HIDE DEF w
    <3> QED BY <3>1, <2>1, <2>4
  <2> QED BY <2>2, <2>3, <2>4
<1>2. w = [j \in Risk |-> w[j]]
  BY DEF RowsWith
<1> HIDE DEF w
<1>3. w \in [Risk -> [code : Nat, ver : Int]]
  BY <1>1, <1>2
<1>4. RowsTyped(w)
  BY <1>1, <1>3 DEF RowsTyped
<1> QED BY <1>1, <1>4 DEF w, RowPlaced

AckStep(ans, k, st) == IF k \in Accepted(ans) THEN Acknowledge(st, ans[k]) ELSE st
IsAck(f, st, ans) ==
    f = [k \in 0..Len(ans) |-> IF k = 0 THEN st ELSE AckStep(ans, k, f[k - 1])]

LEMMA AckInduction ==
    ASSUME NEW s, NEW q, NEW I, Len(q) \in Nat, s \in I[0],
           \A n \in 1..Len(q) : \A a \in I[n - 1] : AckStep(q, n, a) \in I[n]
    PROVE  AcknowledgeAll(s, q) \in I[Len(q)]
<1> DEFINE N == Len(q)
           U == UNION {I[n] : n \in 0..N}
           step == [p \in (1..N) \X U |-> AckStep(q, p[1], p[2])]
<1>1. ASSUME NEW n \in 1..N, NEW a \in I[n - 1]
      PROVE  step[<<n, a>>] = AckStep(q, n, a)
  <2>1. n - 1 \in 0..N OBVIOUS
  <2>2. a \in U BY <2>1
  <2>3. <<n, a>> \in (1..N) \X U BY <2>2
  <2> QED BY <2>3
<1> HIDE DEF step
<1>2. \A n \in 1..N : \A a \in I[n - 1] : step[<<n, a>>] \in I[n]
  BY <1>1
<1>3. PICK g : IsRunOf(g, N, s, step) /\ \A n \in 0..N : g[n] \in I[n]
  BY <1>2, RunOfSound
<1>4. IsAck(g, s, q)
  <2>1. ASSUME NEW n \in 0..N
        PROVE  (IF n = 0 THEN s ELSE step[<<n, g[n - 1]>>])
               = IF n = 0 THEN s ELSE AckStep(q, n, g[n - 1])
    <3>1. CASE n = 0 BY <3>1
    <3>2. CASE n # 0
      <4>1. n \in 1..N /\ n - 1 \in 0..N BY <3>2
      <4> QED BY <3>2, <4>1, <1>1, <1>3
    <3> QED BY <3>1, <3>2
  <2> QED BY <2>1, <1>3 DEF IsAck, IsRunOf
<1> DEFINE f == CHOOSE h : IsAck(h, s, q)
<1>5. IsAck(f, s, q)
  BY <1>4
<1>6. AcknowledgeAll(s, q) = f[N]
  BY DEF AcknowledgeAll, IsAck, AckStep
<1> HIDE DEF f
<1>7. f[0] \in I[0]
  <2>1. 0 \in 0..N OBVIOUS
  <2> QED BY <2>1, <1>5 DEF IsAck
<1>8. \A n \in 1..N : f[n - 1] \in I[n - 1] => f[n] \in I[n]
  <2>1. ASSUME NEW n \in 1..N PROVE f[n] = AckStep(q, n, f[n - 1])
    <3>1. n \in 0..N /\ n # 0 OBVIOUS
    <3> QED BY <3>1, <1>5 DEF IsAck
  <2> QED BY <2>1
<1>9. \A n \in 0..N : f[n] \in I[n]
  BY <1>7, <1>8, StepsKeep
<1> QED BY <1>6, <1>9

ApplyStep(rows, free, k, st) ==
    IF rows[k].item \in free THEN ApplyRow(st, rows[k]) ELSE st
IsApply(f, st, rows, free) ==
    f = [k \in 0..Len(rows) |-> IF k = 0 THEN st
                                ELSE ApplyStep(rows, free, k, f[k - 1])]

LEMMA ApplyInduction ==
    ASSUME NEW s, NEW q, NEW free, NEW I, Len(q) \in Nat, s \in I[0],
           \A n \in 1..Len(q) : \A a \in I[n - 1] : ApplyStep(q, free, n, a) \in I[n]
    PROVE  ApplyRows(s, q, free) \in I[Len(q)]
<1> DEFINE N == Len(q)
           U == UNION {I[n] : n \in 0..N}
           step == [p \in (1..N) \X U |-> ApplyStep(q, free, p[1], p[2])]
<1>1. ASSUME NEW n \in 1..N, NEW a \in I[n - 1]
      PROVE  step[<<n, a>>] = ApplyStep(q, free, n, a)
  <2>1. n - 1 \in 0..N OBVIOUS
  <2>2. a \in U BY <2>1
  <2>3. <<n, a>> \in (1..N) \X U BY <2>2
  <2> QED BY <2>3
<1> HIDE DEF step
<1>2. \A n \in 1..N : \A a \in I[n - 1] : step[<<n, a>>] \in I[n]
  BY <1>1
<1>3. PICK g : IsRunOf(g, N, s, step) /\ \A n \in 0..N : g[n] \in I[n]
  BY <1>2, RunOfSound
<1>4. IsApply(g, s, q, free)
  <2>1. ASSUME NEW n \in 0..N
        PROVE  (IF n = 0 THEN s ELSE step[<<n, g[n - 1]>>])
               = IF n = 0 THEN s ELSE ApplyStep(q, free, n, g[n - 1])
    <3>1. CASE n = 0 BY <3>1
    <3>2. CASE n # 0
      <4>1. n \in 1..N /\ n - 1 \in 0..N BY <3>2
      <4> QED BY <3>2, <4>1, <1>1, <1>3
    <3> QED BY <3>1, <3>2
  <2> QED BY <2>1, <1>3 DEF IsApply, IsRunOf
<1> DEFINE f == CHOOSE h : IsApply(h, s, q, free)
<1>5. IsApply(f, s, q, free)
  BY <1>4
<1>6. ApplyRows(s, q, free) = f[N]
  BY DEF ApplyRows, IsApply, ApplyStep
<1> HIDE DEF f
<1>7. f[0] \in I[0]
  <2>1. 0 \in 0..N OBVIOUS
  <2> QED BY <2>1, <1>5 DEF IsApply
<1>8. \A n \in 1..N : f[n - 1] \in I[n - 1] => f[n] \in I[n]
  <2>1. ASSUME NEW n \in 1..N PROVE f[n] = ApplyStep(q, free, n, f[n - 1])
    <3>1. n \in 0..N /\ n # 0 OBVIOUS
    <3> QED BY <3>1, <1>5 DEF IsApply
  <2> QED BY <2>1
<1>9. \A n \in 0..N : f[n] \in I[n]
  BY <1>7, <1>8, StepsKeep
<1> QED BY <1>6, <1>9


-----------------------------------------------------------------------------
(* An answer is applied                                                    *)

\* The answers ans to the entries of q, as a device needs them.
Ready(d, n, q, ans) ==
    /\ OutboxFor(d, n, q)
    /\ ans \in Seq(PushAnswer)
    /\ \A k \in DOMAIN ans :
        /\ \E m \in DOMAIN q : q[m].item = ans[k].item /\ q[m].state = "pending"
        /\ \A m \in DOMAIN q : q[m].id = ans[k].id => q[m].item = ans[k].item
    /\ \A k, m \in DOMAIN ans : ans[k].item = ans[m].item => k = m
    /\ \A k \in Accepted(ans) : ans[k].code # NoCode
    /\ \A k, m \in Accepted(ans) : ans[k].item # ans[m].item => ans[k].code # ans[m].code

LEMMA IsReady ==
    ASSUME NEW d, NEW n, NEW t, NEW q, NEW mk, NEW ans, OutboxFor(d, n, q),
           AnswersFor(n, t, q, ans), CodesOfOnce(t, mk, AcceptedAnswers(ans))
    PROVE  Ready(d, n, q, ans)
<1>1. \A k \in Accepted(ans) : ans[k] \in AcceptedAnswers(ans)
  BY DEF AcceptedAnswers
<1> QED BY <1>1 DEF Ready, AnswersFor, CodesOfOnce

\* w has entries of q with their item, identifier and state.
Within(q, w) ==
    \A x \in DOMAIN w : \E m \in DOMAIN q :
        w[x].item = q[m].item /\ w[x].id = q[m].id /\ w[x].state = q[m].state

\* After the first k answers.
AckQueue(d, n, q, ans, k, w) ==
    /\ OutboxFor(d, n, w)
    /\ Within(q, w)
    /\ \A m \in DOMAIN q : (\A j \in Accepted(ans) : j <= k => ans[j].item # q[m].item) =>
          \E x \in DOMAIN w : /\ w[x].item = q[m].item /\ w[x].id = q[m].id
                              /\ w[x].state = q[m].state

AckRows(ans, rs, k, rw) ==
    /\ RowsTyped(rw)
    /\ \A j \in Accepted(ans) : j <= k => rw[ans[j].item].code = ans[j].code
    /\ \A j \in Accepted(ans) : j > k =>
          \A i \in Risk : i # ans[j].item => rw[i].code # ans[j].code
    /\ \A i \in Risk :
          (\A j \in Accepted(ans) : ans[j].item # i /\ ans[j].code # rs[i].code)
             => rw[i].code = rs[i].code

AckStates == [rows : [Risk -> [code : Nat, ver : Int]], queue : Seq(OutboxEntry),
              ok : BOOLEAN]

AckedTo(d, n, q, ans, rs, k, st) ==
    /\ st \in AckStates
    /\ st.ok = TRUE
    /\ AckQueue(d, n, q, ans, k, st.queue)
    /\ AckRows(ans, rs, k, st.rows)

\* release_scored_codes_for_acknowledgements leaves every code that was
\* accepted free.
LEMMA ReleaseFacts ==
    ASSUME NEW d, NEW n, NEW q, NEW ans, Ready(d, n, q, ans), NEW rs, RowsTyped(rs)
    PROVE  AckRows(ans, rs, 0, Release(rs, ans))
<1> DEFINE w == Release(rs, ans)
<1>1. ASSUME NEW i \in Risk
      PROVE  /\ w[i] \in [code : Nat, ver : Int] /\ w[i].ver >= Absent
             /\ \A j \in Accepted(ans) : w[i].code # ans[j].code
             /\ (\A j \in Accepted(ans) : ans[j].item # i /\ ans[j].code # rs[i].code)
                   => w[i].code = rs[i].code
  <2>1. rs[i] \in [code : Nat, ver : Int] /\ rs[i].ver >= Absent
    BY DEF RowsTyped
  <2>2. CASE \E j \in Accepted(ans) : ans[j].item = i \/ ans[j].code = rs[i].code
    <3>1. w[i] = [rs[i] EXCEPT !.code = NoCode]
      BY <2>2 DEF Release
    <3> HIDE DEF w
    <3>2. NoCode \in Nat
      BY DEF NoCode
    <3>3. w[i] \in [code : Nat, ver : Int] /\ w[i].code = NoCode /\ w[i].ver = rs[i].ver
      BY <3>1, <3>2, <2>1
    <3> QED BY <3>3, <2>1, <2>2 DEF Ready
  <2>3. CASE ~ \E j \in Accepted(ans) : ans[j].item = i \/ ans[j].code = rs[i].code
    <3>1. w[i] = rs[i]
      BY <2>3 DEF Release
    <3> HIDE DEF w
    <3> QED BY <3>1, <2>1, <2>3
  <2> QED BY <2>2, <2>3
<1>2. w = [i \in Risk |-> w[i]]
  BY DEF Release
<1> HIDE DEF w
<1>3. RowsTyped(w)
  BY <1>1, <1>2 DEF RowsTyped
<1>4. \A j \in Accepted(ans) : ~(j <= 0)
  <2>1. \A j \in Accepted(ans) : j \in DOMAIN ans
    BY DEF Accepted
  <2>2. ans \in Seq(PushAnswer)
    BY DEF Ready
  <2>3. DOMAIN ans = 1..Len(ans) /\ Len(ans) \in Nat
    BY <2>2
  <2>4. \A j \in 1..Len(ans) : ~(j <= 0)
    BY <2>3
  <2> QED BY <2>1, <2>3, <2>4
<1>5. AckRows(ans, rs, 0, w)
  BY <1>1, <1>3, <1>4 DEF AckRows
<1> QED BY <1>5 DEF w

\* What an accepted answer does to the rows, written over the rows alone.
LEMMA AckRowsStep ==
    ASSUME NEW d, NEW n, NEW q, NEW ans, Ready(d, n, q, ans), NEW rs, NEW k,
           k \in Accepted(ans), NEW rw, AckRows(ans, rs, k - 1, rw), NEW ru,
           RowsTyped(ru), ru[ans[k].item].code = ans[k].code,
           \A i \in Risk : i # ans[k].item => ru[i].code = rw[i].code
    PROVE  AckRows(ans, rs, k, ru)
<1>1. ans \in Seq(PushAnswer) /\ \A j \in Accepted(ans) : j \in DOMAIN ans
  BY DEF Ready, Accepted
<1>2. \A j \in Accepted(ans) : j \in Nat
  BY <1>1
<1>3. \A j \in Accepted(ans) : ans[j].item \in Risk
  <2>1. ASSUME NEW j \in DOMAIN ans PROVE ans[j] \in PushAnswer
    BY <1>1
  <2> QED BY <1>1, <2>1 DEF PushAnswer
<1>4. ASSUME NEW j \in Accepted(ans), j <= k PROVE ru[ans[j].item].code = ans[j].code
  <2>1. CASE j = k
    BY <2>1
  <2>2. CASE j # k
    <3>1. j <= k - 1
      BY <2>2, <1>2, <1>4
    <3>2. ans[j].item # ans[k].item
      BY <2>2, <1>1 DEF Ready
    <3> QED BY <3>1, <3>2, <1>3 DEF AckRows
  <2> QED BY <2>1, <2>2
<1>5. ASSUME NEW j \in Accepted(ans), j > k, NEW i \in Risk, i # ans[j].item
      PROVE  ru[i].code # ans[j].code
  <2>1. j > k - 1 /\ j # k
    BY <1>2, <1>5
  <2>2. CASE i = ans[k].item
    BY <2>2, <1>5 DEF Ready
  <2>3. CASE i # ans[k].item
    BY <2>1, <2>3, <1>5 DEF AckRows
  <2> QED BY <2>2, <2>3
<1>6. ASSUME NEW i \in Risk,
             \A j \in Accepted(ans) : ans[j].item # i /\ ans[j].code # rs[i].code
      PROVE  ru[i].code = rs[i].code
  <2>1. i # ans[k].item
    BY <1>6
  <2> QED BY <2>1, <1>6 DEF AckRows
<1> QED BY <1>4, <1>5, <1>6 DEF AckRows

\* What an answer does to the outbox.
LEMMA AckQueueStep ==
    ASSUME NEW d, NEW n, NEW q, NEW ans, Ready(d, n, q, ans), NEW k,
           k \in Accepted(ans), NEW w, AckQueue(d, n, q, ans, k - 1, w),
           NEW u, OutboxFor(d, n, u), Within(w, u),
           \A x \in DOMAIN w : w[x].item # ans[k].item =>
              \E y \in DOMAIN u : /\ u[y].item = w[x].item /\ u[y].id = w[x].id
                                  /\ u[y].state = w[x].state
    PROVE  AckQueue(d, n, q, ans, k, u)
<1>1. \A j \in Accepted(ans) : j \in Nat
  <2>1. ans \in Seq(PushAnswer) /\ \A j \in Accepted(ans) : j \in DOMAIN ans
    BY DEF Ready, Accepted
  <2> QED BY <2>1
<1>2. Within(q, u)
  BY DEF Within, AckQueue
<1>3. ASSUME NEW m \in DOMAIN q,
             \A j \in Accepted(ans) : j <= k => ans[j].item # q[m].item
      PROVE  \E y \in DOMAIN u : /\ u[y].item = q[m].item /\ u[y].id = q[m].id
                                 /\ u[y].state = q[m].state
  <2>1. \A j \in Accepted(ans) : j <= k - 1 => j <= k
    BY <1>1
  <2>2. k <= k
    BY <1>1
  <2>3. PICK x \in DOMAIN w : /\ w[x].item = q[m].item /\ w[x].id = q[m].id
                              /\ w[x].state = q[m].state
    BY <2>1, <1>3 DEF AckQueue
  <2>4. w[x].item # ans[k].item
    BY <2>2, <2>3, <1>3
  <2> QED BY <2>3, <2>4
<1> QED BY <1>2, <1>3 DEF AckQueue

LEMMA AnswerFacts ==
    ASSUME NEW d, NEW n, NEW q, NEW ans, Ready(d, n, q, ans), NEW k, k \in DOMAIN ans
    PROVE  /\ k \in 1..Len(ans) /\ Len(ans) \in Nat /\ k \in Nat /\ k > 0
           /\ ans[k] \in PushAnswer
           /\ ans[k].item \in Risk /\ ans[k].code \in Nat /\ ans[k].ver \in Nat
           /\ ans[k].acked \in Nat
<1>1. ans \in Seq(PushAnswer)
  BY DEF Ready
<1>2. k \in 1..Len(ans) /\ Len(ans) \in Nat /\ k \in Nat /\ k > 0 /\ ans[k] \in PushAnswer
  BY <1>1
<1> QED BY <1>2 DEF PushAnswer

\* _advance_replacement on the outbox.
Moved(w, r) ==
    [k \in DOMAIN w |->
        IF w[k].item # r.item THEN w[k]
        ELSE [w[k] EXCEPT !.code = r.code, !.base = IF @ > r.acked THEN @ ELSE r.acked]]

LEMMA MovedFacts ==
    ASSUME NEW d, NEW n, NEW w, OutboxFor(d, n, w), NEW r, r.code \in Nat \ {0},
           r.acked \in Nat
    PROVE  /\ OutboxFor(d, n, Moved(w, r))
           /\ DOMAIN Moved(w, r) = DOMAIN w
           /\ \A x \in DOMAIN w : /\ Moved(w, r)[x].item = w[x].item
                                  /\ Moved(w, r)[x].id = w[x].id
                                  /\ Moved(w, r)[x].state = w[x].state
<1> DEFINE u == Moved(w, r)
<1>1. w \in Seq(OutboxEntry)
  BY DEF OutboxFor
<1>2. DOMAIN u = DOMAIN w /\ DOMAIN w = 1..Len(w) /\ Len(w) \in Nat
  BY <1>1 DEF Moved
<1>3. ASSUME NEW x \in DOMAIN w
      PROVE  /\ u[x] \in OutboxEntry
             /\ u[x].item = w[x].item /\ u[x].id = w[x].id /\ u[x].state = w[x].state
  <2>1. w[x] \in OutboxEntry
    BY <1>1
  <2>2. CASE w[x].item # r.item
    <3>1. u[x] = w[x]
      BY <2>2 DEF Moved
    <3> QED BY <3>1, <2>1
  <2>3. CASE w[x].item = r.item
    <3> DEFINE b == IF w[x].base > r.acked THEN w[x].base ELSE r.acked
    <3>1. b \in Nat
      BY <2>1 DEF OutboxEntry
    <3>2. u[x] = [w[x] EXCEPT !.code = r.code, !.base = b]
      <4>1. [w[x] EXCEPT !.code = r.code].base = w[x].base
        BY <2>1 DEF OutboxEntry
      <4> QED BY <2>3, <4>1 DEF Moved
    <3> HIDE DEF b, u
    <3>3. PICK c : c = r.code /\ c \in Nat \ {0}
      OBVIOUS
    <3>4. PICK e : e = w[x] /\ e \in OutboxEntry
      BY <2>1
    <3>5. u[x] = [e EXCEPT !.code = c, !.base = b]
      BY <3>2, <3>3, <3>4
    <3> DEFINE e1 == [e EXCEPT !.code = c]
    <3>6. e1 \in OutboxEntry /\ e1.item = e.item /\ e1.id = e.id /\ e1.state = e.state
      BY <3>3, <3>4 DEF OutboxEntry
    <3> HIDE DEF e1
    <3> DEFINE e2 == [e1 EXCEPT !.base = b]
    <3>7. e2 \in OutboxEntry /\ e2.item = e1.item /\ e2.id = e1.id /\ e2.state = e1.state
      BY <3>1, <3>6 DEF OutboxEntry
    <3>8. u[x] = e2
      BY <3>5 DEF e1
    <3> QED BY <3>4, <3>6, <3>7, <3>8
  <2> QED BY <2>2, <2>3
<1>4. u \in Seq(OutboxEntry)
  <2>1. u = [x \in 1..Len(w) |-> u[x]]
    BY <1>2 DEF Moved
  <2> HIDE DEF u
  <2> QED BY <2>1, <1>2, <1>3
<1> HIDE DEF u
<1>5. OutboxFor(d, n, u)
  BY <1>2, <1>3, <1>4 DEF OutboxFor
<1> QED BY <1>2, <1>3, <1>5 DEF u

\* The index accepts a code that no other row has.
LEMMA FreeCode ==
    ASSUME NEW rs, NEW i, NEW code, \A j \in Risk : j # i => rs[j].code # code
    PROVE  code \notin Others(rs, i)
BY DEF Others

\* One accepted answer.
LEMMA AcknowledgeKeeps ==
    ASSUME NEW d, NEW n, NEW q, NEW ans, Ready(d, n, q, ans), NEW rs, NEW k,
           k \in Accepted(ans), NEW st, AckedTo(d, n, q, ans, rs, k - 1, st)
    PROVE  AckedTo(d, n, q, ans, rs, k, Acknowledge(st, ans[k]))
<1> DEFINE r == ans[k]
           w == st.queue
           rw == st.rows
           su == Acknowledge(st, r)
<1>1. /\ k \in DOMAIN ans /\ k \in Nat /\ k > 0 /\ r \in PushAnswer
      /\ r.item \in Risk /\ r.code \in Nat /\ r.ver \in Nat /\ r.acked \in Nat
  <2>1. k \in DOMAIN ans
    BY DEF Accepted
  <2> QED BY <2>1, AnswerFacts
<1>2. r.code \in Nat \ {0}
  BY <1>1 DEF Ready, NoCode
<1>3. /\ st \in AckStates /\ st.ok = TRUE
      /\ AckQueue(d, n, q, ans, k - 1, w) /\ AckRows(ans, rs, k - 1, rw)
  BY DEF AckedTo
<1>4. /\ "rows" \in DOMAIN st /\ "queue" \in DOMAIN st /\ "ok" \in DOMAIN st
      /\ DOMAIN st = {"rows", "queue", "ok"}
  BY <1>3 DEF AckStates
<1>5. RowsTyped(rw) /\ \A i \in Risk : i # r.item => rw[i].code # r.code
  <2>1. k > k - 1
    BY <1>1
  <2> QED BY <2>1, <1>3 DEF AckRows
<1>6. OutboxFor(d, n, w) /\ Within(q, w)
  BY <1>3 DEF AckQueue
<1>7. ASSUME NEW ru, NEW u, RowsTyped(ru), ru[r.item].code = r.code,
             \A i \in Risk : i # r.item => ru[i].code = rw[i].code,
             OutboxFor(d, n, u), Within(w, u),
             \A x \in DOMAIN w : w[x].item # r.item =>
                \E y \in DOMAIN u : /\ u[y].item = w[x].item /\ u[y].id = w[x].id
                                    /\ u[y].state = w[x].state,
             su.rows = ru, su.queue = u, su.ok = TRUE,
             su = [rows |-> su.rows, queue |-> su.queue, ok |-> su.ok]
      PROVE  AckedTo(d, n, q, ans, rs, k, su)
  <2>1. AckRows(ans, rs, k, ru)
    BY <1>3, <1>7, AckRowsStep
  <2>2. AckQueue(d, n, q, ans, k, u)
    BY <1>3, <1>7, AckQueueStep
  <2>3. su \in AckStates
    <3>1. ru \in [Risk -> [code : Nat, ver : Int]]
      BY <1>7 DEF RowsTyped
    <3>2. u \in Seq(OutboxEntry)
      BY <1>7 DEF OutboxFor
    <3> HIDE DEF su
    <3>3. su = [rows |-> ru, queue |-> u, ok |-> TRUE]
      BY <1>7
    <3> QED BY <3>1, <3>2, <3>3 DEF AckStates
  <2> HIDE DEF su
  <2> QED BY <2>1, <2>2, <2>3, <1>7 DEF AckedTo
<1>8. CASE \E x \in DOMAIN w : w[x].id = r.id
  <2> DEFINE keep == {e \in Range(w) : e.id # r.id}
             u == Only(w, keep)
             s1 == [st EXCEPT !.queue = u]
  <2>1. su = ApplyRow(s1, r)
    BY <1>8 DEF Acknowledge
  <2>2. \A x \in DOMAIN w : w[x] \in keep <=> w[x].id # r.id
    BY DEF Range
  <2> HIDE DEF keep
  <2>3. OutboxFor(d, n, u) /\ Selected(w, keep, u)
    BY <1>6, OnlyOutbox
  <2> HIDE DEF u
  <2>4. Within(w, u)
    BY <2>3 DEF Selected, Within
  <2>5. ASSUME NEW x \in DOMAIN w, w[x].item # r.item
        PROVE  \E y \in DOMAIN u : /\ u[y].item = w[x].item /\ u[y].id = w[x].id
                                   /\ u[y].state = w[x].state
    <3>1. w[x].id # r.id
      <4>1. PICK m \in DOMAIN q : w[x].item = q[m].item /\ w[x].id = q[m].id
        BY <1>6 DEF Within
      <4> QED BY <4>1, <2>5, <1>1 DEF Ready
    <3>2. PICK y \in DOMAIN u : u[y] = w[x]
      BY <3>1, <2>2, <2>3 DEF Selected
    <3> QED BY <3>2
  <2>6. /\ s1.rows = rw /\ s1.ok = st.ok /\ s1.queue = u
        /\ DOMAIN s1 = {"rows", "queue", "ok"}
    BY <1>4
  <2> HIDE DEF s1
  <2>7. "rows" \in DOMAIN s1 /\ "ok" \in DOMAIN s1 /\ "queue" \in DOMAIN s1
        /\ RowsTyped(s1.rows) /\ s1.ok \in BOOLEAN /\ s1.ok = TRUE
    BY <2>6, <1>3, <1>5
  <2>8. /\ su.rows = RowsWith(s1.rows, r.item, r.code, r.ver)
        /\ su.ok = s1.ok
        /\ su.queue = s1.queue
        /\ DOMAIN su = DOMAIN s1
    <3> HIDE DEF r, su
    <3>1. /\ ApplyRow(s1, r).rows = RowsWith(s1.rows, r.item, r.code, r.ver)
          /\ ApplyRow(s1, r).ok = s1.ok
          /\ "queue" \in DOMAIN s1 => ApplyRow(s1, r).queue = s1.queue
          /\ DOMAIN ApplyRow(s1, r) = DOMAIN s1
      BY <2>7, <1>1, ApplyRowFacts
    <3> QED BY <3>1, <2>1, <2>7
  <2>9. su = [rows |-> su.rows, queue |-> su.queue, ok |-> su.ok]
    <3>1. su = [f \in DOMAIN su |-> su[f]]
      <4>1. su = SetCode([s1 EXCEPT !.rows = [j \in Risk |->
                     IF j # r.item /\ s1.rows[j].code = r.code
                     THEN [s1.rows[j] EXCEPT !.code = NoCode] ELSE s1.rows[j]]],
                     r.item, r.code, r.ver)
        BY <2>1 DEF ApplyRow
      <4> HIDE DEF su
      <4> QED BY <4>1 DEF SetCode
    <3> HIDE DEF su
    <3> QED BY <3>1, <2>8, <2>6
  <2> DEFINE ru == RowsWith(rw, r.item, r.code, r.ver)
             i0 == r.item
             c0 == r.code
             v0 == r.ver
  <2>10. /\ RowsTyped(ru) /\ ru[r.item].code = r.code
         /\ \A i \in Risk : i # r.item => ru[i].code = rw[i].code
    <3>1. i0 \in Risk /\ c0 \in Nat /\ v0 \in Nat /\ \A i \in Risk : i # i0 => rw[i].code # c0
      BY <1>1, <1>5
    <3>2. ru = RowsWith(rw, i0, c0, v0)
      OBVIOUS
    <3> HIDE DEF ru, i0, c0, v0, rw
    <3>3. RowPlaced(rw, i0, c0, ru)
      BY <3>1, <3>2, <1>5, RowsFacts
    <3>4. RowsTyped(ru) /\ ru[i0].code = c0 /\ \A i \in Risk : i # i0 => ru[i].code = rw[i].code
      BY <3>1, <3>3 DEF RowPlaced
    <3> QED BY <3>4 DEF i0, c0
  <2>11. su.rows = ru /\ su.queue = u /\ su.ok = TRUE
    BY <2>6, <2>7, <2>8
  <2> HIDE DEF ru, su, r
  <2>12. AckedTo(d, n, q, ans, rs, k, su)
    BY <1>7, <2>3, <2>4, <2>5, <2>9, <2>10, <2>11
  <2> QED BY <2>12 DEF su, r
<1>9. CASE ~ \E x \in DOMAIN w : w[x].id = r.id
  <2> DEFINE u == Moved(w, r)
             old == rw[r.item].ver
             v0 == IF old > r.acked THEN old ELSE r.acked
             i0 == r.item
             c0 == r.code
             s1 == [st EXCEPT !.queue = u]
  <2>1. \E x \in DOMAIN w : w[x].item = r.item /\ w[x].state = "pending"
    <3>1. PICK m \in DOMAIN q : q[m].item = r.item /\ q[m].state = "pending"
      BY <1>1 DEF Ready
    <3>2. \A j \in Accepted(ans) : j <= k - 1 => ans[j].item # q[m].item
      <4>1. ASSUME NEW j \in Accepted(ans), j <= k - 1 PROVE ans[j].item # r.item
        <5>1. j \in DOMAIN ans
          BY DEF Accepted
        <5>2. j \in Nat
          BY <5>1, AnswerFacts
        <5>3. j # k
          BY <5>2, <4>1, <1>1
        <5> QED BY <5>1, <5>3, <1>1 DEF Ready
      <4> QED BY <4>1, <3>1
    <3> QED BY <3>1, <3>2, <1>3 DEF AckQueue
  <2>2. su = SetCode(s1, i0, c0, v0)
    BY <1>9, <2>1 DEF Acknowledge, Moved
  <2>3. /\ OutboxFor(d, n, u)
        /\ DOMAIN u = DOMAIN w
        /\ \A x \in DOMAIN w : /\ u[x].item = w[x].item /\ u[x].id = w[x].id
                               /\ u[x].state = w[x].state
    <3> HIDE DEF r, w
    <3> QED BY <1>1, <1>2, <1>6, MovedFacts
  <2> HIDE DEF u
  <2>4. Within(w, u)
    BY <2>3 DEF Within
  <2>5. /\ s1.rows = rw /\ s1.ok = st.ok /\ s1.queue = u
        /\ DOMAIN s1 = {"rows", "queue", "ok"}
    BY <1>4
  <2> HIDE DEF s1
  <2>6. "rows" \in DOMAIN s1 /\ "ok" \in DOMAIN s1 /\ "queue" \in DOMAIN s1 /\ i0 \in Risk
    BY <2>5, <1>1
  <2>7. rw[i0] \in [code : Nat, ver : Int] /\ rw \in [Risk -> [code : Nat, ver : Int]]
        /\ rw[i0].ver >= Absent
    BY <1>5, <1>1 DEF RowsTyped
  <2>8. v0 \in Nat
    BY <2>7, <1>1
  <2>9. c0 \notin Others(rw, i0) /\ c0 \in Nat
    BY <1>1, <1>5, FreeCode
  <2> HIDE DEF v0, i0, c0, su
  <2>10. CodeSet(s1, i0, c0, v0, su)
    BY <2>2, <2>6, SetCodeFacts
  <2> DEFINE ru == [rw EXCEPT ![i0] = [code |-> c0, ver |-> v0]]
  <2>11. su.rows = ru /\ su.queue = u /\ DOMAIN su = {"rows", "queue", "ok"}
    BY <2>5, <2>6, <2>10 DEF CodeSet
  <2>12. su.ok = TRUE
    <3>1. su.ok = (s1.ok /\ c0 \notin Others(s1.rows, i0))
      BY <2>10 DEF CodeSet
    <3>2. s1.ok = TRUE /\ c0 \notin Others(s1.rows, i0)
      BY <2>5, <2>9, <1>3
    <3> QED BY <3>1, <3>2
  <2>13. su = [rows |-> su.rows, queue |-> su.queue, ok |-> su.ok]
    <3>1. su = [f \in DOMAIN su |-> su[f]]
      BY <2>2 DEF SetCode
    <3> QED BY <3>1, <2>11
  <2>14. /\ RowsTyped(ru) /\ ru[i0].code = c0
         /\ \A i \in Risk : i # i0 => ru[i].code = rw[i].code
    <3>1. ASSUME NEW i \in Risk
          PROVE  /\ ru[i] \in [code : Nat, ver : Int] /\ ru[i].ver >= Absent
                 /\ i = i0 => ru[i].code = c0
                 /\ i # i0 => ru[i].code = rw[i].code
      <4>1. CASE i = i0
        <5>1. ru[i] = [code |-> c0, ver |-> v0]
          BY <4>1, <2>7
        <5> HIDE DEF ru
        <5> QED BY <4>1, <5>1, <2>8, <2>9 DEF Absent
      <4>2. CASE i # i0
        <5>1. ru[i] = rw[i]
          BY <4>2, <2>7
        <5> HIDE DEF ru
        <5> QED BY <4>2, <5>1, <1>5 DEF RowsTyped
      <4> QED BY <4>1, <4>2
    <3>2. ru = [i \in Risk |-> ru[i]]
      BY <2>7
    <3> HIDE DEF ru
    <3> QED BY <3>1, <3>2, <2>6 DEF RowsTyped
  <2>15. \A x \in DOMAIN w : w[x].item # r.item =>
            \E y \in DOMAIN u : /\ u[y].item = w[x].item /\ u[y].id = w[x].id
                                /\ u[y].state = w[x].state
    BY <2>3
  <2>16. ru[r.item].code = r.code /\ \A i \in Risk : i # r.item => ru[i].code = rw[i].code
    BY <2>14 DEF i0, c0
  <2> HIDE DEF ru, r
  <2>17. AckedTo(d, n, q, ans, rs, k, su)
    BY <1>7, <2>3, <2>4, <2>11, <2>12, <2>13, <2>14, <2>15, <2>16
  <2> QED BY <2>17 DEF su, r
<1> QED BY <1>8, <1>9

\* The whole answer.
LEMMA AckAllKeeps ==
    ASSUME NEW d, NEW n, NEW q, NEW ans, Ready(d, n, q, ans), NEW rs, RowsTyped(rs),
           NEW s, s = [rows |-> Release(rs, ans), queue |-> q, ok |-> TRUE]
    PROVE  AckedTo(d, n, q, ans, rs, Len(ans), AcknowledgeAll(s, ans))
<1> DEFINE I == [k \in 0..Len(ans) |->
                   {st \in AckStates : AckedTo(d, n, q, ans, rs, k, st)}]
<1>1. ans \in Seq(PushAnswer)
  BY DEF Ready
<1>2. Len(ans) \in Nat /\ DOMAIN ans = 1..Len(ans)
  BY <1>1
<1>3. s \in I[0]
  <2> DEFINE w == Release(rs, ans)
             z == 0
  <2>1. AckRows(ans, rs, z, w)
    BY ReleaseFacts
  <2>2. w \in [Risk -> [code : Nat, ver : Int]]
    BY <2>1 DEF AckRows, RowsTyped
  <2>3. q \in Seq(OutboxEntry) /\ OutboxFor(d, n, q)
    BY DEF Ready, OutboxFor
  <2>4. s = [rows |-> w, queue |-> q, ok |-> TRUE]
    OBVIOUS
  <2> HIDE DEF w
  <2>5. s \in AckStates /\ s.rows = w /\ s.queue = q /\ s.ok = TRUE
    BY <2>2, <2>3, <2>4 DEF AckStates
  <2>6. AckQueue(d, n, q, ans, z, q)
    BY <2>3 DEF AckQueue, Within
  <2>7. AckedTo(d, n, q, ans, rs, z, s)
    BY <2>1, <2>5, <2>6 DEF AckedTo
  <2>8. 0 \in 0..Len(ans)
    BY <1>2
  <2> QED BY <2>5, <2>7, <2>8
<1>4. ASSUME NEW k \in 1..Len(ans), NEW st \in I[k - 1]
      PROVE  AckStep(ans, k, st) \in I[k]
  <2>1. k \in 0..Len(ans) /\ k - 1 \in 0..Len(ans) /\ k \in Nat
    BY <1>2
  <2>2. AckedTo(d, n, q, ans, rs, k - 1, st)
    BY <2>1
  <2>3. AckedTo(d, n, q, ans, rs, k, AckStep(ans, k, st))
    <3>1. CASE k \in Accepted(ans)
      BY <3>1, <2>2, AcknowledgeKeeps DEF AckStep
    <3>2. CASE k \notin Accepted(ans)
      <4>1. AckStep(ans, k, st) = st
        BY <3>2 DEF AckStep
      <4>2. \A j \in Accepted(ans) : j \in Nat /\ j # k
        <5>1. \A j \in Accepted(ans) : j \in DOMAIN ans
          BY DEF Accepted
        <5> QED BY <5>1, <1>2, <3>2
      <4>3. \A j \in Accepted(ans) : (j <= k => j <= k - 1) /\ (j > k => j > k - 1)
                                     /\ (j <= k - 1 => j <= k)
        BY <4>2, <2>1
      <4>4. AckQueue(d, n, q, ans, k, st.queue)
        BY <2>2, <4>3 DEF AckedTo, AckQueue
      <4>5. AckRows(ans, rs, k, st.rows)
        BY <2>2, <4>3 DEF AckedTo, AckRows
      <4> QED BY <2>2, <4>1, <4>4, <4>5 DEF AckedTo
    <3> QED BY <3>1, <3>2
  <2>4. AckStep(ans, k, st) \in AckStates
    BY <2>3 DEF AckedTo
  <2> QED BY <2>1, <2>3, <2>4
<1> HIDE DEF I
<1>5. AcknowledgeAll(s, ans) \in I[Len(ans)]
  BY <1>2, <1>3, <1>4, AckInduction
<1>6. Len(ans) \in 0..Len(ans)
  BY <1>2
<1> QED BY <1>5, <1>6 DEF I

\* block_outbox_id: an entry is blocked by the answer to its identifier.
LEMMA BlockedFacts ==
    ASSUME NEW d, NEW n, NEW w, OutboxFor(d, n, w), NEW ans \in Seq(PushAnswer)
    PROVE  /\ OutboxFor(d, n, Blocked(w, ans))
           /\ DOMAIN Blocked(w, ans) = DOMAIN w
           /\ \A x \in DOMAIN w :
                /\ Blocked(w, ans)[x].item = w[x].item
                /\ Blocked(w, ans)[x].id = w[x].id
                /\ \/ Blocked(w, ans)[x].state = w[x].state
                   \/ \E j \in DOMAIN ans : ans[j].id = w[x].id
<1> DEFINE u == Blocked(w, ans)
<1>1. w \in Seq(OutboxEntry)
  BY DEF OutboxFor
<1>2. DOMAIN u = DOMAIN w /\ DOMAIN w = 1..Len(w) /\ Len(w) \in Nat
  BY <1>1 DEF Blocked
<1>3. ASSUME NEW x \in DOMAIN w
      PROVE  /\ u[x] \in OutboxEntry
             /\ u[x].item = w[x].item /\ u[x].id = w[x].id
             /\ u[x].state = w[x].state \/ \E j \in DOMAIN ans : ans[j].id = w[x].id
  <2> DEFINE mine == {j \in DOMAIN ans : ans[j].id = w[x].id
                                         /\ ans[j].outcome # "accepted"}
  <2>1. w[x] \in OutboxEntry
    BY <1>1
  <2>2. CASE mine = {}
    <3>1. u[x] = w[x]
      BY <2>2 DEF Blocked
    <3> QED BY <3>1, <2>1
  <2>3. CASE mine # {}
    <3> DEFINE j == CHOOSE m \in mine : TRUE
               r == ans[j]
    <3>1. j \in mine
      BY <2>3
    <3>2. u[x] = [w[x] EXCEPT !.state = r.outcome,
                              !.copy = [code |-> r.code, ver |-> r.ver]]
      BY <2>3 DEF Blocked
    <3> HIDE DEF j
    <3>3. j \in DOMAIN ans /\ r.id = w[x].id /\ r.outcome # "accepted"
      BY <3>1
    <3>4. r \in PushAnswer
      BY <3>3
    <3>5. r.outcome \in {"conflict", "error"} /\ r.code \in Nat /\ r.ver \in Nat
      BY <3>3, <3>4 DEF PushAnswer, Verdict
    <3> HIDE DEF u, r
    <3>6. PICK o : o = r.outcome /\ o \in {"conflict", "error"}
      BY <3>5
    <3> DEFINE c == [code |-> r.code, ver |-> r.ver]
    <3>7. c \in CodeRow
      BY <3>5 DEF CodeRow
    <3>8. PICK e : e = w[x] /\ e \in OutboxEntry
      BY <2>1
    <3>9. u[x] = [e EXCEPT !.state = o, !.copy = c]
      BY <3>2, <3>6, <3>8
    <3> HIDE DEF c
    <3> DEFINE e1 == [e EXCEPT !.state = o]
    <3>10. e1 \in OutboxEntry /\ e1.item = e.item /\ e1.id = e.id
      BY <3>6, <3>8 DEF OutboxEntry
    <3> HIDE DEF e1
    <3> DEFINE e2 == [e1 EXCEPT !.copy = c]
    <3>11. e2 \in OutboxEntry /\ e2.item = e1.item /\ e2.id = e1.id
      BY <3>7, <3>10 DEF OutboxEntry
    <3>12. u[x] = e2
      BY <3>9 DEF e1
    <3> QED BY <3>3, <3>8, <3>10, <3>11, <3>12 DEF r
  <2> QED BY <2>2, <2>3
<1>4. u \in Seq(OutboxEntry)
  <2>1. u = [x \in 1..Len(w) |-> u[x]]
    BY <1>2 DEF Blocked
  <2> HIDE DEF u
  <2> QED BY <2>1, <1>2, <1>3
<1> HIDE DEF u
<1>5. OutboxFor(d, n, u)
  BY <1>2, <1>3, <1>4 DEF OutboxFor
<1> QED BY <1>2, <1>3, <1>5 DEF u

\* A device that receives an answer.
Acknowledged(rs, q, ans, st) ==
    st = AcknowledgeAll([rows |-> Release(rs, ans), queue |-> q, ok |-> TRUE], ans)

LEMMA ReceiveKeeps ==
    ASSUME NEW n, NEW t, NEW sq, NEW rc, NEW d, NEW rs, NEW q, NEW mk, NEW c,
           DeviceSound(n, t, sq, rc, d, rs, q, mk, c), c.kind = "push",
           NEW ans, ans = c.results, NEW st, Acknowledged(rs, q, ans, st)
    PROVE  /\ st.ok = TRUE
           /\ DeviceSound(n, t, sq, rc, d, st.rows, Blocked(st.queue, ans), mk, Idle)
<1> DEFINE w == st.queue
           u == Blocked(w, ans)
<1>1. /\ OutboxFor(d, n, q) /\ RowsTyped(rs) /\ Processed(t, rc, q)
      /\ AnswersFor(n, t, q, ans) /\ CodesOfOnce(t, mk, AcceptedAnswers(ans))
  BY DEF DeviceSound, CallFor
<1>2. Ready(d, n, q, ans)
  BY <1>1, IsReady
<1>3. AckedTo(d, n, q, ans, rs, Len(ans), st)
  <2>1. PICK s : s = [rows |-> Release(rs, ans), queue |-> q, ok |-> TRUE]
    OBVIOUS
  <2>2. st = AcknowledgeAll(s, ans)
    BY <2>1 DEF Acknowledged
  <2> QED BY <2>1, <2>2, <1>1, <1>2, AckAllKeeps
<1>4. /\ st.ok = TRUE /\ AckQueue(d, n, q, ans, Len(ans), w)
      /\ AckRows(ans, rs, Len(ans), st.rows)
  BY <1>3 DEF AckedTo
<1>5. ans \in Seq(PushAnswer)
  BY <1>1 DEF AnswersFor
<1>6. \A j \in Accepted(ans) : j \in DOMAIN ans /\ j <= Len(ans)
  <2>1. \A j \in Accepted(ans) : j \in DOMAIN ans
    BY DEF Accepted
  <2>2. \A j \in DOMAIN ans : j <= Len(ans)
    BY <1>5
  <2> QED BY <2>1, <2>2
<1>7. OutboxFor(d, n, w) /\ Within(q, w)
  BY <1>4 DEF AckQueue
<1> HIDE DEF w
<1>8. /\ OutboxFor(d, n, u) /\ DOMAIN u = DOMAIN w
      /\ \A x \in DOMAIN w :
            /\ u[x].item = w[x].item /\ u[x].id = w[x].id
            /\ u[x].state = w[x].state \/ \E j \in DOMAIN ans : ans[j].id = w[x].id
  BY <1>5, <1>7, BlockedFacts
<1> HIDE DEF u
<1>9. Processed(t, rc, u)
  <2> SUFFICES ASSUME NEW x \in DOMAIN u,
                      u[x].state = "error" \/ \E r \in rc : r.id = u[x].id
               PROVE  t[u[x].item].ver > 0
    BY DEF Processed
  <2>1. PICK m \in DOMAIN q :
           w[x].item = q[m].item /\ w[x].id = q[m].id /\ w[x].state = q[m].state
    BY <1>7, <1>8 DEF Within
  <2>2. CASE \E j \in DOMAIN ans : ans[j].id = w[x].id
    <3>1. PICK j \in DOMAIN ans : ans[j].id = w[x].id
      BY <2>2
    <3>2. q[m].item = ans[j].item /\ t[ans[j].item].ver > 0
      BY <2>1, <3>1, <1>1 DEF AnswersFor
    <3> QED BY <2>1, <3>2, <1>8
  <2>3. CASE ~ \E j \in DOMAIN ans : ans[j].id = w[x].id
    <3>1. q[m].state = "error" \/ \E r \in rc : r.id = q[m].id
      BY <2>1, <2>3, <1>8
    <3> QED BY <2>1, <3>1, <1>1, <1>8 DEF Processed
  <2> QED BY <2>2, <2>3
<1>10. Arrived(t, u, mk, st.rows)
  <2> SUFFICES ASSUME NEW i \in Risk, t[i].ver > 0, t[i].seq <= mk,
                      \A x \in DOMAIN u : u[x].item # i
               PROVE  st.rows[i].code = t[i].code
    BY DEF Arrived
  <2>1. CASE \E j \in Accepted(ans) : ans[j].item = i
    <3>1. PICK j \in Accepted(ans) : ans[j].item = i
      BY <2>1
    <3>2. st.rows[i].code = ans[j].code
      BY <3>1, <1>4, <1>6 DEF AckRows
    <3>3. ans[j] \in AcceptedAnswers(ans)
      BY DEF AcceptedAnswers
    <3>4. ans[j].code = t[i].code
      BY <3>1, <3>3, <1>1 DEF CodesOfOnce
    <3> QED BY <3>2, <3>4
  <2>2. CASE ~ \E j \in Accepted(ans) : ans[j].item = i
    <3>1. \A m \in DOMAIN q : q[m].item # i
      <4> SUFFICES ASSUME NEW m \in DOMAIN q, q[m].item = i PROVE FALSE
        OBVIOUS
      <4>1. PICK x \in DOMAIN w : w[x].item = q[m].item
        BY <2>2, <1>4 DEF AckQueue
      <4> QED BY <4>1, <1>8
    <3>2. rs[i].code = t[i].code
      BY <3>1 DEF DeviceSound, Arrived
    <3>3. ASSUME NEW j \in Accepted(ans) PROVE ans[j].item # i /\ ans[j].code # rs[i].code
      <4>1. ans[j] \in AcceptedAnswers(ans)
        BY DEF AcceptedAnswers
      <4> QED BY <4>1, <2>2, <3>2, <1>1 DEF CodesOfOnce
    <3>4. st.rows[i].code = rs[i].code
      BY <3>3, <1>4 DEF AckRows
    <3> QED BY <3>2, <3>4
  <2> QED BY <2>1, <2>2
<1>11. CallFor(n, t, sq, u, mk, Idle)
  BY DEF CallFor, Idle
<1>12. RowsTyped(st.rows)
  BY <1>4 DEF AckRows
<1>13. DeviceSound(n, t, sq, rc, d, st.rows, u, mk, Idle)
  BY <1>8, <1>9, <1>10, <1>11, <1>12 DEF DeviceSound
<1> QED BY <1>4, <1>13 DEF u, w

-----------------------------------------------------------------------------
(* A pull is applied                                                       *)

ApplyStates == [rows : [Risk -> [code : Nat, ver : Int]], ok : BOOLEAN]

\* After the first k rows of a pull: rows that were applied have their codes,
\* and rows whose codes none of them has have kept theirs.
AppliedTo(ps, free, rs, k, st) ==
    /\ st \in ApplyStates
    /\ st.ok = TRUE
    /\ RowsTyped(st.rows)
    /\ \A j \in 1..k : ps[j].item \in free => st.rows[ps[j].item].code = ps[j].code
    /\ \A i \in Risk :
          (\A j \in DOMAIN ps : ps[j].item # i /\ ps[j].code # rs[i].code)
             => st.rows[i].code = rs[i].code

\* What a device needs of the rows it has pulled.
Applicable(ps) ==
    /\ ps \in Seq(PulledRow)
    /\ \A k, m \in DOMAIN ps : ps[k].item = ps[m].item => k = m
    /\ \A k, m \in DOMAIN ps : ps[k].item # ps[m].item => ps[k].code # ps[m].code

LEMMA ApplyRowKeeps ==
    ASSUME NEW ps, Applicable(ps), NEW free, NEW rs, NEW k \in DOMAIN ps, NEW st,
           AppliedTo(ps, free, rs, k - 1, st)
    PROVE  AppliedTo(ps, free, rs, k, ApplyRow(st, ps[k]))
<1> DEFINE r == ps[k]
           su == ApplyRow(st, r)
           i0 == r.item
           c0 == r.code
           v0 == r.ver
           rw == st.rows
           ru == RowsWith(rw, i0, c0, v0)
<1>1. ps \in Seq(PulledRow)
  BY DEF Applicable
<1>2. DOMAIN ps = 1..Len(ps) /\ Len(ps) \in Nat /\ k \in Nat /\ r \in PulledRow
  BY <1>1
<1>3. i0 \in Risk /\ c0 \in Nat /\ v0 \in Nat
  BY <1>2 DEF PulledRow
<1>4. /\ "rows" \in DOMAIN st /\ "ok" \in DOMAIN st /\ RowsTyped(rw)
      /\ st.ok \in BOOLEAN /\ st.ok = TRUE /\ DOMAIN st = {"rows", "ok"}
  BY DEF AppliedTo, ApplyStates
<1>5. su.rows = ru /\ su.ok = st.ok /\ DOMAIN su = DOMAIN st
  <2> HIDE DEF r
  <2>1. /\ ApplyRow(st, r).rows = RowsWith(st.rows, r.item, r.code, r.ver)
        /\ ApplyRow(st, r).ok = st.ok
        /\ DOMAIN ApplyRow(st, r) = DOMAIN st
    BY <1>3, <1>4, ApplyRowFacts
  <2> QED BY <2>1
<1>6. su = [rows |-> su.rows, ok |-> su.ok]
  <2>1. su = [f \in DOMAIN su |-> su[f]]
    <3> DEFINE x == [j \in Risk |->
                       IF j # r.item /\ st.rows[j].code = r.code
                       THEN [st.rows[j] EXCEPT !.code = NoCode] ELSE st.rows[j]]
               s1 == [st EXCEPT !.rows = x]
    <3>1. su = SetCode(s1, r.item, r.code, r.ver)
      BY DEF ApplyRow
    <3> HIDE DEF su, s1
    <3> QED BY <3>1 DEF SetCode
  <2> HIDE DEF su
  <2> QED BY <2>1, <1>4, <1>5
<1> HIDE DEF i0, c0, v0, rw, su
<1>7. RowPlaced(rw, i0, c0, ru)
  BY <1>3, <1>4, RowsFacts
<1> HIDE DEF ru
<1>8. /\ RowsTyped(ru) /\ ru[i0].code = c0
      /\ \A j \in Risk : j # i0 /\ rw[j].code # c0 => ru[j].code = rw[j].code
  BY <1>7 DEF RowPlaced
<1>9. su \in ApplyStates
  <2>1. ru \in [Risk -> [code : Nat, ver : Int]]
    BY <1>8 DEF RowsTyped
  <2>2. su = [rows |-> ru, ok |-> TRUE]
    BY <1>4, <1>5, <1>6
  <2> QED BY <2>1, <2>2 DEF ApplyStates
<1>10. ASSUME NEW j \in 1..k, ps[j].item \in free PROVE ru[ps[j].item].code = ps[j].code
  <2>1. CASE j = k
    BY <2>1, <1>8 DEF i0, c0
  <2>2. CASE j # k
    <3>1. j \in 1..(k - 1) /\ j \in DOMAIN ps
      BY <2>2, <1>2
    <3>2. ps[j].item # i0 /\ ps[j].code # c0
      BY <2>2, <3>1 DEF Applicable, i0, c0
    <3>3. rw[ps[j].item].code = ps[j].code
      BY <3>1, <1>10 DEF AppliedTo, rw
    <3>4. ps[j] \in PulledRow
      BY <1>1, <3>1
    <3>5. ps[j].item \in Risk
      BY <3>4 DEF PulledRow
    <3> QED BY <3>2, <3>3, <3>5, <1>8
  <2> QED BY <2>1, <2>2
<1>11. ASSUME NEW i \in Risk,
              \A j \in DOMAIN ps : ps[j].item # i /\ ps[j].code # rs[i].code
       PROVE  ru[i].code = rs[i].code
  <2>1. i # i0 /\ rs[i].code # c0
    BY <1>11 DEF i0, c0
  <2>2. rw[i].code = rs[i].code
    BY <1>11 DEF AppliedTo, rw
  <2> QED BY <2>1, <2>2, <1>8
<1>12. AppliedTo(ps, free, rs, k, su)
  BY <1>4, <1>5, <1>8, <1>9, <1>10, <1>11 DEF AppliedTo
<1> QED BY <1>12 DEF su

LEMMA ApplyAllKeeps ==
    ASSUME NEW ps, Applicable(ps), NEW free, NEW rs, RowsTyped(rs),
           NEW s, s = [rows |-> rs, ok |-> TRUE]
    PROVE  AppliedTo(ps, free, rs, Len(ps), ApplyRows(s, ps, free))
<1> DEFINE I == [k \in 0..Len(ps) |-> {st \in ApplyStates : AppliedTo(ps, free, rs, k, st)}]
<1>1. ps \in Seq(PulledRow)
  BY DEF Applicable
<1>2. Len(ps) \in Nat /\ DOMAIN ps = 1..Len(ps)
  BY <1>1
<1>3. s \in I[0]
  <2>1. rs \in [Risk -> [code : Nat, ver : Int]]
    BY DEF RowsTyped
  <2>2. s \in ApplyStates /\ s.rows = rs /\ s.ok = TRUE
    BY <2>1 DEF ApplyStates
  <2>3. \A j \in 1..0 : FALSE
    OBVIOUS
  <2>4. AppliedTo(ps, free, rs, 0, s)
    BY <2>2, <2>3 DEF AppliedTo
  <2>5. 0 \in 0..Len(ps)
    BY <1>2
  <2> QED BY <2>2, <2>4, <2>5
<1>4. ASSUME NEW k \in 1..Len(ps), NEW st \in I[k - 1]
      PROVE  ApplyStep(ps, free, k, st) \in I[k]
  <2>1. k \in 0..Len(ps) /\ k - 1 \in 0..Len(ps) /\ k \in Nat /\ k \in DOMAIN ps
    BY <1>2
  <2>2. AppliedTo(ps, free, rs, k - 1, st)
    BY <2>1
  <2>3. AppliedTo(ps, free, rs, k, ApplyStep(ps, free, k, st))
    <3>1. CASE ps[k].item \in free
      BY <3>1, <2>1, <2>2, ApplyRowKeeps DEF ApplyStep
    <3>2. CASE ps[k].item \notin free
      <4>1. ApplyStep(ps, free, k, st) = st
        BY <3>2 DEF ApplyStep
      <4>2. \A j \in 1..k : j \in 1..(k - 1) \/ j = k
        BY <2>1
      <4> QED BY <2>2, <3>2, <4>1, <4>2 DEF AppliedTo
    <3> QED BY <3>1, <3>2
  <2>4. ApplyStep(ps, free, k, st) \in ApplyStates
    BY <2>3 DEF AppliedTo
  <2> QED BY <2>1, <2>3, <2>4
<1> HIDE DEF I
<1>5. ApplyRows(s, ps, free) \in I[Len(ps)]
  BY <1>2, <1>3, <1>4, ApplyInduction
<1>6. Len(ps) \in 0..Len(ps)
  BY <1>2
<1> QED BY <1>5, <1>6 DEF I

\* A device that applies what it has pulled.
PullApplied(rs, q, ps, st) ==
    st = ApplyRows([rows |-> rs, ok |-> TRUE], ps,
                   {i \in Risk : \A k \in DOMAIN q : q[k].item # i})

LEMMA ApplyKeeps ==
    ASSUME NEW n, NEW t, NEW sq, TableSound(t, sq), NEW rc, NEW d, NEW rs, NEW q,
           NEW mk, NEW c, DeviceSound(n, t, sq, rc, d, rs, q, mk, c), c.kind = "pull",
           NEW ps, ps = c.rows, NEW up, up = c.upto,
           NEW st, PullApplied(rs, q, ps, st), NEW w, SameSkeleton(q, w)
    PROVE  /\ st.ok = TRUE
           /\ DeviceSound(n, t, sq, rc, d, st.rows, w, up, Idle)
<1>1. /\ OutboxFor(d, n, q) /\ RowsTyped(rs) /\ Processed(t, rc, q) /\ mk \in 0..sq
      /\ PulledFor(t, sq, mk, c)
  BY DEF DeviceSound, CallFor
<1>2. /\ ps \in Seq(PulledRow) /\ up \in mk..sq
      /\ \A k, m \in DOMAIN ps : ps[k].item = ps[m].item => k = m
      /\ CodesOfOnce(t, up, Range(ps))
      /\ \A i \in Risk : mk < t[i].seq /\ t[i].seq <= up
            => \E k \in DOMAIN ps : ps[k].item = i
  BY <1>1 DEF PulledFor
<1>3. \A k \in DOMAIN ps : ps[k] \in Range(ps)
  BY DEF Range
<1>4. Applicable(ps)
  BY <1>2, <1>3 DEF Applicable, CodesOfOnce
<1>0. PICK free : free = {i \in Risk : \A k \in DOMAIN q : q[k].item # i}
  OBVIOUS
<1>5. AppliedTo(ps, free, rs, Len(ps), st)
  <2>1. PICK s : s = [rows |-> rs, ok |-> TRUE]
    OBVIOUS
  <2>2. st = ApplyRows(s, ps, free)
    BY <2>1, <1>0 DEF PullApplied
  <2>3. AppliedTo(ps, free, rs, Len(ps), ApplyRows(s, ps, free))
    BY <2>1, <1>1, <1>4, ApplyAllKeeps
  <2> QED BY <2>2, <2>3
<1>6. mk \in Nat /\ up \in Nat /\ sq \in Nat /\ up \in 0..sq
  BY <1>1, <1>2 DEF TableSound
<1>7. DOMAIN ps = 1..Len(ps)
  BY <1>2
<1>8. Arrived(t, w, up, st.rows)
  <2> SUFFICES ASSUME NEW i \in Risk, t[i].ver > 0, t[i].seq <= up,
                      \A k \in DOMAIN w : w[k].item # i
               PROVE  st.rows[i].code = t[i].code
    BY DEF Arrived
  <2>1. \A k \in DOMAIN q : q[k].item # i
    BY DEF SameSkeleton
  <2>2. CASE \E k \in DOMAIN ps : ps[k].item = i
    <3>1. PICK k \in DOMAIN ps : ps[k].item = i
      BY <2>2
    <3>2. i \in free
      BY <2>1, <1>0
    <3>3. st.rows[i].code = ps[k].code
      BY <3>1, <3>2, <1>5, <1>7 DEF AppliedTo
    <3>4. ps[k].code = t[i].code
      BY <3>1, <1>2, <1>3 DEF CodesOfOnce
    <3> QED BY <3>3, <3>4
  <2>3. CASE ~ \E k \in DOMAIN ps : ps[k].item = i
    <3>1. t[i] \in SrvRow
      BY DEF TableSound
    <3>2. t[i].seq \in Nat
      BY <3>1 DEF SrvRow
    <3>3. t[i].seq <= mk
      BY <2>3, <3>2, <1>2, <1>6
    <3>4. rs[i].code = t[i].code
      BY <2>1, <3>3 DEF DeviceSound, Arrived
    <3>5. \A j \in DOMAIN ps : ps[j].item # i /\ ps[j].code # rs[i].code
      BY <2>3, <3>4, <1>2, <1>3 DEF CodesOfOnce
    <3>6. st.rows[i].code = rs[i].code
      BY <3>5, <1>5 DEF AppliedTo
    <3> QED BY <3>4, <3>6
  <2> QED BY <2>2, <2>3
<1>9. OutboxFor(d, n, w) /\ Processed(t, rc, w)
  BY <1>1 DEF OutboxFor, Processed, SameSkeleton
<1>10. CallFor(n, t, sq, w, up, Idle)
  BY DEF CallFor, Idle
<1>11. RowsTyped(st.rows) /\ st.ok = TRUE
  BY <1>5 DEF AppliedTo
<1> QED BY <1>6, <1>8, <1>9, <1>10, <1>11 DEF DeviceSound

-----------------------------------------------------------------------------
(* The invariant is inductive                                              *)

\* A step of device d that leaves the server alone.
DeviceStep(d, rw, w, mk, c) ==
    /\ srv' = srv /\ seq' = seq /\ receipt' = receipt
    /\ failed' = FALSE
    /\ spent'.saves \in {spent.saves, spent.saves + 1}
    /\ DOMAIN spent' = DOMAIN spent
    /\ DOMAIN row' = DOMAIN row /\ DOMAIN queue' = DOMAIN queue
    /\ DOMAIN mark' = DOMAIN mark /\ DOMAIN call' = DOMAIN call
    /\ row'[d] = rw /\ queue'[d] = w /\ mark'[d] = mk /\ call'[d] = c
    /\ \A x \in Device \ {d} : /\ row'[x] = row[x] /\ queue'[x] = queue[x]
                               /\ mark'[x] = mark[x] /\ call'[x] = call[x]

LEMMA DeviceStepKeeps ==
    ASSUME CodesInv, NEW d \in Device, NEW rw, NEW w, NEW mk, NEW c,
           DeviceStep(d, rw, w, mk, c),
           DeviceSound(spent'.saves, srv, seq, receipt, d, rw, w, mk, c)
    PROVE  CodesInv'
<1> DEFINE m == spent'.saves
           n == spent.saves
<1>1. n \in Nat /\ m \in {n, n + 1}
  BY DEF CodesInv, Functional, DeviceStep
<1>2. Functional'
  BY <1>1 DEF CodesInv, Functional, DeviceStep
<1>3. ReceiptsSound(n, receipt)
  BY DEF CodesInv
<1>4. ReceiptsSound(m, receipt)
  <2> HIDE DEF m, n
  <2> QED BY <1>1, <1>3, MoreReceipts
<1>5. ASSUME NEW x \in Device
      PROVE  DeviceSound(m, srv', seq', receipt', x, row'[x], queue'[x], mark'[x], call'[x])
  <2>1. CASE x = d
    BY <2>1 DEF DeviceStep
  <2>2. CASE x # d
    <3>1. DeviceSound(n, srv, seq, receipt, x, row[x], queue[x], mark[x], call[x])
      BY DEF CodesInv
    <3>2. DeviceSound(m, srv, seq, receipt, x, row[x], queue[x], mark[x], call[x])
      <4> HIDE DEF m, n
      <4> QED BY <3>1, <1>1, MoreSaves
    <3> QED BY <2>2, <3>2 DEF DeviceStep
  <2> QED BY <2>1, <2>2
<1>6. srv' = srv /\ seq' = seq /\ receipt' = receipt /\ failed' = FALSE
  BY DEF DeviceStep
<1>7. TableSound(srv', seq')
  BY <1>6 DEF CodesInv
<1>8. ReceiptsSound(m, receipt')
  BY <1>4, <1>6
<1> QED BY <1>2, <1>5, <1>6, <1>7, <1>8 DEF CodesInv

\* What the invariant says of one device.
LEMMA DeviceFacts ==
    ASSUME CodesInv, NEW d \in Device
    PROVE  /\ DeviceSound(spent.saves, srv, seq, receipt, d,
                          row[d], queue[d], mark[d], call[d])
           /\ TableSound(srv, seq) /\ ReceiptsSound(spent.saves, receipt)
           /\ spent.saves \in Nat /\ Functional /\ failed = FALSE
           /\ RowsTyped(row[d]) /\ OutboxFor(d, spent.saves, queue[d])
           /\ Processed(srv, receipt, queue[d])
           /\ queue[d] \in Seq(OutboxEntry)
BY DEF CodesInv, DeviceSound, OutboxFor, Functional

\* The queued change of an item.
LEMMA EntryOfFacts ==
    ASSUME NEW d, NEW n, OutboxFor(d, n, queue[d]), NEW i, Open(d, i) # {}
    PROVE  /\ \E k \in DOMAIN queue[d] : EntryOf(d, i) = queue[d][k] /\ queue[d][k].item = i
           /\ EntryOf(d, i) \in OutboxEntry
           /\ EntryOf(d, i).item = i
<1>1. PICK k : k = (CHOOSE x \in Open(d, i) : TRUE)
  OBVIOUS
<1>2. k \in Open(d, i)
  BY <1>1
<1>3. k \in DOMAIN queue[d] /\ queue[d][k].item = i /\ EntryOf(d, i) = queue[d][k]
  BY <1>1, <1>2 DEF Open, EntryOf
<1>4. queue[d][k] \in OutboxEntry
  BY <1>3 DEF OutboxFor
<1> QED BY <1>3, <1>4

\* A new entry in the outbox.
LEMMA NewEntryReplaces ==
    ASSUME NEW d \in Device, NEW i \in Risk, NEW code \in Nat \ {0},
           NEW typed \in BOOLEAN, NEW base \in Nat, spent.saves \in Nat
    PROVE  Replacing(spent.saves, d, queue[d], NewEntry(d, i, code, typed, base),
                     Replaced(d, NewEntry(d, i, code, typed, base)))
           /\ NewEntry(d, i, code, typed, base).item = i
<1> DEFINE e == NewEntry(d, i, code, typed, base)
           z == [code |-> NoCode, ver |-> 0]
           id0 == <<d, spent.saves>>
<1>1. z \in CodeRow
  BY DEF CodeRow, NoCode
<1>2. id0 \in ChangeId
  BY DEF ChangeId
<1>3. e = [item |-> i, code |-> code, typed |-> typed, base |-> base, id |-> id0,
           sent |-> FALSE, state |-> "pending", copy |-> z]
  BY DEF NewEntry
<1> HIDE DEF e, z
<1>4. e \in OutboxEntry /\ e.id = id0 /\ e.state = "pending" /\ e.item = i
  <2> HIDE DEF id0
  <2> QED BY <1>1, <1>2, <1>3 DEF OutboxEntry
<1>5. Replaced(d, e) = Append(Only(queue[d], {x \in Range(queue[d]) : x.item # e.item}), e)
  BY DEF Replaced, Without
<1>6. Replacing(spent.saves, d, queue[d], e, Replaced(d, e))
  BY <1>4, <1>5 DEF Replacing
<1> QED BY <1>4, <1>6 DEF e

\* The entries of a save over a conflict.
Retyped(q, O, code, typed, w) ==
    /\ DOMAIN w = DOMAIN q
    /\ w = [k \in DOMAIN q |-> IF k \in O
                               THEN [q[k] EXCEPT !.code = code, !.typed = typed]
                               ELSE q[k]]

LEMMA RetypedSkeleton ==
    ASSUME NEW q \in Seq(OutboxEntry), NEW O, NEW code \in Nat \ {0}, NEW typed \in BOOLEAN,
           NEW w, Retyped(q, O, code, typed, w)
    PROVE  SameSkeleton(q, w)
<1>1. DOMAIN q = 1..Len(q) /\ Len(q) \in Nat
  OBVIOUS
<1>2. DOMAIN w = DOMAIN q
  BY DEF Retyped
<1>3. ASSUME NEW k \in DOMAIN q
      PROVE  /\ w[k] \in OutboxEntry
             /\ w[k].item = q[k].item /\ w[k].id = q[k].id /\ w[k].state = q[k].state
  <2>1. q[k] \in OutboxEntry
    OBVIOUS
  <2>2. PICK e : e = q[k] /\ e \in OutboxEntry
    BY <2>1
  <2> DEFINE e1 == [e EXCEPT !.code = code]
             e2 == [e1 EXCEPT !.typed = typed]
  <2>3. e1 \in OutboxEntry /\ e1.item = e.item /\ e1.id = e.id /\ e1.state = e.state
    BY <2>2 DEF OutboxEntry
  <2>4. w[k] = IF k \in O THEN e2 ELSE e
    <3>1. w[k] = IF k \in O THEN [q[k] EXCEPT !.code = code, !.typed = typed] ELSE q[k]
      BY DEF Retyped
    <3> QED BY <3>1, <2>2
  <2> HIDE DEF e1
  <2>5. e2 \in OutboxEntry /\ e2.item = e1.item /\ e2.id = e1.id /\ e2.state = e1.state
    BY <2>3 DEF OutboxEntry
  <2> HIDE DEF e2
  <2> QED BY <2>2, <2>3, <2>4, <2>5
<1>4. w = [k \in 1..Len(q) |-> w[k]]
  <2>1. w = [k \in DOMAIN q |-> w[k]]
    BY DEF Retyped
  <2> QED BY <2>1, <1>1
<1>5. w \in Seq(OutboxEntry)
  <2>1. \A k \in 1..Len(q) : w[k] \in OutboxEntry
    BY <1>1, <1>3
  <2> QED BY <1>1, <1>4, <2>1
<1> QED BY <1>2, <1>3, <1>5 DEF SameSkeleton

\* The rows of a save.
RowSaved(rs, i, code, ver, rw) == rw = [rs EXCEPT ![i] = [code |-> code, ver |-> ver]]
RowsLike(rs, i, rw) == RowsTyped(rw) /\ \A j \in Risk : j # i => rw[j] = rs[j]

LEMMA SavedRows ==
    ASSUME NEW rs, RowsTyped(rs), NEW i \in Risk, NEW code \in Nat, NEW ver \in Nat,
           NEW rw, RowSaved(rs, i, code, ver, rw)
    PROVE  RowsLike(rs, i, rw)
<1>0. rw = [rs EXCEPT ![i] = [code |-> code, ver |-> ver]]
  BY DEF RowSaved
<1>1. rs \in [Risk -> [code : Nat, ver : Int]]
  BY DEF RowsTyped
<1>2. \A j \in Risk : j # i => rw[j] = rs[j]
  BY <1>0, <1>1
<1> DEFINE r == [code |-> code, ver |-> ver]
<1>3. r \in [code : Nat, ver : Int] /\ r.ver >= Absent
  BY DEF Absent
<1>4. rw[i] = r
  BY <1>0, <1>1
<1> HIDE DEF r
<1>5. rw \in [Risk -> [code : Nat, ver : Int]]
  BY <1>0, <1>1, <1>3 DEF r
<1>6. ASSUME NEW j \in Risk PROVE rw[j].ver >= Absent
  BY <1>2, <1>3, <1>4 DEF RowsTyped
<1> QED BY <1>2, <1>5, <1>6 DEF RowsTyped, RowsLike

LEMMA SaveKeeps ==
    ASSUME CodesInv, NEW d \in Device, NEW i \in Risk, NEW asked \in Code \cup {NoCode},
           Save(d, i, asked)
    PROVE  CodesInv'
<1> DEFINE n == spent.saves
           blank == IF row[d][i].ver # Absent /\ row[d][i].code # NoCode
                    THEN row[d][i].code ELSE NextCode(d)
           code == IF asked = NoCode THEN blank ELSE asked
           typed == asked \notin {NoCode, row[d][i].code}
           ver == IF row[d][i].ver = Absent THEN 0 ELSE row[d][i].ver
           rw == [row[d] EXCEPT ![i] = [code |-> code, ver |-> ver]]
           q == queue[d]
           w == Queued(d, i, code, typed)
<1>1. /\ DeviceSound(n, srv, seq, receipt, d, row[d], q, mark[d], call[d])
      /\ ReceiptsSound(n, receipt) /\ n \in Nat /\ Functional /\ failed = FALSE
      /\ RowsTyped(row[d]) /\ OutboxFor(d, n, q) /\ q \in Seq(OutboxEntry)
  BY DeviceFacts
<1>2. row[d][i] \in [code : Nat, ver : Int] /\ row[d][i].ver >= Absent
  BY <1>1 DEF RowsTyped
<1>3. code \in Nat \ {0}
  <2>1. NextCode(d) \in Nat \ {0}
    BY <1>1, NextCodeType
  <2>2. blank \in Nat \ {0}
    BY <2>1, <1>2 DEF NoCode
  <2>3. asked # NoCode => asked \in Nat \ {0}
    BY CodesAssumption
  <2> HIDE DEF blank
  <2> QED BY <2>2, <2>3
<1>4. typed \in BOOLEAN
  OBVIOUS
<1>5. ver \in Nat
  BY <1>2 DEF Absent
<1>6. /\ row' = [row EXCEPT ![d] = rw]
      /\ queue' = [queue EXCEPT ![d] = w]
      /\ spent' = [spent EXCEPT !.saves = @ + 1, !.typed = IF typed THEN @ + 1 ELSE @]
      /\ srv' = srv /\ seq' = seq /\ receipt' = receipt
      /\ mark' = mark /\ call' = call /\ failed' = failed
  BY DEF Save, serverVars
<1> HIDE DEF code, typed, ver
<1>7. RowsTyped(rw) /\ \A j \in Risk : j # i => rw[j] = row[d][j]
  <2>1. code \in Nat
    BY <1>3
  <2> DEFINE rs == row[d]
  <2>2. RowSaved(rs, i, code, ver, rw) /\ RowsTyped(rs)
    BY <1>1 DEF RowSaved
  <2> HIDE DEF rw, rs
  <2>3. RowsLike(rs, i, rw)
    BY <2>1, <2>2, <1>5, SavedRows
  <2> QED BY <2>3 DEF rs, RowsLike
<1> HIDE DEF rw
<1>8. ASSUME NEW base \in Nat, w = Replaced(d, NewEntry(d, i, code, typed, base))
      PROVE  DeviceSound(n + 1, srv, seq, receipt, d, rw, w, mark[d], call[d])
  <2> DEFINE e == NewEntry(d, i, code, typed, base)
  <2>1. Replacing(n, d, q, e, Replaced(d, e)) /\ e.item = i
    BY <1>1, <1>3, <1>4, NewEntryReplaces
  <2> HIDE DEF e, w
  <2>2. Replacing(n, d, q, e, w) /\ \A j \in Risk : j # e.item => rw[j].code = row[d][j].code
    BY <2>1, <1>7, <1>8 DEF e
  <2> HIDE DEF q, n
  <2> QED BY <2>2, <1>1, <1>7, ReplacingKeeps
<1>9. DeviceSound(n + 1, srv, seq, receipt, d, rw, w, mark[d], call[d])
  <2>1. CASE Open(d, i) = {}
    <3> DEFINE base == IF row[d][i].ver > 0 THEN row[d][i].ver ELSE 0
    <3>1. base \in Nat
      BY <1>2
    <3>2. w = Replaced(d, NewEntry(d, i, code, typed, base))
      BY <2>1 DEF Queued
    <3> HIDE DEF base, w
    <3> QED BY <3>1, <3>2, <1>8
  <2>2. CASE Open(d, i) # {} /\ EntryOf(d, i).state = "conflict"
    <3>1. w = [k \in DOMAIN q |-> IF k \in Open(d, i)
                                  THEN [q[k] EXCEPT !.code = code, !.typed = typed]
                                  ELSE q[k]]
      BY <2>2 DEF Queued
    <3> DEFINE O == Open(d, i)
    <3>2. SameSkeleton(q, w)
      <4>1. Retyped(q, O, code, typed, w)
        BY <3>1 DEF Retyped
      <4> HIDE DEF w, q, O
      <4> QED BY <4>1, <1>1, <1>3, <1>4, RetypedSkeleton
    <3>3. \A j \in Risk : rw[j].code = row[d][j].code \/ \E k \in DOMAIN q : q[k].item = j
      BY <2>2, <1>7 DEF Open
    <3> HIDE DEF w
    <3>4. DeviceSound(n, srv, seq, receipt, d, rw, w, mark[d], call[d])
      <4> HIDE DEF q, n
      <4> QED BY <3>2, <3>3, <1>1, <1>7, SkeletonKeeps
    <3> HIDE DEF n
    <3> QED BY <3>4, <1>1, MoreSaves
  <2>3. CASE Open(d, i) # {} /\ EntryOf(d, i).state # "conflict"
    <3> DEFINE old == EntryOf(d, i)
               base == IF old.base = 0 /\ old.sent THEN 1 ELSE old.base
    <3>1. old \in OutboxEntry
      BY <2>3, <1>1, EntryOfFacts
    <3>2. w = Replaced(d, NewEntry(d, i, code, typed, base))
      BY <2>3 DEF Queued
    <3> HIDE DEF old
    <3>3. old.base \in Nat
      BY <3>1 DEF OutboxEntry
    <3>4. base \in Nat
      BY <3>3
    <3> HIDE DEF base, w
    <3> QED BY <3>2, <3>4, <1>8
  <2> QED BY <2>1, <2>2, <2>3
<1> HIDE DEF w
<1>10. spent'.saves = n + 1 /\ DOMAIN spent' = DOMAIN spent
  BY <1>1, <1>6 DEF Functional
<1>11. DeviceStep(d, rw, w, mark[d], call[d])
  BY <1>1, <1>6, <1>10 DEF DeviceStep, Functional
<1>12. DeviceSound(spent'.saves, srv, seq, receipt, d, rw, w, mark[d], call[d])
  BY <1>9, <1>10
<1> QED BY <1>11, <1>12, DeviceStepKeeps


\* What the copy of a queued change says.
LEMMA CopyFacts ==
    ASSUME NEW old \in OutboxEntry
    PROVE  /\ old.copy.code \in Nat /\ old.copy.ver \in Nat
           /\ old.code \in Nat \ {0} /\ old.typed \in BOOLEAN
<1>1. old.copy \in CodeRow /\ old.code \in Nat \ {0} /\ old.typed \in BOOLEAN
  BY DEF OutboxEntry
<1> QED BY <1>1 DEF CodeRow

LEMMA KeepMineKeeps ==
    ASSUME CodesInv, NEW d \in Device, NEW i \in Risk, KeepMine(d, i)
    PROVE  CodesInv'
<1> DEFINE n == spent.saves
           old == EntryOf(d, i)
           base == IF row[d][i].ver > old.copy.ver THEN row[d][i].ver ELSE old.copy.ver
           code == old.code
           typed == old.typed
           e == NewEntry(d, i, code, typed, base)
           w == Replaced(d, e)
           q == queue[d]
           rs == row[d]
<1>1. /\ DeviceSound(n, srv, seq, receipt, d, rs, q, mark[d], call[d])
      /\ ReceiptsSound(n, receipt) /\ n \in Nat /\ Functional /\ failed = FALSE
      /\ RowsTyped(rs) /\ OutboxFor(d, n, q)
  BY DeviceFacts
<1>2. rs[i].ver \in Int
  BY <1>1 DEF RowsTyped
<1>3. old \in OutboxEntry
  BY <1>1, EntryOfFacts DEF KeepMine, Conflicting
<1>4. /\ queue' = [queue EXCEPT ![d] = w]
      /\ spent' = [spent EXCEPT !.saves = @ + 1]
      /\ srv' = srv /\ seq' = seq /\ receipt' = receipt
      /\ row' = row /\ mark' = mark /\ call' = call /\ failed' = failed
  BY DEF KeepMine, serverVars
<1> HIDE DEF old
<1>5. old.copy.ver \in Nat /\ code \in Nat \ {0} /\ typed \in BOOLEAN
  BY <1>3, CopyFacts
<1>6. base \in Nat
  BY <1>2, <1>5
<1> HIDE DEF code, typed, base
<1>7. Replacing(n, d, q, e, w)
  BY <1>1, <1>5, <1>6, NewEntryReplaces
<1> HIDE DEF e, w
<1>8. DeviceSound(n + 1, srv, seq, receipt, d, rs, w, mark[d], call[d])
  <2> HIDE DEF n, q, rs
  <2>1. \A j \in Risk : j # e.item => rs[j].code = rs[j].code
    OBVIOUS
  <2> QED BY <2>1, <1>1, <1>7, ReplacingKeeps
<1>9. spent'.saves = n + 1 /\ DOMAIN spent' = DOMAIN spent
  BY <1>1, <1>4 DEF Functional
<1>10. DeviceStep(d, rs, w, mark[d], call[d])
  BY <1>1, <1>4, <1>9 DEF DeviceStep, Functional
<1>11. DeviceSound(spent'.saves, srv, seq, receipt, d, rs, w, mark[d], call[d])
  BY <1>8, <1>9
<1> QED BY <1>10, <1>11, DeviceStepKeeps

\* The rows after the server's copy of a conflict is taking.
LEMMA CopyTaken ==
    ASSUME NEW d \in Device, NEW i \in Risk, NEW rs, RowsTyped(rs),
           NEW old \in OutboxEntry, NEW r,
           r.item = i, r.code = old.copy.code, r.ver = old.copy.ver
    PROVE  RowPlaced(rs, i, old.copy.code, ApplyRow([rows |-> rs, ok |-> TRUE], r).rows)
<1> DEFINE st == [rows |-> rs, ok |-> TRUE]
           c == old.copy.code
           v == old.copy.ver
<1>1. c \in Nat /\ v \in Nat
  BY CopyFacts
<1>2. "rows" \in DOMAIN st /\ "ok" \in DOMAIN st /\ st.rows = rs /\ st.ok = TRUE
  OBVIOUS
<1>3. r.item = i /\ r.code = c /\ r.ver = v
  OBVIOUS
<1> HIDE DEF st, c, v
<1>4. ApplyRow(st, r).rows = RowsWith(st.rows, r.item, r.code, r.ver)
  <2>1. RowsTyped(st.rows) /\ st.ok \in BOOLEAN /\ r.item \in Risk
    BY <1>2, <1>3
  <2> QED BY <1>2, <2>1, ApplyRowFacts
<1>5. RowPlaced(rs, i, c, RowsWith(rs, i, c, v))
  BY <1>1, RowsFacts
<1>6. RowPlaced(rs, i, c, ApplyRow(st, r).rows)
  BY <1>2, <1>3, <1>4, <1>5
<1> QED BY <1>6 DEF st, c

LEMMA UseServerKeeps ==
    ASSUME CodesInv, NEW d \in Device, NEW i \in Risk, UseServer(d, i)
    PROVE  CodesInv'
<1> DEFINE n == spent.saves
           old == EntryOf(d, i)
           r == SavedCopy(d, i)
           q == queue[d]
           rs == row[d]
           w == Without(d, i)
           rw == ApplyRow([rows |-> rs, ok |-> TRUE], r).rows
<1>1. /\ TableSound(srv, seq) /\ Processed(srv, receipt, q)
      /\ n \in Nat /\ Functional /\ failed = FALSE
      /\ RowsTyped(rs) /\ OutboxFor(d, n, q)
  BY DeviceFacts
<1>2. old \in OutboxEntry
  BY <1>1, EntryOfFacts DEF UseServer, Conflicting
<1>3. /\ row' = [row EXCEPT ![d] = rw]
      /\ queue' = [queue EXCEPT ![d] = w]
      /\ mark' = [mark EXCEPT ![d] = 0]
      /\ call[d] = Idle
      /\ spent' = spent
      /\ srv' = srv /\ seq' = seq /\ receipt' = receipt
      /\ call' = call /\ failed' = failed
  BY <1>1 DEF UseServer, serverVars, Conflicting, Functional
<1>4. r.item = i /\ r.code = old.copy.code /\ r.ver = old.copy.ver
  BY DEF SavedCopy
<1>5. RowsTyped(rw)
  <2> HIDE DEF old, r, rs
  <2>1. RowPlaced(rs, i, old.copy.code, rw)
    BY <1>1, <1>2, <1>4, CopyTaken
  <2> HIDE DEF rw
  <2> QED BY <2>1 DEF RowPlaced
<1> DEFINE keep == {e \in Range(q) : e.item # i}
<1>6. Selected(q, keep, w) /\ OutboxFor(d, n, w)
  <2>1. w = Only(q, keep)
    BY DEF Without
  <2> HIDE DEF w, q, n, keep
  <2> QED BY <2>1, <1>1, OnlyOutbox
<1>7. Processed(srv, receipt, w)
  <2> HIDE DEF w, q
  <2> QED BY <1>1, <1>6 DEF Selected, Processed
<1> HIDE DEF rw, w
<1>8. DeviceSound(n, srv, seq, receipt, d, rw, w, 0, Idle)
  <2> HIDE DEF n
  <2> QED BY <1>1, <1>5, <1>6, <1>7, Rewound
<1> DEFINE z == 0
<1>9. DeviceStep(d, rw, w, z, Idle)
  <2>1. mark'[d] = z
    BY <1>1, <1>3 DEF Functional
  <2> HIDE DEF z
  <2> QED BY <2>1, <1>1, <1>3 DEF DeviceStep, Functional
<1>10. DeviceSound(spent'.saves, srv, seq, receipt, d, rw, w, z, Idle)
  BY <1>3, <1>8
<1> HIDE DEF z
<1> QED BY <1>9, <1>10, DeviceStepKeeps

LEMMA MergeMineKeeps ==
    ASSUME CodesInv, NEW d \in Device, NEW i \in Risk, MergeMine(d, i)
    PROVE  CodesInv'
<1> DEFINE n == spent.saves
           old == EntryOf(d, i)
           r == SavedCopy(d, i)
           q == queue[d]
           rs == row[d]
           taking == ApplyRow([rows |-> rs, ok |-> TRUE], r).rows
           code == old.code
           typed == old.typed
           base == old.copy.ver
           e == NewEntry(d, i, code, typed, base)
           w == Replaced(d, e)
           rw == [taking EXCEPT ![i].code = code]
<1>1. /\ TableSound(srv, seq) /\ Processed(srv, receipt, q) /\ ReceiptsSound(n, receipt)
      /\ n \in Nat /\ Functional /\ failed = FALSE
      /\ RowsTyped(rs) /\ OutboxFor(d, n, q)
  BY DeviceFacts
<1>2. old \in OutboxEntry
  BY <1>1, EntryOfFacts DEF MergeMine, Conflicting
<1>3. /\ row' = [row EXCEPT ![d] = rw]
      /\ queue' = [queue EXCEPT ![d] = w]
      /\ mark' = [mark EXCEPT ![d] = 0]
      /\ call[d] = Idle
      /\ spent' = [spent EXCEPT !.saves = @ + 1]
      /\ srv' = srv /\ seq' = seq /\ receipt' = receipt
      /\ call' = call /\ failed' = failed
  BY DEF MergeMine, serverVars, Conflicting
<1>4. r.item = i /\ r.code = old.copy.code /\ r.ver = old.copy.ver
  BY DEF SavedCopy
<1>5. RowsTyped(taking)
  <2> HIDE DEF old, r, rs
  <2>1. RowPlaced(rs, i, old.copy.code, taking)
    BY <1>1, <1>2, <1>4, CopyTaken
  <2> HIDE DEF taking
  <2> QED BY <2>1 DEF RowPlaced
<1> HIDE DEF old
<1>6. base \in Nat /\ code \in Nat \ {0} /\ typed \in BOOLEAN
  BY <1>2, CopyFacts
<1> HIDE DEF code, typed, base, taking
<1>7. RowsTyped(rw)
  <2>1. taking \in [Risk -> [code : Nat, ver : Int]]
    BY <1>5 DEF RowsTyped
  <2>2. PICK x : x = taking[i]
    OBVIOUS
  <2>3. x \in [code : Nat, ver : Int] /\ x.ver >= Absent
    BY <2>1, <2>2, <1>5 DEF RowsTyped
  <2> DEFINE y == [x EXCEPT !.code = code]
  <2>4. y \in [code : Nat, ver : Int] /\ y.ver >= Absent
    BY <2>3, <1>6
  <2>5. rw = [taking EXCEPT ![i] = y]
    BY <2>1, <2>2
  <2> HIDE DEF y, rw
  <2>6. rw \in [Risk -> [code : Nat, ver : Int]]
    BY <2>1, <2>4, <2>5
  <2>7. ASSUME NEW j \in Risk PROVE rw[j].ver >= Absent
    BY <2>1, <2>4, <2>5, <1>5 DEF RowsTyped
  <2> QED BY <2>6, <2>7 DEF RowsTyped
<1>8. Replacing(n, d, q, e, w)
  BY <1>1, <1>6, NewEntryReplaces
<1> HIDE DEF e, w, rw
<1>9. OutboxFor(d, n + 1, w) /\ Processed(srv, receipt, w)
  <2> HIDE DEF n, q
  <2>1. OutboxFor(d, n + 1, w)
    BY <1>1, <1>8, ReplacingFacts
  <2>2. Processed(srv, receipt, w)
    BY <1>1, <1>8, ReplacingProcessed
  <2> QED BY <2>1, <2>2
<1>10. DeviceSound(n + 1, srv, seq, receipt, d, rw, w, 0, Idle)
  <2> DEFINE m == n + 1
  <2>1. OutboxFor(d, m, w)
    BY <1>9
  <2> HIDE DEF m
  <2>2. DeviceSound(m, srv, seq, receipt, d, rw, w, 0, Idle)
    BY <2>1, <1>1, <1>7, <1>9, Rewound
  <2> QED BY <2>2 DEF m
<1>11. spent'.saves = n + 1 /\ DOMAIN spent' = DOMAIN spent
  BY <1>1, <1>3 DEF Functional
<1> DEFINE z == 0
<1>12. DeviceStep(d, rw, w, z, Idle)
  <2>1. mark'[d] = z
    BY <1>1, <1>3 DEF Functional
  <2> HIDE DEF z
  <2> QED BY <2>1, <1>1, <1>3, <1>11 DEF DeviceStep, Functional
<1>13. DeviceSound(spent'.saves, srv, seq, receipt, d, rw, w, z, Idle)
  BY <1>10, <1>11
<1> HIDE DEF z
<1> QED BY <1>12, <1>13, DeviceStepKeeps


-----------------------------------------------------------------------------
(* The steps of a pass                                                     *)

\* The answers of a push that has just been processed.
LEMMA FreshAnswers ==
    ASSUME NEW d, NEW n, NEW q, OutboxFor(d, n, q), NEW u, NEW sr, TableSound(u, sr),
           NEW ans, ResultsOf(Len(q), u, q, ans), NEW w, SameSkeleton(q, w), NEW mk
    PROVE  /\ AnswersFor(n, u, w, ans)
           /\ CodesOfOnce(u, mk, AcceptedAnswers(ans))
<1>1. q \in Seq(OutboxEntry)
  BY DEF OutboxFor
<1>2. DOMAIN q = 1..Len(q)
  BY <1>1
<1>3. ans \in Seq(PushAnswer)
  BY DEF ResultsOf
<1>4. ASSUME NEW a \in DOMAIN ans
      PROVE  /\ ans[a].id[2] < n
             /\ u[ans[a].item].ver > 0
             /\ \E m \in DOMAIN w : w[m].item = ans[a].item /\ w[m].state = "pending"
             /\ \A m \in DOMAIN w : w[m].id = ans[a].id => w[m].item = ans[a].item
  <2>1. PICK m \in DOMAIN q : /\ q[m].state = "pending"
                              /\ q[m].item = ans[a].item
                              /\ q[m].id = ans[a].id
    BY <1>2 DEF ResultsOf
  <2>2. u[ans[a].item].ver > 0
    BY DEF ResultsOf
  <2>3. ans[a].id[2] < n
    BY <2>1 DEF OutboxFor
  <2>4. \E k \in DOMAIN w : w[k].item = ans[a].item /\ w[k].state = "pending"
    BY <2>1 DEF SameSkeleton
  <2>5. ASSUME NEW k \in DOMAIN w, w[k].id = ans[a].id PROVE w[k].item = ans[a].item
    <3>1. k \in DOMAIN q /\ q[k].id = q[m].id /\ w[k].item = q[k].item
      BY <2>1, <2>5 DEF SameSkeleton
    <3>2. k = m
      BY <3>1 DEF OutboxFor
    <3> QED BY <3>1, <3>2, <2>1
  <2> QED BY <2>2, <2>3, <2>4, <2>5
<1>5. \A a, b \in DOMAIN ans : ans[a].item = ans[b].item => a = b
  BY DEF ResultsOf
<1>6. AnswersFor(n, u, w, ans)
  BY <1>3, <1>4, <1>5 DEF AnswersFor
<1>7. \A c \in AcceptedAnswers(ans) : /\ c.item \in Risk
                                      /\ c.code = u[c.item].code /\ u[c.item].ver > 0
  <2> SUFFICES ASSUME NEW a \in Accepted(ans)
               PROVE  /\ ans[a].item \in Risk
                      /\ ans[a].code = u[ans[a].item].code /\ u[ans[a].item].ver > 0
    BY DEF AcceptedAnswers
  <2>1. a \in DOMAIN ans /\ ans[a].outcome = "accepted"
    BY DEF Accepted
  <2>2. ans[a] \in PushAnswer
    BY <2>1, <1>3
  <2>3. ans[a].item \in Risk
    BY <2>2 DEF PushAnswer
  <2> QED BY <2>1, <2>3 DEF ResultsOf
<1>8. CodesOfOnce(u, mk, AcceptedAnswers(ans))
  BY <1>7 DEF CodesOfOnce, TableSound
<1> QED BY <1>6, <1>8

\* A push leaves every outbox with what was processed under its identifiers.
LEMMA PushProcessed ==
    ASSUME NEW d, NEW n, NEW q, OutboxFor(d, n, q), NEW t, NEW sq, NEW rc,
           NEW u, NEW sr, NEW rd, TablesAfter(n, Len(q), t, sq, rc, q, u, sr, rd),
           TableSound(t, sq), NEW x, NEW p, OutboxFor(x, n, p), x = d => p = q,
           Processed(t, rc, p)
    PROVE  Processed(u, rd, p)
<1>1. q \in Seq(OutboxEntry) /\ p \in Seq(OutboxEntry)
  BY DEF OutboxFor
<1>2. DOMAIN q = 1..Len(q)
  BY <1>1
<1>3. Advances(t, sq, u, sr)
  BY DEF TablesAfter, Advances
<1>4. ASSUME NEW k \in DOMAIN p, p[k].state = "error" \/ \E r \in rd : r.id = p[k].id
      PROVE  u[p[k].item].ver > 0
  <2>1. p[k] \in OutboxEntry
    BY <1>1
  <2>2. p[k].item \in Risk
    BY <2>1 DEF OutboxEntry
  <2>3. CASE t[p[k].item].ver > 0
    BY <2>2, <2>3, <1>3, StillThere
  <2>4. CASE ~(t[p[k].item].ver > 0)
    <3>1. p[k].state # "error" /\ \A r \in rc : r.id # p[k].id
      BY <2>4 DEF Processed
    <3>2. PICK r \in rd : r.id = p[k].id
      BY <3>1, <1>4
    <3>3. PICK m \in DOMAIN q : q[m].id = r.id /\ u[q[m].item].ver > 0
      BY <3>1, <3>2, <1>2 DEF TablesAfter
    <3>4. q[m].id[1] = d /\ p[k].id[1] = x
      BY DEF OutboxFor
    <3>5. p = q
      BY <3>2, <3>3, <3>4
    <3>6. k = m
      BY <3>2, <3>3, <3>5 DEF OutboxFor
    <3> QED BY <3>3, <3>5, <3>6
  <2> QED BY <2>3, <2>4
<1> QED BY <1>4 DEF Processed

\* Entries that are marked or given another copy.
Remade(q, w) ==
    /\ DOMAIN w = DOMAIN q
    /\ w = [k \in DOMAIN q |-> w[k]]
    /\ \A k \in DOMAIN q :
          w[k] \in OutboxEntry
          /\ w[k].item = q[k].item /\ w[k].id = q[k].id /\ w[k].state = q[k].state

LEMMA RemadeSkeleton ==
    ASSUME NEW q \in Seq(OutboxEntry), NEW w, Remade(q, w)
    PROVE  SameSkeleton(q, w)
<1>1. DOMAIN q = 1..Len(q) /\ Len(q) \in Nat
  OBVIOUS
<1>2. w = [k \in 1..Len(q) |-> w[k]]
  BY <1>1 DEF Remade
<1>3. \A k \in 1..Len(q) : w[k] \in OutboxEntry
  BY <1>1 DEF Remade
<1>4. w \in Seq(OutboxEntry)
  BY <1>1, <1>2, <1>3
<1> QED BY <1>4 DEF Remade, SameSkeleton

Marked(q, w) ==
    /\ DOMAIN w = DOMAIN q
    /\ w = [k \in DOMAIN q |-> IF q[k].state = "pending"
                               THEN [q[k] EXCEPT !.sent = TRUE] ELSE q[k]]

LEMMA MarkedSkeleton ==
    ASSUME NEW q \in Seq(OutboxEntry), NEW w, Marked(q, w)
    PROVE  SameSkeleton(q, w)
<1>1. ASSUME NEW k \in DOMAIN q
      PROVE  /\ w[k] \in OutboxEntry
             /\ w[k].item = q[k].item /\ w[k].id = q[k].id /\ w[k].state = q[k].state
  <2>1. q[k] \in OutboxEntry
    OBVIOUS
  <2>2. PICK e : e = q[k] /\ e \in OutboxEntry
    BY <2>1
  <2> DEFINE e1 == [e EXCEPT !.sent = TRUE]
  <2>3. e1 \in OutboxEntry /\ e1.item = e.item /\ e1.id = e.id /\ e1.state = e.state
    BY <2>2 DEF OutboxEntry
  <2>4. w[k] = IF e.state = "pending" THEN e1 ELSE e
    <3>1. w[k] = IF q[k].state = "pending" THEN [q[k] EXCEPT !.sent = TRUE] ELSE q[k]
      BY DEF Marked
    <3> QED BY <3>1, <2>2
  <2> HIDE DEF e1
  <2> QED BY <2>2, <2>3, <2>4
<1>2. DOMAIN w = DOMAIN q /\ w = [k \in DOMAIN q |-> w[k]]
  BY DEF Marked
<1>3. Remade(q, w)
  BY <1>1, <1>2 DEF Remade
<1> QED BY <1>3, RemadeSkeleton

\* A device whose entries are marked as sent.
LEMMA MarkedKeeps ==
    ASSUME NEW n, NEW t, NEW sq, NEW rc, NEW d, NEW rs, NEW q, NEW mk, NEW c,
           DeviceSound(n, t, sq, rc, d, rs, q, mk, c), NEW w, SameSkeleton(q, w)
    PROVE  DeviceSound(n, t, sq, rc, d, rs, w, mk, c)
<1>1. RowsTyped(rs)
  BY DEF DeviceSound
<1>2. \A i \in Risk : rs[i].code = rs[i].code \/ \E k \in DOMAIN q : q[k].item = i
  OBVIOUS
<1> QED BY <1>1, <1>2, SkeletonKeeps

\* A step of the server, with a call of device d that it answers.
ServerStep(d, u, sr, rd, w, c) ==
    /\ srv' = u /\ seq' = sr /\ receipt' = rd
    /\ failed' = failed
    /\ spent'.saves = spent.saves
    /\ DOMAIN spent' = DOMAIN spent
    /\ row' = row /\ mark' = mark
    /\ DOMAIN queue' = DOMAIN queue /\ DOMAIN call' = DOMAIN call
    /\ queue'[d] = w /\ call'[d] = c
    /\ \A x \in Device \ {d} : queue'[x] = queue[x] /\ call'[x] = call[x]

LEMMA ServerStepKeeps ==
    ASSUME CodesInv, NEW d, NEW u, NEW sr, NEW rd, NEW w, NEW c,
           ServerStep(d, u, sr, rd, w, c), Advances(srv, seq, u, sr),
           ReceiptsSound(spent.saves, rd),
           \A x \in Device : Processed(u, rd, queue[x]),
           d \in Device =>
              DeviceSound(spent.saves, u, sr, rd, d, row[d], w, mark[d], c)
    PROVE  CodesInv'
<1> DEFINE n == spent.saves
<1>1. Functional'
  BY DEF CodesInv, Functional, ServerStep
<1>2. ASSUME NEW x \in Device
      PROVE  DeviceSound(n, u, sr, rd, x, row[x], queue'[x], mark[x], call'[x])
  <2>1. CASE x = d
    BY <2>1 DEF ServerStep
  <2>2. CASE x # d
    <3>1. DeviceSound(n, srv, seq, receipt, x, row[x], queue[x], mark[x], call[x])
      BY DEF CodesInv
    <3>2. DeviceSound(n, u, sr, rd, x, row[x], queue[x], mark[x], call[x])
      <4> HIDE DEF n
      <4> QED BY <3>1, ServerMoves
    <3> QED BY <2>2, <3>2 DEF ServerStep
  <2> QED BY <2>1, <2>2
<1>3. /\ srv' = u /\ seq' = sr /\ receipt' = rd /\ failed' = FALSE
      /\ spent'.saves = n /\ row' = row /\ mark' = mark
  BY DEF ServerStep, CodesInv
<1>4. TableSound(srv', seq') /\ ReceiptsSound(spent'.saves, receipt')
  BY <1>3 DEF Advances
<1>5. \A x \in Device :
        DeviceSound(spent'.saves, srv', seq', receipt', x, row'[x], queue'[x], mark'[x], call'[x])
  BY <1>2, <1>3
<1> QED BY <1>1, <1>3, <1>4, <1>5 DEF CodesInv


LEMMA SendKeeps ==
    ASSUME CodesInv, NEW d \in Device, NEW arrives \in BOOLEAN, Send(d, arrives)
    PROVE  CodesInv'
<1> DEFINE n == spent.saves
           q == queue[d]
           rs == row[d]
           mk == mark[d]
           s == [srv |-> srv, seq |-> seq, receipt |-> receipt, results |-> <<>>]
           st == PushChanges(s, q)
           w == queue'[d]
<1>1. /\ DeviceSound(n, srv, seq, receipt, d, rs, q, mk, call[d])
      /\ TableSound(srv, seq) /\ ReceiptsSound(n, receipt)
      /\ n \in Nat /\ Functional /\ failed = FALSE
      /\ RowsTyped(rs) /\ OutboxFor(d, n, q)
      /\ Processed(srv, receipt, q) /\ q \in Seq(OutboxEntry)
  BY DeviceFacts
<1>2. /\ queue' = [queue EXCEPT ![d] = [k \in DOMAIN q |->
                      IF q[k].state = "pending"
                      THEN [q[k] EXCEPT !.sent = TRUE] ELSE q[k]]]
      /\ row' = row /\ mark' = mark /\ failed' = failed
      /\ call[d] = Idle
  BY DEF Send
<1>3. /\ DOMAIN queue' = DOMAIN queue
      /\ \A x \in Device \ {d} : queue'[x] = queue[x]
      /\ w = [k \in DOMAIN q |-> IF q[k].state = "pending"
                                 THEN [q[k] EXCEPT !.sent = TRUE] ELSE q[k]]
  BY <1>1, <1>2 DEF Functional
<1>4. SameSkeleton(q, w)
  <2> HIDE DEF w, q
  <2>1. Marked(q, w)
    BY <1>3 DEF Marked
  <2> QED BY <2>1, <1>1, MarkedSkeleton
<1> HIDE DEF w
<1>5. CASE arrives
  <2> DEFINE c == [kind |-> "push", results |-> st.results]
  <2>1. /\ srv' = st.srv /\ seq' = st.seq /\ receipt' = st.receipt
        /\ call' = [call EXCEPT ![d] = c] /\ spent' = spent
    BY <1>5 DEF Send
  <2>2. PushedTo(n, Len(q), srv, seq, receipt, q, st)
    <3> DEFINE t == srv
               sq == seq
               rc == receipt
    <3>1. s = [srv |-> t, seq |-> sq, receipt |-> rc, results |-> <<>>]
      OBVIOUS
    <3>2. TableSound(t, sq) /\ ReceiptsSound(n, rc) /\ Processed(t, rc, q)
      BY <1>1
    <3> HIDE DEF s, t, sq, rc, q, n
    <3>3. PushedTo(n, Len(q), t, sq, rc, q, PushChanges(s, q))
      BY <3>1, <3>2, <1>1, PushKeeps
    <3> QED BY <3>3 DEF t, sq, rc
  <2> DEFINE u == st.srv
             sr == st.seq
             rd == st.receipt
             ans == st.results
  <2>3. TablesAfter(n, Len(q), srv, seq, receipt, q, u, sr, rd) /\ ResultsOf(Len(q), u, q, ans)
    BY <2>2 DEF PushedTo
  <2>4. c.kind = "push" /\ c.results = ans
    OBVIOUS
  <2>5. ServerStep(d, u, sr, rd, w, c)
    <3>1. DOMAIN call' = DOMAIN call /\ call'[d] = c
          /\ \A x \in Device \ {d} : call'[x] = call[x]
      BY <2>1, <1>1 DEF Functional
    <3> HIDE DEF c, st
    <3> QED BY <2>1, <3>1, <1>2, <1>3 DEF ServerStep, w
  <2> HIDE DEF st, c, u, sr, rd, ans
  <2>6. Advances(srv, seq, u, sr) /\ ReceiptsSound(n, rd) /\ TableSound(u, sr)
    BY <2>3, <1>1 DEF TablesAfter, Advances
  <2>7. ASSUME NEW x \in Device PROVE Processed(u, rd, queue[x])
    <3> DEFINE p == queue[x]
    <3>1. OutboxFor(x, n, p) /\ Processed(srv, receipt, p)
      BY DeviceFacts
    <3>2. x = d => p = q
      OBVIOUS
    <3> HIDE DEF p, q, n
    <3>3. Processed(u, rd, p)
      BY <3>1, <3>2, <2>3, <1>1, PushProcessed
    <3> QED BY <3>3 DEF p
  <2>8. DeviceSound(n, u, sr, rd, d, rs, w, mk, call[d])
    <3> DEFINE c0 == call[d]
    <3>1. Processed(u, rd, q) /\ DeviceSound(n, srv, seq, receipt, d, rs, q, mk, c0)
      BY <2>7, <1>1
    <3> HIDE DEF n, q, rs, mk, c0
    <3>2. DeviceSound(n, u, sr, rd, d, rs, q, mk, c0)
      BY <3>1, <2>6, ServerMoves
    <3>3. DeviceSound(n, u, sr, rd, d, rs, w, mk, c0)
      BY <3>2, <1>4, MarkedKeeps
    <3> QED BY <3>3 DEF c0
  <2>9. AnswersFor(n, u, w, ans) /\ CodesOfOnce(u, mk, AcceptedAnswers(ans))
    <3> HIDE DEF n, q, mk
    <3> QED BY <2>3, <2>6, <1>1, <1>4, FreshAnswers
  <2>10. CallFor(n, u, sr, w, mk, c)
    BY <2>4, <2>9 DEF CallFor
  <2>11. DeviceSound(n, u, sr, rd, d, rs, w, mk, c)
    BY <2>8, <2>10 DEF DeviceSound
  <2> QED BY <2>5, <2>6, <2>7, <2>11, ServerStepKeeps
<1>6. CASE ~arrives
  <2>1. /\ spent' = [spent EXCEPT !.losses = @ + 1]
        /\ srv' = srv /\ seq' = seq /\ receipt' = receipt /\ call' = call
    BY <1>6 DEF Send, Lose, serverVars
  <2>2. spent'.saves = n /\ DOMAIN spent' = DOMAIN spent
    BY <2>1, <1>1 DEF Functional
  <2> DEFINE c == call[d]
  <2>3. DeviceSound(n, srv, seq, receipt, d, rs, w, mk, c)
    <3> HIDE DEF n, q, rs, mk, c
    <3>1. DeviceSound(n, srv, seq, receipt, d, rs, q, mk, c)
      BY <1>1 DEF c
    <3> QED BY <3>1, <1>4, MarkedKeeps
  <2>4. DeviceStep(d, rs, w, mk, c)
    BY <2>1, <2>2, <1>1, <1>2, <1>3 DEF DeviceStep, Functional, w
  <2>5. DeviceSound(spent'.saves, srv, seq, receipt, d, rs, w, mk, c)
    BY <2>2, <2>3
  <2> HIDE DEF rs, mk, c
  <2> QED BY <2>4, <2>5, DeviceStepKeeps
<1> QED BY <1>5, <1>6

\* A call that has come to nothing.
LEMMA CallDropped ==
    ASSUME NEW n, NEW t, NEW sq, NEW rc, NEW d, NEW rs, NEW q, NEW mk, NEW c,
           DeviceSound(n, t, sq, rc, d, rs, q, mk, c)
    PROVE  DeviceSound(n, t, sq, rc, d, rs, q, mk, Idle)
<1>1. CallFor(n, t, sq, q, mk, Idle)
  BY DEF CallFor, Idle
<1> QED BY <1>1 DEF DeviceSound

LEMMA LoseAnswerKeeps ==
    ASSUME CodesInv, NEW d \in Device, LoseAnswer(d)
    PROVE  CodesInv'
<1> DEFINE n == spent.saves
           c == call[d]
<1>1. /\ DeviceSound(n, srv, seq, receipt, d, row[d], queue[d], mark[d], c)
      /\ n \in Nat /\ Functional /\ failed = FALSE
  BY DeviceFacts
<1>2. /\ call' = [call EXCEPT ![d] = Idle]
      /\ spent' = [spent EXCEPT !.losses = @ + 1]
      /\ srv' = srv /\ seq' = seq /\ receipt' = receipt
      /\ row' = row /\ queue' = queue /\ mark' = mark /\ failed' = failed
  BY DEF LoseAnswer, Lose, serverVars
<1>3. spent'.saves = n /\ DOMAIN spent' = DOMAIN spent
  BY <1>1, <1>2 DEF Functional
<1>4. DeviceSound(n, srv, seq, receipt, d, row[d], queue[d], mark[d], Idle)
  <2> HIDE DEF n, c
  <2> QED BY <1>1, CallDropped
<1>5. DeviceStep(d, row[d], queue[d], mark[d], Idle)
  BY <1>1, <1>2, <1>3 DEF DeviceStep, Functional
<1>6. DeviceSound(spent'.saves, srv, seq, receipt, d, row[d], queue[d], mark[d], Idle)
  BY <1>3, <1>4
<1> QED BY <1>5, <1>6, DeviceStepKeeps

LEMMA ReceiveStepKeeps ==
    ASSUME CodesInv, NEW d \in Device, Receive(d)
    PROVE  CodesInv'
<1> DEFINE n == spent.saves
           q == queue[d]
           rs == row[d]
           mk == mark[d]
           c == call[d]
           ans == c.results
           s == [rows |-> Release(rs, ans), queue |-> q, ok |-> TRUE]
           st == AcknowledgeAll(s, ans)
           rw == st.rows
           w == Blocked(st.queue, ans)
<1>1. /\ DeviceSound(n, srv, seq, receipt, d, rs, q, mk, c)
      /\ n \in Nat /\ Functional /\ failed = FALSE
  BY DeviceFacts
<1>2. /\ c.kind = "push"
      /\ row' = [row EXCEPT ![d] = rw]
      /\ queue' = [queue EXCEPT ![d] = w]
      /\ failed' = (failed \/ ~st.ok)
      /\ call' = [call EXCEPT ![d] = Idle]
      /\ srv' = srv /\ seq' = seq /\ receipt' = receipt
      /\ mark' = mark /\ spent' = spent
  BY DEF Receive, serverVars
<1>3. st.ok = TRUE /\ DeviceSound(n, srv, seq, receipt, d, rw, w, mk, Idle)
  <2> DEFINE t == srv
             sq == seq
             rc == receipt
  <2>0. DeviceSound(n, t, sq, rc, d, rs, q, mk, c)
    BY <1>1
  <2>1. ans = c.results
    OBVIOUS
  <2>2. c.kind = "push"
    BY <1>2
  <2> HIDE DEF ans, n, q, rs, mk, c, t, sq, rc
  <2>3. Acknowledged(rs, q, ans, st)
    BY DEF Acknowledged
  <2> HIDE DEF st
  <2>4. /\ st.ok = TRUE
        /\ DeviceSound(n, t, sq, rc, d, st.rows, Blocked(st.queue, ans), mk, Idle)
    BY <2>0, <2>1, <2>2, <2>3, ReceiveKeeps
  <2> QED BY <2>4 DEF t, sq, rc
<1> HIDE DEF st, w, rw
<1>4. failed' = FALSE
  BY <1>1, <1>2, <1>3
<1>5. DeviceStep(d, rw, w, mk, Idle)
  <2> HIDE DEF c
  <2> QED BY <1>1, <1>2, <1>4 DEF DeviceStep, Functional
<1>6. DeviceSound(spent'.saves, srv, seq, receipt, d, rw, w, mk, Idle)
  BY <1>2, <1>3
<1> HIDE DEF mk
<1> QED BY <1>5, <1>6, DeviceStepKeeps


\* _fetch_pull: what the rows of a pull say.
Fetched(t, sq, mk, N, order, c) ==
    /\ order \in Bijection(1..N, {i \in Risk : t[i].seq > mk})
    /\ c.kind = "pull"
    /\ c.upto = sq
    /\ c.rows = [k \in DOMAIN order |->
                   [item |-> order[k], code |-> t[order[k]].code, ver |-> t[order[k]].ver]]

LEMMA FetchedFor ==
    ASSUME NEW t, NEW sq, TableSound(t, sq), NEW mk \in 0..sq, NEW N \in Nat,
           NEW order, NEW c, Fetched(t, sq, mk, N, order, c)
    PROVE  PulledFor(t, sq, mk, c)
<1> DEFINE C == {i \in Risk : t[i].seq > mk}
<1>1. /\ order \in [1..N -> C]
      /\ \A a, b \in DOMAIN order : order[a] = order[b] => a = b
      /\ \A i \in C : \E k \in 1..N : order[k] = i
  BY DEF Fetched, Bijection, Injection, Surjection, IsInjective
<1>2. DOMAIN order = 1..N
  BY <1>1
<1>3. sq \in Nat /\ mk \in Nat /\ mk <= sq
  BY DEF TableSound
<1>4. ASSUME NEW i \in C
      PROVE  /\ i \in Risk /\ t[i].code \in Nat \ {0} /\ t[i].ver \in Nat /\ t[i].ver > 0
             /\ t[i].code # NoCode
  <2>1. t[i] \in SrvRow /\ t[i].seq > mk
    BY DEF TableSound
  <2>2. t[i].seq \in Nat /\ t[i].code \in Nat /\ t[i].ver \in Nat
    BY <2>1 DEF SrvRow
  <2>3. t[i].seq > 0
    BY <2>1, <2>2, <1>3
  <2>4. t[i].ver > 0 /\ t[i].code # NoCode
    BY <2>3 DEF TableSound
  <2> QED BY <2>2, <2>4 DEF NoCode
<1> DEFINE ps == c.rows
<1>5. ps = [k \in 1..N |->
              [item |-> order[k], code |-> t[order[k]].code, ver |-> t[order[k]].ver]]
  BY <1>2 DEF Fetched
<1>6. ASSUME NEW k \in 1..N
      PROVE  /\ order[k] \in C /\ ps[k] \in PulledRow
             /\ ps[k].item = order[k] /\ ps[k].code = t[order[k]].code
  <2>1. PICK i \in C : i = order[k]
    BY <1>1
  <2> DEFINE a == t[i].code
             b == t[i].ver
             r == [item |-> i, code |-> a, ver |-> b]
  <2>2. ps[k] = r
    BY <2>1, <1>5
  <2>3. i \in Risk /\ a \in Nat \ {0} /\ b \in Nat
    BY <1>4
  <2> HIDE DEF a, b, ps
  <2>4. r \in PulledRow /\ r.item = i /\ r.code = a
    BY <2>3 DEF PulledRow
  <2> HIDE DEF r
  <2> QED BY <2>1, <2>2, <2>4 DEF a
<1>7. DOMAIN ps = 1..N /\ ps = [k \in 1..N |-> ps[k]]
  BY <1>5
<1> HIDE DEF ps
<1>8. ps \in Seq(PulledRow)
  BY <1>6, <1>7
<1>9. \A k, m \in DOMAIN ps : ps[k].item = ps[m].item => k = m
  BY <1>1, <1>2, <1>6, <1>7
<1>10. CodesOfOnce(t, sq, Range(ps))
  <2>1. ASSUME NEW r \in Range(ps)
        PROVE  r.item \in Risk /\ r.code = t[r.item].code /\ r.code # NoCode
    <3>1. PICK k \in 1..N : r = ps[k]
      BY <1>7 DEF Range
    <3> HIDE DEF C
    <3>2. order[k] \in C /\ ps[k].item = order[k] /\ ps[k].code = t[order[k]].code
      BY <1>6
    <3> QED BY <3>1, <3>2, <1>4
  <2> QED BY <2>1 DEF CodesOfOnce, TableSound
<1>11. c.upto \in mk..sq
  BY <1>3 DEF Fetched
<1>12. ASSUME NEW i \in Risk, mk < t[i].seq PROVE \E k \in DOMAIN ps : ps[k].item = i
  <2>1. t[i] \in SrvRow
    BY DEF TableSound
  <2>2. t[i].seq \in Nat
    BY <2>1 DEF SrvRow
  <2>3. i \in C
    BY <2>2, <1>3, <1>12
  <2>4. PICK k \in 1..N : order[k] = i
    BY <2>3, <1>1
  <2> QED BY <2>4, <1>6, <1>7
<1>13. c.upto = sq
  BY DEF Fetched
<1> QED BY <1>8, <1>9, <1>10, <1>11, <1>12, <1>13 DEF PulledFor, ps

LEMMA FetchKeeps ==
    ASSUME CodesInv, NEW d \in Device, Fetch(d)
    PROVE  CodesInv'
<1> DEFINE n == spent.saves
           mk == mark[d]
           C == {i \in Risk : srv[i].seq > mk}
           N == Cardinality(C)
<1>1. /\ DeviceSound(n, srv, seq, receipt, d, row[d], queue[d], mk, call[d])
      /\ TableSound(srv, seq) /\ n \in Nat /\ Functional /\ failed = FALSE
  BY DeviceFacts
<1>2. N \in Nat
  <2>1. IsFiniteSet(C)
    BY CodesAssumption, FS_Subset
  <2> HIDE DEF C
  <2> QED BY <2>1, FS_CardinalityType
<1>3. PICK order \in Bijection(1..N, C) :
        call' = [call EXCEPT ![d] =
                   [kind |-> "pull", upto |-> seq,
                    rows |-> [k \in DOMAIN order |->
                                [item |-> order[k], code |-> srv[order[k]].code,
                                 ver |-> srv[order[k]].ver]]]]
  BY DEF Fetch
<1>4. /\ srv' = srv /\ seq' = seq /\ receipt' = receipt /\ row' = row
      /\ queue' = queue /\ mark' = mark /\ failed' = failed /\ spent' = spent
  BY DEF Fetch, serverVars
<1> DEFINE c == call'[d]
<1>5. DOMAIN call' = DOMAIN call /\ \A x \in Device \ {d} : call'[x] = call[x]
  BY <1>1, <1>3 DEF Functional
<1>6. c = [kind |-> "pull", upto |-> seq,
           rows |-> [k \in DOMAIN order |->
                       [item |-> order[k], code |-> srv[order[k]].code,
                        ver |-> srv[order[k]].ver]]]
  BY <1>1, <1>3 DEF Functional
<1> HIDE DEF c
<1>7. Fetched(srv, seq, mk, N, order, c)
  BY <1>6 DEF Fetched
<1>8. PulledFor(srv, seq, mk, c)
  <2>1. mk \in 0..seq
    BY <1>1 DEF DeviceSound
  <2> HIDE DEF mk, N
  <2> QED BY <2>1, <1>1, <1>2, <1>7, FetchedFor
<1>9. CallFor(n, srv, seq, queue[d], mk, c)
  BY <1>7, <1>8 DEF CallFor, Fetched
<1>10. DeviceSound(n, srv, seq, receipt, d, row[d], queue[d], mk, c)
  BY <1>1, <1>9 DEF DeviceSound
<1>11. DeviceStep(d, row[d], queue[d], mk, c)
  BY <1>1, <1>4, <1>5 DEF DeviceStep, Functional, c
<1>12. DeviceSound(spent'.saves, srv, seq, receipt, d, row[d], queue[d], mk, c)
  BY <1>4, <1>10
<1> HIDE DEF mk
<1> QED BY <1>11, <1>12, DeviceStepKeeps

\* A conflict that keeps the newer copy.
Recopied(q, ps, w) ==
    /\ DOMAIN w = DOMAIN q
    /\ w = [k \in DOMAIN q |-> w[k]]
    /\ \A k \in DOMAIN q :
          \/ w[k] = q[k]
          \/ \E m \in DOMAIN ps :
                w[k] = [q[k] EXCEPT !.copy = [code |-> ps[m].code, ver |-> ps[m].ver]]

LEMMA RecopiedSkeleton ==
    ASSUME NEW q \in Seq(OutboxEntry), NEW ps \in Seq(PulledRow), NEW w, Recopied(q, ps, w)
    PROVE  SameSkeleton(q, w)
<1>1. ASSUME NEW k \in DOMAIN q
      PROVE  /\ w[k] \in OutboxEntry
             /\ w[k].item = q[k].item /\ w[k].id = q[k].id /\ w[k].state = q[k].state
  <2>1. q[k] \in OutboxEntry
    OBVIOUS
  <2>2. CASE w[k] = q[k]
    BY <2>1, <2>2
  <2>3. CASE w[k] # q[k]
    <3>1. PICK m \in DOMAIN ps :
            w[k] = [q[k] EXCEPT !.copy = [code |-> ps[m].code, ver |-> ps[m].ver]]
      BY <2>3 DEF Recopied
    <3>2. ps[m] \in PulledRow
      OBVIOUS
    <3> DEFINE z == [code |-> ps[m].code, ver |-> ps[m].ver]
    <3>3. z \in CodeRow
      BY <3>2 DEF CodeRow, PulledRow
    <3>4. w[k] = [q[k] EXCEPT !.copy = z]
      BY <3>1
    <3> HIDE DEF z
    <3>5. PICK e : e = q[k] /\ e \in OutboxEntry
      BY <2>1
    <3> DEFINE e1 == [e EXCEPT !.copy = z]
    <3>6. e1 \in OutboxEntry /\ e1.item = e.item /\ e1.id = e.id /\ e1.state = e.state
      BY <3>3, <3>5 DEF OutboxEntry
    <3>7. w[k] = e1
      BY <3>4, <3>5
    <3> HIDE DEF e1
    <3> QED BY <3>5, <3>6, <3>7
  <2> QED BY <2>2, <2>3
<1>2. Remade(q, w)
  BY <1>1 DEF Remade, Recopied
<1> QED BY <1>2, RemadeSkeleton

LEMMA ApplyStepKeeps ==
    ASSUME CodesInv, NEW d \in Device, Apply(d)
    PROVE  CodesInv'
<1> DEFINE n == spent.saves
           q == queue[d]
           rs == row[d]
           mk == mark[d]
           c == call[d]
           ps == c.rows
           up == c.upto
           st == ApplyRows([rows |-> rs, ok |-> TRUE], ps, {i \in Risk : Open(d, i) = {}})
           rw == st.rows
           w == queue'[d]
<1>1. /\ DeviceSound(n, srv, seq, receipt, d, rs, q, mk, c)
      /\ TableSound(srv, seq) /\ n \in Nat /\ Functional /\ failed = FALSE
      /\ q \in Seq(OutboxEntry)
  BY DeviceFacts
<1>2. /\ c.kind = "pull"
      /\ row' = [row EXCEPT ![d] = rw]
      /\ queue' = [queue EXCEPT ![d] = [k \in DOMAIN @ |->
             LET newer == {m \in DOMAIN ps : ps[m].item = @[k].item}
             IN  IF @[k].state # "conflict" \/ newer = {} THEN @[k]
                 ELSE LET r == ps[CHOOSE m \in newer : TRUE]
                      IN  [@[k] EXCEPT !.copy = [code |-> r.code, ver |-> r.ver]]]]
      /\ mark' = [mark EXCEPT ![d] = up]
      /\ failed' = (failed \/ ~st.ok)
      /\ call' = [call EXCEPT ![d] = Idle]
      /\ srv' = srv /\ seq' = seq /\ receipt' = receipt /\ spent' = spent
  BY DEF Apply, serverVars
<1>3. PulledFor(srv, seq, mk, c)
  BY <1>1, <1>2 DEF DeviceSound, CallFor
<1>4. ps \in Seq(PulledRow)
  BY <1>3 DEF PulledFor
<1>5. PullApplied(rs, q, ps, st)
  <2>1. {i \in Risk : Open(d, i) = {}} = {i \in Risk : \A k \in DOMAIN q : q[k].item # i}
    BY DEF Open
  <2> QED BY <2>1 DEF PullApplied
<1> HIDE DEF st
<1>6. Recopied(q, ps, w)
  <2> HIDE DEF ps
  <2>1. w = [k \in DOMAIN q |->
               IF q[k].state # "conflict" \/ {m \in DOMAIN ps : ps[m].item = q[k].item} = {}
               THEN q[k]
               ELSE [q[k] EXCEPT !.copy =
                       [code |-> ps[CHOOSE m \in {x \in DOMAIN ps : ps[x].item = q[k].item}
                                       : TRUE].code,
                        ver |-> ps[CHOOSE m \in {x \in DOMAIN ps : ps[x].item = q[k].item}
                                       : TRUE].ver]]]
    BY <1>1, <1>2 DEF Functional
  <2> HIDE DEF w, q
  <2>2. DOMAIN w = DOMAIN q /\ w = [k \in DOMAIN q |-> w[k]]
    BY <2>1
  <2>3. ASSUME NEW k \in DOMAIN q
        PROVE  \/ w[k] = q[k]
               \/ \E m \in DOMAIN ps :
                    w[k] = [q[k] EXCEPT !.copy = [code |-> ps[m].code, ver |-> ps[m].ver]]
    <3> DEFINE newer == {m \in DOMAIN ps : ps[m].item = q[k].item}
    <3>1. PICK m : m = CHOOSE x \in newer : TRUE
      OBVIOUS
    <3>2. CASE newer = {}
      BY <2>1, <3>2
    <3>3. CASE newer # {}
      <4>1. m \in DOMAIN ps
        BY <3>1, <3>3
      <4>2. w[k] = q[k] \/ w[k] = [q[k] EXCEPT !.copy = [code |-> ps[m].code, ver |-> ps[m].ver]]
        BY <2>1, <3>1
      <4> QED BY <4>1, <4>2
    <3> QED BY <3>2, <3>3
  <2> QED BY <2>2, <2>3 DEF Recopied
<1>7. SameSkeleton(q, w)
  <2> HIDE DEF q, ps, w
  <2> QED BY <1>1, <1>4, <1>6, RecopiedSkeleton
<1>8. st.ok = TRUE /\ DeviceSound(n, srv, seq, receipt, d, rw, w, up, Idle)
  <2> DEFINE t == srv
             sq == seq
             rc == receipt
  <2>1. DeviceSound(n, t, sq, rc, d, rs, q, mk, c) /\ TableSound(t, sq)
    BY <1>1
  <2>2. ps = c.rows /\ up = c.upto /\ c.kind = "pull"
    BY <1>2
  <2> HIDE DEF n, q, rs, mk, c, t, sq, rc, ps, up, w
  <2>3. /\ st.ok = TRUE
        /\ DeviceSound(n, t, sq, rc, d, st.rows, w, up, Idle)
    BY <2>1, <2>2, <1>5, <1>7, ApplyKeeps
  <2> QED BY <2>3 DEF t, sq, rc
<1> HIDE DEF rw
<1>9. failed' = FALSE
  BY <1>1, <1>2, <1>8
<1>10. DOMAIN queue' = DOMAIN queue /\ \A x \in Device \ {d} : queue'[x] = queue[x]
  BY <1>1, <1>2 DEF Functional
<1>11. DeviceStep(d, rw, w, up, Idle)
  <2> HIDE DEF up, c
  <2> QED BY <1>1, <1>2, <1>9, <1>10 DEF DeviceStep, Functional
<1>12. DeviceSound(spent'.saves, srv, seq, receipt, d, rw, w, up, Idle)
  BY <1>2, <1>8
<1> HIDE DEF up, w
<1> QED BY <1>11, <1>12, DeviceStepKeeps


LEMMA RenameKeeps ==
    ASSUME CodesInv, NEW i \in Risk, NEW code \in Code, Rename(i, code)
    PROVE  CodesInv'
<1> DEFINE n == spent.saves
           d == Home[i]
           sr == seq + 1
           u == srv'
<1>1. d \in Device /\ code \in Nat \ {0}
  BY CodesAssumption
<1>2. /\ TableSound(srv, seq) /\ ReceiptsSound(n, receipt)
      /\ n \in Nat /\ Functional /\ failed = FALSE
  BY <1>1, DeviceFacts
<1>3. /\ srv[i].ver > 0 /\ code \notin Others(srv, i)
      /\ srv' = [srv EXCEPT ![i] = [code |-> code, ver |-> srv[i].ver + 1, seq |-> seq + 1]]
      /\ spent' = [spent EXCEPT !.renames = @ + 1]
      /\ seq' = seq + 1 /\ receipt' = receipt
      /\ row' = row /\ queue' = queue /\ mark' = mark /\ call' = call /\ failed' = failed
  <2>1. srv \in [Risk -> SrvRow]
    BY <1>2 DEF TableSound
  <2> QED BY <2>1 DEF Rename, deviceVars
<1>4. Writes(srv, seq, i, code, u)
  BY <1>1, <1>2, <1>3 DEF Writes, Written
<1> HIDE DEF u
<1>5. /\ TableSound(u, sr)
      /\ u[i].seq = seq + 1 /\ u[i].ver > 0
      /\ \A j \in Risk : j # i => u[j] = srv[j]
  BY <1>4, WriteKeeps
<1>6. Advances(srv, seq, u, sr)
  <2>1. seq \in Nat
    BY <1>2 DEF TableSound
  <2> QED BY <2>1, <1>2, <1>5 DEF Advances
<1>7. ASSUME NEW x \in Device PROVE Processed(u, receipt, queue[x])
  <2> DEFINE q == queue[x]
  <2>1. Processed(srv, receipt, q) /\ q \in Seq(OutboxEntry)
    BY DeviceFacts
  <2>2. ASSUME NEW k \in DOMAIN q PROVE q[k].item \in Risk
    <3>1. q[k] \in OutboxEntry
      BY <2>1
    <3> QED BY <3>1 DEF OutboxEntry
  <2>3. \A j \in Risk : srv[j].ver > 0 => u[j].ver > 0
    BY <1>5
  <2> HIDE DEF q
  <2>4. Processed(u, receipt, q)
    BY <2>1, <2>2, <2>3 DEF Processed
  <2> QED BY <2>4 DEF q
<1>8. spent'.saves = n /\ DOMAIN spent' = DOMAIN spent
  BY <1>2, <1>3 DEF Functional
<1> DEFINE w == queue[d]
           c == call[d]
<1>9. DeviceSound(n, u, sr, receipt, d, row[d], w, mark[d], c)
  <2> DEFINE rs == row[d]
             mk == mark[d]
  <2>1. DeviceSound(n, srv, seq, receipt, d, rs, w, mk, c) /\ Processed(u, receipt, w)
    BY <1>1, <1>7, DeviceFacts
  <2> HIDE DEF n, sr, w, c, rs, mk, d
  <2>2. DeviceSound(n, u, sr, receipt, d, rs, w, mk, c)
    BY <2>1, <1>6, ServerMoves
  <2> QED BY <2>2 DEF rs, mk
<1>10. ServerStep(d, u, sr, receipt, w, c)
  BY <1>3, <1>8 DEF ServerStep, u
<1> HIDE DEF d, sr, w, c
<1> QED BY <1>2, <1>6, <1>7, <1>9, <1>10, ServerStepKeeps

LEMMA CodesInitially ==
    ASSUME CodesInit
    PROVE  CodesInv
<1> USE DEF CodesInit
<1> DEFINE e == <<>>
           noRow == [code |-> NoCode, ver |-> 0, seq |-> 0]
           none == [code |-> NoCode, ver |-> Absent]
<1>1. Functional
  BY DEF Functional
<1>2. TableSound(srv, seq)
  <2>1. noRow \in SrvRow /\ noRow.code = NoCode /\ noRow.ver = 0 /\ noRow.seq = 0
    BY DEF SrvRow, NoCode
  <2>2. srv = [i \in Risk |-> noRow] /\ seq = 0
    OBVIOUS
  <2> HIDE DEF noRow, CodesInit
  <2>3. srv \in [Risk -> SrvRow] /\ \A i \in Risk : srv[i] = noRow
    BY <2>1, <2>2
  <2> QED BY <2>1, <2>2, <2>3 DEF TableSound
<1>3. ReceiptsSound(spent.saves, receipt)
  BY DEF ReceiptsSound
<1>4. ASSUME NEW d \in Device
      PROVE  DeviceSound(spent.saves, srv, seq, receipt, d, row[d], queue[d], mark[d], call[d])
  <2>1. RowsTyped(row[d])
    <3>1. none \in [code : Nat, ver : Int] /\ none.ver >= Absent
      BY DEF NoCode, Absent
    <3>2. row[d] = [i \in Risk |-> none]
      OBVIOUS
    <3> HIDE DEF none, CodesInit
    <3> QED BY <3>1, <3>2 DEF RowsTyped
  <2>2. queue[d] = e /\ e \in Seq(OutboxEntry) /\ DOMAIN e = {}
    OBVIOUS
  <2>3. mark[d] = 0 /\ call[d] = Idle
    OBVIOUS
  <2> HIDE DEF e, CodesInit
  <2>4. OutboxFor(d, spent.saves, queue[d]) /\ Processed(srv, receipt, queue[d])
    BY <2>2 DEF OutboxFor, Processed
  <2>5. DeviceSound(spent.saves, srv, seq, receipt, d, row[d], queue[d], 0, Idle)
    <3> DEFINE n == spent.saves
               rs == row[d]
               q == queue[d]
    <3>1. OutboxFor(d, n, q) /\ Processed(srv, receipt, q) /\ RowsTyped(rs)
      BY <2>1, <2>4
    <3> HIDE DEF n, rs, q
    <3>2. DeviceSound(n, srv, seq, receipt, d, rs, q, 0, Idle)
      BY <3>1, <1>2, Rewound
    <3> QED BY <3>2 DEF n, rs, q
  <2> QED BY <2>3, <2>5
<1> QED BY <1>1, <1>2, <1>3, <1>4 DEF CodesInv

LEMMA CodesStutter ==
    ASSUME CodesInv, UNCHANGED codeVars
    PROVE  CodesInv'
<1>1. /\ srv' = srv /\ seq' = seq /\ receipt' = receipt /\ row' = row /\ queue' = queue
      /\ mark' = mark /\ call' = call /\ failed' = failed /\ spent' = spent
  BY DEF codeVars, serverVars, deviceVars
<1>2. Functional'
  BY <1>1 DEF CodesInv, Functional
<1>3. TableSound(srv', seq') /\ ReceiptsSound(spent'.saves, receipt')
  BY <1>1 DEF CodesInv
<1>4. \A d \in Device :
        DeviceSound(spent'.saves, srv', seq', receipt', d, row'[d], queue'[d], mark'[d], call'[d])
  BY <1>1 DEF CodesInv
<1>5. failed' = FALSE
  BY <1>1 DEF CodesInv
<1> QED BY <1>2, <1>3, <1>4, <1>5 DEF CodesInv

\* The invariant behind the properties of item codes.
THEOREM CodesInvariant == CodesSpec => []CodesInv
<1>1. CodesInit => CodesInv
  BY CodesInitially
<1>2. CodesInv /\ [CodesNext]_codeVars => CodesInv'
  <2> SUFFICES ASSUME CodesInv, [CodesNext]_codeVars PROVE CodesInv'
    OBVIOUS
  <2>1. ASSUME NEW d \in Device, NEW i \in Risk, NEW asked \in Code \cup {NoCode},
               Save(d, i, asked)
        PROVE  CodesInv'
    BY <2>1, SaveKeeps
  <2>2. ASSUME NEW d \in Device, NEW i \in Risk,
               KeepMine(d, i) \/ UseServer(d, i) \/ MergeMine(d, i)
        PROVE  CodesInv'
    BY <2>2, KeepMineKeeps, UseServerKeeps, MergeMineKeeps
  <2>3. ASSUME NEW d \in Device, NEW arrives \in BOOLEAN, Send(d, arrives)
        PROVE  CodesInv'
    BY <2>3, SendKeeps
  <2>4. ASSUME NEW d \in Device, LoseAnswer(d) \/ Receive(d) \/ Fetch(d) \/ Apply(d)
        PROVE  CodesInv'
    BY <2>4, LoseAnswerKeeps, ReceiveStepKeeps, FetchKeeps, ApplyStepKeeps
  <2>5. ASSUME NEW i \in Risk, NEW code \in Code, Rename(i, code)
        PROVE  CodesInv'
    BY <2>5, RenameKeeps
  <2>6. CASE UNCHANGED codeVars
    BY <2>6, CodesStutter
  <2> QED BY <2>1, <2>2, <2>3, <2>4, <2>5, <2>6 DEF CodesNext
<1> QED BY <1>1, <1>2, PTL DEF CodesSpec

\* One queued change per item.
LEMMA OpenAtMostOne ==
    ASSUME NEW d, NEW n, OutboxFor(d, n, queue[d]), NEW i
    PROVE  Cardinality(Open(d, i)) <= 1
<1> DEFINE O == Open(d, i)
<1>1. \A k, m \in O : k = m
  BY DEF Open, OutboxFor
<1> HIDE DEF O
<1>2. CASE O = {}
  <2>1. Cardinality(O) = 0
    BY <1>2, FS_EmptySet
  <2> QED BY <2>1 DEF O
<1>3. CASE O # {}
  <2>1. PICK k : k \in O
    BY <1>3
  <2>2. O = {k}
    BY <2>1, <1>1
  <2>3. Cardinality(O) = 1
    BY <2>2, FS_Singleton
  <2> QED BY <2>3 DEF O
<1> QED BY <1>2, <1>3

\* No statement of an acknowledgement or a pull is rejected by the index of
\* codes, and every table stays well formed: release_scored_codes_for_
\* acknowledgements and _apply_pull_scored_entities clear the other owners of
\* a code before they write it, for any number of devices, items and codes.
THEOREM IndexAlwaysSound == CodesSpec => []IndexSound
<1>1. CodesInv => IndexSound
  <2> SUFFICES ASSUME CodesInv PROVE IndexSound
    OBVIOUS
  <2>1. TableSound(srv, seq) /\ failed = FALSE
    BY DEF CodesInv
  <2>2. ASSUME NEW i \in Risk
        PROVE  srv[i].code \in Nat /\ srv[i].ver \in Nat /\ srv[i].seq \in 0..seq
    <3>1. srv[i] \in SrvRow /\ srv[i].seq <= seq /\ seq \in Nat
      BY <2>1 DEF TableSound
    <3>2. srv[i].code \in Nat /\ srv[i].ver \in Nat /\ srv[i].seq \in Nat
      BY <3>1 DEF SrvRow
    <3> QED BY <3>1, <3>2
  <2>3. ASSUME NEW d \in Device
        PROVE  /\ mark[d] \in 0..seq
               /\ call[d].kind \in {"idle", "push", "pull"}
               /\ \A i \in Risk : /\ Cardinality(Open(d, i)) <= 1
                                  /\ row[d][i].ver >= Absent
               /\ \A k \in DOMAIN queue[d] :
                    queue[d][k].state \in {"pending", "conflict", "error"}
                    /\ queue[d][k].base \in Nat
    <3> DEFINE n == spent.saves
    <3>1. /\ DeviceSound(n, srv, seq, receipt, d, row[d], queue[d], mark[d], call[d])
          /\ RowsTyped(row[d]) /\ OutboxFor(d, n, queue[d]) /\ queue[d] \in Seq(OutboxEntry)
      BY DeviceFacts
    <3>2. mark[d] \in 0..seq /\ call[d].kind \in {"idle", "push", "pull"}
      BY <3>1 DEF DeviceSound, CallFor
    <3>3. \A i \in Risk : row[d][i].ver >= Absent
      BY <3>1 DEF RowsTyped
    <3>4. \A i \in Risk : Cardinality(Open(d, i)) <= 1
      <4> HIDE DEF n
      <4> QED BY <3>1, OpenAtMostOne
    <3>5. ASSUME NEW k \in DOMAIN queue[d]
          PROVE  /\ queue[d][k].state \in {"pending", "conflict", "error"}
                 /\ queue[d][k].base \in Nat
      <4>1. queue[d][k] \in OutboxEntry
        BY <3>1
      <4> QED BY <4>1 DEF OutboxEntry
    <3> QED BY <3>2, <3>3, <3>4, <3>5
  <2>4. CodesTypeOK
    BY <2>2, <2>3 DEF CodesTypeOK
  <2> QED BY <2>1, <2>4 DEF IndexSound, IndexNeverRejects
<1> QED BY <1>1, CodesInvariant, PTL

\* A code that was released, reassigned or swapped arrives: a device that has
\* pulled everything shows the server's code of every item it has no queued
\* change for (_apply_pull_scored_entities, acknowledge_accepted_results).
THEOREM CodesAlwaysArrive == CodesSpec => []CodesArrive
<1>1. CodesInv => CodesArrive
  <2> SUFFICES ASSUME CodesInv, NEW d \in Device, NEW i \in Risk,
                      mark[d] = seq, Open(d, i) = {}, srv[i].ver > 0
               PROVE  row[d][i].code = srv[i].code
    BY DEF CodesArrive
  <2>1. /\ DeviceSound(spent.saves, srv, seq, receipt, d, row[d], queue[d], mark[d], call[d])
        /\ TableSound(srv, seq)
    BY DeviceFacts
  <2>2. Arrived(srv, queue[d], mark[d], row[d])
    BY <2>1 DEF DeviceSound
  <2>3. srv[i].seq <= mark[d]
    BY <2>1 DEF TableSound
  <2>4. \A k \in DOMAIN queue[d] : queue[d][k].item # i
    BY DEF Open
  <2> QED BY <2>2, <2>3, <2>4 DEF Arrived
<1> QED BY <1>1, CodesInvariant, PTL

\* A new item always reaches the server, whatever code its device chose
\* offline: _canonical_item_code finds a free one.
THEOREM CreatesAlwaysAccepted == CodesSpec => []CreatesAccepted
<1>1. CodesInv => CreatesAccepted
  <2> SUFFICES ASSUME CodesInv, NEW d \in Device, NEW k \in DOMAIN queue[d],
                      queue[d][k].state = "error"
               PROVE  srv[queue[d][k].item].ver > 0
    BY DEF CreatesAccepted
  <2>1. Processed(srv, receipt, queue[d])
    BY DeviceFacts
  <2> QED BY <2>1 DEF Processed
<1> QED BY <1>1, CodesInvariant, PTL

=============================================================================
