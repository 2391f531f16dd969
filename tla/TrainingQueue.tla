--------------------------- MODULE TrainingQueue ---------------------------
(***************************************************************************)
(* The training queue: HTTP launches that enqueue jobs, workers that claim *)
(* and run them, users who cancel them, and the recovery a worker does     *)
(* when it starts.  They share two tables, jobs and sessions, and every    *)
(* statement commits on its own, so one action below is one statement (or  *)
(* one statement and the reads beside it that nothing can disturb).        *)
(***************************************************************************)
EXTENDS Integers, FiniteSets, SessionStates

CONSTANTS
    Job,            \* the job rows that may be inserted; each launch makes its own
    Session, Tenant, Worker,
    Launch,         \* POST /sessions/{id}/train requests
    BaseJob,        \* [Launch -> Job]: the job of the base session of the family
    SiblingJobs,    \* [Launch -> SUBSET Job]: one per coarser granularity
    SessionOf,      \* [Job -> Session]
    TenantOf,       \* [Session -> Tenant]
    Cancellable,    \* the jobs a user tries to cancel
    JobLimit,       \* [Tenant -> Nat]: the plan's max_concurrent_jobs
    Capacity,       \* settings.max_concurrent_jobs, per worker process
    MaxActive,      \* the active-job ceiling of start_training (3 in the code)
    Faults,         \* which faults may happen: subset of FaultKinds
    MaxFaults,      \* how many of them, in total
    NoWorker

FaultKinds == {"worker_crash", "api_crash", "session_write", "job_write", "job_read"}

ASSUME ConstantsAssumption ==
    /\ IsFiniteSet(Job)
    /\ SessionOf \in [Job -> Session]
    /\ TenantOf \in [Session -> Tenant]
    /\ BaseJob \in [Launch -> Job]
    /\ SiblingJobs \in [Launch -> SUBSET Job]
    /\ \A l \in Launch : BaseJob[l] \notin SiblingJobs[l]
    /\ Cancellable \subseteq Job
    /\ JobLimit \in [Tenant -> Nat]
    /\ Capacity \in Nat \ {0}
    /\ MaxActive \in Nat
    /\ Faults \subseteq FaultKinds
    /\ MaxFaults \in Nat
    /\ NoWorker \notin Worker

VARIABLES
    \* table jobs
    status,     \* [Job -> JobStatus]
    owner,      \* jobs.worker_id; set by the claim together with started_at
    born,       \* jobs.created_at: the stamp its inserting transaction started with; 0 = none
    unseen,     \* observer: older rows not committed yet when this one was claimed
    \* tables sessions and session_results
    sess,       \* [Session -> SessionState]
    result,     \* {} or the one job whose training_result is stored
    \* requests in flight
    launching,  \* [Launch -> LaunchPc]
    current,    \* [Launch -> SUBSET Job]: the member being enqueued
    cancelling, \* [Job -> CancelPc]
    \* worker processes
    worker,     \* [Worker -> WorkerPc]
    excluded,   \* [Worker -> SUBSET Tenant]: the exclusion list of this poll
    orphans,    \* [Worker -> SUBSET Job]: rows recovery selected, not yet failed
    fixing,     \* [Worker -> SUBSET Job]: job failed, its session not yet
    thread,     \* [Worker -> [Job -> ThreadPc]]: run_training_job
    announced,  \* [Job -> SUBSET {"COMPLETED", "FAILED"}]: webhook and broadcast
    faults      \* faults so far

jobVars     == <<status, owner, born, unseen>>
sessionVars == <<sess, result>>
requestVars == <<launching, current, cancelling>>
workerVars  == <<worker, excluded, orphans, fixing>>
vars == <<jobVars, sessionVars, requestVars, workerVars, thread, announced, faults>>

JobStatus == {"ABSENT", "QUEUED", "RUNNING"} \cup TerminalStates
ActiveJobStates == {"QUEUED", "RUNNING"}
LaunchPc == {"idle", "counting", "enqueue", "inserting", "link", "transition",
             "done", "refused", "dead"}
CancelPc == {"idle", "writing", "session", "done"}
WorkerPc == {"down", "recovering", "polling", "claiming"}
ThreadPc == {"none", "submitted", "training", "saved", "succeeded",
             "raised", "failed", "tell_completed", "tell_failed"}

JobsOf(t) == {j \in Job : TenantOf[SessionOf[j]] = t}
JobsIn(t, S) == {j \in JobsOf(t) : status[j] \in S}
Members(l) == {BaseJob[l]} \cup SiblingJobs[l]

\* A thread of w is somewhere inside run_training_job for j, or queued for it.
Live(w, j) == thread[w][j] # "none"
\* The threads the executor is running: _running_jobs of worker w.
Executing(w) == {j \in Job : thread[w][j] \notin {"none", "submitted"}}

TypeOK ==
    /\ status \in [Job -> JobStatus]
    /\ owner \in [Job -> Worker \cup {NoWorker}]
    /\ born \in [Job -> Nat]
    /\ unseen \in [Job -> SUBSET Job]
    /\ sess \in [Session -> SessionState]
    /\ result \in [Session -> SUBSET Job]
    /\ launching \in [Launch -> LaunchPc]
    /\ current \in [Launch -> SUBSET Job]
    /\ cancelling \in [Job -> CancelPc]
    /\ worker \in [Worker -> WorkerPc]
    /\ excluded \in [Worker -> SUBSET Tenant]
    /\ orphans \in [Worker -> SUBSET Job]
    /\ fixing \in [Worker -> SUBSET Job]
    /\ thread \in [Worker -> [Job -> ThreadPc]]
    /\ announced \in [Job -> SUBSET {"COMPLETED", "FAILED"}]
    /\ faults \in Nat

SiblingSessions == {SessionOf[j] : j \in UNION {SiblingJobs[l] : l \in Launch}}

Init ==
    /\ status = [j \in Job |-> "ABSENT"]
    /\ owner = [j \in Job |-> NoWorker]
    /\ born = [j \in Job |-> 0]
    /\ unseen = [j \in Job |-> {}]
    /\ sess = [s \in Session |->
                 IF s \in SiblingSessions THEN "ABSENT" ELSE "MODELS_CONFIGURED"]
    /\ result = [s \in Session |-> {}]
    /\ launching = [l \in Launch |-> "idle"]
    /\ current = [l \in Launch |-> {}]
    /\ cancelling = [j \in Job |-> "idle"]
    /\ worker = [w \in Worker |-> "down"]
    /\ excluded = [w \in Worker |-> {}]
    /\ orphans = [w \in Worker |-> {}]
    /\ fixing = [w \in Worker |-> {}]
    /\ thread = [w \in Worker |-> [j \in Job |-> "none"]]
    /\ announced = [j \in Job |-> {}]
    /\ faults = 0

\* A fault of kind k happens now and uses up one of the budget.
Fault(k) ==
    /\ k \in Faults
    /\ faults < MaxFaults
    /\ faults' = faults + 1

\* force_status(session, st): unconditional, by id.  Its callers swallow the
\* exception of a failed write, so the row may also stay as it was.
ForceStatus(s, st) ==
    \/ sess' = [sess EXCEPT ![s] = st] /\ UNCHANGED faults
    \/ Fault("session_write") /\ UNCHANGED sess
-----------------------------------------------------------------------------
(* Launches: api/v1/training.py start_training, family_service.py *)

BaseSession(l) == SessionOf[BaseJob[l]]

\* The state check: anything else answers 409 session_not_trainable.
LaunchReadStatus(l) ==
    /\ launching[l] = "idle"
    /\ sess[BaseSession(l)] # "ABSENT"
    /\ launching' = [launching EXCEPT ![l] =
                       IF sess[BaseSession(l)] \in PreTrainStates
                       THEN "counting" ELSE "refused"]
    /\ UNCHANGED <<jobVars, sessionVars, current, cancelling, workerVars,
                   thread, announced, faults>>

\* The active-job ceiling (429 above it), then the gates of
\* launch_training_family, any of which may refuse (the data gate, the daily
\* training cap); past them, it makes the sibling sessions and forces them to
\* MODELS_CONFIGURED.
LaunchCountActive(l) ==
    /\ launching[l] = "counting"
    /\ \/ /\ launching' = [launching EXCEPT ![l] = "refused"]
          /\ UNCHANGED sess
       \/ /\ Cardinality(JobsIn(TenantOf[BaseSession(l)], ActiveJobStates)) < MaxActive
          /\ launching' = [launching EXCEPT ![l] = "enqueue"]
          /\ sess' = [s \in Session |->
                        IF s \in {SessionOf[j] : j \in SiblingJobs[l]}
                        THEN "MODELS_CONFIGURED" ELSE sess[s]]
    /\ UNCHANGED <<jobVars, result, current, cancelling, workerVars,
                   thread, announced, faults>>

\* _enqueue of the next member, base first: its transaction starts, which is
\* what the NOW() of its INSERT will say.  The base job's first statement waits
\* for the tenant's advisory lock (limit_guard), as long as anyone holds it.
LaunchBeginInsert(l) ==
    /\ launching[l] = "enqueue"
    /\ \E j \in Members(l) :
         /\ status[j] = "ABSENT" /\ born[j] = 0
         /\ j # BaseJob[l] => status[BaseJob[l]] # "ABSENT"
         /\ born' = [born EXCEPT ![j] = 1 + Cardinality({k \in Job : born[k] # 0})]
         /\ current' = [current EXCEPT ![l] = {j}]
    /\ launching' = [launching EXCEPT ![l] = "inserting"]
    /\ UNCHANGED <<status, owner, unseen, sessionVars, cancelling, workerVars,
                   thread, announced, faults>>

\* Under the lock it finds that another launch took the last training of the
\* day: nothing is inserted, and the siblings, archived, never get a job.
LaunchLosesRace(l) ==
    /\ launching[l] = "inserting"
    /\ current[l] = {BaseJob[l]}
    /\ launching' = [launching EXCEPT ![l] = "refused"]
    /\ UNCHANGED <<jobVars, sessionVars, current, cancelling, workerVars,
                   thread, announced, faults>>

\* The commit of create_job: the row is there, QUEUED, and can be claimed.
LaunchCreateJob(l) ==
    /\ launching[l] = "inserting"
    /\ \E j \in current[l] :
         /\ status[j] = "ABSENT"
         /\ status' = [status EXCEPT ![j] = "QUEUED"]
    /\ launching' = [launching EXCEPT ![l] = "link"]
    /\ UNCHANGED <<owner, born, unseen, sessionVars, current, cancelling, workerVars,
                   thread, announced, faults>>

\* Where the loop over the members goes after this one.
AfterMember(l) ==
    IF \E j \in Members(l) : status[j] = "ABSENT" THEN "enqueue" ELSE "done"

\* set_last_job, a column no step here reads; then the read half of
\* transition(QUEUED): a state the table does not allow raises ValueError, which
\* _enqueue swallows.
LaunchLinkJob(l) ==
    /\ launching[l] = "link"
    /\ \E j \in current[l] :
          launching' = [launching EXCEPT ![l] =
                          IF CanTransition(sess[SessionOf[j]], "QUEUED")
                          THEN "transition" ELSE AfterMember(l)]
    /\ UNCHANGED <<jobVars, sessionVars, current, cancelling, workerVars,
                   thread, announced, faults>>

\* The write half of transition: UPDATE by id, whatever the row says by now.
LaunchWriteQueued(l) ==
    /\ launching[l] = "transition"
    /\ \E j \in current[l] : sess' = [sess EXCEPT ![SessionOf[j]] = "QUEUED"]
    /\ launching' = [launching EXCEPT ![l] = AfterMember(l)]
    /\ UNCHANGED <<jobVars, result, current, cancelling, workerVars,
                   thread, announced, faults>>

\* The API process dies while it serves the request.
LaunchDies(l) ==
    /\ launching[l] \in {"enqueue", "inserting", "link", "transition"}
    /\ Fault("api_crash")
    /\ launching' = [launching EXCEPT ![l] = "dead"]
    /\ UNCHANGED <<jobVars, sessionVars, current, cancelling, workerVars,
                   thread, announced>>
-----------------------------------------------------------------------------
(* Cancellation: DELETE /jobs/{id} in api/v1/training.py, job_service.py *)

\* cancel_job reads the row and refuses a finished one (409, nothing changes).
CancelRead(j) ==
    /\ j \in Cancellable
    /\ cancelling[j] = "idle"
    /\ status[j] \in ActiveJobStates
    /\ cancelling' = [cancelling EXCEPT ![j] = "writing"]
    /\ UNCHANGED <<jobVars, sessionVars, launching, current, workerVars,
                   thread, announced, faults>>

\* Mutant of CancelWrite: the misspelt status no screen knows.
CancelWriteMisspelt(j) ==
    /\ cancelling[j] = "writing"
    /\ status' = [status EXCEPT ![j] = "CANCELED"]
    /\ cancelling' = [cancelling EXCEPT ![j] = "session"]
    /\ UNCHANGED <<owner, born, unseen, sessionVars, launching, current, workerVars,
                   thread, announced, faults>>

\* ... and then updates it by id, without looking at the status again.
CancelWrite(j) ==
    /\ cancelling[j] = "writing"
    /\ status' = [status EXCEPT ![j] = "CANCELLED"]
    /\ cancelling' = [cancelling EXCEPT ![j] = "session"]
    /\ UNCHANGED <<owner, born, unseen, sessionVars, launching, current, workerVars,
                   thread, announced, faults>>

\* The session follows; a failed write is logged and reported, not retried.
CancelSession(j) ==
    /\ cancelling[j] = "session"
    /\ ForceStatus(SessionOf[j], "CANCELLED")
    /\ cancelling' = [cancelling EXCEPT ![j] = "done"]
    /\ UNCHANGED <<jobVars, result, launching, current, workerVars,
                   thread, announced>>

\* The API process dies while it serves the request.
CancelDies(j) ==
    /\ cancelling[j] \in {"writing", "session"}
    /\ Fault("api_crash")
    /\ cancelling' = [cancelling EXCEPT ![j] = "done"]
    /\ UNCHANGED <<jobVars, sessionVars, launching, current, workerVars,
                   thread, announced>>
-----------------------------------------------------------------------------
(* The worker process: workers/worker.py, training/queue.py *)

\* Mutants of WorkerStart: recovery not scoped to this worker_id, and recovery
\* that only knows the legacy rows without one.
WorkerStartUnscoped(w) ==
    LET found == {j \in Job : status[j] = "RUNNING"} IN
    /\ worker[w] = "down"
    /\ worker' = [worker EXCEPT ![w] = IF found = {} THEN "polling" ELSE "recovering"]
    /\ orphans' = [orphans EXCEPT ![w] = found]
    /\ UNCHANGED <<jobVars, sessionVars, requestVars, excluded, fixing,
                   thread, announced, faults>>
WorkerStartLegacyOnly(w) ==
    LET found == {j \in Job : status[j] = "RUNNING" /\ owner[j] = NoWorker} IN
    /\ worker[w] = "down"
    /\ worker' = [worker EXCEPT ![w] = IF found = {} THEN "polling" ELSE "recovering"]
    /\ orphans' = [orphans EXCEPT ![w] = found]
    /\ UNCHANGED <<jobVars, sessionVars, requestVars, excluded, fixing,
                   thread, announced, faults>>

\* recover_orphaned_jobs, its SELECT: RUNNING rows of this worker_id, or of none.
\* When it finds none, recovery is over and the poll loop starts.
WorkerStart(w) ==
    LET found == {j \in Job : status[j] = "RUNNING" /\ owner[j] \in {w, NoWorker}} IN
    /\ worker[w] = "down"
    /\ worker' = [worker EXCEPT ![w] = IF found = {} THEN "polling" ELSE "recovering"]
    /\ orphans' = [orphans EXCEPT ![w] = found]
    /\ UNCHANGED <<jobVars, sessionVars, requestVars, excluded, fixing,
                   thread, announced, faults>>

\* Mutant of RecoverJob: the orphan is retried instead of failed.
RecoverJobRequeues(w, j) ==
    /\ worker[w] = "recovering"
    /\ fixing[w] = {}
    /\ j \in orphans[w]
    /\ status' = [status EXCEPT ![j] = "QUEUED"]
    /\ orphans' = [orphans EXCEPT ![w] = @ \ {j}]
    /\ fixing' = [fixing EXCEPT ![w] = {j}]
    /\ UNCHANGED <<owner, born, unseen, sessionVars, requestVars, worker, excluded,
                   thread, announced, faults>>

\* One row of that list: UPDATE jobs ... FAILED by id.
RecoverJob(w, j) ==
    /\ worker[w] = "recovering"
    /\ fixing[w] = {}
    /\ j \in orphans[w]
    /\ status' = [status EXCEPT ![j] = "FAILED"]
    /\ orphans' = [orphans EXCEPT ![w] = @ \ {j}]
    /\ fixing' = [fixing EXCEPT ![w] = {j}]
    /\ UNCHANGED <<owner, born, unseen, sessionVars, requestVars, worker, excluded,
                   thread, announced, faults>>

\* ... and its session, in a try/except of its own.
RecoverSession(w) ==
    /\ \E j \in fixing[w] : ForceStatus(SessionOf[j], "FAILED")
    /\ fixing' = [fixing EXCEPT ![w] = {}]
    /\ UNCHANGED <<jobVars, result, requestVars, worker, excluded,
                   orphans, thread, announced>>

\* A statement of recover_orphaned_jobs on the jobs table raises: its SELECT, or
\* the UPDATE of one row, and then the rows after it are not reached either.
\* _run logs "Orphan recovery failed (continuing)" and enters the poll loop.
RecoveryRaises(w) ==
    /\ \/ worker[w] = "down" /\ Fault("job_read")
       \/ worker[w] = "recovering" /\ fixing[w] = {} /\ orphans[w] # {} /\ Fault("job_write")
    /\ worker' = [worker EXCEPT ![w] = "polling"]
    /\ orphans' = [orphans EXCEPT ![w] = {}]
    /\ UNCHANGED <<jobVars, sessionVars, requestVars, excluded, fixing,
                   thread, announced>>

\* Every orphan and its session are written; the poll loop starts.
WorkerEnterLoop(w) ==
    /\ worker[w] = "recovering"
    /\ orphans[w] = {} /\ fixing[w] = {}
    /\ worker' = [worker EXCEPT ![w] = "polling"]
    /\ UNCHANGED <<jobVars, sessionVars, requestVars, excluded, orphans, fixing,
                   thread, announced, faults>>

\* Mutant of AtLimit: the waiting jobs count against the limit too.
AtLimitOfActive(t) == Cardinality(JobsIn(t, ActiveJobStates)) >= JobLimit[t]

\* _tenant_at_concurrent_job_limit
AtLimit(t) == Cardinality(JobsIn(t, {"RUNNING"})) >= JobLimit[t]

\* A poll below capacity: claim() asks the predicate about the tenants that
\* have a QUEUED job NOW and keeps the verdicts for its UPDATE.
WorkerPoll(w) ==
    /\ worker[w] = "polling"
    /\ Cardinality(Executing(w)) < Capacity
    /\ excluded' = [excluded EXCEPT ![w] =
                      {t \in Tenant : JobsIn(t, {"QUEUED"}) # {} /\ AtLimit(t)}]
    /\ worker' = [worker EXCEPT ![w] = "claiming"]
    /\ UNCHANGED <<jobVars, sessionVars, requestVars, orphans, fixing,
                   thread, announced, faults>>

\* Mutants of the subquery: the old dequeue, which dispatched a row a sibling
\* had just marked RUNNING, and no ORDER BY.
EligibleTaken(w) ==
    {j \in Job : status[j] \in ActiveJobStates /\ TenantOf[SessionOf[j]] \notin excluded[w]}
AnyOf(S) == S

\* The rows claim()'s subquery can take: QUEUED, tenant not excluded, oldest.
Eligible(w) == {j \in Job : status[j] = "QUEUED" /\ TenantOf[SessionOf[j]] \notin excluded[w]}
Oldest(S) == {j \in S : \A k \in S : born[j] <= born[k]}

\* The one UPDATE of claim() takes the row j, and the loop submits it.
WorkerTakes(w, j) ==
    /\ status' = [status EXCEPT ![j] = "RUNNING"]
    /\ owner' = [owner EXCEPT ![j] = w]
    /\ unseen' = [unseen EXCEPT ![j] = {k \in Job : status[k] = "ABSENT" /\ born[k] \in 1 .. born[j]}]
    /\ thread' = [thread EXCEPT ![w][j] = "submitted"]

\* The second half of the poll; claim() returns None when no row is eligible.
WorkerClaim(w) ==
    /\ worker[w] = "claiming"
    /\ worker' = [worker EXCEPT ![w] = "polling"]
    /\ excluded' = [excluded EXCEPT ![w] = {}]
    /\ \/ Eligible(w) = {} /\ UNCHANGED <<status, owner, unseen, thread>>
       \/ \E j \in Oldest(Eligible(w)) : WorkerTakes(w, j)
    /\ UNCHANGED <<born, sessionVars, requestVars, orphans, fixing,
                   announced, faults>>

\* The process dies: every thread and every local value is gone, the rows stay.
WorkerCrash(w) ==
    /\ worker[w] # "down"
    /\ Fault("worker_crash")
    /\ worker' = [worker EXCEPT ![w] = "down"]
    /\ excluded' = [excluded EXCEPT ![w] = {}]
    /\ orphans' = [orphans EXCEPT ![w] = {}]
    /\ fixing' = [fixing EXCEPT ![w] = {}]
    /\ thread' = [thread EXCEPT ![w] = [j \in Job |-> "none"]]
    /\ UNCHANGED <<jobVars, sessionVars, requestVars, announced>>
-----------------------------------------------------------------------------
(* A training thread: workers/runner.py run_training_job *)

\* Move the thread of w for j from one of the places in `from` to `to`.
Step(w, j, from, to) ==
    /\ thread[w][j] \in from
    /\ thread' = [thread EXCEPT ![w][j] = to]

\* The executor has a free thread; the session is labelled RUNNING.
ThreadStart(w, j) ==
    /\ Cardinality(Executing(w)) < Capacity
    /\ Step(w, j, {"submitted"}, "training")
    /\ ForceStatus(SessionOf[j], "RUNNING")
    /\ UNCHANGED <<jobVars, result, requestVars, workerVars, announced>>

\* set_training_result: the forecast is in the session before the job is done.
SaveResult(w, j) ==
    /\ Step(w, j, {"training"}, "saved")
    /\ result' = [result EXCEPT ![SessionOf[j]] = {j}]
    /\ UNCHANGED <<jobVars, sess, requestVars, workerVars, announced, faults>>

\* Anything inside the try block raises, before mark_completed.
TrainingRaises(w, j) ==
    /\ Step(w, j, {"training", "saved"}, "raised")
    /\ UNCHANGED <<jobVars, sessionVars, requestVars, workerVars, announced, faults>>

\* Mutant of MarkCompleted: the job is completed before its result is stored.
MarkCompletedEarly(w, j) ==
    /\ Step(w, j, {"training", "saved"}, "succeeded")
    /\ status' = [status EXCEPT ![j] = "COMPLETED"]
    /\ UNCHANGED <<owner, born, unseen, sessionVars, requestVars, workerVars, announced, faults>>

\* mark_completed: by id, whatever the status is by now.
MarkCompleted(w, j) ==
    /\ Step(w, j, {"saved"}, "succeeded")
    /\ status' = [status EXCEPT ![j] = "COMPLETED"]
    /\ UNCHANGED <<owner, born, unseen, sessionVars, requestVars, workerVars, announced, faults>>

\* force_status COMPLETED is still inside the try: if it raises, the handler
\* takes over and the job that was COMPLETED becomes FAILED.
CompleteSession(w, j) ==
    /\ \/ /\ Step(w, j, {"succeeded"}, "tell_completed")
          /\ sess' = [sess EXCEPT ![SessionOf[j]] = "COMPLETED"]
          /\ UNCHANGED faults
       \/ /\ Step(w, j, {"succeeded"}, "raised")
          /\ Fault("session_write")
          /\ UNCHANGED sess
    /\ UNCHANGED <<jobVars, result, requestVars, workerVars, announced>>

\* mark_failed; if this write raises too, the exception leaves the runner and
\* the worker only logs it: the row stays as it was and the thread is free.
MarkFailed(w, j) ==
    /\ \/ /\ Step(w, j, {"raised"}, "failed")
          /\ status' = [status EXCEPT ![j] = "FAILED"]
          /\ UNCHANGED faults
       \/ /\ Step(w, j, {"raised"}, "none")
          /\ Fault("job_write")
          /\ UNCHANGED status
    /\ UNCHANGED <<owner, born, unseen, sessionVars, requestVars, workerVars, announced>>

\* Mutant of FailSession: the session is left as it was.
FailSessionForgotten(w, j) ==
    /\ Step(w, j, {"failed"}, "tell_failed")
    /\ UNCHANGED <<jobVars, sessionVars, requestVars, workerVars, announced, faults>>

\* force_status FAILED, swallowed when it raises.
FailSession(w, j) ==
    /\ Step(w, j, {"failed"}, "tell_failed")
    /\ ForceStatus(SessionOf[j], "FAILED")
    /\ UNCHANGED <<jobVars, result, requestVars, workerVars, announced>>

\* Mutant of Announce: a webhook of a completed run may raise into the handler.
AnnounceRaises(w, j) ==
    /\ \/ /\ Step(w, j, {"tell_completed"}, "raised")
          /\ announced' = [announced EXCEPT ![j] = @ \cup {"COMPLETED"}]
       \/ /\ Step(w, j, {"tell_failed"}, "none")
          /\ announced' = [announced EXCEPT ![j] = @ \cup {"FAILED"}]
    /\ UNCHANGED <<jobVars, sessionVars, requestVars, workerVars, faults>>

\* Manifest, webhook, broadcast, activity row: none of them raises.
Announce(w, j) ==
    /\ \/ /\ Step(w, j, {"tell_completed"}, "none")
          /\ announced' = [announced EXCEPT ![j] = @ \cup {"COMPLETED"}]
       \/ /\ Step(w, j, {"tell_failed"}, "none")
          /\ announced' = [announced EXCEPT ![j] = @ \cup {"FAILED"}]
    /\ UNCHANGED <<jobVars, sessionVars, requestVars, workerVars, faults>>
-----------------------------------------------------------------------------
LaunchNext(l) ==
    \/ LaunchReadStatus(l) \/ LaunchCountActive(l) \/ LaunchLosesRace(l)
    \/ LaunchBeginInsert(l) \/ LaunchCreateJob(l)
    \/ LaunchLinkJob(l) \/ LaunchWriteQueued(l) \/ LaunchDies(l)

CancelNext(j) == CancelRead(j) \/ CancelWrite(j) \/ CancelSession(j) \/ CancelDies(j)

WorkerNext(w) ==
    \/ WorkerStart(w) \/ RecoverSession(w) \/ RecoveryRaises(w) \/ WorkerEnterLoop(w)
    \/ WorkerPoll(w) \/ WorkerClaim(w) \/ WorkerCrash(w)
    \/ \E j \in Job : RecoverJob(w, j)

ThreadNext(w, j) ==
    \/ ThreadStart(w, j) \/ SaveResult(w, j) \/ TrainingRaises(w, j)
    \/ MarkCompleted(w, j) \/ CompleteSession(w, j) \/ MarkFailed(w, j)
    \/ FailSession(w, j) \/ Announce(w, j)

Next ==
    \/ \E l \in Launch : LaunchNext(l)
    \/ \E j \in Job : CancelNext(j)
    \/ \E w \in Worker : WorkerNext(w)
    \/ \E w \in Worker, j \in Job : ThreadNext(w, j)

Spec == Init /\ [][Next]_vars
-----------------------------------------------------------------------------
(* Safety *)

\* No job is ever inside two workers at once: claim() hands a row to one of
\* them, and recovery, cancellation and crashes never hand it out again.
ExclusiveExecution ==
    \A j \in Job : \A v, w \in Worker : Live(v, j) /\ Live(w, j) => v = w

\* A starting worker only fails jobs nobody is executing: its restart never
\* takes down a job a sibling worker is training (recover_orphaned_jobs).
OrphansAreDead ==
    \A w \in Worker : \A j \in orphans[w] \cup fixing[w] :
        \A v \in Worker : ~Live(v, j)

\* A session that reads COMPLETED, which is what every screen looks for, holds
\* a training result, whoever cancelled, crashed or relaunched in between.
CompletedSessionHasResult ==
    \A s \in Session : sess[s] = "COMPLETED" => result[s] # {}

\* A job is announced (webhook, broadcast, activity) as completed or as failed,
\* never as both, even when its session could not be written.
OneVerdict ==
    \A j \in Job : announced[j] \in {{}, {"COMPLETED"}, {"FAILED"}}

SameTenant(j, k) == TenantOf[SessionOf[j]] = TenantOf[SessionOf[k]]

\* A waiting job is passed by a younger one of its tenant in one case only: its
\* own row was not committed yet when the younger one was claimed.  From the
\* commit on nothing passes it, on any worker, however long its tenant is held
\* back by the limit.
PassedOnlyUnseen ==
    \A j, k \in Job :
        /\ SameTenant(j, k)
        /\ status[j] = "QUEUED"
        /\ owner[k] # NoWorker /\ j \notin unseen[k]
        => born[k] < born[j]

\* The places from which a thread still has its session's last word to write.
SessionPending == {"training", "saved", "succeeded", "raised", "failed"}

\* As long as nothing has failed, a session that reads RUNNING has a thread
\* that is training it and will move it on, through every launch and cancel.
RunningSessionHasRunner ==
    faults = 0 =>
        \A s \in Session : sess[s] = "RUNNING" =>
            \E w \in Worker, j \in Job :
                SessionOf[j] = s /\ thread[w][j] \in SessionPending

\* A row that reads RUNNING and whose end nobody is going to write: its worker
\* is up, has no thread for it, and does not have it on its recovery list.
Unattended(j) ==
    /\ status[j] = "RUNNING"
    /\ \A w \in Worker : owner[j] = w =>
          ~Live(w, j) /\ worker[w] # "down" /\ j \notin orphans[w]

\* The two ways a row may lose the write of its end: mark_failed raises in its
\* own thread, or a statement of its worker's start-up recovery raises.
EndWriteLost(j) ==
    /\ faults' # faults
    /\ \E w \in Worker :
          /\ owner[j] = w
          /\ thread[w][j] = "raised" \/ worker[w] \in {"down", "recovering"}

\* A RUNNING row is left unattended only in those two ways: no crash, restart,
\* claim, cancellation or failed session write of any process leaves one.
LeftOnlyByLostWrite ==
    [][\A j \in Job : Unattended(j)' => Unattended(j) \/ EndWriteLost(j)]_vars

(* The queue implements AtMostOnce: where each job is, and who executes it. *)
runnerOf == [j \in Job |-> {w \in Worker : Live(w, j)}]
phaseOf == [j \in Job |->
    CASE runnerOf[j] # {} -> "executing"
      [] runnerOf[j] = {} /\ status[j] = "ABSENT" -> "absent"
      [] runnerOf[j] = {} /\ status[j] = "QUEUED" -> "waiting"
      [] OTHER -> "over"]

Once == INSTANCE AtMostOnce WITH phase <- phaseOf, runner <- runnerOf

\* Every step of the queue is a step of AtMostOnce or changes none of its state.
ExecutedAtMostOnce == Once!Spec

-----------------------------------------------------------------------------
(* Liveness *)

WorkerStep(w) ==
    \/ WorkerStart(w) \/ RecoverSession(w) \/ WorkerEnterLoop(w)
    \/ WorkerPoll(w) \/ WorkerClaim(w)
    \/ \E j \in Job : RecoverJob(w, j)

\* A worker process is restarted when it dies (restart: unless-stopped in the
\* deployment) and its loops and threads keep running; a training ends or raises.
Fairness ==
    /\ \A w \in Worker : WF_vars(WorkerStep(w))
    /\ \A w \in Worker, j \in Job : WF_vars(ThreadNext(w, j))
    /\ \A j \in Job : WF_vars(CancelWrite(j) \/ CancelSession(j))
    /\ \A l \in Launch : WF_vars(LaunchBeginInsert(l) \/ LaunchCreateJob(l)
                                 \/ LaunchLinkJob(l) \/ LaunchWriteQueued(l))

FairSpec == Spec /\ Fairness

\* Unattended rows hold every slot the plan of t has.
SlotsHeld(t) == Cardinality({j \in JobsOf(t) : Unattended(j)}) >= JobLimit[t]

\* Every queued job ends: the tenant limit makes it wait but never starves it,
\* and a crash in the middle is closed by the recovery of the next start.  What
\* can hold it for ever is a lost write: its own row stays unattended, or such
\* rows hold every slot of its tenant, and their workers never start again.
EveryJobEnds ==
    \A j \in Job :
        status[j] = "QUEUED" ~>
            \/ status[j] \in TerminalStates
            \/ [](Unattended(j) \/ SlotsHeld(TenantOf[SessionOf[j]]))

=============================================================================
