------------------------ MODULE TrainingQueueProofs ------------------------
(***************************************************************************)
(* Theorems about TrainingQueue, for any number of jobs, sessions, tenants,*)
(* workers and faults.                                                     *)
(***************************************************************************)
EXTENDS TrainingQueue, FiniteSetTheorems, TLAPS

-----------------------------------------------------------------------------
(* Type correctness *)

\* What ForceStatus does to the two variables it touches.
LEMMA ForceStatusType ==
    ASSUME TypeOK, NEW s \in Session, NEW st \in SessionState, ForceStatus(s, st)
    PROVE  sess' \in [Session -> SessionState] /\ faults' \in Nat
<1>1. sess \in [Session -> SessionState] /\ faults \in Nat
    BY DEF TypeOK
<1> QED
    BY <1>1 DEF ForceStatus, Fault

\* Step moves one thread and no other.
LEMMA StepType ==
    ASSUME TypeOK, NEW w \in Worker, NEW j \in Job, NEW from, NEW to \in ThreadPc,
           Step(w, j, from, to)
    PROVE  thread' \in [Worker -> [Job -> ThreadPc]]
    BY DEF TypeOK, Step

\* A poll that reaches claim() takes one QUEUED row, or none.
LEMMA ClaimTakesOne ==
    ASSUME NEW w \in Worker, WorkerClaim(w)
    PROVE  \/ UNCHANGED <<status, owner, unseen, thread>>
           \/ \E j \in Job : status[j] = "QUEUED" /\ WorkerTakes(w, j)
    BY DEF WorkerClaim, Oldest, Eligible

\* The requests keep the types: start_training, launch_training_family, _enqueue
\* and cancel_job.
LEMMA RequestTypes ==
    ASSUME TypeOK, \/ \E l \in Launch : LaunchNext(l)
                   \/ \E j \in Job : CancelNext(j)
    PROVE  TypeOK'
<1> USE ConstantsAssumption DEF jobVars, sessionVars, requestVars, workerVars
<1>1. ASSUME NEW l \in Launch, LaunchReadStatus(l) PROVE TypeOK'
    BY <1>1 DEF TypeOK, LaunchReadStatus, LaunchPc
<1>2. ASSUME NEW l \in Launch, LaunchCountActive(l) PROVE TypeOK'
    BY <1>2 DEF TypeOK, LaunchCountActive, LaunchPc, SessionState
<1>3. ASSUME NEW l \in Launch, LaunchLosesRace(l) PROVE TypeOK'
    BY <1>3 DEF TypeOK, LaunchLosesRace, LaunchPc
<1>b. ASSUME NEW l \in Launch, LaunchBeginInsert(l) PROVE TypeOK'
    <2>1. PICK j \in Members(l) :
              /\ born' = [born EXCEPT ![j] = 1 + Cardinality({k \in Job : born[k] # 0})]
              /\ current' = [current EXCEPT ![l] = {j}]
        BY <1>b DEF LaunchBeginInsert
    <2>2. j \in Job
        BY <2>1 DEF Members
    <2>3. Cardinality({k \in Job : born[k] # 0}) \in Nat
        BY FS_Subset, FS_CardinalityType
    <2>4. born' \in [Job -> Nat] /\ current' \in [Launch -> SUBSET Job]
        BY <2>1, <2>2, <2>3 DEF TypeOK
    <2> QED
        BY <1>b, <2>4 DEF TypeOK, LaunchBeginInsert, LaunchPc
<1>4. ASSUME NEW l \in Launch, LaunchCreateJob(l) PROVE TypeOK'
    BY <1>4 DEF TypeOK, LaunchCreateJob, LaunchPc, JobStatus
<1>5. ASSUME NEW l \in Launch, LaunchLinkJob(l) PROVE TypeOK'
    <2>1. AfterMember(l) \in LaunchPc
        BY DEF AfterMember, LaunchPc
    <2> QED
        BY <1>5, <2>1 DEF TypeOK, LaunchLinkJob, LaunchPc
<1>6. ASSUME NEW l \in Launch, LaunchWriteQueued(l) PROVE TypeOK'
    <2>1. AfterMember(l) \in LaunchPc
        BY DEF AfterMember, LaunchPc
    <2> QED
        BY <1>6, <2>1 DEF TypeOK, LaunchWriteQueued, SessionState, InFlightStates
<1>7. ASSUME NEW l \in Launch, LaunchDies(l) PROVE TypeOK'
    BY <1>7 DEF TypeOK, LaunchDies, LaunchPc, Fault
<1>8. ASSUME NEW j \in Job, CancelRead(j) PROVE TypeOK'
    BY <1>8 DEF TypeOK, CancelRead, CancelPc
<1>9. ASSUME NEW j \in Job, CancelWrite(j) PROVE TypeOK'
    BY <1>9 DEF TypeOK, CancelWrite, CancelPc, JobStatus, TerminalStates
<1>10. ASSUME NEW j \in Job, CancelSession(j) PROVE TypeOK'
    <2>1. sess' \in [Session -> SessionState] /\ faults' \in Nat
        BY <1>10, ForceStatusType DEF CancelSession, SessionState, TerminalStates
    <2> QED
        BY <1>10, <2>1 DEF TypeOK, CancelSession, CancelPc
<1>11. ASSUME NEW j \in Job, CancelDies(j) PROVE TypeOK'
    BY <1>11 DEF TypeOK, CancelDies, CancelPc, Fault
<1> QED
    BY <1>1, <1>2, <1>3, <1>b, <1>4, <1>5, <1>6, <1>7, <1>8, <1>9, <1>10, <1>11
    DEF LaunchNext, CancelNext

\* The worker process keeps the types: recover_orphaned_jobs, _loop, claim.
LEMMA WorkerTypes ==
    ASSUME TypeOK, NEW w \in Worker, WorkerNext(w)
    PROVE  TypeOK'
<1> USE ConstantsAssumption DEF jobVars, sessionVars, requestVars, workerVars
<1>1. CASE WorkerStart(w)
    BY <1>1 DEF TypeOK, WorkerStart, WorkerPc
<1>2. ASSUME NEW j \in Job, RecoverJob(w, j) PROVE TypeOK'
    BY <1>2 DEF TypeOK, RecoverJob, JobStatus, TerminalStates
<1>3. CASE RecoverSession(w)
    <2>1. sess' \in [Session -> SessionState] /\ faults' \in Nat
        BY <1>3, ForceStatusType DEF RecoverSession, SessionState, TerminalStates, TypeOK
    <2> QED
        BY <1>3, <2>1 DEF TypeOK, RecoverSession
<1>r. CASE RecoveryRaises(w)
    BY <1>r DEF TypeOK, RecoveryRaises, WorkerPc, Fault
<1>4. CASE WorkerEnterLoop(w)
    BY <1>4 DEF TypeOK, WorkerEnterLoop, WorkerPc
<1>5. CASE WorkerPoll(w)
    BY <1>5 DEF TypeOK, WorkerPoll, WorkerPc
<1>6. CASE WorkerClaim(w)
    <2>1. /\ status' \in [Job -> JobStatus]
          /\ owner' \in [Job -> Worker \cup {NoWorker}]
          /\ unseen' \in [Job -> SUBSET Job]
          /\ thread' \in [Worker -> [Job -> ThreadPc]]
        <3>1. CASE UNCHANGED <<status, owner, unseen, thread>>
            BY <3>1 DEF TypeOK
        <3>2. ASSUME NEW j \in Job, WorkerTakes(w, j) 
              PROVE  /\ status' \in [Job -> JobStatus]
                     /\ owner' \in [Job -> Worker \cup {NoWorker}]
                     /\ unseen' \in [Job -> SUBSET Job]
                     /\ thread' \in [Worker -> [Job -> ThreadPc]]
            BY <3>2 DEF TypeOK, WorkerTakes, JobStatus, ThreadPc
        <3> QED
            BY <1>6, <3>1, <3>2, ClaimTakesOne
    <2> QED
        BY <1>6, <2>1 DEF TypeOK, WorkerClaim, WorkerPc
<1>7. CASE WorkerCrash(w)
    <2>1. thread' \in [Worker -> [Job -> ThreadPc]]
        BY <1>7 DEF TypeOK, WorkerCrash, ThreadPc
    <2> QED
        BY <1>7, <2>1 DEF TypeOK, WorkerCrash, WorkerPc, Fault
<1> QED
    BY <1>1, <1>2, <1>3, <1>r, <1>4, <1>5, <1>6, <1>7 DEF WorkerNext

\* A training thread keeps the types: run_training_job.
LEMMA ThreadTypes ==
    ASSUME TypeOK, NEW w \in Worker, NEW j \in Job, ThreadNext(w, j)
    PROVE  TypeOK'
<1> USE ConstantsAssumption DEF jobVars, sessionVars, requestVars, workerVars
<1>s. SessionOf[j] \in Session
    OBVIOUS
<1>p. {"none", "submitted", "training", "saved", "succeeded", "raised", "failed",
       "tell_completed", "tell_failed"} = ThreadPc
    BY DEF ThreadPc
<1>t. thread' \in [Worker -> [Job -> ThreadPc]]
    <2>1. \E from, to : to \in ThreadPc /\ Step(w, j, from, to)
        BY <1>p DEF ThreadNext, ThreadStart, SaveResult, TrainingRaises, MarkCompleted,
           CompleteSession, MarkFailed, FailSession, Announce
    <2> QED
        BY <2>1, StepType
<1>1. CASE ThreadStart(w, j) \/ FailSession(w, j)
    <2>1. sess' \in [Session -> SessionState] /\ faults' \in Nat
        BY <1>1, <1>s, ForceStatusType
        DEF ThreadStart, FailSession, SessionState, InFlightStates, TerminalStates
    <2> QED
        BY <1>1, <1>t, <2>1 DEF TypeOK, ThreadStart, FailSession
<1>2. CASE SaveResult(w, j)
    BY <1>2, <1>s, <1>t DEF TypeOK, SaveResult
<1>3. CASE TrainingRaises(w, j)
    BY <1>3, <1>t DEF TypeOK, TrainingRaises
<1>4. CASE MarkCompleted(w, j) \/ MarkFailed(w, j)
    <2>1. status' \in [Job -> JobStatus]
        BY <1>4 DEF TypeOK, MarkCompleted, MarkFailed, JobStatus, TerminalStates
    <2>2. faults' \in Nat
        BY <1>4 DEF TypeOK, MarkCompleted, MarkFailed, Fault
    <2> QED
        BY <1>4, <1>t, <2>1, <2>2 DEF TypeOK, MarkCompleted, MarkFailed
<1>5. CASE CompleteSession(w, j)
    <2>1. sess' \in [Session -> SessionState]
        BY <1>5, <1>s DEF TypeOK, CompleteSession, SessionState, TerminalStates
    <2>2. faults' \in Nat
        BY <1>5 DEF TypeOK, CompleteSession, Fault
    <2> QED
        BY <1>5, <1>t, <2>1, <2>2 DEF TypeOK, CompleteSession
<1>6. CASE Announce(w, j)
    <2>1. ASSUME NEW v \in {"COMPLETED", "FAILED"},
                 announced' = [announced EXCEPT ![j] = @ \cup {v}]
          PROVE  announced' \in [Job -> SUBSET {"COMPLETED", "FAILED"}]
        BY <2>1 DEF TypeOK
    <2>2. announced' \in [Job -> SUBSET {"COMPLETED", "FAILED"}]
        BY <1>6, <2>1 DEF Announce
    <2> QED
        BY <1>6, <1>t, <2>2 DEF TypeOK, Announce
<1> QED
    BY <1>1, <1>2, <1>3, <1>4, <1>5, <1>6 DEF ThreadNext

\* Every variable keeps its type in every behaviour of the queue.
THEOREM TypeCorrect == Spec => []TypeOK
<1>1. Init => TypeOK
    BY ConstantsAssumption
    DEF Init, TypeOK, JobStatus, SessionState, LaunchPc, CancelPc, WorkerPc, ThreadPc
<1>2. TypeOK /\ [Next]_vars => TypeOK'
    <2> SUFFICES ASSUME TypeOK, [Next]_vars PROVE TypeOK'
        OBVIOUS
    <2>1. CASE UNCHANGED vars
        BY <2>1 DEF TypeOK, vars, jobVars, sessionVars, requestVars, workerVars
    <2> QED
        BY <2>1, RequestTypes, WorkerTypes, ThreadTypes DEF Next
<1> QED
    BY <1>1, <1>2, PTL DEF Spec
-----------------------------------------------------------------------------
(* Ownership: the inductive invariant behind exclusive execution *)

\* An executed job is a claimed row of the worker that executes it, and that
\* worker is past its recovery.
ExecutedIsClaimed ==
    \A w \in Worker, j \in Job : Live(w, j) =>
        /\ owner[j] = w
        /\ status[j] \notin {"ABSENT", "QUEUED"}
        /\ worker[w] \in {"polling", "claiming"}

\* A RUNNING row names its worker: rows claimed before ids were recorded are
\* legacy and no action makes one.
RunningIsOwned == \A j \in Job : status[j] = "RUNNING" => owner[j] \in Worker

\* What a recovering worker has selected was claimed by it in an earlier life.
RecoveredIsOwn ==
    \A w \in Worker : \A j \in orphans[w] \cup fixing[w] :
        /\ owner[j] = w
        /\ status[j] \notin {"ABSENT", "QUEUED"}
        /\ worker[w] = "recovering"

\* Only a job that exists is being cancelled.
CancelledExists == \A j \in Job : cancelling[j] = "writing" => status[j] # "ABSENT"

Ownership == ExecutedIsClaimed /\ RunningIsOwned /\ RecoveredIsOwn /\ CancelledExists

ownershipVars == <<status, owner, cancelling, worker, orphans, fixing, thread>>

LEMMA OwnershipStutter ==
    ASSUME Ownership, UNCHANGED ownershipVars
    PROVE  Ownership'
    BY DEF Ownership, ExecutedIsClaimed, RunningIsOwned, RecoveredIsOwn, CancelledExists,
       Live, ownershipVars

\* A row that leaves ABSENT or moves among the other statuses disturbs nothing.
LEMMA OwnershipStatus ==
    ASSUME TypeOK, Ownership, NEW j \in Job, NEW st,
           status' = [status EXCEPT ![j] = st],
           st \notin {"ABSENT", "RUNNING"},
           status[j] = "ABSENT" \/ st # "QUEUED",
           UNCHANGED <<owner, worker, orphans, fixing, thread>>,
           \A k \in Job : cancelling'[k] = "writing" => cancelling[k] = "writing"
    PROVE  Ownership'
    BY DEF TypeOK, Ownership, ExecutedIsClaimed, RunningIsOwned, RecoveredIsOwn,
       CancelledExists, Live

LEMMA RequestOwnership ==
    ASSUME TypeOK, Ownership,
           \/ \E l \in Launch : LaunchNext(l)
           \/ \E j \in Job : CancelNext(j)
    PROVE  Ownership'
<1> USE DEF jobVars, sessionVars, requestVars, workerVars, ownershipVars
<1>1. ASSUME NEW l \in Launch,
             \/ LaunchReadStatus(l) \/ LaunchCountActive(l) \/ LaunchLosesRace(l)
             \/ LaunchBeginInsert(l) \/ LaunchLinkJob(l) \/ LaunchWriteQueued(l) \/ LaunchDies(l)
      PROVE  Ownership'
    BY <1>1, OwnershipStutter DEF LaunchReadStatus, LaunchCountActive, LaunchLosesRace,
       LaunchBeginInsert, LaunchLinkJob, LaunchWriteQueued, LaunchDies
<1>2. ASSUME NEW l \in Launch, LaunchCreateJob(l) PROVE Ownership'
    <2>1. PICK j \in Job : status[j] = "ABSENT" /\ status' = [status EXCEPT ![j] = "QUEUED"]
        BY <1>2 DEF LaunchCreateJob, TypeOK
    <2> QED
        BY <1>2, <2>1, OwnershipStatus DEF LaunchCreateJob
<1>3. ASSUME NEW j \in Job, CancelRead(j) PROVE Ownership'
    BY <1>3 DEF CancelRead, TypeOK, ActiveJobStates, Ownership, ExecutedIsClaimed,
       RunningIsOwned, RecoveredIsOwn, CancelledExists, Live
<1>4. ASSUME NEW j \in Job, CancelWrite(j) PROVE Ownership'
    <2>1. \A k \in Job : cancelling'[k] = "writing" => cancelling[k] = "writing"
        BY <1>4 DEF CancelWrite, TypeOK
    <2>2. status' = [status EXCEPT ![j] = "CANCELLED"]
          /\ UNCHANGED <<owner, worker, orphans, fixing, thread>>
        BY <1>4 DEF CancelWrite
    <2> QED
        BY <2>1, <2>2, OwnershipStatus
<1>5. ASSUME NEW j \in Job, CancelSession(j) \/ CancelDies(j) PROVE Ownership'
    BY <1>5 DEF CancelSession, CancelDies, TypeOK, Ownership, ExecutedIsClaimed,
       RunningIsOwned, RecoveredIsOwn, CancelledExists, Live
<1> QED
    BY <1>1, <1>2, <1>3, <1>4, <1>5 DEF LaunchNext, CancelNext

LEMMA WorkerOwnership ==
    ASSUME TypeOK, Ownership, NEW w \in Worker, WorkerNext(w)
    PROVE  Ownership'
<1> USE DEF jobVars, sessionVars, requestVars, workerVars
<1>1. CASE WorkerStart(w)
    <2>1. ExecutedIsClaimed'
        BY <1>1 DEF WorkerStart, TypeOK, Ownership, ExecutedIsClaimed, Live
    <2>2. fixing[w] = {}
        BY <1>1 DEF WorkerStart, Ownership, RecoveredIsOwn
    <2>3. \A j \in orphans'[w] : owner[j] = w /\ status[j] = "RUNNING"
        BY <1>1, ConstantsAssumption DEF WorkerStart, TypeOK, Ownership, RunningIsOwned
    <2>4. RecoveredIsOwn'
        BY <1>1, <2>2, <2>3 DEF WorkerStart, TypeOK, Ownership, RecoveredIsOwn
    <2> QED
        BY <1>1, <2>1, <2>4 DEF WorkerStart, Ownership, RunningIsOwned, CancelledExists
<1>2. ASSUME NEW j \in Job, RecoverJob(w, j) PROVE Ownership'
    <2>1. owner[j] = w /\ status[j] \notin {"ABSENT", "QUEUED"}
        BY <1>2 DEF RecoverJob, Ownership, RecoveredIsOwn
    <2>2. RecoveredIsOwn'
        BY <1>2, <2>1 DEF RecoverJob, TypeOK, Ownership, RecoveredIsOwn
    <2> QED
        BY <1>2, <2>2 DEF RecoverJob, TypeOK, Ownership, ExecutedIsClaimed, RunningIsOwned,
           CancelledExists, Live
<1>3. CASE RecoverSession(w)
    <2>1. RecoveredIsOwn'
        BY <1>3 DEF RecoverSession, TypeOK, Ownership, RecoveredIsOwn
    <2> QED
        BY <1>3, <2>1 DEF RecoverSession, TypeOK, Ownership, ExecutedIsClaimed,
           RunningIsOwned, CancelledExists, Live
<1>r. CASE RecoveryRaises(w)
    <2>1. orphans'[w] = {} /\ fixing[w] = {} /\ worker[w] \in {"down", "recovering"}
        BY <1>r DEF RecoveryRaises, TypeOK, Ownership, RecoveredIsOwn
    <2>2. RecoveredIsOwn'
        BY <1>r, <2>1 DEF RecoveryRaises, TypeOK, Ownership, RecoveredIsOwn
    <2>3. ExecutedIsClaimed'
        BY <1>r, <2>1 DEF RecoveryRaises, TypeOK, Ownership, ExecutedIsClaimed, Live
    <2> QED
        BY <1>r, <2>2, <2>3 DEF RecoveryRaises, Ownership, RunningIsOwned, CancelledExists
<1>4. CASE WorkerEnterLoop(w) \/ WorkerPoll(w)
    <2>1. RecoveredIsOwn'
        BY <1>4 DEF WorkerEnterLoop, WorkerPoll, TypeOK, Ownership, RecoveredIsOwn
    <2>2. ExecutedIsClaimed'
        BY <1>4 DEF WorkerEnterLoop, WorkerPoll, TypeOK, Ownership, ExecutedIsClaimed, Live
    <2> QED
        BY <1>4, <2>1, <2>2
        DEF WorkerEnterLoop, WorkerPoll, Ownership, RunningIsOwned, CancelledExists
<1>5. CASE WorkerClaim(w)
    <2>1. CASE UNCHANGED <<status, owner, thread>>
        BY <1>5, <2>1 DEF WorkerClaim, TypeOK, Ownership, ExecutedIsClaimed, RunningIsOwned,
           RecoveredIsOwn, CancelledExists, Live
    <2>2. ASSUME NEW j \in Job, status[j] = "QUEUED", WorkerTakes(w, j) PROVE Ownership'
        <3>1. \A v \in Worker : ~Live(v, j) /\ j \notin orphans[v] \cup fixing[v]
            BY <2>2 DEF Ownership, ExecutedIsClaimed, RecoveredIsOwn
        <3>k. /\ status'[j] = "RUNNING" /\ owner'[j] = w
              /\ \A k \in Job \ {j} : status'[k] = status[k] /\ owner'[k] = owner[k]
              /\ \A v \in Worker, k \in Job :
                    thread'[v][k] = IF v = w /\ k = j THEN "submitted" ELSE thread[v][k]
            BY <2>2 DEF WorkerTakes, TypeOK
        <3>w. /\ worker' = [worker EXCEPT ![w] = "polling"] /\ worker[w] = "claiming"
              /\ UNCHANGED <<orphans, fixing>>
            BY <1>5 DEF WorkerClaim
        <3>2. ExecutedIsClaimed'
            BY <3>1, <3>k, <3>w DEF TypeOK, Ownership, ExecutedIsClaimed, Live
        <3>3. RecoveredIsOwn'
            BY <3>1, <3>k, <3>w DEF TypeOK, Ownership, RecoveredIsOwn
        <3> QED
            BY <1>5, <2>2, <3>2, <3>3
            DEF WorkerClaim, WorkerTakes, TypeOK, Ownership, RunningIsOwned, CancelledExists
    <2> QED
        BY <1>5, <2>1, <2>2, ClaimTakesOne
<1>6. CASE WorkerCrash(w)
    <2>1. \A v \in Worker, j \in Job : Live(v, j)' => Live(v, j) /\ v # w
        BY <1>6 DEF WorkerCrash, TypeOK, Live
    <2> QED
        BY <1>6, <2>1 DEF WorkerCrash, TypeOK, Ownership, ExecutedIsClaimed, RunningIsOwned,
           RecoveredIsOwn, CancelledExists
<1> QED
    BY <1>1, <1>2, <1>3, <1>r, <1>4, <1>5, <1>6 DEF WorkerNext

\* No step of a thread makes another thread live.
LEMMA ThreadOnlyEnds ==
    ASSUME TypeOK, NEW w \in Worker, NEW j \in Job, ThreadNext(w, j)
    PROVE  /\ Live(w, j)
           /\ \A v \in Worker, k \in Job : Live(v, k)' => Live(v, k)
           /\ \A v \in Worker, k \in Job : <<v, k>> # <<w, j>> => thread'[v][k] = thread[v][k]
<1>1. PICK from, to : "none" \notin from /\ Step(w, j, from, to)
    BY DEF ThreadNext, ThreadStart, SaveResult, TrainingRaises, MarkCompleted,
       CompleteSession, MarkFailed, FailSession, Announce
<1>2. thread[w][j] # "none" /\ thread' = [thread EXCEPT ![w][j] = to]
    BY <1>1 DEF Step
<1>3. \A v \in Worker, k \in Job : <<v, k>> # <<w, j>> => thread'[v][k] = thread[v][k]
    BY <1>2 DEF TypeOK
<1> QED
    BY <1>2, <1>3 DEF Live

\* A thread writes no job row but its own, and there only a final status.
LEMMA ThreadWritesStatus ==
    ASSUME TypeOK, NEW w \in Worker, NEW j \in Job, ThreadNext(w, j)
    PROVE  /\ \/ UNCHANGED status
              \/ \E st \in {"COMPLETED", "FAILED"} : status' = [status EXCEPT ![j] = st]
           /\ UNCHANGED <<owner, born, unseen, worker, orphans, fixing, cancelling>>
    BY DEF ThreadNext, ThreadStart, SaveResult, TrainingRaises, MarkCompleted,
       CompleteSession, MarkFailed, FailSession, Announce,
       jobVars, sessionVars, requestVars, workerVars

LEMMA ThreadOwnership ==
    ASSUME TypeOK, Ownership, NEW w \in Worker, NEW j \in Job, ThreadNext(w, j)
    PROVE  Ownership'
    BY ThreadOnlyEnds, ThreadWritesStatus DEF TypeOK, Ownership, ExecutedIsClaimed,
       RunningIsOwned, RecoveredIsOwn, CancelledExists

\* The claims, the recoveries and the cancellations never lose track of who
\* owns a row.
THEOREM OwnershipInvariant == Spec => []Ownership
<1>1. Init => Ownership
    BY DEF Init, Ownership, ExecutedIsClaimed, RunningIsOwned, RecoveredIsOwn,
       CancelledExists, Live
<1>2. TypeOK /\ Ownership /\ [Next]_vars => Ownership'
    <2> SUFFICES ASSUME TypeOK, Ownership, [Next]_vars PROVE Ownership'
        OBVIOUS
    <2>1. CASE UNCHANGED vars
        BY <2>1, OwnershipStutter
        DEF vars, jobVars, sessionVars, requestVars, workerVars, ownershipVars
    <2> QED
        BY <2>1, RequestOwnership, WorkerOwnership, ThreadOwnership DEF Next
<1> QED
    BY <1>1, <1>2, TypeCorrect, PTL DEF Spec

\* claim(): a job is never inside two workers at once.
THEOREM ExclusiveExecutionHolds == Spec => []ExclusiveExecution
<1>1. Ownership => ExclusiveExecution
    BY DEF Ownership, ExecutedIsClaimed, ExclusiveExecution
<1> QED
    BY <1>1, OwnershipInvariant, PTL

\* recover_orphaned_jobs: a starting worker never fails a job that is executed.
THEOREM OrphansAreDeadHolds == Spec => []OrphansAreDead
<1>1. TypeOK /\ Ownership => OrphansAreDead
    <2> SUFFICES ASSUME TypeOK, Ownership, NEW w \in Worker, NEW j \in orphans[w] \cup fixing[w],
                        NEW v \in Worker, Live(v, j)
                 PROVE  FALSE
        BY DEF OrphansAreDead
    <2>1. j \in Job
        BY DEF TypeOK
    <2>2. owner[j] = v /\ worker[v] # "recovering"
        BY <2>1 DEF Ownership, ExecutedIsClaimed
    <2>3. owner[j] = w /\ worker[w] = "recovering"
        BY DEF Ownership, RecoveredIsOwn
    <2> QED
        BY <2>2, <2>3
<1> QED
    BY <1>1, TypeCorrect, OwnershipInvariant, PTL
-----------------------------------------------------------------------------
(* A COMPLETED session has its result *)

\* The result is stored before a thread can complete anything, and is never
\* taken away.
ResultBeforeCompletion ==
    /\ CompletedSessionHasResult
    /\ \A w \in Worker, j \in Job :
          thread[w][j] \in {"saved", "succeeded"} => result[SessionOf[j]] # {}

\* The steps that store no result, move no thread to a later point of a
\* success and complete no session.
LEMMA ResultKept ==
    ASSUME TypeOK, ResultBeforeCompletion, UNCHANGED result,
           \A w \in Worker, j \in Job : thread'[w][j] \in {"saved", "succeeded"} =>
               thread[w][j] \in {"saved", "succeeded"},
           \A s \in Session : sess'[s] = "COMPLETED" => sess[s] = "COMPLETED"
    PROVE  ResultBeforeCompletion'
    BY DEF ResultBeforeCompletion, CompletedSessionHasResult

\* A thread that moves to a place that is no success leaves no new success.
LEMMA MoveElsewhere ==
    ASSUME TypeOK, NEW w \in Worker, NEW j \in Job, NEW to,
           thread' = [thread EXCEPT ![w][j] = to],
           to \notin {"saved", "succeeded"} \/ thread[w][j] \in {"saved", "succeeded"}
    PROVE  \A v \in Worker, k \in Job : thread'[v][k] \in {"saved", "succeeded"} =>
               thread[v][k] \in {"saved", "succeeded"}
    BY DEF TypeOK

\* ForceStatus with another status than COMPLETED completes no session.
LEMMA ForceStatusCompletesNone ==
    ASSUME TypeOK, NEW t \in Session, NEW st, st # "COMPLETED", ForceStatus(t, st)
    PROVE  \A s \in Session : sess'[s] = "COMPLETED" => sess[s] = "COMPLETED"
    BY DEF TypeOK, ForceStatus

LEMMA RequestResult ==
    ASSUME TypeOK, ResultBeforeCompletion,
           \/ \E l \in Launch : LaunchNext(l)
           \/ \E j \in Job : CancelNext(j)
    PROVE  ResultBeforeCompletion'
<1> USE ConstantsAssumption DEF jobVars, sessionVars, requestVars, workerVars
<1>1. UNCHANGED <<result, thread>>
    BY DEF LaunchNext, LaunchReadStatus, LaunchCountActive, LaunchLosesRace,
       LaunchBeginInsert, LaunchCreateJob, LaunchLinkJob, LaunchWriteQueued, LaunchDies,
       CancelNext, CancelRead, CancelWrite, CancelSession, CancelDies
<1>2. \A s \in Session : sess'[s] = "COMPLETED" => sess[s] = "COMPLETED"
    <2>1. ASSUME NEW l \in Launch, LaunchNext(l) PROVE <1>2
        <3>1. CASE LaunchCountActive(l)
            BY <3>1 DEF TypeOK, LaunchCountActive
        <3>2. CASE LaunchWriteQueued(l)
            BY <3>2 DEF TypeOK, LaunchWriteQueued
        <3> QED
            BY <2>1, <3>1, <3>2 DEF LaunchNext, LaunchReadStatus, LaunchLosesRace,
               LaunchBeginInsert, LaunchCreateJob, LaunchLinkJob, LaunchDies
    <2>2. ASSUME NEW j \in Job, CancelNext(j) PROVE <1>2
        <3>1. CASE CancelSession(j)
            BY <3>1, ForceStatusCompletesNone DEF CancelSession
        <3> QED
            BY <2>2, <3>1 DEF CancelNext, CancelRead, CancelWrite, CancelDies
    <2> QED
        BY <2>1, <2>2
<1> QED
    BY <1>1, <1>2, ResultKept

LEMMA WorkerResult ==
    ASSUME TypeOK, ResultBeforeCompletion, NEW w \in Worker, WorkerNext(w)
    PROVE  ResultBeforeCompletion'
<1> USE ConstantsAssumption DEF jobVars, sessionVars, requestVars, workerVars
<1>1. UNCHANGED result
    BY DEF WorkerNext, WorkerStart, RecoverJob, RecoverSession, RecoveryRaises, WorkerEnterLoop,
       WorkerPoll, WorkerClaim, WorkerCrash
<1>2. \A s \in Session : sess'[s] = "COMPLETED" => sess[s] = "COMPLETED"
    <2>1. CASE RecoverSession(w)
        BY <2>1, ForceStatusCompletesNone DEF RecoverSession, TypeOK
    <2> QED
        BY <2>1 DEF WorkerNext, WorkerStart, RecoverJob, RecoveryRaises, WorkerEnterLoop, WorkerPoll,
           WorkerClaim, WorkerCrash
<1>3. \A v \in Worker, j \in Job : thread'[v][j] \in {"saved", "succeeded"} =>
          thread[v][j] \in {"saved", "succeeded"}
    <2>1. CASE WorkerClaim(w)
        <3>1. thread' = thread \/ \E j \in Job : thread' = [thread EXCEPT ![w][j] = "submitted"]
            BY <2>1 DEF WorkerClaim, WorkerTakes, Oldest, Eligible
        <3> QED
            BY <3>1, MoveElsewhere
    <2>2. CASE WorkerCrash(w)
        BY <2>2 DEF WorkerCrash, TypeOK
    <2> QED
        BY <2>1, <2>2 DEF WorkerNext, WorkerStart, RecoverJob, RecoverSession,
           RecoveryRaises, WorkerEnterLoop, WorkerPoll
<1> QED
    BY <1>1, <1>2, <1>3, ResultKept

LEMMA ThreadResult ==
    ASSUME TypeOK, ResultBeforeCompletion, NEW w \in Worker, NEW j \in Job, ThreadNext(w, j)
    PROVE  ResultBeforeCompletion'
<1> USE ConstantsAssumption DEF jobVars, sessionVars, requestVars, workerVars
<1>1. CASE SaveResult(w, j)
    <2>1. thread' = [thread EXCEPT ![w][j] = "saved"]
          /\ result' = [result EXCEPT ![SessionOf[j]] = {j}] /\ UNCHANGED sess
        BY <1>1 DEF SaveResult, Step
    <2>2. \A s \in Session : result'[s] = {} => result[s] = {}
        BY <2>1 DEF TypeOK
    <2>3. result'[SessionOf[j]] # {}
        BY <2>1 DEF TypeOK
    <2>4. \A v \in Worker, k \in Job : thread'[v][k] \in {"saved", "succeeded"} =>
              thread[v][k] \in {"saved", "succeeded"} \/ k = j
        BY <2>1 DEF TypeOK
    <2> QED
        BY <2>1, <2>2, <2>3, <2>4 DEF ResultBeforeCompletion, CompletedSessionHasResult
<1>2. CASE CompleteSession(w, j)
    <2>1. thread[w][j] = "succeeded" /\ UNCHANGED result
          /\ \E to \in {"tell_completed", "raised"} : thread' = [thread EXCEPT ![w][j] = to]
        BY <1>2 DEF CompleteSession, Step
    <2>2. result[SessionOf[j]] # {}
        BY <2>1 DEF ResultBeforeCompletion
    <2>3. \A s \in Session : sess'[s] = "COMPLETED" => sess[s] = "COMPLETED" \/ s = SessionOf[j]
        BY <1>2 DEF CompleteSession, TypeOK
    <2>4. \A v \in Worker, k \in Job : thread'[v][k] \in {"saved", "succeeded"} =>
              thread[v][k] \in {"saved", "succeeded"}
        BY <2>1 DEF TypeOK
    <2> QED
        BY <2>1, <2>2, <2>3, <2>4 DEF ResultBeforeCompletion, CompletedSessionHasResult
<1>3. CASE ThreadStart(w, j) \/ FailSession(w, j)
    <2>1. \A s \in Session : sess'[s] = "COMPLETED" => sess[s] = "COMPLETED"
        BY <1>3, ForceStatusCompletesNone DEF ThreadStart, FailSession
    <2>2. UNCHANGED result
          /\ \E to \in {"training", "tell_failed"} : thread' = [thread EXCEPT ![w][j] = to]
        BY <1>3 DEF ThreadStart, FailSession, Step
    <2>3. \A v \in Worker, k \in Job : thread'[v][k] \in {"saved", "succeeded"} =>
              thread[v][k] \in {"saved", "succeeded"}
        BY <2>2 DEF TypeOK
    <2> QED
        BY <2>1, <2>2, <2>3, ResultKept
<1>4. CASE TrainingRaises(w, j) \/ MarkCompleted(w, j) \/ MarkFailed(w, j) \/ Announce(w, j)
    <2>0. result' = result /\ sess' = sess
        <3>1. CASE TrainingRaises(w, j)
            BY <3>1 DEF TrainingRaises
        <3>2. CASE MarkCompleted(w, j) \/ MarkFailed(w, j)
            BY <3>2 DEF MarkCompleted, MarkFailed
        <3>3. CASE Announce(w, j)
            BY <3>3 DEF Announce
        <3> QED
            BY <1>4, <3>1, <3>2, <3>3
    <2>1. \/ thread[w][j] = "saved" /\ thread' = [thread EXCEPT ![w][j] = "succeeded"]
          \/ \E to \in {"raised", "failed", "none"} : thread' = [thread EXCEPT ![w][j] = to]
        BY <1>4 DEF TrainingRaises, MarkCompleted, MarkFailed, Announce, Step
    <2>2. \A v \in Worker, k \in Job : thread'[v][k] \in {"saved", "succeeded"} =>
              thread[v][k] \in {"saved", "succeeded"}
        BY <2>1, MoveElsewhere
    <2> QED
        BY <2>0, <2>2, ResultKept
<1> QED
    BY <1>1, <1>2, <1>3, <1>4 DEF ThreadNext

\* What resolve_active_session serves, a COMPLETED session, has a result.
THEOREM CompletedHasResultHolds == Spec => []CompletedSessionHasResult
<1>1. Init => ResultBeforeCompletion
    BY DEF Init, ResultBeforeCompletion, CompletedSessionHasResult
<1>2. TypeOK /\ ResultBeforeCompletion /\ [Next]_vars => ResultBeforeCompletion'
    <2> SUFFICES ASSUME TypeOK, ResultBeforeCompletion, [Next]_vars
                 PROVE  ResultBeforeCompletion'
        OBVIOUS
    <2>1. CASE UNCHANGED vars
        BY <2>1, ResultKept DEF vars, sessionVars
    <2> QED
        BY <2>1, RequestResult, WorkerResult, ThreadResult DEF Next
<1>3. ResultBeforeCompletion => CompletedSessionHasResult
    BY DEF ResultBeforeCompletion
<1> QED
    BY <1>1, <1>2, <1>3, TypeCorrect, PTL DEF Spec
-----------------------------------------------------------------------------
(* What a request and a poll do to the rows, for the proofs below *)

\* The transaction that will insert the row j starts: the youngest stamp of all.
Stamps(j) ==
    /\ status[j] = "ABSENT" /\ born[j] = 0
    /\ born' = [born EXCEPT ![j] = 1 + Cardinality({k \in Job : born[k] # 0})]
    /\ UNCHANGED status

\* create_job inserts the row j, with the stamp its transaction has.
Inserts(j) ==
    /\ status[j] = "ABSENT"
    /\ status' = [status EXCEPT ![j] = "QUEUED"]
    /\ UNCHANGED born

\* A cancellation ends a row that exists.
Cancels(j) ==
    /\ status[j] # "ABSENT"
    /\ status' = [status EXCEPT ![j] = "CANCELLED"]
    /\ UNCHANGED born

RequestStep ==
    /\ UNCHANGED <<owner, unseen, worker, orphans, fixing, thread, announced>>
    /\ UNCHANGED <<status, born>> \/ \E j \in Job : Stamps(j) \/ Inserts(j) \/ Cancels(j)

\* A request stamps one row, inserts one, cancels one, or leaves the jobs alone.
LEMMA RequestEffect ==
    ASSUME TypeOK, Ownership,
           \/ \E l \in Launch : LaunchNext(l)
           \/ \E j \in Job : CancelNext(j)
    PROVE  RequestStep
<1> USE ConstantsAssumption DEF jobVars, sessionVars, requestVars, workerVars, RequestStep
<1>1. ASSUME NEW l \in Launch,
             \/ LaunchReadStatus(l) \/ LaunchCountActive(l) \/ LaunchLosesRace(l)
             \/ LaunchLinkJob(l) \/ LaunchWriteQueued(l) \/ LaunchDies(l)
      PROVE  RequestStep
    BY <1>1 DEF LaunchReadStatus, LaunchCountActive, LaunchLosesRace, LaunchLinkJob,
                LaunchWriteQueued, LaunchDies
<1>2. ASSUME NEW l \in Launch, LaunchCreateJob(l) PROVE RequestStep
    BY <1>2 DEF LaunchCreateJob, TypeOK, Inserts
<1>b. ASSUME NEW l \in Launch, LaunchBeginInsert(l) PROVE RequestStep
    BY <1>b DEF LaunchBeginInsert, Members, Stamps
<1>3. ASSUME NEW j \in Job, CancelWrite(j) PROVE RequestStep
    BY <1>3 DEF CancelWrite, Cancels, Ownership, CancelledExists
<1>4. ASSUME NEW j \in Job, CancelRead(j) \/ CancelSession(j) \/ CancelDies(j)
      PROVE  RequestStep
    BY <1>4 DEF CancelRead, CancelSession, CancelDies
<1> QED
    BY <1>1, <1>2, <1>b, <1>3, <1>4 DEF LaunchNext, CancelNext

\* The steps of a worker other than its claim: recovery fails rows of its list,
\* a crash ends its threads.
LEMMA WorkerEffect ==
    ASSUME TypeOK, Ownership, NEW w \in Worker, WorkerNext(w), ~WorkerClaim(w)
    PROVE  /\ UNCHANGED <<born, owner, unseen, announced>>
           /\ \/ UNCHANGED status
              \/ \E j \in Job : /\ status[j] \notin {"ABSENT", "QUEUED"}
                                /\ status' = [status EXCEPT ![j] = "FAILED"]
           /\ \A v \in Worker, j \in Job : thread'[v][j] \in {thread[v][j], "none"}
<1> USE DEF jobVars, sessionVars, requestVars, workerVars
<1>1. CASE WorkerCrash(w)
    BY <1>1 DEF WorkerCrash, TypeOK
<1>2. ASSUME NEW j \in Job, RecoverJob(w, j)
      PROVE  /\ status[j] \notin {"ABSENT", "QUEUED"}
             /\ status' = [status EXCEPT ![j] = "FAILED"]
             /\ UNCHANGED <<born, owner, unseen, announced, thread>>
    BY <1>2 DEF RecoverJob, Ownership, RecoveredIsOwn
<1>3. CASE \/ WorkerStart(w) \/ RecoverSession(w) \/ RecoveryRaises(w)
           \/ WorkerEnterLoop(w) \/ WorkerPoll(w)
    BY <1>3 DEF WorkerStart, RecoverSession, RecoveryRaises, WorkerEnterLoop, WorkerPoll
<1> QED
    BY <1>1, <1>2, <1>3 DEF WorkerNext

-----------------------------------------------------------------------------
(* One verdict per job *)

\* A job that was announced is over: nobody executes it, and nobody will.
AnnouncedIsOver ==
    \A j \in Job :
        /\ announced[j] \in {{}, {"COMPLETED"}, {"FAILED"}}
        /\ announced[j] # {} => /\ status[j] \notin {"ABSENT", "QUEUED"}
                                /\ \A w \in Worker : ~Live(w, j)

LEMMA AnnouncedIsOverStep ==
    ASSUME TypeOK, Ownership, AnnouncedIsOver, [Next]_vars
    PROVE  AnnouncedIsOver'
<1> USE DEF AnnouncedIsOver, jobVars, sessionVars, requestVars, workerVars
<1>1. CASE (\E l \in Launch : LaunchNext(l)) \/ (\E j \in Job : CancelNext(j))
    <2>1. RequestStep
        BY <1>1, RequestEffect
    <2> QED
        BY <2>1 DEF RequestStep, Stamps, Inserts, Cancels, Live, TypeOK
<1>2. ASSUME NEW w \in Worker, WorkerClaim(w) PROVE AnnouncedIsOver'
    <2>1. UNCHANGED announced
        BY <1>2 DEF WorkerClaim
    <2>2. CASE UNCHANGED <<status, owner, thread>>
        BY <2>1, <2>2 DEF Live
    <2>3. ASSUME NEW j \in Job, status[j] = "QUEUED", WorkerTakes(w, j)
          PROVE  AnnouncedIsOver'
        <3>1. announced[j] = {}
            BY <2>3
        <3>2. \A k \in Job \ {j} : status'[k] = status[k]
              /\ \A v \in Worker : thread'[v][k] = thread[v][k]
            BY <2>3 DEF WorkerTakes, TypeOK
        <3> QED
            BY <2>1, <3>1, <3>2 DEF Live
    <2> QED
        BY <1>2, <2>2, <2>3, ClaimTakesOne
<1>3. ASSUME NEW w \in Worker, WorkerNext(w), ~WorkerClaim(w) PROVE AnnouncedIsOver'
    <2>1. /\ UNCHANGED announced
          /\ \A j \in Job : status[j] \notin {"ABSENT", "QUEUED"}
                            => status'[j] \notin {"ABSENT", "QUEUED"}
          /\ \A v \in Worker, j \in Job : thread'[v][j] \in {thread[v][j], "none"}
        BY <1>3, WorkerEffect DEF TypeOK
    <2> QED
        BY <2>1 DEF Live
<1>4. ASSUME NEW w \in Worker, NEW j \in Job, ThreadNext(w, j) PROVE AnnouncedIsOver'
    <2>1. /\ Live(w, j)
          /\ \A v \in Worker, k \in Job : Live(v, k)' => Live(v, k)
          /\ \A v \in Worker, k \in Job : <<v, k>> # <<w, j>> => thread'[v][k] = thread[v][k]
        BY <1>4, ThreadOnlyEnds
    <2>2. \A k \in Job : status[k] \notin {"ABSENT", "QUEUED"}
                         => status'[k] \notin {"ABSENT", "QUEUED"}
        BY <1>4, ThreadWritesStatus DEF TypeOK
    <2>3. CASE Announce(w, j)
        <3>1. announced[j] = {} /\ status[j] \notin {"ABSENT", "QUEUED"}
              /\ \A v \in Worker \ {w} : ~Live(v, j)
            BY <2>1 DEF Ownership, ExecutedIsClaimed
        <3>2. PICK v \in {"COMPLETED", "FAILED"} :
                 /\ announced' = [announced EXCEPT ![j] = @ \cup {v}]
                 /\ thread' = [thread EXCEPT ![w][j] = "none"]
            BY <2>3 DEF Announce, Step
        <3>3. announced'[j] = {v} /\ \A k \in Job \ {j} : announced'[k] = announced[k]
            BY <3>1, <3>2 DEF TypeOK
        <3>4. \A u \in Worker : ~Live(u, j)'
            BY <2>1, <3>1, <3>2 DEF TypeOK, Live
        <3> QED
            BY <2>1, <2>2, <3>1, <3>3, <3>4
    <2>4. CASE ~Announce(w, j)
        <3>1. UNCHANGED announced
            BY <1>4, <2>4 DEF ThreadNext, ThreadStart, SaveResult, TrainingRaises,
               MarkCompleted, CompleteSession, MarkFailed, FailSession
        <3> QED
            BY <2>1, <2>2, <3>1
    <2> QED
        BY <2>3, <2>4
<1>5. CASE UNCHANGED vars
    BY <1>5 DEF vars, Live
<1> QED
    BY <1>1, <1>2, <1>3, <1>4, <1>5 DEF Next

\* run_training_job: no job is ever announced both as completed and as failed,
\* whatever its handlers raise and however often its worker dies.
THEOREM OneVerdictHolds == Spec => []OneVerdict
<1>1. Init => AnnouncedIsOver
    BY DEF Init, AnnouncedIsOver
<1>2. TypeOK /\ Ownership /\ AnnouncedIsOver /\ [Next]_vars => AnnouncedIsOver'
    BY AnnouncedIsOverStep
<1>3. AnnouncedIsOver => OneVerdict
    BY DEF AnnouncedIsOver, OneVerdict
<1> QED
    BY <1>1, <1>2, <1>3, TypeCorrect, OwnershipInvariant, PTL DEF Spec

-----------------------------------------------------------------------------
(* The order of arrival *)

\* A transaction that is about to insert a row has its stamp.
PendingStamped ==
    \A l \in Launch : launching[l] = "inserting" => \A j \in current[l] : born[j] # 0

\* _enqueue: the stamp of a row is taken before the row is there.
LEMMA PendingStampedStep ==
    ASSUME TypeOK, PendingStamped, [Next]_vars
    PROVE  PendingStamped'
<1> USE DEF PendingStamped, jobVars, sessionVars, requestVars, workerVars
<1>1. ASSUME NEW l \in Launch, LaunchBeginInsert(l) PROVE PendingStamped'
    <2>1. PICK j \in Members(l) :
              /\ born' = [born EXCEPT ![j] = 1 + Cardinality({k \in Job : born[k] # 0})]
              /\ current' = [current EXCEPT ![l] = {j}]
              /\ launching' = [launching EXCEPT ![l] = "inserting"]
        BY <1>1 DEF LaunchBeginInsert
    <2>2. j \in Job /\ Cardinality({k \in Job : born[k] # 0}) \in Nat
        BY <2>1, ConstantsAssumption, FS_Subset, FS_CardinalityType DEF Members
    <2>3. born'[j] # 0 /\ \A k \in Job : born[k] # 0 => born'[k] # 0
        <3> DEFINE n == Cardinality({k \in Job : born[k] # 0})
        <3>1. n \in Nat /\ 1 + n # 0
            BY <2>2
        <3> HIDE DEF n
        <3>2. born' = [born EXCEPT ![j] = 1 + n]
            BY <2>1 DEF n
        <3> QED
            BY <2>2, <3>1, <3>2 DEF TypeOK
    <2> QED
        BY <2>1, <2>3 DEF TypeOK
<1>2. ASSUME NEW l \in Launch, LaunchNext(l), ~LaunchBeginInsert(l) PROVE PendingStamped'
    <2>1. /\ UNCHANGED <<born, current>>
          /\ \E pc : pc # "inserting" /\ launching' = [launching EXCEPT ![l] = pc]
        <3>1. AfterMember(l) # "inserting"
            BY DEF AfterMember
        <3> QED
            BY <1>2, <3>1 DEF LaunchNext, LaunchReadStatus, LaunchCountActive, LaunchLosesRace,
               LaunchCreateJob, LaunchLinkJob, LaunchWriteQueued, LaunchDies
    <2> QED
        BY <2>1 DEF TypeOK
<1>3. ASSUME UNCHANGED <<born, current, launching>> PROVE PendingStamped'
    BY <1>3
<1>4. ASSUME NEW j \in Job, CancelNext(j) PROVE PendingStamped'
    BY <1>3, <1>4 DEF CancelNext, CancelRead, CancelWrite, CancelSession, CancelDies
<1>5. ASSUME NEW w \in Worker, WorkerNext(w) PROVE PendingStamped'
    BY <1>3, <1>5 DEF WorkerNext, WorkerStart, RecoverJob, RecoverSession, RecoveryRaises,
       WorkerEnterLoop, WorkerPoll, WorkerClaim, WorkerCrash
<1>6. ASSUME NEW w \in Worker, NEW j \in Job, ThreadNext(w, j) PROVE PendingStamped'
    BY <1>3, <1>6 DEF ThreadNext, ThreadStart, SaveResult, TrainingRaises, MarkCompleted,
       CompleteSession, MarkFailed, FailSession, Announce
<1>7. CASE UNCHANGED vars
    BY <1>3, <1>7 DEF vars
<1> QED
    BY <1>1, <1>2, <1>4, <1>5, <1>6, <1>7 DEF Next

Stamped == {j \in Job : born[j] # 0}

\* No stamp is given twice, and every row has one.
StampsDiffer ==
    /\ \A j \in Stamped : born[j] \in 1 .. Cardinality(Stamped)
    /\ \A j, k \in Stamped : born[j] = born[k] => j = k
    /\ \A j \in Job : status[j] # "ABSENT" => j \in Stamped

\* A row that somebody claimed waits no more, and what is older and still not
\* there was not there when it was claimed.
ClaimedOnce ==
    \A k \in Job : owner[k] # NoWorker =>
        /\ status[k] \notin {"ABSENT", "QUEUED"}
        /\ \A j \in Job : status[j] = "ABSENT" /\ born[j] \in 1 .. born[k] => j \in unseen[k]

ArrivalInv == StampsDiffer /\ ClaimedOnce /\ PassedOnlyUnseen

LEMMA StampedCount ==
    ASSUME NEW j \in Job \ Stamped
    PROVE  /\ Cardinality(Stamped) \in Nat
           /\ Cardinality(Stamped \cup {j}) = Cardinality(Stamped) + 1
<1>1. IsFiniteSet(Stamped)
    BY ConstantsAssumption, FS_Subset DEF Stamped
<1> QED
    BY <1>1, FS_CardinalityType, FS_AddElement

\* Steps that only move rows on, among the states of a row that is there.
LEMMA ArrivalFrame ==
    ASSUME TypeOK, ArrivalInv, UNCHANGED <<born, owner, unseen>>,
           \A j \in Job : \/ status'[j] = status[j]
                          \/ status[j] # "ABSENT" /\ status'[j] \notin {"ABSENT", "QUEUED"}
    PROVE  ArrivalInv'
<1>1. Stamped' = Stamped
    BY DEF Stamped
<1> QED
    BY <1>1 DEF ArrivalInv, StampsDiffer, ClaimedOnce, PassedOnlyUnseen

\* A new stamp is the youngest, and belongs to a row nobody can see yet.
LEMMA ArrivalStamp ==
    ASSUME TypeOK, ArrivalInv, NEW j \in Job, Stamps(j), UNCHANGED <<owner, unseen>>
    PROVE  ArrivalInv'
<1>1. /\ j \in Job \ Stamped /\ UNCHANGED status /\ status[j] = "ABSENT"
      /\ born'[j] = 1 + Cardinality(Stamped) /\ \A k \in Job \ {j} : born'[k] = born[k]
    BY DEF Stamps, Stamped, TypeOK
<1>2. Cardinality(Stamped) \in Nat /\ Cardinality(Stamped \cup {j}) = Cardinality(Stamped) + 1
    BY <1>1, StampedCount
<1>3. Stamped' = Stamped \cup {j}
    BY <1>1, <1>2 DEF Stamped
<1>4. \A k \in Stamped : k # j /\ born'[k] = born[k] /\ born[k] \in 1 .. Cardinality(Stamped)
    BY <1>1 DEF ArrivalInv, StampsDiffer, Stamped
<1>5. StampsDiffer'
    <2>1. \A k \in Stamped' : born'[k] \in 1 .. Cardinality(Stamped')
        BY <1>1, <1>2, <1>3, <1>4
    <2>2. \A i, k \in Stamped' : born'[i] = born'[k] => i = k
        BY <1>1, <1>2, <1>3, <1>4 DEF ArrivalInv, StampsDiffer
    <2>3. \A k \in Job : status'[k] # "ABSENT" => k \in Stamped'
        BY <1>1, <1>3 DEF ArrivalInv, StampsDiffer
    <2> QED
        BY <2>1, <2>2, <2>3 DEF StampsDiffer
<1>6. ClaimedOnce'
    <2> SUFFICES ASSUME NEW k \in Job, owner[k] # NoWorker
                 PROVE  /\ status[k] \notin {"ABSENT", "QUEUED"}
                        /\ \A i \in Job : status[i] = "ABSENT" /\ born'[i] \in 1 .. born'[k]
                                          => i \in unseen[k]
        BY <1>1 DEF ClaimedOnce
    <2>1. /\ status[k] \notin {"ABSENT", "QUEUED"}
          /\ \A i \in Job : status[i] = "ABSENT" /\ born[i] \in 1 .. born[k] => i \in unseen[k]
        BY DEF ArrivalInv, ClaimedOnce
    <2>2. k \in Stamped
        BY <2>1 DEF ArrivalInv, StampsDiffer
    <2>3. born'[j] \notin 1 .. born'[k]
        BY <1>1, <1>2, <1>4, <2>2
    <2>4. \A i \in Job \ {j} : born'[i] = born[i] /\ born'[k] = born[k]
        BY <1>1, <2>2
    <2> QED
        BY <2>1, <2>3, <2>4
<1>7. PassedOnlyUnseen'
    <2> SUFFICES ASSUME NEW i \in Job, NEW k \in Job, SameTenant(i, k), status[i] = "QUEUED",
                        owner[k] # NoWorker, i \notin unseen[k]
                 PROVE  born'[k] < born'[i]
        BY <1>1 DEF PassedOnlyUnseen, SameTenant
    <2>1. i # j /\ k # j
        BY <1>1 DEF ArrivalInv, ClaimedOnce
    <2> QED
        BY <1>1, <2>1 DEF ArrivalInv, PassedOnlyUnseen
<1> QED
    BY <1>5, <1>6, <1>7 DEF ArrivalInv

\* A row that appears was unseen by every younger one claimed so far.
LEMMA ArrivalInsert ==
    ASSUME TypeOK, ArrivalInv, NEW j \in Job, Inserts(j), born[j] # 0,
           UNCHANGED <<owner, unseen>>
    PROVE  ArrivalInv'
<1>1. /\ status[j] = "ABSENT" /\ status'[j] = "QUEUED" /\ UNCHANGED born
      /\ \A k \in Job \ {j} : status'[k] = status[k]
    BY DEF Inserts, TypeOK
<1>2. Stamped' = Stamped /\ j \in Stamped
    BY <1>1 DEF Stamped
<1>3. StampsDiffer'
    BY <1>1, <1>2 DEF ArrivalInv, StampsDiffer
<1>4. ClaimedOnce'
    BY <1>1 DEF ArrivalInv, ClaimedOnce
<1>5. PassedOnlyUnseen'
    <2> SUFFICES ASSUME NEW i \in Job, NEW k \in Job, SameTenant(i, k), status'[i] = "QUEUED",
                        owner[k] # NoWorker, i \notin unseen[k]
                 PROVE  born[k] < born[i]
        BY <1>1 DEF PassedOnlyUnseen, SameTenant
    <2>1. CASE i = j
        <3>1. born[j] \notin 1 .. born[k]
            BY <1>1, <2>1 DEF ArrivalInv, ClaimedOnce
        <3>2. born[j] \in Nat /\ born[j] # 0 /\ born[k] \in Nat
            BY DEF TypeOK
        <3> QED
            BY <2>1, <3>1, <3>2
    <2>2. CASE i # j
        BY <1>1, <2>2 DEF ArrivalInv, PassedOnlyUnseen
    <2> QED
        BY <2>1, <2>2
<1> QED
    BY <1>3, <1>4, <1>5 DEF ArrivalInv

\* claim() takes the oldest waiting row of a tenant it does not exclude.
LEMMA ArrivalClaim ==
    ASSUME TypeOK, ArrivalInv, NEW w \in Worker, NEW j \in Oldest(Eligible(w)),
           WorkerTakes(w, j), UNCHANGED born
    PROVE  ArrivalInv'
<1>1. /\ j \in Job /\ status[j] = "QUEUED"
      /\ TenantOf[SessionOf[j]] \notin excluded[w]
      /\ \A k \in Eligible(w) : born[j] <= born[k]
    BY DEF Oldest, Eligible
<1>2. /\ status'[j] = "RUNNING" /\ owner'[j] = w
      /\ unseen'[j] = {k \in Job : status[k] = "ABSENT" /\ born[k] \in 1 .. born[j]}
      /\ \A k \in Job \ {j} : /\ status'[k] = status[k] /\ owner'[k] = owner[k]
                              /\ unseen'[k] = unseen[k]
    BY <1>1 DEF WorkerTakes, TypeOK
<1>3. Stamped' = Stamped
    BY DEF Stamped
<1>4. StampsDiffer'
    BY <1>1, <1>2, <1>3 DEF ArrivalInv, StampsDiffer
<1>5. ClaimedOnce'
    BY <1>1, <1>2 DEF ArrivalInv, ClaimedOnce
<1>6. PassedOnlyUnseen'
    <2> SUFFICES ASSUME NEW i \in Job, NEW k \in Job, SameTenant(i, k), status'[i] = "QUEUED",
                        owner'[k] # NoWorker, i \notin unseen'[k]
                 PROVE  born[k] < born[i]
        BY DEF PassedOnlyUnseen, SameTenant
    <2>1. i # j /\ status[i] = "QUEUED"
        BY <1>2
    <2>2. CASE k = j
        <3>1. i \in Eligible(w)
            BY <1>1, <2>1, <2>2 DEF Eligible, SameTenant
        <3>2. born[j] <= born[i] /\ born[j] # born[i]
            BY <1>1, <2>1, <3>1 DEF ArrivalInv, StampsDiffer
        <3>3. born[i] \in Nat /\ born[j] \in Nat
            BY <1>1 DEF TypeOK
        <3> QED
            BY <2>2, <3>2, <3>3
    <2>3. CASE k # j
        BY <1>2, <2>1, <2>3 DEF ArrivalInv, PassedOnlyUnseen
    <2> QED
        BY <2>2, <2>3
<1> QED
    BY <1>4, <1>5, <1>6 DEF ArrivalInv

\* A request takes a stamp, commits a row that has one, or cancels a row.
LEMMA ArrivalRequest ==
    ASSUME TypeOK, Ownership, PendingStamped, ArrivalInv,
           \/ \E l \in Launch : LaunchNext(l)
           \/ \E j \in Job : CancelNext(j)
    PROVE  ArrivalInv'
<1>1. ASSUME NEW l \in Launch, LaunchCreateJob(l) PROVE ArrivalInv'
    <2>1. PICK j \in Job : Inserts(j) /\ born[j] # 0
        BY <1>1 DEF LaunchCreateJob, PendingStamped, Inserts, TypeOK
    <2> QED
        BY <1>1, <2>1, ArrivalInsert DEF LaunchCreateJob
<1>2. CASE ~\E l \in Launch : LaunchCreateJob(l)
    <2>1. RequestStep
        BY RequestEffect
    <2>2. ASSUME NEW j \in Job, Inserts(j) PROVE FALSE
        <3>1. status' # status
            BY <2>2 DEF Inserts, TypeOK
        <3>2. CASE \E l \in Launch : LaunchNext(l)
            BY <1>2, <3>1, <3>2 DEF LaunchNext, LaunchReadStatus, LaunchCountActive,
               LaunchLosesRace, LaunchBeginInsert, LaunchLinkJob, LaunchWriteQueued,
               LaunchDies, jobVars
        <3>3. CASE \E k \in Job : CancelNext(k)
            <4>1. PICK k \in Job : status' = [status EXCEPT ![k] = "CANCELLED"]
                BY <3>1, <3>3 DEF CancelNext, CancelRead, CancelWrite, CancelSession,
                   CancelDies, jobVars
            <4> QED
                BY <2>2, <4>1 DEF Inserts, TypeOK
        <3> QED
            BY <3>2, <3>3
    <2>3. ASSUME NEW j \in Job, Cancels(j), UNCHANGED <<owner, unseen>> PROVE ArrivalInv'
        BY <2>3, ArrivalFrame DEF Cancels, TypeOK
    <2> QED
        BY <2>1, <2>2, <2>3, ArrivalStamp, ArrivalFrame DEF RequestStep
<1> QED
    BY <1>1, <1>2

\* Within a tenant no job overtakes an older one that is there and waits,
\* whichever workers claim and however stale the list of excluded tenants is.
THEOREM PassedOnlyUnseenHolds == Spec => []PassedOnlyUnseen
<1>1. Init => PendingStamped /\ ArrivalInv
    BY DEF Init, PendingStamped, ArrivalInv, StampsDiffer, ClaimedOnce, PassedOnlyUnseen, Stamped
<1>2. TypeOK /\ PendingStamped /\ [Next]_vars => PendingStamped'
    BY PendingStampedStep
<1>3. TypeOK /\ Ownership /\ PendingStamped /\ ArrivalInv /\ [Next]_vars => ArrivalInv'
    <2> SUFFICES ASSUME TypeOK, Ownership, PendingStamped, ArrivalInv, [Next]_vars
                 PROVE  ArrivalInv'
        OBVIOUS
    <2>1. CASE (\E l \in Launch : LaunchNext(l)) \/ (\E j \in Job : CancelNext(j))
        BY <2>1, ArrivalRequest
    <2>2. ASSUME NEW w \in Worker, WorkerClaim(w) PROVE ArrivalInv'
        <3>1. UNCHANGED born
            BY <2>2 DEF WorkerClaim
        <3> QED
            BY <2>2, <3>1, ArrivalFrame, ArrivalClaim DEF WorkerClaim
    <2>3. ASSUME NEW w \in Worker, WorkerNext(w), ~WorkerClaim(w) PROVE ArrivalInv'
        BY <2>3, WorkerEffect, ArrivalFrame DEF TypeOK
    <2>4. ASSUME NEW w \in Worker, NEW j \in Job, ThreadNext(w, j) PROVE ArrivalInv'
        <3>1. UNCHANGED <<born, owner, unseen>>
            BY <2>4, ThreadWritesStatus
        <3>2. status[j] # "ABSENT"
            BY <2>4, ThreadOnlyEnds DEF Ownership, ExecutedIsClaimed
        <3>3. \A k \in Job : \/ status'[k] = status[k]
                             \/ status[k] # "ABSENT" /\ status'[k] \notin {"ABSENT", "QUEUED"}
            BY <2>4, <3>2, ThreadWritesStatus DEF TypeOK
        <3> QED
            BY <3>1, <3>3, ArrivalFrame
    <2>5. CASE UNCHANGED vars
        BY <2>5, ArrivalFrame DEF vars, jobVars
    <2> QED
        BY <2>1, <2>2, <2>3, <2>4, <2>5 DEF Next
<1>4. ArrivalInv => PassedOnlyUnseen
    BY DEF ArrivalInv
<1> QED
    BY <1>1, <1>2, <1>3, <1>4, TypeCorrect, OwnershipInvariant, PTL DEF Spec

-----------------------------------------------------------------------------
(* How a RUNNING row can be left unattended *)

\* The places of a thread whose job's row has its final status.
Written == {"succeeded", "failed", "tell_completed", "tell_failed"}

\* A thread that is past its last write of the row has written the end of it.
WrittenIsFinal ==
    \A w \in Worker, j \in Job : thread[w][j] \in Written => status[j] # "RUNNING"

LEMMA WrittenIsFinalStep ==
    ASSUME TypeOK, Ownership, WrittenIsFinal, [Next]_vars
    PROVE  WrittenIsFinal'
<1> USE DEF WrittenIsFinal, Written
<1>1. CASE (\E l \in Launch : LaunchNext(l)) \/ (\E j \in Job : CancelNext(j))
    <2>1. RequestStep
        BY <1>1, RequestEffect
    <2> QED
        BY <2>1 DEF RequestStep, Stamps, Inserts, Cancels, TypeOK
<1>2. ASSUME NEW w \in Worker, WorkerClaim(w) PROVE WrittenIsFinal'
    <2>1. ASSUME NEW j \in Job, status[j] = "QUEUED", WorkerTakes(w, j) PROVE WrittenIsFinal'
        <3>1. \A v \in Worker : thread[v][j] = "none"
            BY <2>1 DEF Ownership, ExecutedIsClaimed, Live
        <3>2. /\ \A v \in Worker : thread'[v][j] \in {"none", "submitted"}
              /\ \A k \in Job \ {j} : /\ status'[k] = status[k]
                                      /\ \A v \in Worker : thread'[v][k] = thread[v][k]
            BY <2>1, <3>1 DEF WorkerTakes, TypeOK
        <3> QED
            BY <3>2
    <2> QED
        BY <1>2, <2>1, ClaimTakesOne
<1>3. ASSUME NEW w \in Worker, WorkerNext(w), ~WorkerClaim(w) PROVE WrittenIsFinal'
    BY <1>3, WorkerEffect DEF TypeOK
<1>4. ASSUME NEW w \in Worker, NEW j \in Job, ThreadNext(w, j) PROVE WrittenIsFinal'
    <2>1. /\ \A v \in Worker, k \in Job : <<v, k>> # <<w, j>> => thread'[v][k] = thread[v][k]
          /\ \A k \in Job \ {j} : status'[k] = status[k]
          /\ \A v \in Worker \ {w} : ~Live(v, j)
        BY <1>4, ThreadOnlyEnds, ThreadWritesStatus DEF TypeOK, Ownership, ExecutedIsClaimed
    <2>2. thread'[w][j] \notin Written \/ status'[j] # "RUNNING"
        <3>1. CASE ThreadStart(w, j) \/ SaveResult(w, j) \/ TrainingRaises(w, j)
            BY <3>1 DEF ThreadStart, SaveResult, TrainingRaises, Step, TypeOK
        <3>2. CASE MarkCompleted(w, j) \/ MarkFailed(w, j)
            BY <3>2 DEF MarkCompleted, MarkFailed, Step, TypeOK
        <3>3. CASE CompleteSession(w, j) \/ FailSession(w, j) \/ Announce(w, j)
            BY <3>3 DEF CompleteSession, FailSession, Announce, Step, jobVars
        <3> QED
            BY <1>4, <3>1, <3>2, <3>3 DEF ThreadNext
    <2> QED
        BY <2>1, <2>2 DEF Live
<1>5. CASE UNCHANGED vars
    BY <1>5 DEF vars, jobVars
<1> QED
    BY <1>1, <1>2, <1>3, <1>4, <1>5 DEF Next

\* Steps that move no row to RUNNING and take no row from who attends it.
LEMMA AttendedFrame ==
    ASSUME TypeOK, NEW j \in Job, Unattended(j)', owner'[j] = owner[j],
           status'[j] = "RUNNING" => status[j] = "RUNNING",
           \A w \in Worker : owner[j] = w =>
               /\ Live(w, j) => Live(w, j)'
               /\ worker[w] = "down" => worker'[w] = "down"
               /\ j \in orphans[w] => j \in orphans'[w]
    PROVE  Unattended(j)
    BY DEF Unattended

LEMMA WorkerLeaves ==
    ASSUME TypeOK, Ownership, NEW w \in Worker, WorkerNext(w), NEW j \in Job, Unattended(j)'
    PROVE  Unattended(j) \/ EndWriteLost(j)
<1> USE DEF jobVars, sessionVars, requestVars, workerVars
<1>1. CASE WorkerStart(w)
    <2>1. owner'[j] = owner[j] /\ status'[j] = status[j] /\ thread' = thread
          /\ \A v \in Worker \ {w} : worker'[v] = worker[v] /\ orphans'[v] = orphans[v]
        BY <1>1 DEF WorkerStart, TypeOK
    <2>2. owner[j] # w
        BY <1>1, <2>1 DEF WorkerStart, TypeOK, Unattended
    <2> QED
        BY <2>1, <2>2, AttendedFrame DEF Live
<1>2. ASSUME NEW k \in Job, RecoverJob(w, k) PROVE Unattended(j)
    <2>1. j # k
        BY <1>2 DEF RecoverJob, TypeOK, Unattended
    <2>2. owner'[j] = owner[j] /\ status'[j] = status[j] /\ thread' = thread
          /\ worker' = worker /\ \A v \in Worker : j \in orphans[v] => j \in orphans'[v]
        BY <1>2, <2>1 DEF RecoverJob, TypeOK
    <2> QED
        BY <2>2, AttendedFrame DEF Live
<1>3. CASE RecoverSession(w)
    BY <1>3, AttendedFrame DEF RecoverSession, Live
<1>4. CASE WorkerEnterLoop(w) \/ WorkerPoll(w)
    BY <1>4, AttendedFrame DEF WorkerEnterLoop, WorkerPoll, Live, TypeOK
<1>5. CASE RecoveryRaises(w)
    <2>1. owner'[j] = owner[j] /\ status'[j] = status[j] /\ thread' = thread
          /\ \A v \in Worker \ {w} : worker'[v] = worker[v] /\ orphans'[v] = orphans[v]
        BY <1>5 DEF RecoveryRaises, TypeOK
    <2>2. CASE owner[j] = w
        BY <1>5, <2>2 DEF RecoveryRaises, EndWriteLost, Fault, TypeOK
    <2>3. CASE owner[j] # w
        BY <2>1, <2>3, AttendedFrame DEF Live
    <2> QED
        BY <2>2, <2>3
<1>6. CASE WorkerClaim(w)
    <2>1. UNCHANGED orphans /\ worker[w] = "claiming"
          /\ worker' = [worker EXCEPT ![w] = "polling"]
        BY <1>6 DEF WorkerClaim
    <2>2. CASE UNCHANGED <<status, owner, thread>>
        BY <2>1, <2>2, AttendedFrame DEF Live, TypeOK
    <2>3. ASSUME NEW k \in Job, status[k] = "QUEUED", WorkerTakes(w, k) PROVE Unattended(j)
        <3>1. owner'[k] = w /\ Live(w, k)'
            BY <2>3 DEF WorkerTakes, TypeOK, Live
        <3>2. j # k
            BY <3>1 DEF Unattended
        <3>3. status'[j] = status[j] /\ owner'[j] = owner[j]
              /\ \A v \in Worker : thread'[v][j] = thread[v][j]
            BY <2>3, <3>2 DEF WorkerTakes, TypeOK
        <3> QED
            BY <2>1, <3>3, AttendedFrame DEF Live, TypeOK
    <2> QED
        BY <1>6, <2>2, <2>3, ClaimTakesOne
<1>7. CASE WorkerCrash(w)
    <2>1. /\ UNCHANGED <<status, owner>> /\ worker'[w] = "down"
          /\ \A v \in Worker \ {w} : /\ worker'[v] = worker[v] /\ orphans'[v] = orphans[v]
                                     /\ thread'[v] = thread[v]
        BY <1>7 DEF WorkerCrash, TypeOK
    <2>2. owner[j] # w
        BY <2>1 DEF Unattended
    <2> QED
        BY <2>1, <2>2, AttendedFrame DEF Live
<1> QED
    BY <1>1, <1>2, <1>3, <1>4, <1>5, <1>6, <1>7 DEF WorkerNext

LEMMA ThreadLeaves ==
    ASSUME TypeOK, Ownership, WrittenIsFinal, NEW w \in Worker, NEW k \in Job,
           ThreadNext(w, k), NEW j \in Job, Unattended(j)'
    PROVE  Unattended(j) \/ EndWriteLost(j)
<1>1. UNCHANGED <<owner, worker, orphans>>
    BY ThreadWritesStatus
<1>2. CASE j # k
    <2>1. status'[j] = status[j]
        BY <1>2, ThreadWritesStatus DEF TypeOK
    <2>2. \A v \in Worker : thread'[v][j] = thread[v][j]
        BY <1>2, ThreadOnlyEnds
    <2> QED
        BY <1>1, <2>1, <2>2, AttendedFrame DEF Live
<1>3. CASE j = k
    <2>1. owner[j] = w /\ thread'[w][j] = "none" /\ status'[j] = "RUNNING"
        BY <1>1, <1>3, ThreadOnlyEnds DEF Ownership, ExecutedIsClaimed, Unattended, Live
    <2>2. MarkFailed(w, j) \/ Announce(w, j)
        BY <1>3, <2>1 DEF ThreadNext, ThreadStart, SaveResult, TrainingRaises, MarkCompleted,
           CompleteSession, FailSession, Step, TypeOK
    <2>3. ~Announce(w, j)
        <3>1. SUFFICES ASSUME Announce(w, j) PROVE FALSE
            OBVIOUS
        <3>2. thread[w][j] \in Written /\ status' = status
            BY <3>1 DEF Announce, Step, Written, jobVars
        <3> QED
            BY <2>1, <3>2 DEF WrittenIsFinal
    <2>4. thread[w][j] = "raised" /\ faults' # faults
        BY <2>1, <2>2, <2>3 DEF MarkFailed, Step, Fault, TypeOK
    <2> QED
        BY <2>1, <2>4 DEF EndWriteLost
<1> QED
    BY <1>2, <1>3

\* Whatever crashes, is cancelled or restarted, a RUNNING row loses everybody
\* who would end it in two ways only: mark_failed raises in its thread, or a
\* statement of its worker's recovery does, after which _run polls regardless.
THEOREM LeftOnlyByLostWriteHolds == Spec => LeftOnlyByLostWrite
<1>1. Init => WrittenIsFinal
    BY DEF Init, WrittenIsFinal, Written
<1>2. TypeOK /\ Ownership /\ WrittenIsFinal /\ [Next]_vars => WrittenIsFinal'
    BY WrittenIsFinalStep
<1>3. TypeOK /\ Ownership /\ WrittenIsFinal /\ [Next]_vars
      => [\A j \in Job : Unattended(j)' => Unattended(j) \/ EndWriteLost(j)]_vars
    <2> SUFFICES ASSUME TypeOK, Ownership, WrittenIsFinal, Next, NEW j \in Job, Unattended(j)'
                 PROVE  Unattended(j) \/ EndWriteLost(j)
        OBVIOUS
    <2>1. CASE (\E l \in Launch : LaunchNext(l)) \/ (\E k \in Job : CancelNext(k))
        <3>1. RequestStep
            BY <2>1, RequestEffect
        <3>2. status'[j] = "RUNNING" => status[j] = "RUNNING"
            BY <3>1 DEF RequestStep, Stamps, Inserts, Cancels, TypeOK
        <3> QED
            BY <3>1, <3>2, AttendedFrame DEF RequestStep, Live
    <2> QED
        BY <2>1, WorkerLeaves, ThreadLeaves DEF Next
<1> QED
    BY <1>1, <1>2, <1>3, TypeCorrect, OwnershipInvariant, PTL DEF Spec, LeftOnlyByLostWrite

-----------------------------------------------------------------------------
(* As long as nothing has failed, a RUNNING session has its runner *)

\* No step undoes a fault.
LEMMA FaultsOnlyGrow ==
    ASSUME TypeOK, [Next]_vars, faults' = 0
    PROVE  faults = 0
<1> USE DEF TypeOK, Fault, ForceStatus
<1>1. ASSUME NEW l \in Launch, LaunchNext(l) PROVE faults = 0
    BY <1>1 DEF LaunchNext, LaunchReadStatus, LaunchCountActive, LaunchLosesRace,
       LaunchBeginInsert, LaunchCreateJob, LaunchLinkJob, LaunchWriteQueued, LaunchDies
<1>2. ASSUME NEW j \in Job, CancelNext(j) PROVE faults = 0
    BY <1>2 DEF CancelNext, CancelRead, CancelWrite, CancelSession, CancelDies
<1>3. ASSUME NEW w \in Worker, WorkerNext(w) PROVE faults = 0
    BY <1>3 DEF WorkerNext, WorkerStart, RecoverJob, RecoverSession, RecoveryRaises, WorkerEnterLoop,
       WorkerPoll, WorkerClaim, WorkerCrash
<1>4. ASSUME NEW w \in Worker, NEW j \in Job, ThreadNext(w, j) PROVE faults = 0
    BY <1>4 DEF ThreadNext, ThreadStart, SaveResult, TrainingRaises, MarkCompleted,
       CompleteSession, MarkFailed, FailSession, Announce
<1>5. CASE UNCHANGED vars
    BY <1>5 DEF vars
<1> QED
    BY <1>1, <1>2, <1>3, <1>4, <1>5 DEF Next

\* What keeps a RUNNING session's runner: no session is labelled RUNNING, and the
\* threads with a last word to write go on having it.
LEMMA RunnerFrame ==
    ASSUME RunningSessionHasRunner, faults = 0,
           \A s \in Session : sess'[s] = "RUNNING" => sess[s] = "RUNNING",
           \A w \in Worker, j \in Job :
               thread[w][j] \in SessionPending => thread'[w][j] \in SessionPending
    PROVE  RunningSessionHasRunner'
    BY DEF RunningSessionHasRunner

LEMMA RequestRunner ==
    ASSUME TypeOK, RunningSessionHasRunner, faults = 0,
           \/ \E l \in Launch : LaunchNext(l)
           \/ \E j \in Job : CancelNext(j)
    PROVE  RunningSessionHasRunner'
<1> USE ConstantsAssumption DEF jobVars, sessionVars, requestVars, workerVars
<1>1. UNCHANGED thread
    BY DEF LaunchNext, LaunchReadStatus, LaunchCountActive, LaunchLosesRace,
       LaunchBeginInsert, LaunchCreateJob, LaunchLinkJob, LaunchWriteQueued, LaunchDies,
       CancelNext, CancelRead, CancelWrite, CancelSession, CancelDies
<1>2. \A s \in Session : sess'[s] = "RUNNING" => sess[s] = "RUNNING"
    <2>1. ASSUME NEW l \in Launch, LaunchCountActive(l) \/ LaunchWriteQueued(l) PROVE <1>2
        BY <2>1 DEF TypeOK, LaunchCountActive, LaunchWriteQueued
    <2>2. ASSUME NEW l \in Launch,
                 \/ LaunchReadStatus(l) \/ LaunchLosesRace(l) \/ LaunchBeginInsert(l)
                 \/ LaunchCreateJob(l) \/ LaunchLinkJob(l) \/ LaunchDies(l)
          PROVE  <1>2
        BY <2>2 DEF LaunchReadStatus, LaunchLosesRace, LaunchBeginInsert, LaunchCreateJob, LaunchLinkJob, LaunchDies
    <2>3. ASSUME NEW j \in Job, CancelNext(j) PROVE <1>2
        BY <2>3 DEF CancelNext, CancelRead, CancelWrite, CancelSession, CancelDies,
           ForceStatus, TypeOK
    <2> QED
        BY <2>1, <2>2, <2>3 DEF LaunchNext
<1> QED
    BY <1>1, <1>2, RunnerFrame

LEMMA WorkerRunner ==
    ASSUME TypeOK, Ownership, RunningSessionHasRunner, faults' = 0, faults = 0,
           NEW w \in Worker, WorkerNext(w)
    PROVE  RunningSessionHasRunner'
<1> USE ConstantsAssumption DEF jobVars, sessionVars, requestVars, workerVars
<1>1. CASE RecoverSession(w)
    BY <1>1, RunnerFrame DEF RecoverSession, ForceStatus, TypeOK
<1>2. CASE WorkerClaim(w)
    <2>1. UNCHANGED sess
        BY <1>2 DEF WorkerClaim
    <2>2. \A v \in Worker, k \in Job :
             thread[v][k] \in SessionPending => thread'[v][k] \in SessionPending
        <3>1. ASSUME NEW j \in Job, status[j] = "QUEUED", WorkerTakes(w, j) PROVE <2>2
            <4>1. thread[w][j] = "none"
                BY <3>1 DEF Ownership, ExecutedIsClaimed, Live
            <4> QED
                BY <3>1, <4>1 DEF WorkerTakes, TypeOK, SessionPending
        <3> QED
            BY <1>2, <3>1, ClaimTakesOne
    <2> QED
        BY <2>1, <2>2, RunnerFrame
<1>3. ~WorkerCrash(w)
    BY DEF WorkerCrash, Fault
<1>4. ASSUME NEW j \in Job, RecoverJob(w, j) PROVE RunningSessionHasRunner'
    BY <1>4, RunnerFrame DEF RecoverJob
<1>r. ~RecoveryRaises(w)
    BY DEF RecoveryRaises, Fault
<1>5. CASE WorkerStart(w) \/ WorkerEnterLoop(w) \/ WorkerPoll(w)
    BY <1>5, RunnerFrame DEF WorkerStart, WorkerEnterLoop, WorkerPoll
<1> QED
    BY <1>1, <1>2, <1>3, <1>r, <1>4, <1>5 DEF WorkerNext

LEMMA ThreadRunner ==
    ASSUME TypeOK, RunningSessionHasRunner, faults' = 0, faults = 0,
           NEW w \in Worker, NEW j \in Job, ThreadNext(w, j)
    PROVE  RunningSessionHasRunner'
<1> USE ConstantsAssumption DEF jobVars, sessionVars, requestVars, workerVars
<1>0. \A v \in Worker, k \in Job : <<v, k>> # <<w, j>> => thread'[v][k] = thread[v][k]
    BY ThreadOnlyEnds
<1>1. CASE ThreadStart(w, j)
    <2>1. thread'[w][j] \in SessionPending
        BY <1>1 DEF ThreadStart, Step, TypeOK, SessionPending
    <2>2. \A s \in Session \ {SessionOf[j]} : sess'[s] = sess[s]
        BY <1>1 DEF ThreadStart, ForceStatus, TypeOK
    <2> QED
        BY <1>0, <2>1, <2>2 DEF RunningSessionHasRunner
<1>2. CASE CompleteSession(w, j) \/ FailSession(w, j)
    <2>1. sess'[SessionOf[j]] # "RUNNING"
          /\ \A s \in Session \ {SessionOf[j]} : sess'[s] = sess[s]
        BY <1>2 DEF CompleteSession, FailSession, ForceStatus, Fault, TypeOK
    <2> QED
        BY <1>0, <2>1 DEF RunningSessionHasRunner
<1>3. CASE SaveResult(w, j) \/ TrainingRaises(w, j) \/ MarkCompleted(w, j) \/ MarkFailed(w, j)
    <2>1. thread'[w][j] \in SessionPending /\ UNCHANGED sess
        BY <1>3 DEF SaveResult, TrainingRaises, MarkCompleted, MarkFailed, Fault, Step,
           TypeOK, SessionPending
    <2> QED
        BY <1>0, <2>1, RunnerFrame
<1>4. CASE Announce(w, j)
    <2>1. thread[w][j] \notin SessionPending /\ UNCHANGED sess
        BY <1>4 DEF Announce, Step, SessionPending
    <2> QED
        BY <1>0, <2>1, RunnerFrame
<1> QED
    BY <1>1, <1>2, <1>3, <1>4 DEF ThreadNext

\* Until something fails, a session that reads RUNNING is being trained, through
\* every launch, relaunch and cancellation.
THEOREM RunningSessionHasRunnerHolds == Spec => []RunningSessionHasRunner
<1>1. Init => RunningSessionHasRunner
    BY DEF Init, RunningSessionHasRunner
<1>2. TypeOK /\ Ownership /\ RunningSessionHasRunner /\ [Next]_vars => RunningSessionHasRunner'
    <2> SUFFICES ASSUME TypeOK, Ownership, RunningSessionHasRunner, [Next]_vars, faults' = 0
                 PROVE  RunningSessionHasRunner'
        BY DEF RunningSessionHasRunner
    <2>1. faults = 0
        BY FaultsOnlyGrow
    <2>2. CASE UNCHANGED vars
        BY <2>1, <2>2, RunnerFrame DEF vars, sessionVars
    <2> QED
        BY <2>1, <2>2, RequestRunner, WorkerRunner, ThreadRunner DEF Next
<1> QED
    BY <1>1, <1>2, TypeCorrect, OwnershipInvariant, PTL DEF Spec
=============================================================================
