---------------------- MODULE TrainingQueueRefinement ----------------------
(***************************************************************************)
(* TrainingQueue implements AtMostOnce: every step of the queue submits a  *)
(* job, withdraws it, hands it to one worker, ends its execution, kills a  *)
(* worker with what it executes, or is a stutter.                          *)
(***************************************************************************)
EXTENDS TrainingQueueProofs

-----------------------------------------------------------------------------
(* The refinement mapping *)

\* What phaseOf reads off a row and its threads, in a state and in the next.
LEMMA PhaseOfJob ==
    ASSUME NEW j \in Job
    PROVE  /\ runnerOf[j] # {} => phaseOf[j] = "executing"
           /\ runnerOf[j] = {} /\ status[j] = "ABSENT" => phaseOf[j] = "absent"
           /\ runnerOf[j] = {} /\ status[j] = "QUEUED" => phaseOf[j] = "waiting"
           /\ runnerOf[j] = {} /\ status[j] \notin {"ABSENT", "QUEUED"} => phaseOf[j] = "over"
    BY DEF phaseOf

LEMMA PhaseOfJobNext ==
    ASSUME NEW j \in Job
    PROVE  /\ runnerOf'[j] # {} => phaseOf'[j] = "executing"
           /\ runnerOf'[j] = {} /\ status'[j] = "ABSENT" => phaseOf'[j] = "absent"
           /\ runnerOf'[j] = {} /\ status'[j] = "QUEUED" => phaseOf'[j] = "waiting"
           /\ runnerOf'[j] = {} /\ status'[j] \notin {"ABSENT", "QUEUED"} => phaseOf'[j] = "over"
    BY DEF phaseOf

\* A job nobody executes has no runner, and a claimed one has its owner.
LEMMA Runners ==
    ASSUME NEW j \in Job
    PROVE  /\ runnerOf[j] = {w \in Worker : Live(w, j)}
           /\ runnerOf'[j] = {w \in Worker : Live(w, j)'}
    BY DEF runnerOf

LEMMA OnlyOwnerRuns ==
    ASSUME Ownership, NEW j \in Job, NEW w \in Worker, Live(w, j)
    PROVE  runnerOf[j] = {w} /\ status[j] \notin {"ABSENT", "QUEUED"}
    BY Runners DEF Ownership, ExecutedIsClaimed

LEMMA IdleHasNoRunner ==
    ASSUME Ownership, NEW j \in Job, status[j] \in {"ABSENT", "QUEUED"}
    PROVE  runnerOf[j] = {}
    BY Runners DEF Ownership, ExecutedIsClaimed

\* phaseOf and runnerOf are functions on Job: they change where a job changes.
LEMMA OneJobChanges ==
    ASSUME NEW j \in Job,
           \A k \in Job \ {j} : phaseOf'[k] = phaseOf[k] /\ runnerOf'[k] = runnerOf[k]
    PROVE  /\ phaseOf' = [phaseOf EXCEPT ![j] = phaseOf'[j]]
           /\ runnerOf' = [runnerOf EXCEPT ![j] = runnerOf'[j]]
<1>1. /\ phaseOf = [k \in Job |-> phaseOf[k]] /\ phaseOf' = [k \in Job |-> phaseOf'[k]]
      /\ runnerOf = [k \in Job |-> runnerOf[k]] /\ runnerOf' = [k \in Job |-> runnerOf'[k]]
    BY DEF phaseOf, runnerOf
<1> QED
    BY <1>1

LEMMA OtherJobsKeep ==
    ASSUME NEW k \in Job, status'[k] = status[k], \A w \in Worker : Live(w, k)' = Live(w, k)
    PROVE  phaseOf'[k] = phaseOf[k] /\ runnerOf'[k] = runnerOf[k]
    BY Runners DEF phaseOf

\* No row and no thread changes: a stutter of the abstract queue.
LEMMA NoJobChanges ==
    ASSUME UNCHANGED <<status, thread>>
    PROVE  UNCHANGED Once!vars
    BY DEF phaseOf, runnerOf, Live, Once!vars

\* A row changes but no thread does.
LEMMA RowChanges ==
    ASSUME TypeOK, Ownership, NEW j \in Job, NEW st,
           status' = [status EXCEPT ![j] = st], UNCHANGED thread
    PROVE  /\ phaseOf' = [phaseOf EXCEPT ![j] = phaseOf'[j]]
           /\ runnerOf' = runnerOf /\ status'[j] = st
<1>1. \A k \in Job \ {j} : phaseOf'[k] = phaseOf[k] /\ runnerOf'[k] = runnerOf[k]
    BY OtherJobsKeep DEF TypeOK, Live
<1>2. runnerOf' = runnerOf
    BY DEF runnerOf, Live
<1> QED
    BY <1>1, <1>2, OneJobChanges DEF TypeOK

\* A row that is not waiting, moved to a final status, is as over as before.
LEMMA ClosedRowStutters ==
    ASSUME TypeOK, Ownership, NEW j \in Job, NEW st \in TerminalStates,
           status[j] \notin {"ABSENT", "QUEUED"},
           status' = [status EXCEPT ![j] = st], UNCHANGED thread
    PROVE  UNCHANGED Once!vars
<1>1. phaseOf'[j] = phaseOf[j]
    BY RowChanges, PhaseOfJob, PhaseOfJobNext DEF TerminalStates
<1>2. phaseOf' = [phaseOf EXCEPT ![j] = phaseOf[j]]
    BY <1>1, RowChanges
<1>3. phaseOf = [k \in Job |-> phaseOf[k]]
    BY DEF phaseOf
<1>4. phaseOf' = phaseOf
    BY <1>2, <1>3
<1> QED
    BY <1>4, RowChanges DEF Once!vars
-----------------------------------------------------------------------------
(* The steps *)

\* _enqueue submits a job; cancelling withdraws it or changes nothing abstract.
LEMMA RequestsImplement ==
    ASSUME TypeOK, Ownership,
           \/ \E l \in Launch : LaunchNext(l)
           \/ \E j \in Job : CancelNext(j)
    PROVE  Once!Next \/ UNCHANGED Once!vars
<1> USE DEF jobVars, sessionVars, requestVars, workerVars
<1>1. ASSUME NEW l \in Launch, LaunchCreateJob(l) PROVE Once!Next
    <2>1. PICK j \in Job : status[j] = "ABSENT" /\ status' = [status EXCEPT ![j] = "QUEUED"]
        BY <1>1 DEF LaunchCreateJob, TypeOK
    <2>2. thread' = thread
        BY <1>1 DEF LaunchCreateJob
    <2>3. /\ phaseOf' = [phaseOf EXCEPT ![j] = phaseOf'[j]]
          /\ runnerOf' = runnerOf /\ status'[j] = "QUEUED"
        BY <2>1, <2>2, RowChanges
    <2>4. phaseOf[j] = "absent" /\ phaseOf'[j] = "waiting"
        BY <2>1, <2>3, IdleHasNoRunner, PhaseOfJob, PhaseOfJobNext
    <2>5. Once!Submit(j)
        BY <2>3, <2>4 DEF Once!Submit
    <2> QED
        BY <2>5 DEF Once!Next
<1>2. ASSUME NEW j \in Job, CancelWrite(j) PROVE Once!Next \/ UNCHANGED Once!vars
    <2>1. status' = [status EXCEPT ![j] = "CANCELLED"] /\ thread' = thread
        BY <1>2 DEF CancelWrite
    <2>2. status[j] # "ABSENT"
        BY <1>2 DEF CancelWrite, Ownership, CancelledExists
    <2>3. CASE status[j] = "QUEUED"
        <3>1. /\ phaseOf' = [phaseOf EXCEPT ![j] = phaseOf'[j]]
              /\ runnerOf' = runnerOf /\ status'[j] = "CANCELLED"
            BY <2>1, RowChanges
        <3>2. phaseOf[j] = "waiting" /\ phaseOf'[j] = "over"
            BY <2>3, <3>1, IdleHasNoRunner, PhaseOfJob, PhaseOfJobNext
        <3>3. Once!Withdraw(j)
            BY <3>1, <3>2 DEF Once!Withdraw
        <3> QED
            BY <3>3 DEF Once!Next
    <2>4. CASE status[j] # "QUEUED"
        BY <2>1, <2>2, <2>4, ClosedRowStutters DEF TerminalStates
    <2> QED
        BY <2>3, <2>4
<1>3. ASSUME NEW l \in Launch, LaunchNext(l), ~LaunchCreateJob(l) PROVE UNCHANGED Once!vars
    BY <1>3, NoJobChanges DEF LaunchNext, LaunchReadStatus, LaunchCountActive,
       LaunchLosesRace, LaunchBeginInsert, LaunchLinkJob, LaunchWriteQueued, LaunchDies
<1>4. ASSUME NEW j \in Job, CancelNext(j), ~CancelWrite(j) PROVE UNCHANGED Once!vars
    BY <1>4, NoJobChanges DEF CancelNext, CancelRead, CancelSession, CancelDies
<1> QED
    BY <1>1, <1>2, <1>3, <1>4

\* claim() takes a job, a crash kills the worker, recovery closes what is over.
LEMMA WorkerImplements ==
    ASSUME TypeOK, Ownership, NEW w \in Worker, WorkerNext(w)
    PROVE  Once!Next \/ UNCHANGED Once!vars
<1> USE DEF jobVars, sessionVars, requestVars, workerVars
<1>1. ASSUME NEW j \in Job, RecoverJob(w, j) PROVE UNCHANGED Once!vars
    <2>1. status[j] \notin {"ABSENT", "QUEUED"}
        BY <1>1 DEF RecoverJob, Ownership, RecoveredIsOwn
    <2>2. status' = [status EXCEPT ![j] = "FAILED"] /\ thread' = thread
        BY <1>1 DEF RecoverJob
    <2> QED
        BY <2>1, <2>2, ClosedRowStutters DEF TerminalStates
<1>2. CASE WorkerClaim(w)
    <2>1. CASE UNCHANGED <<status, owner, thread>>
        BY <2>1, NoJobChanges
    <2>2. ASSUME NEW j \in Job, status[j] = "QUEUED", WorkerTakes(w, j) PROVE Once!Next
        <3>1. /\ status' = [status EXCEPT ![j] = "RUNNING"]
              /\ thread' = [thread EXCEPT ![w][j] = "submitted"]
            BY <2>2 DEF WorkerTakes
        <3>2. \A k \in Job \ {j} : phaseOf'[k] = phaseOf[k] /\ runnerOf'[k] = runnerOf[k]
            BY <3>1, OtherJobsKeep DEF TypeOK, Live
        <3>3. runnerOf[j] = {} /\ phaseOf[j] = "waiting"
            BY <2>2, IdleHasNoRunner, PhaseOfJob
        <3>t. thread \in [Worker -> [Job -> ThreadPc]]
            BY DEF TypeOK
        <3>n. \A v \in Worker : thread[v][j] = "none"
            BY <3>3, Runners DEF Live
        <3>4. \A v \in Worker : Live(v, j)' <=> v = w
            BY <3>1, <3>t, <3>n DEF Live
        <3>5. runnerOf'[j] = {w}
            BY <3>4, Runners
        <3>6. phaseOf'[j] = "executing"
            BY <3>5, PhaseOfJobNext
        <3>7. Once!Take(w, j)
            BY <3>2, <3>3, <3>5, <3>6, OneJobChanges DEF Once!Take
        <3> QED
            BY <3>7 DEF Once!Next
    <2> QED
        BY <1>2, <2>1, <2>2, ClaimTakesOne
<1>3. CASE WorkerCrash(w)
    <2>1. status' = status
          /\ thread' = [thread EXCEPT ![w] = [j \in Job |-> "none"]]
        BY <1>3 DEF WorkerCrash
    <2>2. ASSUME NEW j \in Job
          PROVE  /\ runnerOf'[j] = runnerOf[j] \ {w}
                 /\ phaseOf'[j] = IF w \in runnerOf[j] THEN "over" ELSE phaseOf[j]
        <3>1. \A v \in Worker : Live(v, j)' <=> Live(v, j) /\ v # w
            BY <2>1 DEF TypeOK, Live
        <3>2. runnerOf'[j] = runnerOf[j] \ {w}
            BY <3>1, Runners
        <3>3. CASE Live(w, j)
            <4>1. w \in runnerOf[j] /\ runnerOf'[j] = {} /\ status'[j] \notin {"ABSENT", "QUEUED"}
                BY <2>1, <3>2, <3>3, OnlyOwnerRuns
            <4> QED
                BY <3>2, <4>1, PhaseOfJobNext
        <3>4. CASE ~Live(w, j)
            <4>1. w \notin runnerOf[j] /\ \A v \in Worker : Live(v, j)' = Live(v, j)
                BY <3>1, <3>4, Runners DEF Live
            <4> QED
                BY <2>1, <3>2, <4>1, OtherJobsKeep
        <3> QED
            BY <3>3, <3>4
    <2>3. Once!Die(w)
        <3>1. /\ phaseOf' = [j \in Job |-> phaseOf'[j]]
              /\ runnerOf' = [j \in Job |-> runnerOf'[j]]
            BY DEF phaseOf, runnerOf
        <3> QED
            BY <2>2, <3>1 DEF Once!Die
    <2> QED
        BY <2>3 DEF Once!Next
<1>4. CASE \/ WorkerStart(w) \/ RecoverSession(w) \/ RecoveryRaises(w)
           \/ WorkerEnterLoop(w) \/ WorkerPoll(w)
    BY <1>4, NoJobChanges
    DEF WorkerStart, RecoverSession, RecoveryRaises, WorkerEnterLoop, WorkerPoll
<1> QED
    BY <1>1, <1>2, <1>3, <1>4 DEF WorkerNext

\* A thread that goes on changes nothing abstract; when it ends, its job returns.
LEMMA ThreadImplements ==
    ASSUME TypeOK, Ownership, NEW w \in Worker, NEW j \in Job, ThreadNext(w, j)
    PROVE  Once!Next \/ UNCHANGED Once!vars
<1>1. runnerOf[j] = {w} /\ status[j] \notin {"ABSENT", "QUEUED"} /\ phaseOf[j] = "executing"
    BY ThreadOnlyEnds, OnlyOwnerRuns, PhaseOfJob
<1>2. status'[j] \notin {"ABSENT", "QUEUED"} /\ \A k \in Job \ {j} : status'[k] = status[k]
    <2>1. status \in [Job -> JobStatus]
        BY DEF TypeOK
    <2>2. \/ UNCHANGED status
          \/ \E st \in {"COMPLETED", "FAILED"} : status' = [status EXCEPT ![j] = st]
        BY ThreadWritesStatus
    <2> QED
        BY <1>1, <2>1, <2>2
<1>3. \A v \in Worker, k \in Job : k # j => Live(v, k)' = Live(v, k)
    BY ThreadOnlyEnds DEF Live
<1>4. \A k \in Job \ {j} : phaseOf'[k] = phaseOf[k] /\ runnerOf'[k] = runnerOf[k]
    BY <1>2, <1>3, OtherJobsKeep
<1>5. runnerOf'[j] \subseteq {w}
    BY <1>1, ThreadOnlyEnds, Runners
<1>6. CASE runnerOf'[j] = {w}
    <2>1. phaseOf'[j] = phaseOf[j] /\ runnerOf'[j] = runnerOf[j]
        BY <1>1, <1>6, PhaseOfJobNext
    <2>2. \A k \in Job : phaseOf'[k] = phaseOf[k] /\ runnerOf'[k] = runnerOf[k]
        BY <1>4, <2>1
    <2>3. /\ phaseOf = [k \in Job |-> phaseOf[k]] /\ phaseOf' = [k \in Job |-> phaseOf'[k]]
          /\ runnerOf = [k \in Job |-> runnerOf[k]] /\ runnerOf' = [k \in Job |-> runnerOf'[k]]
        BY DEF phaseOf, runnerOf
    <2> QED
        BY <2>2, <2>3 DEF Once!vars
<1>7. CASE runnerOf'[j] = {}
    <2>1. phaseOf'[j] = "over"
        BY <1>2, <1>7, PhaseOfJobNext
    <2>2. Once!Return(j)
        BY <1>1, <1>4, <1>7, <2>1, OneJobChanges DEF Once!Return
    <2> QED
        BY <2>2 DEF Once!Next
<1> QED
    BY <1>5, <1>6, <1>7

\* Whatever crashes, is cancelled or fails, a job is executed at most once, by
\* one worker, and never after it was withdrawn: claim(), recover_orphaned_jobs
\* and run_training_job implement AtMostOnce.
THEOREM QueueImplementsAtMostOnce == Spec => ExecutedAtMostOnce
<1>1. Init => Once!Init
    BY DEF Init, Once!Init, phaseOf, runnerOf, Live
<1>2. TypeOK /\ Ownership /\ [Next]_vars => [Once!Next]_(Once!vars)
    <2> SUFFICES ASSUME TypeOK, Ownership, [Next]_vars
                 PROVE  Once!Next \/ UNCHANGED Once!vars
        OBVIOUS
    <2>1. CASE UNCHANGED vars
        BY <2>1, NoJobChanges DEF vars, jobVars
    <2> QED
        BY <2>1, RequestsImplement, WorkerImplements, ThreadImplements DEF Next
<1> QED
    BY <1>1, <1>2, TypeCorrect, OwnershipInvariant, PTL DEF Spec, ExecutedAtMostOnce, Once!Spec
=============================================================================
