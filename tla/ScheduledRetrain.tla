-------------------------- MODULE ScheduledRetrain --------------------------
(***************************************************************************)
(* One schedule over a file dataset in full-refit mode                     *)
(* (sessions/retrain_service.py).  A launch trains a new session, a "run", *)
(* and first archives the runs the schedule made before, except the one    *)
(* it takes to be serving.  Meanwhile workers train, a person edits the    *)
(* schedule's sessions and replaces the file, and the app reads a forecast *)
(* (sessions/planning_service.py).                                         *)
(***************************************************************************)
EXTENDS Integers, FiniteSets, Sequences, SessionStates

CONSTANTS
    Launcher,       \* who calls launch_scheduled_retrain: the scheduler thread,
                    \* and the e-mail ingest when it has a schedule to refresh
    MaxRuns,        \* bound: runs the schedule may create
    FanOut,         \* coarser siblings plan_family adds to each run
    OtherSessions,  \* unarchived sessions of the tenant that are not the schedule's
    MaxSessions,    \* the plan's saved-forecast ceiling
    MaxEdits,       \* bound: what persons do, in total
    MaxFaults       \* bound: faults, in total

ASSUME ScheduleAssumption ==
    /\ MaxRuns \in Nat \ {0}
    /\ FanOut \in Nat
    /\ OtherSessions \in Nat
    /\ MaxSessions \in Nat
    /\ MaxEdits \in Nat
    /\ MaxFaults \in Nat

\* Runs are numbered in the order of sessions.created_at.
Run == 1 .. MaxRuns
NoRun == 0
NoContent == 0

FaultKinds ==
    {"launcher_crash",  \* the process of the launcher dies
     "refusal",         \* the data gate, or the last training of the day is gone
     "archive_write",   \* one archive_session raises
     "history_write",   \* record_run loses its row
     "training",        \* the run fails, or its worker dies and recovery fails it
     "status_write"}    \* the worker cannot move the session when the run ends

VARIABLES
    data,       \* content of the dataset's file; each replacement is new content
    \* table sessions, the schedule's rows
    state,      \* [Run -> RunState]
    linked,     \* the runs that carry scheduled_job_id (and a dataset)
    archived,   \* [Run -> ArchivedBy]
    updates,    \* the writes of updated_at to COMPLETED rows, in order
    siblings,   \* unarchived siblings; they carry no scheduled_job_id
    \* the run's job row and the thread that trains it
    job,        \* [Run -> JobState]
    content,    \* [Run -> Nat]: what the run read from the file
    history,    \* the "launched" rows of schedule_runs, by ran_at
    \* the call in progress of each launcher
    pc, mine, hash, serving, doomed,
    faults,     \* the faults so far, in order
    edits       \* what persons did so far

sessionVars == <<state, linked, archived, updates, siblings>>
localVars == <<pc, mine, hash, serving, doomed>>
vars == <<data, sessionVars, job, content, history, localVars, faults, edits>>

RunState == SessionState \cup {"DRAFT"}
\* "cancelled": the row reads CANCELLED, the thread trains on.
JobState == {"none", "queued", "running", "cancelled", "ended"}
ArchivedBy == {"nobody", "scheduler", "person"}
LauncherPc == {"idle", "prune", "select", "archive", "link", "launch",
               "announce", "record"}

Created == {r \in Run : state[r] # "ABSENT"}
Active == {r \in Created : archived[r] = "nobody"}
Completed == {r \in Active : state[r] = "COMPLETED"}
MayRun == {r \in Run : job[r] \in {"queued", "running"}}

\* Mutant of InFlight: a run that waits for a worker is overlooked.
InFlightTraining == {r \in linked : state[r] = "RUNNING"}

\* in_flight_session: archived or not.
InFlight == {r \in linked : state[r] \in InFlightStates}

\* The most recently updated member of S: ORDER BY updated_at DESC LIMIT 1.
LastUpdated(S) ==
    {r \in S : \E i \in 1 .. Len(updates) :
        updates[i] = r /\ \A j \in (i + 1) .. Len(updates) : updates[j] \notin S}

\* The runs that the history shows as launched.
Launched == {history[i].run : i \in 1 .. Len(history)}

\* Mutant of Succeeded: whatever was launched counts as trained.
SucceededOrNot == 1 .. Len(history)

\* last_successful_hash: the newest "launched" row whose session is COMPLETED.
Succeeded == {i \in 1 .. Len(history) : state[history[i].run] = "COMPLETED"}
LastSuccess == {history[i] : i \in {n \in Succeeded : \A m \in Succeeded : m <= n}}
LastHash == {h.hash : h \in LastSuccess}

\* resolve_active_session, among the schedule's runs: the newest family if it
\* is COMPLETED, else the COMPLETED session updated last.
Families == {r \in Active : job[r] # "none"}
NewestFamily == {r \in Families : \A q \in Families : q <= r}
Read == IF NewestFamily \cap Completed # {} THEN NewestFamily
                                            ELSE LastUpdated(Completed)

\* count_sessions, what the plan's ceiling is compared with.
Occupied == OtherSessions + Cardinality(Active) + siblings

\* A fault of kind k happens now and uses up one of the budget.
Fault(k) ==
    /\ Len(faults) < MaxFaults
    /\ faults' = Append(faults, k)
Happened(k) == Cardinality({i \in 1 .. Len(faults) : faults[i] = k})

Init ==
    /\ data = 1
    /\ state = [r \in Run |-> "ABSENT"]
    /\ linked = {}
    /\ archived = [r \in Run |-> "nobody"]
    /\ updates = <<>>
    /\ siblings = 0
    /\ job = [r \in Run |-> "none"]
    /\ content = [r \in Run |-> NoContent]
    /\ history = <<>>
    /\ pc = [l \in Launcher |-> "idle"]
    /\ mine = [l \in Launcher |-> NoRun]
    /\ hash = [l \in Launcher |-> NoContent]
    /\ serving = [l \in Launcher |-> {}]
    /\ doomed = [l \in Launcher |-> {}]
    /\ faults = <<>>
    /\ edits = 0

\* The launcher moves on; when the call ends, its local values are gone.
Goto(l, place) == pc' = [pc EXCEPT ![l] = place]
Return(l) ==
    /\ Goto(l, "idle")
    /\ mine' = [mine EXCEPT ![l] = NoRun]
    /\ hash' = [hash EXCEPT ![l] = NoContent]
    /\ serving' = [serving EXCEPT ![l] = {}]
    /\ doomed' = [doomed EXCEPT ![l] = {}]
-----------------------------------------------------------------------------
(* _launch.  The skips (still training, no new data, the daily cap) change  *)
(* no state that is modelled: a skipped call is a call that does not start. *)

Due(l) ==
    /\ pc[l] = "idle"
    /\ InFlight = {}
    /\ data \notin LastHash
    /\ hash' = [hash EXCEPT ![l] = data]
    /\ Goto(l, "prune")
    /\ UNCHANGED <<data, sessionVars, job, content, history, mine, serving,
                   doomed, faults, edits>>

\* _serving_session: what the prune must not touch.
PruneReadServing(l) ==
    /\ pc[l] = "prune"
    /\ serving' = [serving EXCEPT ![l] = LastUpdated(Completed \cap linked)]
    /\ Goto(l, "select")
    /\ UNCHANGED <<data, sessionVars, job, content, history, mine, hash,
                   doomed, faults, edits>>

\* Mutants of PruneSelect: the serving run goes too; only COMPLETED rows go.
PruneSelectAll(l) ==
    /\ pc[l] = "select"
    /\ doomed' = [doomed EXCEPT ![l] =
          {r \in Active \cap linked : state[r] \notin InFlightStates}]
    /\ Goto(l, "archive")
    /\ UNCHANGED <<data, sessionVars, job, content, history, mine, hash,
                   serving, faults, edits>>
PruneSelectCompleted(l) ==
    /\ pc[l] = "select"
    /\ doomed' = [doomed EXCEPT ![l] = (Completed \cap linked) \ serving[l]]
    /\ Goto(l, "archive")
    /\ UNCHANGED <<data, sessionVars, job, content, history, mine, hash,
                   serving, faults, edits>>

\* Its second query: every other unarchived row that is not in flight.
PruneSelect(l) ==
    /\ pc[l] = "select"
    /\ doomed' = [doomed EXCEPT ![l] =
          {r \in Active \cap linked : state[r] \notin InFlightStates} \ serving[l]]
    /\ Goto(l, "archive")
    /\ UNCHANGED <<data, sessionVars, job, content, history, mine, hash,
                   serving, faults, edits>>

\* archive_session(r, "scheduler") of one of them; a failure is logged.
PruneArchive(l, r) ==
    /\ pc[l] = "archive"
    /\ r \in doomed[l]
    /\ doomed' = [doomed EXCEPT ![l] = @ \ {r}]
    /\ \/ /\ archived' = [archived EXCEPT ![r] = IF @ = "nobody" THEN "scheduler" ELSE @]
          /\ UNCHANGED faults
       \/ Fault("archive_write") /\ UNCHANGED archived
    /\ UNCHANGED <<data, state, linked, updates, siblings, job, content, history,
                   pc, mine, hash, serving, edits>>

\* limit_guard: the count and the insert happen under the tenant's lock.
CreateRun(l) ==
    /\ pc[l] = "archive"
    /\ doomed[l] = {}
    /\ Occupied < MaxSessions
    /\ \E r \in Run :
         /\ \A q \in Run : q \in Created <=> q < r
         /\ state' = [state EXCEPT ![r] = "DRAFT"]
         /\ mine' = [mine EXCEPT ![l] = r]
    /\ Goto(l, "link")
    /\ UNCHANGED <<data, linked, archived, updates, siblings, job, content,
                   history, hash, serving, doomed, faults, edits>>

\* enforce_limit answers PLAN_LIMIT_REACHED: the call failed.
CeilingReached(l) ==
    /\ pc[l] = "archive"
    /\ doomed[l] = {}
    /\ Occupied >= MaxSessions
    /\ Return(l)
    /\ UNCHANGED <<data, sessionVars, job, content, history, faults, edits>>

\* One UPDATE: dataset, scheduled_job_id and MODELS_CONFIGURED together.
LinkRun(l) ==
    /\ pc[l] = "link"
    /\ linked' = linked \cup {mine[l]}
    /\ state' = [state EXCEPT ![mine[l]] = "MODELS_CONFIGURED"]
    /\ Goto(l, "launch")
    /\ UNCHANGED <<data, archived, updates, siblings, job, content, history,
                   mine, hash, serving, doomed, faults, edits>>

\* launch_training_family: the siblings, and the job row a worker may take.
LaunchFamily(l) ==
    /\ pc[l] = "launch"
    /\ siblings' = siblings + FanOut
    /\ job' = [job EXCEPT ![mine[l]] = "queued"]
    /\ Goto(l, "announce")
    /\ UNCHANGED <<data, state, linked, archived, updates, content, history,
                   mine, hash, serving, doomed, faults, edits>>

\* Mutant of LaunchRefused: archived_by is the launcher, a name no query knows.
LaunchRefusedByCaller(l) ==
    /\ pc[l] = "launch"
    /\ Fault("refusal")
    /\ archived' = [archived EXCEPT ![mine[l]] = IF @ = "nobody" THEN "user" ELSE @]
    /\ Return(l)
    /\ UNCHANGED <<data, state, linked, updates, siblings, job, content, history,
                   edits>>

\* A gate refuses, or the launch lost the race for the day's last training:
\* the run is archived, and nothing is recorded as launched.
LaunchRefused(l) ==
    /\ pc[l] = "launch"
    /\ Fault("refusal")
    /\ archived' = [archived EXCEPT ![mine[l]] = IF @ = "nobody" THEN "scheduler" ELSE @]
    /\ Return(l)
    /\ UNCHANGED <<data, state, linked, updates, siblings, job, content, history,
                   edits>>

\* _enqueue's transition to QUEUED: it read the state before or after the
\* worker took the job, and writes by id, or not at all when the table says no.
AnnounceQueued(l) ==
    /\ pc[l] = "announce"
    /\ \/ state' = [state EXCEPT ![mine[l]] = "QUEUED"]
       \/ ~CanTransition(state[mine[l]], "QUEUED") /\ UNCHANGED state
    /\ Goto(l, "record")
    /\ UNCHANGED <<data, linked, archived, updates, siblings, job, content,
                   history, mine, hash, serving, doomed, faults, edits>>

\* record_run never raises.
RecordLaunched(l) ==
    /\ pc[l] = "record"
    /\ \/ /\ history' = Append(history, [run |-> mine[l], hash |-> hash[l]])
          /\ UNCHANGED faults
       \/ Fault("history_write") /\ UNCHANGED history
    /\ Return(l)
    /\ UNCHANGED <<data, sessionVars, job, content, edits>>

\* The process dies; next_run was not advanced, so the schedule is due again.
LauncherCrash(l) ==
    /\ pc[l] # "idle"
    /\ Fault("launcher_crash")
    /\ Return(l)
    /\ UNCHANGED <<data, sessionVars, job, content, history, edits>>
-----------------------------------------------------------------------------
(* The worker, as TrainingQueue has it, without its crash and claim details *)

\* force_status RUNNING, then load_data reads the file as it is now.
TrainingStarts(r) ==
    /\ job[r] = "queued"
    /\ job' = [job EXCEPT ![r] = "running"]
    /\ state' = [state EXCEPT ![r] = "RUNNING"]
    /\ content' = [content EXCEPT ![r] = data]
    /\ UNCHANGED <<data, linked, archived, updates, siblings, history, localVars,
                   faults, edits>>

\* force_status, by id: a cancelled run whose thread went on is COMPLETED too.
TrainingEnds(r) ==
    /\ job[r] \in {"running", "cancelled"}
    /\ job' = [job EXCEPT ![r] = "ended"]
    /\ \/ /\ state' = [state EXCEPT ![r] = "COMPLETED"]
          /\ updates' = Append(updates, r)
          /\ UNCHANGED faults
       \/ /\ Fault("training")
          /\ state' = [state EXCEPT ![r] = "FAILED"]
          /\ UNCHANGED updates
       \/ Fault("status_write") /\ UNCHANGED <<state, updates>>
    /\ UNCHANGED <<data, linked, archived, siblings, content, history, localVars,
                   edits>>
-----------------------------------------------------------------------------
(* Persons *)

Edit == edits < MaxEdits /\ edits' = edits + 1

\* cancel_job: a queued row never runs, a running thread does not notice.
PersonCancels(r) ==
    /\ Edit
    /\ r \in MayRun
    /\ job' = [job EXCEPT ![r] = IF @ = "queued" THEN "ended" ELSE "cancelled"]
    /\ state' = [state EXCEPT ![r] = "CANCELLED"]
    /\ UNCHANGED <<data, linked, archived, updates, siblings, content, history,
                   localVars, faults>>

\* DELETE /sessions/{id}: refused while has_in_flight_job, else archived.
PersonDeletes(r) ==
    /\ Edit
    /\ r \in Active
    /\ r \notin MayRun
    /\ archived' = [archived EXCEPT ![r] = "person"]
    /\ UNCHANGED <<data, state, linked, updates, siblings, job, content, history,
                   localVars, faults>>

\* PATCH /sessions/{id}: a new name, description or tag is an update too.
PersonRenames(r) ==
    /\ Edit
    /\ r \in Completed
    /\ updates' = Append(updates, r)
    /\ UNCHANGED <<data, state, linked, archived, siblings, job, content, history,
                   localVars, faults>>

\* POST /data-sources/{id}/file: in place, under the same dataset id.
PersonReplacesFile ==
    /\ Edit
    /\ data' = data + 1
    /\ UNCHANGED <<sessionVars, job, content, history, localVars, faults>>
-----------------------------------------------------------------------------
LaunchNext(l) ==
    \/ Due(l) \/ PruneReadServing(l) \/ PruneSelect(l)
    \/ \E r \in Run : PruneArchive(l, r)
    \/ CreateRun(l) \/ CeilingReached(l) \/ LinkRun(l)
    \/ LaunchFamily(l) \/ LaunchRefused(l) \/ AnnounceQueued(l) \/ RecordLaunched(l)
TrainingNext(r) == TrainingStarts(r) \/ TrainingEnds(r)
PersonNext ==
    \/ \E r \in Run : PersonCancels(r) \/ PersonDeletes(r) \/ PersonRenames(r)
    \/ PersonReplacesFile

Next ==
    \/ \E l \in Launcher : LaunchNext(l) \/ LauncherCrash(l)
    \/ \E r \in Run : TrainingNext(r)
    \/ PersonNext

Spec == Init /\ [][Next]_vars

\* The scheduler polls for ever, and a worker takes and ends what is queued.
Fairness ==
    /\ \A l \in Launcher : WF_vars(LaunchNext(l))
    /\ \A r \in Run : WF_vars(TrainingNext(r))

FairSpec == Spec /\ Fairness
-----------------------------------------------------------------------------
(* Properties *)

\* The type invariant.
TypeOK ==
    /\ data \in Nat
    /\ state \in [Run -> RunState]
    /\ linked \subseteq Run
    /\ archived \in [Run -> ArchivedBy]
    /\ updates \in Seq(Run)
    /\ siblings \in Nat
    /\ job \in [Run -> JobState]
    /\ content \in [Run -> Nat]
    /\ history \in Seq([run : Run, hash : Nat])
    /\ pc \in [Launcher -> LauncherPc]
    /\ mine \in [Launcher -> Run \cup {NoRun}]
    /\ hash \in [Launcher -> Nat]
    /\ serving \in [Launcher -> SUBSET Run]
    /\ doomed \in [Launcher -> SUBSET Run]
    /\ faults \in Seq(FaultKinds)
    /\ edits \in Nat

\* Dedupe (_launch, in_flight_session): a run the history shows as launched is
\* not joined by another while its job is queued or training.
OneAtATime ==
    \A h \in Launched, r \in MayRun : h \in MayRun => r <= h

\* Slot reuse (prune_previous_runs): the schedule holds what is read and what
\* trains to replace it, two families at most, and one more row only for each
\* archive that failed and each launch that was cut short (its session may have
\* a job and not yet read QUEUED).  The siblings of a pruned run stay, so this
\* needs runs without siblings.
ScheduleBoundedAtTwo ==
    Cardinality(Active \cap linked) + siblings
        <= 2 * (1 + FanOut) + Happened("archive_write") + Happened("launcher_crash")

\* The prune leaves something to read (its docstring: archiving the serving
\* session "would leave the product blank").  It empties the app only when the
\* run it spared was deleted by a person meanwhile, or when it found none: a
\* row it selected may be COMPLETED by the time it is archived.
PruneNeverBlanks ==
    [][\A l \in Launcher :
         /\ \E r \in doomed[l] : archived[r] = "nobody" /\ archived'[r] = "scheduler"
         /\ Read # {} /\ Read' = {}
         => \A r \in serving[l] : archived[r] = "person"]_vars

\* Whether data that counts as trained is served: last_successful_hash looks at
\* the status alone, so a run that was archived counts as well.
SkipMeansServed == \A h \in LastSuccess : h.hash = data => archived[h.run] = "nobody"

\* The three places a schedule does not leave by itself: a session left QUEUED
\* or RUNNING by a run that has ended, a session that lost its launcher before
\* it was linked and takes the last slot, and an archived run that still counts
\* as the training of today's data.
Wedged == \E r \in InFlight : job[r] = "ended"
SlotLost == Occupied >= MaxSessions /\ Active \ linked # {}
CountsArchived == ~SkipMeansServed

\* Everything the scheduler is for: in the end the app reads a forecast of the
\* file as it is, through failed trainings, refusals, crashes and edits.
CatchesUp ==
    <>[](\/ \E r \in Read : content[r] = data
         \/ Wedged \/ SlotLost \/ CountsArchived)
=============================================================================
