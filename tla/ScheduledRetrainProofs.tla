----------------------- MODULE ScheduledRetrainProofs -----------------------
(***************************************************************************)
(* Theorems about ScheduledRetrain, for any number of runs, siblings,      *)
(* edits and faults.                                                       *)
(***************************************************************************)
EXTENDS ScheduledRetrain, FiniteSetTheorems, WellFoundedInduction, TLAPS

\* The places of a launch where it has a session of its own.
Launching == {"link", "launch", "announce", "record"}
MineIsRun == \A l \in Launcher : pc[l] \in Launching => mine[l] \in Run
TypeInv == TypeOK /\ MineIsRun

-----------------------------------------------------------------------------
(* Type correctness *)

\* A launch that ends, refused, crashed or done, leaves no local value behind.
LEMMA ReturnType ==
    ASSUME TypeInv, NEW l \in Launcher, Return(l)
    PROVE  /\ pc' \in [Launcher -> LauncherPc]
           /\ mine' \in [Launcher -> Run \cup {NoRun}]
           /\ hash' \in [Launcher -> Nat]
           /\ serving' \in [Launcher -> SUBSET Run]
           /\ doomed' \in [Launcher -> SUBSET Run]
           /\ MineIsRun'
    BY DEF TypeInv, TypeOK, MineIsRun, Return, Goto, LauncherPc, Launching, NoContent

\* A sequence grows by one member.
LEMMA AppendType ==
    ASSUME NEW S, NEW s \in Seq(S), NEW e \in S
    PROVE  Append(s, e) \in Seq(S)
    OBVIOUS

\* A fault is one of the kinds.
LEMMA FaultType ==
    ASSUME TypeOK, NEW k \in FaultKinds, Fault(k)
    PROVE  faults' \in Seq(FaultKinds)
    BY DEF TypeOK, Fault

\* The calls of _launch keep the types.
LEMMA LaunchTypes ==
    ASSUME TypeInv, NEW l \in Launcher, LaunchNext(l) \/ LauncherCrash(l)
    PROVE  TypeInv'
<1> USE DEF sessionVars, localVars
<1>1. CASE Due(l)
    BY <1>1 DEF TypeInv, TypeOK, MineIsRun, Due, Goto, LauncherPc, Launching
<1>2. CASE PruneReadServing(l)
    <2>1. LastUpdated(Completed \cap linked) \subseteq Run
        BY DEF LastUpdated, Completed, Active, Created
    <2> QED
        BY <1>2, <2>1 DEF TypeInv, TypeOK, MineIsRun, PruneReadServing, Goto,
                          LauncherPc, Launching
<1>3. CASE PruneSelect(l)
    BY <1>3 DEF TypeInv, TypeOK, MineIsRun, PruneSelect, Goto, LauncherPc, Launching,
                Active, Created
<1>4. ASSUME NEW r \in Run, PruneArchive(l, r) PROVE TypeInv'
    <2>1. faults' \in Seq(FaultKinds)
        BY <1>4, FaultType DEF PruneArchive, FaultKinds, TypeInv, TypeOK
    <2>2. archived' \in [Run -> ArchivedBy]
        BY <1>4 DEF PruneArchive, TypeInv, TypeOK, ArchivedBy
    <2> QED
        BY <1>4, <2>1, <2>2 DEF TypeInv, TypeOK, MineIsRun, PruneArchive
<1>5. CASE CreateRun(l)
    <2>1. PICK r \in Run : /\ state' = [state EXCEPT ![r] = "DRAFT"]
                           /\ mine' = [mine EXCEPT ![l] = r]
        BY <1>5 DEF CreateRun
    <2>2. state' \in [Run -> RunState]
        BY <2>1 DEF TypeInv, TypeOK, RunState
    <2> QED
        BY <1>5, <2>1, <2>2 DEF TypeInv, TypeOK, MineIsRun, CreateRun, Goto, LauncherPc,
                                Launching
<1>6. CASE CeilingReached(l)
    BY <1>6, ReturnType DEF CeilingReached, TypeInv, TypeOK
<1>7. CASE LinkRun(l)
    BY <1>7 DEF TypeInv, TypeOK, MineIsRun, LinkRun, Goto, LauncherPc, Launching,
                RunState, SessionState
<1>8. CASE LaunchFamily(l)
    <2>1. siblings' \in Nat
        BY <1>8, ScheduleAssumption DEF TypeInv, TypeOK, LaunchFamily
    <2> QED
        BY <1>8, <2>1 DEF TypeInv, TypeOK, MineIsRun, LaunchFamily, Goto, LauncherPc,
                          Launching, JobState
<1>9. CASE LaunchRefused(l)
    <2>1. faults' \in Seq(FaultKinds)
        BY <1>9, FaultType DEF LaunchRefused, FaultKinds, TypeInv
    <2>2. archived' \in [Run -> ArchivedBy]
        BY <1>9 DEF LaunchRefused, TypeInv, TypeOK, ArchivedBy
    <2> QED
        BY <1>9, <2>1, <2>2, ReturnType DEF LaunchRefused, TypeInv, TypeOK
<1>10. CASE AnnounceQueued(l)
    <2>1. state' \in [Run -> RunState]
        BY <1>10 DEF AnnounceQueued, TypeInv, TypeOK, RunState, SessionState, InFlightStates
    <2> QED
        BY <1>10, <2>1 DEF TypeInv, TypeOK, MineIsRun, AnnounceQueued, Goto, LauncherPc,
                           Launching
<1>11. CASE RecordLaunched(l)
    <2>1. faults' \in Seq(FaultKinds)
        BY <1>11, FaultType DEF RecordLaunched, FaultKinds, TypeInv, TypeOK
    <2>2. mine[l] \in Run /\ hash[l] \in Nat
        BY <1>11 DEF RecordLaunched, TypeInv, TypeOK, MineIsRun, Launching
    <2>3. [run |-> mine[l], hash |-> hash[l]] \in [run : Run, hash : Nat]
        BY <2>2
    <2>4. \/ history' = Append(history, [run |-> mine[l], hash |-> hash[l]])
          \/ history' = history
        BY <1>11 DEF RecordLaunched
    <2>5. history' \in Seq([run : Run, hash : Nat])
        <3>1. history \in Seq([run : Run, hash : Nat])
            BY DEF TypeInv, TypeOK
        <3>2. Append(history, [run |-> mine[l], hash |-> hash[l]])
                  \in Seq([run : Run, hash : Nat])
            BY <2>3, <3>1, AppendType, Zenon
        <3> QED
            BY <2>4, <3>1, <3>2, Zenon
    <2> QED
        BY <1>11, <2>1, <2>5, ReturnType DEF RecordLaunched, TypeInv, TypeOK
<1>12. CASE LauncherCrash(l)
    <2>1. faults' \in Seq(FaultKinds)
        BY <1>12, FaultType DEF LauncherCrash, FaultKinds, TypeInv
    <2> QED
        BY <1>12, <2>1, ReturnType DEF LauncherCrash, TypeInv, TypeOK
<1> QED
    BY <1>1, <1>2, <1>3, <1>4, <1>5, <1>6, <1>7, <1>8, <1>9, <1>10, <1>11, <1>12
    DEF LaunchNext

\* The worker and the persons keep the types.
LEMMA OtherTypes ==
    ASSUME TypeInv, (\E r \in Run : TrainingNext(r)) \/ PersonNext
    PROVE  TypeInv'
<1> USE DEF sessionVars, localVars
<1>1. ASSUME NEW r \in Run, TrainingStarts(r) PROVE TypeInv'
    BY <1>1 DEF TypeInv, TypeOK, MineIsRun, TrainingStarts, JobState, RunState,
                SessionState, InFlightStates
<1>2. ASSUME NEW r \in Run, TrainingEnds(r) PROVE TypeInv'
    <2>1. faults' \in Seq(FaultKinds)
        BY <1>2, FaultType DEF TrainingEnds, FaultKinds, TypeInv, TypeOK
    <2>2. state' \in [Run -> RunState]
        BY <1>2 DEF TrainingEnds, TypeInv, TypeOK, RunState, SessionState, TerminalStates
    <2>3. updates' \in Seq(Run)
        <3>1. updates' = Append(updates, r) \/ updates' = updates
            BY <1>2 DEF TrainingEnds
        <3>2. updates \in Seq(Run)
            BY DEF TypeInv, TypeOK
        <3> QED
            BY <3>1, <3>2, AppendType, Zenon
    <2>4. job' \in [Run -> JobState]
        BY <1>2 DEF TrainingEnds, TypeInv, TypeOK, JobState
    <2> QED
        BY <1>2, <2>1, <2>2, <2>3, <2>4 DEF TypeInv, TypeOK, MineIsRun, TrainingEnds
<1>3. ASSUME NEW r \in Run, PersonCancels(r) PROVE TypeInv'
    <2>1. state' \in [Run -> RunState] /\ job' \in [Run -> JobState]
        BY <1>3 DEF PersonCancels, TypeInv, TypeOK, RunState, SessionState,
                    TerminalStates, JobState
    <2> QED
        BY <1>3, <2>1 DEF TypeInv, TypeOK, MineIsRun, PersonCancels, Edit
<1>4. ASSUME NEW r \in Run, PersonDeletes(r) PROVE TypeInv'
    BY <1>4 DEF TypeInv, TypeOK, MineIsRun, PersonDeletes, Edit, ArchivedBy
<1>5. ASSUME NEW r \in Run, PersonRenames(r) PROVE TypeInv'
    <2>1. updates' \in Seq(Run)
        BY <1>5 DEF PersonRenames, TypeInv, TypeOK
    <2> QED
        BY <1>5, <2>1 DEF TypeInv, TypeOK, MineIsRun, PersonRenames, Edit
<1>6. CASE PersonReplacesFile
    BY <1>6 DEF TypeInv, TypeOK, MineIsRun, PersonReplacesFile, Edit
<1> QED
    BY <1>1, <1>2, <1>3, <1>4, <1>5, <1>6 DEF TrainingNext, PersonNext

\* The first state has the types.
LEMMA TypeInitially == Init => TypeInv
<1> SUFFICES ASSUME Init PROVE TypeInv
    OBVIOUS
<1>1. TypeOK
    BY DEF Init, TypeOK, RunState, SessionState, ArchivedBy, JobState, LauncherPc,
           NoRun, NoContent
<1> QED
    BY <1>1 DEF Init, TypeInv, MineIsRun, Launching

\* Every variable keeps its type; a launch past the insert has a session.
THEOREM TypeInvariant == Spec => []TypeInv
<1>1. Init => TypeInv
    BY TypeInitially
<1>2. TypeInv /\ [Next]_vars => TypeInv'
    <2> SUFFICES ASSUME TypeInv, [Next]_vars PROVE TypeInv'
        OBVIOUS
    <2>1. CASE UNCHANGED vars
        BY <2>1 DEF vars, sessionVars, localVars, TypeInv, TypeOK, MineIsRun
    <2> QED
        BY <2>1, LaunchTypes, OtherTypes DEF Next
<1> QED
    BY <1>1, <1>2, PTL DEF Spec

\* The type invariant the runs check (TypeOK), for every value of the constants.
THEOREM TypeCorrect == Spec => []TypeOK
    BY TypeInvariant, PTL DEF TypeInv
-----------------------------------------------------------------------------
(* One run at a time.  The dedupe of _launch looks at the sessions, the     *)
(* workers at the jobs: what makes it work is that a run in the history is  *)
(* visible to in_flight_session for as long as its job may run.             *)

\* A job has a session, and a run that was recorded has one too.
RowsExist ==
    /\ \A r \in Run : job[r] # "none" => r \in Created
    /\ Launched \subseteq Created
\* in_flight_session sees every recorded run whose job is queued or running.
RecordedIsVisible == Launched \cap MayRun \subseteq InFlight
\* While a launch is under way, no recorded run is queued or running.
NothingRecordedRuns == \A l \in Launcher : pc[l] # "idle" => Launched \cap MayRun = {}
\* The session of a launch is the newest, and is not in the history yet.
MineIsNewest ==
    \A l \in Launcher : pc[l] \in Launching =>
        /\ \A q \in Created : q <= mine[l]
        /\ mine[l] \notin Launched
\* From the marker on, the session is linked; once it was announced, a worker
\* or transition has moved it to an in-flight state.
MineIsVisible ==
    \A l \in Launcher :
        /\ pc[l] \in {"launch", "announce", "record"} =>
               mine[l] \in linked /\ state[mine[l]] \notin {"ABSENT", "DRAFT"}
        /\ pc[l] = "record" /\ mine[l] \in MayRun => state[mine[l]] \in InFlightStates

Dedupe == /\ RowsExist /\ RecordedIsVisible /\ NothingRecordedRuns
          /\ MineIsNewest /\ MineIsVisible /\ OneAtATime

\* The code's situation without the second caller, the e-mail ingest.
SingleLauncher == \A l, m \in Launcher : l = m

\* Steps that leave the rows alone, and that start no launch.
LEMMA DedupeKept ==
    ASSUME Dedupe, UNCHANGED <<state, linked, job, history>>,
           \A l \in Launcher : \/ pc'[l] = pc[l] /\ mine'[l] = mine[l]
                               \/ pc'[l] = "idle"
                               \/ pc[l] # "idle" /\ pc'[l] \in {"select", "archive"}
    PROVE  Dedupe'
<1>1. /\ Created' = Created /\ MayRun' = MayRun /\ Launched' = Launched
      /\ InFlight' = InFlight
    BY DEF Created, MayRun, Launched, InFlight
<1>2. RowsExist' /\ RecordedIsVisible' /\ OneAtATime'
    BY <1>1 DEF Dedupe, RowsExist, RecordedIsVisible, OneAtATime
<1>3. NothingRecordedRuns'
    BY <1>1 DEF Dedupe, NothingRecordedRuns
<1>4. MineIsNewest'
    BY <1>1 DEF Dedupe, MineIsNewest, Launching
<1>5. MineIsVisible'
    BY <1>1 DEF Dedupe, MineIsVisible
<1> QED
    BY <1>2, <1>3, <1>4, <1>5 DEF Dedupe

\* The steps of a launch that write rows, or that start it.
LEMMA LaunchDedupe ==
    ASSUME SingleLauncher, TypeInv, Dedupe, NEW l \in Launcher,
           LaunchNext(l) \/ LauncherCrash(l)
    PROVE  Dedupe'
<1> USE DEF sessionVars, localVars
<1>1. CASE Due(l)
    <2>1. Launched \cap MayRun = {}
        BY <1>1 DEF Due, Dedupe, RecordedIsVisible
    <2>2. /\ Created' = Created /\ MayRun' = MayRun /\ Launched' = Launched
          /\ InFlight' = InFlight
        BY <1>1 DEF Due, Created, MayRun, Launched, InFlight
    <2>3. \A m \in Launcher : pc'[m] = "prune"
        BY <1>1 DEF Due, Goto, SingleLauncher, TypeInv, TypeOK
    <2>4. RowsExist' /\ RecordedIsVisible' /\ OneAtATime'
        BY <1>1, <2>2 DEF Due, Dedupe, RowsExist, RecordedIsVisible, OneAtATime
    <2>5. NothingRecordedRuns' /\ MineIsNewest' /\ MineIsVisible'
        BY <2>1, <2>2, <2>3 DEF NothingRecordedRuns, MineIsNewest, MineIsVisible, Launching
    <2> QED
        BY <2>4, <2>5 DEF Dedupe
<1>2. CASE PruneReadServing(l)
    BY <1>2, DedupeKept DEF PruneReadServing, Goto, TypeInv, TypeOK
<1>3. CASE PruneSelect(l)
    BY <1>3, DedupeKept DEF PruneSelect, Goto, TypeInv, TypeOK
<1>4. ASSUME NEW r \in Run, PruneArchive(l, r) PROVE Dedupe'
    BY <1>4, DedupeKept DEF PruneArchive
<1>5. CASE CreateRun(l)
    <2>1. PICK r \in Run : /\ \A q \in Run : q \in Created <=> q < r
                           /\ state' = [state EXCEPT ![r] = "DRAFT"]
                           /\ mine' = [mine EXCEPT ![l] = r]
        BY <1>5 DEF CreateRun
    <2>2. \A m \in Launcher : m = l /\ pc'[m] = "link" /\ mine'[m] = r
        BY <1>5, <2>1 DEF CreateRun, Goto, SingleLauncher, TypeInv, TypeOK
    <2>3. Created' = Created \cup {r} /\ r \notin Created
        BY <2>1 DEF Created, TypeInv, TypeOK, Run
    <2>4. MayRun' = MayRun /\ Launched' = Launched
        BY <1>5 DEF CreateRun, MayRun, Launched
    <2>5. \A q \in Run : q # r => state'[q] = state[q]
        BY <2>1 DEF TypeInv, TypeOK
    <2>6. r \notin Launched
        BY <2>3 DEF Dedupe, RowsExist
    <2>7. RecordedIsVisible'
        BY <1>5, <2>4, <2>5, <2>6 DEF Dedupe, RecordedIsVisible, InFlight, CreateRun,
                                     TypeInv, TypeOK
    <2>8. MineIsNewest'
        BY <2>1, <2>2, <2>3, <2>4, <2>6 DEF MineIsNewest, Run, Created
    <2> QED
        BY <1>5, <2>2, <2>3, <2>4, <2>7, <2>8 DEF CreateRun, Dedupe, RowsExist,
            OneAtATime, NothingRecordedRuns, MineIsVisible
<1>6. CASE CeilingReached(l)
    BY <1>6, DedupeKept DEF CeilingReached, Return, Goto, TypeInv, TypeOK
<1>7. CASE LinkRun(l)
    <2>1. mine[l] \in Run /\ mine[l] \notin Launched
        BY <1>7 DEF LinkRun, TypeInv, MineIsRun, Launching, Dedupe, MineIsNewest
    <2>2. \A m \in Launcher : m = l /\ pc'[m] = "launch" /\ mine'[m] = mine[l]
        BY <1>7 DEF LinkRun, Goto, SingleLauncher, TypeInv, TypeOK
    <2>3. /\ state'[mine[l]] = "MODELS_CONFIGURED"
          /\ \A q \in Run : q # mine[l] => state'[q] = state[q]
        BY <1>7, <2>1 DEF LinkRun, TypeInv, TypeOK
    <2>4. MayRun' = MayRun /\ Launched' = Launched
        BY <1>7 DEF LinkRun, MayRun, Launched
    <2>5. Created' = Created \cup {mine[l]}
        BY <2>1, <2>3 DEF Created
    <2>6. RecordedIsVisible'
        BY <1>7, <2>1, <2>3, <2>4 DEF Dedupe, RecordedIsVisible, InFlight, LinkRun, TypeInv, TypeOK
    <2>7. MineIsNewest'
        BY <1>7, <2>1, <2>2, <2>4, <2>5 DEF Dedupe, MineIsNewest, LinkRun, Launching, Run
    <2>8. MineIsVisible'
        BY <1>7, <2>2, <2>3 DEF MineIsVisible, LinkRun
    <2> QED
        BY <1>7, <2>2, <2>4, <2>5, <2>6, <2>7, <2>8 DEF LinkRun, Dedupe, RowsExist,
            OneAtATime, NothingRecordedRuns
<1>8. CASE LaunchFamily(l)
    <2>1. mine[l] \in Run /\ mine[l] \notin Launched
        BY <1>8 DEF LaunchFamily, TypeInv, MineIsRun, Launching, Dedupe, MineIsNewest
    <2>2. \A m \in Launcher : m = l /\ pc'[m] = "announce" /\ mine'[m] = mine[l]
        BY <1>8 DEF LaunchFamily, Goto, SingleLauncher, TypeInv, TypeOK
    <2>3. MayRun' = MayRun \cup {mine[l]}
        BY <1>8, <2>1 DEF LaunchFamily, MayRun, TypeInv, TypeOK
    <2>4. Launched' = Launched /\ Created' = Created
        BY <1>8 DEF LaunchFamily, Launched, Created
    <2>5. Launched' \cap MayRun' = {}
        BY <1>8, <2>1, <2>3, <2>4 DEF LaunchFamily, Dedupe, NothingRecordedRuns
    <2>6. mine[l] \in Created /\ MineIsVisible'
        BY <1>8, <2>1, <2>2 DEF LaunchFamily, Dedupe, MineIsVisible, Created
    <2>7. RowsExist'
        <3>1. \A q \in Run : q # mine[l] => job'[q] = job[q]
            BY <1>8 DEF LaunchFamily, TypeInv, TypeOK
        <3> QED
            BY <2>4, <2>6, <3>1 DEF Dedupe, RowsExist
    <2>8. MineIsNewest'
        BY <1>8, <2>2, <2>4 DEF Dedupe, MineIsNewest, LaunchFamily, Launching
    <2> QED
        BY <2>5, <2>6, <2>7, <2>8 DEF Dedupe, RecordedIsVisible, OneAtATime,
            NothingRecordedRuns
<1>9. CASE LaunchRefused(l)
    BY <1>9, DedupeKept DEF LaunchRefused, Return, Goto, TypeInv, TypeOK
<1>10. CASE AnnounceQueued(l)
    <2>1. mine[l] \in Run /\ mine[l] \notin Launched
        BY <1>10 DEF AnnounceQueued, TypeInv, MineIsRun, Launching, Dedupe, MineIsNewest
    <2>2. \A m \in Launcher : m = l /\ pc'[m] = "record" /\ mine'[m] = mine[l]
        BY <1>10 DEF AnnounceQueued, Goto, SingleLauncher, TypeInv, TypeOK
    <2>3. mine[l] \in linked /\ state[mine[l]] \notin {"ABSENT", "DRAFT"}
        BY <1>10 DEF AnnounceQueued, Dedupe, MineIsVisible
    <2>4. state'[mine[l]] \in InFlightStates
        BY <1>10, <2>1, <2>3 DEF AnnounceQueued, CanTransition, PreTrainStates,
            InFlightStates, TerminalStates, TypeInv, TypeOK, RunState, SessionState
    <2>5. \A q \in Run : q # mine[l] => state'[q] = state[q]
        BY <1>10 DEF AnnounceQueued, TypeInv, TypeOK
    <2>6. MayRun' = MayRun /\ Launched' = Launched
        BY <1>10 DEF AnnounceQueued, MayRun, Launched
    <2>7. Created' = Created
        BY <2>1, <2>3, <2>4, <2>5 DEF Created, InFlightStates
    <2>8. RecordedIsVisible'
        BY <1>10, <2>1, <2>5, <2>6 DEF Dedupe, RecordedIsVisible, InFlight,
                                       AnnounceQueued, TypeInv, TypeOK
    <2>9. MineIsNewest'
        BY <1>10, <2>2, <2>6, <2>7 DEF Dedupe, MineIsNewest, AnnounceQueued, Launching
    <2>10. MineIsVisible'
        BY <1>10, <2>2, <2>3, <2>4 DEF MineIsVisible, AnnounceQueued, InFlightStates
    <2> QED
        BY <1>10, <2>2, <2>6, <2>7, <2>8, <2>9, <2>10 DEF AnnounceQueued, Dedupe,
            RowsExist, OneAtATime, NothingRecordedRuns
<1>11. CASE RecordLaunched(l)
    <2>1. \A m \in Launcher : pc'[m] = "idle"
        BY <1>11 DEF RecordLaunched, Return, Goto, SingleLauncher, TypeInv, TypeOK
    <2>2. /\ MayRun' = MayRun /\ Created' = Created
          /\ InFlight' = InFlight
        BY <1>11 DEF RecordLaunched, MayRun, Created, InFlight
    <2>3. Launched' \subseteq Launched \cup {mine[l]}
        <3>1. CASE history' = history
            BY <3>1 DEF Launched
        <3>2. CASE history' = Append(history, [run |-> mine[l], hash |-> hash[l]])
            BY <3>2 DEF Launched, TypeInv, TypeOK
        <3> QED
            BY <1>11, <3>1, <3>2 DEF RecordLaunched
    <2>4. /\ Launched \cap MayRun = {}
          /\ \A q \in Created : q <= mine[l]
          /\ mine[l] \in linked /\ mine[l] \in Run /\ mine[l] \in Created
          /\ mine[l] \in MayRun => state[mine[l]] \in InFlightStates
        BY <1>11 DEF RecordLaunched, Dedupe, NothingRecordedRuns, MineIsNewest,
                     MineIsVisible, TypeInv, MineIsRun, Launching, Created
    <2>5. MayRun \subseteq Created
        BY DEF Dedupe, RowsExist, MayRun
    <2>6. OneAtATime'
        BY <2>2, <2>3, <2>4, <2>5 DEF OneAtATime
    <2>7. RecordedIsVisible'
        BY <2>2, <2>3, <2>4 DEF RecordedIsVisible, InFlight
    <2>8. RowsExist'
        BY <1>11, <2>2, <2>3, <2>4 DEF RecordLaunched, Dedupe, RowsExist
    <2> QED
        BY <2>1, <2>6, <2>7, <2>8 DEF Dedupe, NothingRecordedRuns, MineIsNewest,
                                      MineIsVisible, Launching
<1>12. CASE LauncherCrash(l)
    BY <1>12, DedupeKept DEF LauncherCrash, Return, Goto, TypeInv, TypeOK
<1> QED
    BY <1>1, <1>2, <1>3, <1>4, <1>5, <1>6, <1>7, <1>8, <1>9, <1>10, <1>11, <1>12
    DEF LaunchNext

\* The steps of the worker and of the persons: a job leaves MayRun, or it stays
\* and its session reads RUNNING.
LEMMA OtherDedupe ==
    ASSUME TypeInv, Dedupe, (\E r \in Run : TrainingNext(r)) \/ PersonNext
    PROVE  Dedupe'
<1> USE DEF sessionVars, localVars
<1>1. ASSUME NEW r \in Run, TrainingStarts(r) \/ TrainingEnds(r) \/ PersonCancels(r)
      PROVE  Dedupe'
    <2>1. /\ \A q \in Run : q # r => job'[q] = job[q] /\ state'[q] = state[q]
          /\ \/ job[r] = "queued" /\ job'[r] = "running" /\ state'[r] = "RUNNING"
             \/ r \notin MayRun' /\ state'[r] \in TerminalStates \cup {state[r]}
          /\ job[r] # "none" /\ job'[r] # "none"
          /\ UNCHANGED <<linked, history, pc, mine>>
        BY <1>1 DEF TrainingStarts, TrainingEnds, PersonCancels, MayRun, TypeInv, TypeOK,
                    TerminalStates
    <2>2. Launched' = Launched /\ MayRun' \subseteq MayRun
        BY <2>1 DEF Launched, MayRun
    <2>3. r \in Created
        BY <2>1 DEF Dedupe, RowsExist
    <2>4. Created' = Created
        BY <2>1, <2>3 DEF Created, TerminalStates
    <2>5. RowsExist' /\ OneAtATime'
        BY <2>1, <2>2, <2>4 DEF Dedupe, RowsExist, OneAtATime
    <2>6. RecordedIsVisible'
        BY <2>1, <2>2 DEF Dedupe, RecordedIsVisible, InFlight, InFlightStates, TypeInv, TypeOK
    <2>7. NothingRecordedRuns' /\ MineIsNewest'
        BY <2>1, <2>2, <2>4 DEF Dedupe, NothingRecordedRuns, MineIsNewest
    <2>8. MineIsVisible'
        BY <2>1, <2>2 DEF Dedupe, MineIsVisible, InFlightStates, TerminalStates,
                          TypeInv, TypeOK
    <2> QED
        BY <2>5, <2>6, <2>7, <2>8 DEF Dedupe
<1>2. ASSUME NEW r \in Run, PersonDeletes(r) \/ PersonRenames(r) PROVE Dedupe'
    BY <1>2, DedupeKept DEF PersonDeletes, PersonRenames
<1>3. CASE PersonReplacesFile
    BY <1>3, DedupeKept DEF PersonReplacesFile
<1> QED
    BY <1>1, <1>2, <1>3 DEF TrainingNext, PersonNext

\* With one caller, what the dedupe relies on holds throughout.
THEOREM DedupeInvariant ==
    ASSUME SingleLauncher
    PROVE  Spec => []Dedupe
<1>1. Init => Dedupe
    <2> SUFFICES ASSUME Init PROVE Dedupe
        OBVIOUS
    <2>1. Launched = {} /\ MayRun = {}
        BY DEF Init, Launched, MayRun
    <2> QED
        BY <2>1 DEF Init, Dedupe, RowsExist, RecordedIsVisible, NothingRecordedRuns,
                    MineIsNewest, MineIsVisible, OneAtATime, Launching
<1>2. TypeInv /\ Dedupe /\ [Next]_vars => Dedupe'
    <2> SUFFICES ASSUME TypeInv, Dedupe, [Next]_vars PROVE Dedupe'
        OBVIOUS
    <2>1. CASE UNCHANGED vars
        BY <2>1, DedupeKept DEF vars, sessionVars, localVars
    <2> QED
        BY <2>1, LaunchDedupe, OtherDedupe DEF Next
<1> QED
    BY <1>1, <1>2, TypeInvariant, PTL DEF Spec

\* The dedupe of _launch: with one caller, a run the history shows as launched
\* is not joined by another while its job is queued or running.
THEOREM OneAtATimeHolds ==
    ASSUME SingleLauncher
    PROVE  Spec => []OneAtATime
<1>1. Dedupe => OneAtATime
    BY DEF Dedupe
<1> QED
    BY <1>1, DedupeInvariant, PTL
-----------------------------------------------------------------------------
(* The prune and what it spares.  It spares what was updated last, which is *)
(* one row; a row is COMPLETED only when its training has ended, so nothing *)
(* but a person takes the spared row away before the prune is over.         *)

\* A linked run has a row, and what has a job was linked first.
RowsLinked ==
    /\ linked \subseteq Created
    /\ \A r \in Run : job[r] # "none" => r \in linked
\* The session of a launch has no job before launch_training_family.
MineIsFresh == \A l \in Launcher : pc[l] \in {"link", "launch"} => job[mine[l]] = "none"
\* COMPLETED is written by the end of the training, with updated_at.
CompletedIsEnded ==
    \A r \in Run : state[r] = "COMPLETED" =>
        job[r] = "ended" /\ \E i \in 1 .. Len(updates) : updates[i] = r
\* One row at most is spared, and while rows are archived it stays COMPLETED,
\* and no step of the schedule archives it.
ServingHolds ==
    \A l \in Launcher :
        /\ \A s, t \in serving[l] : s = t
        /\ pc[l] # "archive" => doomed[l] = {}
        /\ pc[l] \in {"select", "archive"} =>
              \A s \in serving[l] : /\ state[s] = "COMPLETED"
                                    /\ archived[s] # "scheduler"
                                    /\ s \notin doomed[l]

Pruning == RowsLinked /\ MineIsFresh /\ CompletedIsEnded /\ ServingHolds

\* A set of numbers that is not empty has a least one.
LEMMA LeastNumber ==
    ASSUME NEW T \in SUBSET Nat, T # {}
    PROVE  \E x \in T : \A y \in T : x <= y
<1> DEFINE R == OpToRel(<, Nat)
<1>1. IsWellFoundedOn(R, Nat)
    BY NatLessThanWellFounded
<1>2. R = {pair \in Nat \X Nat : pair[1] < pair[2]}
    BY DEF OpToRel
<1> HIDE DEF R
<1>3. PICK x \in T : \A y \in T : <<y, x>> \notin R
    BY <1>1, WFMin
<1>4. \A y \in T : <<y, x>> \in Nat \X Nat
    OBVIOUS
<1>5. \A y \in T : ~ (y < x)
    BY <1>2, <1>3, <1>4
<1> QED
    BY <1>5

\* ORDER BY updated_at DESC LIMIT 1 returns one row at most ...
LEMMA LastUpdatedIsOne ==
    ASSUME TypeInv, NEW S \in SUBSET Run
    PROVE  /\ LastUpdated(S) \subseteq S
           /\ \A s, t \in LastUpdated(S) : s = t
<1>1. Len(updates) \in Nat
    BY DEF TypeInv, TypeOK
<1>2. ASSUME NEW s \in LastUpdated(S), NEW t \in LastUpdated(S) PROVE s = t
    <2>1. PICK i \in 1 .. Len(updates) :
              updates[i] = s /\ \A j \in (i + 1) .. Len(updates) : updates[j] \notin S
        BY <1>2 DEF LastUpdated
    <2>2. PICK k \in 1 .. Len(updates) :
              updates[k] = t /\ \A j \in (k + 1) .. Len(updates) : updates[j] \notin S
        BY <1>2 DEF LastUpdated
    <2>3. s \in S /\ t \in S
        BY <1>2 DEF LastUpdated
    <2>4. ~ (i < k) /\ ~ (k < i)
        BY <1>1, <2>1, <2>2, <2>3
    <2> QED
        BY <1>1, <2>1, <2>2, <2>4
<1> QED
    BY <1>2 DEF LastUpdated

\* ... and one of the rows, when they all were updated.
LEMMA LastUpdatedIsThere ==
    ASSUME TypeInv, NEW S, NEW r \in S,
           \E i \in 1 .. Len(updates) : updates[i] = r
    PROVE  LastUpdated(S) # {}
<1> DEFINE n == Len(updates)
           T == {d \in Nat : d < n /\ updates[n - d] \in S}
<1>1. n \in Nat
    BY DEF TypeInv, TypeOK
<1>2. PICK i \in 1 .. n : updates[i] = r
    OBVIOUS
<1>3. n - i \in T
    <2>1. n - (n - i) = i /\ n - i \in Nat /\ n - i < n
        BY <1>1
    <2> QED
        BY <1>2, <2>1
<1>4. PICK d \in T : \A e \in T : d <= e
    BY <1>3, LeastNumber
<1>5. n - d \in 1 .. n /\ updates[n - d] \in S
    BY <1>1, <1>4
<1>6. ASSUME NEW j \in (n - d + 1) .. n PROVE updates[j] \notin S
    <2>1. n - j \in Nat /\ n - j < d /\ n - (n - j) = j
        BY <1>1, <1>4, <1>6
    <2> QED
        BY <1>1, <1>4, <2>1
<1>7. updates[n - d] \in LastUpdated(S)
    BY <1>5, <1>6 DEF LastUpdated
<1> QED
    BY <1>7

\* Steps that leave rows, jobs and updates alone, and no launch begins to prune.
LEMMA PruningKept ==
    ASSUME Pruning, UNCHANGED <<state, linked, archived, updates, job>>,
           \A l \in Launcher :
               \/ UNCHANGED <<pc[l], mine[l], serving[l], doomed[l]>>
               \/ /\ pc'[l] \notin {"select", "archive", "link", "launch"}
                  /\ \A s, t \in serving'[l] : s = t
                  /\ doomed'[l] = {}
    PROVE  Pruning'
<1> USE DEF Pruning
<1>1. RowsLinked' /\ CompletedIsEnded'
    BY DEF RowsLinked, CompletedIsEnded, Created
<1>2. MineIsFresh'
    BY DEF MineIsFresh
<1>3. ServingHolds'
    BY DEF ServingHolds
<1> QED
    BY <1>1, <1>2, <1>3

\* The steps of a launch.
LEMMA LaunchPruning ==
    ASSUME SingleLauncher, TypeInv, Dedupe, Pruning, NEW l \in Launcher,
           LaunchNext(l) \/ LauncherCrash(l)
    PROVE  Pruning'
<1> USE DEF sessionVars, localVars, Pruning
<1>0. \A m \in Launcher : m = l
    BY DEF SingleLauncher
<1>1. CASE Due(l)
    BY <1>0, <1>1 DEF Due, Goto, TypeInv, TypeOK, RowsLinked, Created, MineIsFresh,
                      CompletedIsEnded, ServingHolds
<1>2. CASE PruneReadServing(l)
    <2>1. Completed \cap linked \subseteq Run
        BY DEF Completed, Active, Created
    <2>2. /\ LastUpdated(Completed \cap linked) \subseteq Completed
          /\ \A s, t \in LastUpdated(Completed \cap linked) : s = t
        BY <2>1, LastUpdatedIsOne
    <2>3. /\ serving'[l] = LastUpdated(Completed \cap linked) /\ pc'[l] = "select"
          /\ doomed'[l] = {}
        BY <1>2 DEF PruneReadServing, Goto, TypeInv, TypeOK, ServingHolds
    <2>4. ServingHolds'
        BY <1>0, <1>2, <2>2, <2>3 DEF ServingHolds, PruneReadServing, Completed, Active
    <2>5. RowsLinked' /\ CompletedIsEnded' /\ MineIsFresh'
        BY <1>0, <1>2, <2>3 DEF PruneReadServing, RowsLinked, CompletedIsEnded, Created,
                                MineIsFresh
    <2> QED
        BY <2>4, <2>5
<1>3. CASE PruneSelect(l)
    <2>1. /\ pc'[l] = "archive" /\ serving'[l] = serving[l]
          /\ doomed'[l] \cap serving[l] = {}
        BY <1>3 DEF PruneSelect, Goto, TypeInv, TypeOK
    <2>2. ServingHolds'
        BY <1>0, <1>3, <2>1 DEF ServingHolds, PruneSelect
    <2>3. RowsLinked' /\ CompletedIsEnded' /\ MineIsFresh'
        BY <1>0, <1>3, <2>1 DEF PruneSelect, RowsLinked, CompletedIsEnded, Created,
                                MineIsFresh
    <2> QED
        BY <2>2, <2>3
<1>4. ASSUME NEW r \in Run, PruneArchive(l, r) PROVE Pruning'
    <2>1. /\ pc[l] = "archive" /\ doomed'[l] = doomed[l] \ {r}
          /\ \A s \in serving[l] : archived'[s] = archived[s]
        BY <1>4 DEF PruneArchive, ServingHolds, TypeInv, TypeOK
    <2>2. ServingHolds'
        BY <1>0, <1>4, <2>1 DEF ServingHolds, PruneArchive
    <2>3. RowsLinked' /\ CompletedIsEnded' /\ MineIsFresh'
        BY <1>4 DEF PruneArchive, RowsLinked, CompletedIsEnded, Created, MineIsFresh
    <2> QED
        BY <2>2, <2>3
<1>5. CASE CreateRun(l)
    <2>1. PICK r \in Run : /\ \A q \in Run : q \in Created <=> q < r
                           /\ state' = [state EXCEPT ![r] = "DRAFT"]
                           /\ mine' = [mine EXCEPT ![l] = r]
        BY <1>5 DEF CreateRun
    <2>2. r \notin Created
        BY <2>1 DEF Run
    <2>3. /\ \A q \in Run : q # r => state'[q] = state[q]
          /\ state'[r] = "DRAFT" /\ mine'[l] = r /\ pc'[l] = "link"
        BY <1>5, <2>1 DEF CreateRun, Goto, TypeInv, TypeOK
    <2>4. RowsLinked'
        BY <1>5, <2>3 DEF CreateRun, RowsLinked, Created
    <2>5. CompletedIsEnded'
        BY <1>5, <2>3 DEF CreateRun, CompletedIsEnded
    <2>6. MineIsFresh'
        BY <1>0, <1>5, <2>2, <2>3 DEF CreateRun, MineIsFresh, Dedupe, RowsExist
    <2>7. ServingHolds'
        BY <1>0, <1>5, <2>3 DEF CreateRun, ServingHolds
    <2> QED
        BY <2>4, <2>5, <2>6, <2>7
<1>6. CASE CeilingReached(l)
    BY <1>6, <1>0, PruningKept DEF CeilingReached, Return, Goto, TypeInv, TypeOK
<1>7. CASE LinkRun(l)
    <2>1. mine[l] \in Run
        BY <1>7 DEF LinkRun, TypeInv, MineIsRun, Launching
    <2>2. /\ \A q \in Run : q # mine[l] => state'[q] = state[q]
          /\ state'[mine[l]] = "MODELS_CONFIGURED" /\ pc'[l] = "launch"
        BY <1>7, <2>1 DEF LinkRun, Goto, TypeInv, TypeOK
    <2>3. RowsLinked'
        BY <1>7, <2>1, <2>2 DEF LinkRun, RowsLinked, Created
    <2>4. CompletedIsEnded'
        BY <1>7, <2>2 DEF LinkRun, CompletedIsEnded
    <2>5. MineIsFresh'
        BY <1>0, <1>7 DEF LinkRun, MineIsFresh
    <2>6. ServingHolds'
        BY <1>0, <1>7, <2>2 DEF LinkRun, ServingHolds
    <2> QED
        BY <2>3, <2>4, <2>5, <2>6
<1>8. CASE LaunchFamily(l)
    <2>1. mine[l] \in Run /\ mine[l] \in linked /\ job[mine[l]] = "none"
        BY <1>8 DEF LaunchFamily, TypeInv, MineIsRun, Launching, Dedupe, MineIsVisible,
                    MineIsFresh
    <2>2. /\ \A q \in Run : q # mine[l] => job'[q] = job[q]
          /\ pc'[l] = "announce"
        BY <1>8, <2>1 DEF LaunchFamily, Goto, TypeInv, TypeOK
    <2>3. RowsLinked'
        BY <1>8, <2>1, <2>2 DEF LaunchFamily, RowsLinked, Created
    <2>4. CompletedIsEnded'
        BY <1>8, <2>1, <2>2 DEF LaunchFamily, CompletedIsEnded
    <2>5. MineIsFresh' /\ ServingHolds'
        BY <1>0, <1>8, <2>2 DEF LaunchFamily, MineIsFresh, ServingHolds
    <2> QED
        BY <2>3, <2>4, <2>5
<1>9. CASE LaunchRefused(l)
    <2>1. /\ \A m \in Launcher : pc'[m] = "idle" /\ serving'[m] = {} /\ doomed'[m] = {}
          /\ UNCHANGED <<state, linked, updates, job>>
        BY <1>0, <1>9 DEF LaunchRefused, Return, Goto, TypeInv, TypeOK
    <2> QED
        BY <2>1 DEF RowsLinked, CompletedIsEnded, Created, MineIsFresh, ServingHolds
<1>10. CASE AnnounceQueued(l)
    <2>1. mine[l] \in Run /\ mine[l] \in linked
        BY <1>10 DEF AnnounceQueued, TypeInv, MineIsRun, Launching, Dedupe, MineIsVisible
    <2>2. /\ \A q \in Run : state'[q] = state[q] \/ state'[q] = "QUEUED"
          /\ pc'[l] = "record"
        BY <1>10, <2>1 DEF AnnounceQueued, Goto, TypeInv, TypeOK
    <2>3. RowsLinked' /\ CompletedIsEnded'
        BY <1>10, <2>2 DEF AnnounceQueued, RowsLinked, CompletedIsEnded, Created
    <2>4. MineIsFresh' /\ ServingHolds'
        BY <1>0, <1>10, <2>2 DEF AnnounceQueued, MineIsFresh, ServingHolds
    <2> QED
        BY <2>3, <2>4
<1>11. CASE RecordLaunched(l)
    BY <1>11, <1>0, PruningKept DEF RecordLaunched, Return, Goto, TypeInv, TypeOK
<1>12. CASE LauncherCrash(l)
    BY <1>12, <1>0, PruningKept DEF LauncherCrash, Return, Goto, TypeInv, TypeOK
<1> QED
    BY <1>1, <1>2, <1>3, <1>4, <1>5, <1>6, <1>7, <1>8, <1>9, <1>10, <1>11, <1>12
    DEF LaunchNext

\* The steps of the worker and of the persons.
LEMMA OtherPruning ==
    ASSUME TypeInv, Dedupe, Pruning, (\E r \in Run : TrainingNext(r)) \/ PersonNext
    PROVE  Pruning'
<1> USE DEF sessionVars, localVars, Pruning
<1>1. ASSUME NEW r \in Run, TrainingStarts(r) \/ TrainingEnds(r) \/ PersonCancels(r)
      PROVE  Pruning'
    <2>1. /\ \A q \in Run : q # r => job'[q] = job[q] /\ state'[q] = state[q]
          /\ job[r] \notin {"none", "ended"} /\ job'[r] # "none"
          /\ \/ state'[r] \notin {"ABSENT", "COMPLETED"}
             \/ state'[r] = state[r]
             \/ /\ state'[r] = "COMPLETED" /\ job'[r] = "ended"
                /\ updates' = Append(updates, r)
          /\ updates' = updates \/ updates' = Append(updates, r)
          /\ UNCHANGED <<linked, archived, localVars>>
        BY <1>1 DEF TrainingStarts, TrainingEnds, PersonCancels, MayRun, TypeInv, TypeOK
    <2>2. state[r] # "COMPLETED" /\ r \in Created
        BY <2>1 DEF CompletedIsEnded, Dedupe, RowsExist
    <2>3. RowsLinked'
        BY <2>1, <2>2 DEF RowsLinked, Created, CompletedIsEnded
    <2>4. MineIsFresh'
        BY <2>1 DEF MineIsFresh, TypeInv, MineIsRun, Launching
    <2>5. \A q \in Run : (\E i \in 1 .. Len(updates) : updates[i] = q)
                            => \E i \in 1 .. Len(updates') : updates'[i] = q
        <3>1. updates \in Seq(Run) /\ Len(updates) \in Nat
            BY DEF TypeInv, TypeOK
        <3>2. CASE updates' = Append(updates, r)
            BY <3>1, <3>2
        <3> QED
            BY <2>1, <3>2
    <2>6. updates' = Append(updates, r) => \E i \in 1 .. Len(updates') : updates'[i] = r
        <3>1. updates \in Seq(Run) /\ Len(updates) \in Nat
            BY DEF TypeInv, TypeOK
        <3>2. ASSUME updates' = Append(updates, r)
              PROVE  updates'[Len(updates) + 1] = r /\ Len(updates') = Len(updates) + 1
            BY <3>1, <3>2
        <3> QED
            BY <3>1, <3>2
    <2>7. CompletedIsEnded'
        BY <2>1, <2>2, <2>5, <2>6 DEF CompletedIsEnded
    <2>8. ServingHolds'
        BY <2>1, <2>2 DEF ServingHolds, TypeInv, TypeOK
    <2> QED
        BY <2>3, <2>4, <2>7, <2>8
<1>2. ASSUME NEW r \in Run, PersonDeletes(r) PROVE Pruning'
    <2>1. /\ \A q \in Run : archived'[q] \in {archived[q], "person"}
          /\ UNCHANGED <<state, linked, updates, job, localVars>>
        BY <1>2 DEF PersonDeletes, TypeInv, TypeOK
    <2>2. ServingHolds'
        BY <2>1 DEF ServingHolds, TypeInv, TypeOK
    <2> QED
        BY <2>1, <2>2 DEF RowsLinked, CompletedIsEnded, Created, MineIsFresh
<1>3. ASSUME NEW r \in Run, PersonRenames(r) PROVE Pruning'
    <2>1. updates' = Append(updates, r) /\ updates \in Seq(Run) /\ Len(updates) \in Nat
          /\ UNCHANGED <<state, linked, archived, job, localVars>>
        BY <1>3 DEF PersonRenames, TypeInv, TypeOK
    <2>2. \A q \in Run : (\E i \in 1 .. Len(updates) : updates[i] = q)
                            => \E i \in 1 .. Len(updates') : updates'[i] = q
        BY <2>1
    <2>3. CompletedIsEnded'
        BY <2>1, <2>2 DEF CompletedIsEnded
    <2> QED
        BY <2>1, <2>3 DEF RowsLinked, Created, MineIsFresh, ServingHolds
<1>4. CASE PersonReplacesFile
    BY <1>4 DEF PersonReplacesFile, RowsLinked, CompletedIsEnded, Created, MineIsFresh,
                ServingHolds
<1> QED
    BY <1>1, <1>2, <1>3, <1>4 DEF TrainingNext, PersonNext

\* With one caller, what the prune relies on holds throughout.
THEOREM PruningInvariant ==
    ASSUME SingleLauncher
    PROVE  Spec => [](TypeInv /\ Dedupe /\ Pruning)
<1>1. Init => Pruning
    BY DEF Init, Pruning, RowsLinked, MineIsFresh, CompletedIsEnded, ServingHolds
<1>2. TypeInv /\ Dedupe /\ Pruning /\ [Next]_vars => Pruning'
    <2> SUFFICES ASSUME TypeInv, Dedupe, Pruning, [Next]_vars PROVE Pruning'
        OBVIOUS
    <2>1. CASE UNCHANGED vars
        BY <2>1, PruningKept DEF vars, sessionVars, localVars
    <2> QED
        BY <2>1, LaunchPruning, OtherPruning DEF Next
<1> QED
    BY <1>1, <1>2, TypeInvariant, DedupeInvariant, PTL DEF Spec

\* The prune leaves something to read: with one caller, it blanks the app only
\* when a person deleted the run it spared, or when it found none to spare.
THEOREM PruneNeverBlanksHolds ==
    ASSUME SingleLauncher
    PROVE  Spec => PruneNeverBlanks
<1> DEFINE Blanks(l) ==
        /\ \E r \in doomed[l] : archived[r] = "nobody" /\ archived'[r] = "scheduler"
        /\ Read # {} /\ Read' = {}
<1>1. TypeInv /\ Pruning /\ TypeInv' /\ Pruning' /\ [Next]_vars =>
        [\A l \in Launcher : Blanks(l) => \A r \in serving[l] : archived[r] = "person"]_vars
    <2> SUFFICES ASSUME TypeInv, Pruning, TypeInv', Pruning', Next,
                        NEW l \in Launcher, Blanks(l),
                        NEW s \in serving[l]
                 PROVE  archived[s] = "person"
        OBVIOUS
    <2>0. \A m \in Launcher : m = l
        BY DEF SingleLauncher
    <2>1. PICK r \in doomed[l] : archived[r] = "nobody" /\ archived'[r] = "scheduler"
        OBVIOUS
    <2>2. pc[l] = "archive" /\ r \in Run /\ s \in Run
        BY <2>1 DEF Pruning, ServingHolds, TypeInv, TypeOK
    <2>3. PICK q \in Run : PruneArchive(l, q)
        <3>1. ASSUME NEW q \in Run, TrainingNext(q) \/ PersonDeletes(q) PROVE FALSE
            BY <2>1, <2>2, <3>1 DEF TrainingNext, TrainingStarts, TrainingEnds, PersonDeletes,
                                    TypeInv, TypeOK
        <3>2. ~ PersonNext
            BY <2>1, <3>1 DEF PersonNext, PersonCancels, PersonRenames, PersonReplacesFile,
                              sessionVars
        <3>3. LaunchNext(l) \/ LauncherCrash(l)
            BY <2>0, <3>1, <3>2 DEF Next
        <3> QED
            BY <2>1, <2>2, <3>3 DEF LaunchNext, LauncherCrash, Due, PruneReadServing,
                PruneSelect, CreateRun, CeilingReached, LinkRun, LaunchFamily, LaunchRefused,
                AnnounceQueued, RecordLaunched, sessionVars
    <2>4. /\ state[s] = "COMPLETED" /\ archived[s] # "scheduler" /\ s \notin doomed[l]
          /\ archived'[s] = archived[s] /\ state'[s] = state[s]
        BY <2>2, <2>3 DEF Pruning, ServingHolds, PruneArchive, TypeInv, TypeOK
    <2>5. Completed' = {}
        <3>1. updates' = updates
            BY <2>3 DEF PruneArchive
        <3>2. ASSUME NEW k \in Completed' PROVE FALSE
            <4>1. \E i \in 1 .. Len(updates) : updates[i] = k
                BY <3>1, <3>2 DEF Pruning, CompletedIsEnded, Completed, Active, Created
            <4>2. LastUpdated(Completed') # {}
                BY <3>2, <4>1, LastUpdatedIsThere
            <4>3. Read' # {}
                BY <3>1, <3>2, <4>2 DEF Read, LastUpdated
            <4> QED
                BY <4>3
        <3> QED
            BY <3>2
    <2>6. archived[s] # "nobody"
        BY <2>2, <2>4, <2>5 DEF Completed, Active, Created
    <2> QED
        BY <2>2, <2>4, <2>6 DEF TypeInv, TypeOK, ArchivedBy
<1> QED
    BY <1>1, PruningInvariant, PTL DEF Spec, PruneNeverBlanks
-----------------------------------------------------------------------------
(* Two slots.  A row beyond the spared one and the new one stays only when  *)
(* something was lost: X collects, for each archive that failed and each    *)
(* launcher that crashed, the one row it left behind.                       *)

Kept == Active \cap linked
Lost == Happened("archive_write") + Happened("launcher_crash")

\* What waits for a worker is seen by in_flight_session, unless its launch
\* has not announced it yet.
QueuedIsSeen(X) ==
    \A r \in Run : job[r] = "queued" /\ r \notin X =>
        \/ state[r] \in InFlightStates
        \/ \E l \in Launcher : pc[l] = "announce" /\ mine[l] = r
\* Before the rows are selected nothing but the left-behind is in flight; after
\* it every row is left behind, spared or about to be archived.
PruneCovers(X) ==
    \A l \in Launcher :
        /\ pc[l] \in {"prune", "select"} => InFlight \subseteq X
        /\ pc[l] = "archive" => Kept \subseteq X \cup serving[l] \cup doomed[l]
        /\ pc[l] = "link" => Kept \subseteq X \cup serving[l]
TwoBeside(X) == \E b, c \in Run : Kept \subseteq X \cup {b, c}

Explains(X) ==
    /\ Cardinality(X) <= Lost
    /\ TwoBeside(X)
    /\ QueuedIsSeen(X)
    /\ PruneCovers(X)
Slots == \E X \in SUBSET Run : Explains(X)

\* How often something happened is a number.
LEMMA HappenedIsNat ==
    ASSUME TypeInv, NEW j
    PROVE  Happened(j) \in Nat
<1>1. IsFiniteSet(1 .. Len(faults))
    BY FS_Interval DEF TypeInv, TypeOK
<1>2. IsFiniteSet({i \in 1 .. Len(faults) : faults[i] = j})
    BY <1>1, FS_Subset
<1> QED
    BY <1>2, FS_CardinalityType DEF Happened

\* A fault is counted once, under its kind.
LEMMA FaultCounts ==
    ASSUME TypeInv, NEW k, Fault(k), NEW j
    PROVE  /\ Happened(j) \in Nat
           /\ Happened(j)' = Happened(j) + (IF j = k THEN 1 ELSE 0)
<1> DEFINE n == Len(faults)
           S == {i \in 1 .. n : faults[i] = j}
           T == {i \in 1 .. (n + 1) : faults'[i] = j}
<1>1. n \in Nat /\ faults' = Append(faults, k) /\ faults \in Seq(FaultKinds)
    BY DEF TypeInv, TypeOK, Fault
<1>2. Len(faults') = n + 1 /\ faults'[n + 1] = k
      /\ \A i \in 1 .. n : faults'[i] = faults[i]
    BY <1>1
<1>3. Happened(j) = Cardinality(S) /\ Happened(j)' = Cardinality(T)
    BY <1>2 DEF Happened
<1>4. IsFiniteSet(S) /\ n + 1 \notin S
    <2>1. IsFiniteSet(1 .. n)
        BY <1>1, FS_Interval
    <2> QED
        BY <1>1, <2>1, FS_Subset
<1>5. Cardinality(S) \in Nat
    BY <1>4, FS_CardinalityType
<1>6. T = IF j = k THEN S \cup {n + 1} ELSE S
    BY <1>1, <1>2
<1> HIDE DEF S, T
<1>7. Cardinality(S \cup {n + 1}) = Cardinality(S) + 1
    BY <1>4, FS_AddElement
<1> QED
    BY <1>3, <1>5, <1>6, <1>7

\* What is lost is a number, and no step makes it less.
LEMMA LostIsNat ==
    ASSUME TypeInv
    PROVE  Lost \in Nat
BY HappenedIsNat DEF Lost

LEMMA LostGrows ==
    ASSUME TypeInv, NEW k, Fault(k)
    PROVE  Lost' = Lost + (IF k \in {"archive_write", "launcher_crash"} THEN 1 ELSE 0)
<1>1. /\ Happened("archive_write") \in Nat /\ Happened("launcher_crash") \in Nat
      /\ Happened("archive_write")'
             = Happened("archive_write") + (IF "archive_write" = k THEN 1 ELSE 0)
      /\ Happened("launcher_crash")'
             = Happened("launcher_crash") + (IF "launcher_crash" = k THEN 1 ELSE 0)
    BY FaultCounts
<1> QED
    BY <1>1 DEF Lost

\* One more row in X costs one.
LEMMA OneMore ==
    ASSUME NEW X \in SUBSET Run, NEW r
    PROVE  /\ IsFiniteSet(X) /\ Cardinality(X) \in Nat
           /\ Cardinality(X \cup {r}) \in Nat
           /\ Cardinality(X \cup {r}) <= Cardinality(X) + 1
<1>1. IsFiniteSet(Run)
    BY FS_Interval, ScheduleAssumption DEF Run
<1>2. IsFiniteSet(X)
    BY <1>1, FS_Subset
<1>3. /\ IsFiniteSet(X \cup {r})
      /\ Cardinality(X \cup {r}) = IF r \in X THEN Cardinality(X) ELSE Cardinality(X) + 1
    BY <1>2, FS_AddElement
<1>4. Cardinality(X) \in Nat /\ Cardinality(X \cup {r}) \in Nat
    BY <1>2, <1>3, FS_CardinalityType
<1> QED
    BY <1>2, <1>3, <1>4

\* X explains the next state too, when no more rows are kept.
LEMMA SameExplains ==
    ASSUME NEW X \in SUBSET Run, Explains(X), Lost' = Lost, Kept' \subseteq Kept,
           QueuedIsSeen(X)', PruneCovers(X)'
    PROVE  Slots'
<1>1. Cardinality(X) <= Lost'
    BY DEF Explains
<1>2. \E b, c \in Run : Kept' \subseteq X \cup {b, c}
    BY DEF Explains, TwoBeside
<1>3. TwoBeside(X)'
    BY <1>2 DEF TwoBeside
<1> QED
    BY <1>1, <1>3 DEF Slots, Explains

\* One more loss leaves one more row behind.
LEMMA OneMoreExplains ==
    ASSUME TypeInv, NEW X \in SUBSET Run, NEW r \in Run, Explains(X),
           Lost' = Lost + 1, Kept' \subseteq Kept,
           QueuedIsSeen(X \cup {r})', PruneCovers(X \cup {r})'
    PROVE  Slots'
<1>1. Cardinality(X \cup {r}) <= Lost'
    <2>1. /\ Cardinality(X) \in Nat /\ Cardinality(X \cup {r}) \in Nat
          /\ Cardinality(X \cup {r}) <= Cardinality(X) + 1
        BY OneMore
    <2>2. Cardinality(X) <= Lost /\ Lost \in Nat
        BY LostIsNat DEF Explains
    <2> QED
        BY <2>1, <2>2
<1>2. \E b, c \in Run : Kept' \subseteq (X \cup {r}) \cup {b, c}
    BY DEF Explains, TwoBeside
<1>3. TwoBeside(X \cup {r})'
    BY <1>2 DEF TwoBeside
<1>4. X \cup {r} \in SUBSET Run
    OBVIOUS
<1> QED
    BY <1>1, <1>3, <1>4 DEF Slots, Explains

\* The steps of a launch.
LEMMA LaunchSlots ==
    ASSUME SingleLauncher, TypeInv, Dedupe, Pruning, Slots, NEW l \in Launcher,
           LaunchNext(l) \/ LauncherCrash(l)
    PROVE  Slots'
<1> USE DEF sessionVars, localVars
<1>0. \A m \in Launcher : m = l
    BY DEF SingleLauncher
<1>x. PICK X \in SUBSET Run : Explains(X)
    BY DEF Slots
<1>q. QueuedIsSeen(X) /\ PruneCovers(X)
    BY <1>x DEF Explains
<1>s. faults' = faults => Lost' = Lost
    BY DEF Lost, Happened
<1>k. UNCHANGED <<state, archived, linked>> => Kept' = Kept /\ InFlight' = InFlight
    BY DEF Kept, Active, Created, InFlight
<1>1. CASE Due(l)
    <2>1. /\ pc'[l] = "prune" /\ pc[l] = "idle" /\ InFlight' = {}
          /\ UNCHANGED <<state, archived, linked, job, mine, faults>>
        BY <1>1, <1>k DEF Due, Goto, TypeInv, TypeOK
    <2>2. QueuedIsSeen(X)' /\ PruneCovers(X)'
        BY <1>0, <1>q, <2>1 DEF QueuedIsSeen, PruneCovers
    <2> QED
        BY <1>x, <1>s, <1>k, <2>1, <2>2, SameExplains
<1>2. CASE PruneReadServing(l)
    <2>1. /\ pc'[l] = "select" /\ pc[l] = "prune"
          /\ UNCHANGED <<state, archived, linked, job, mine, faults>>
        BY <1>2 DEF PruneReadServing, Goto, TypeInv, TypeOK
    <2>2. QueuedIsSeen(X)' /\ PruneCovers(X)'
        BY <1>0, <1>q, <1>k, <2>1 DEF QueuedIsSeen, PruneCovers
    <2> QED
        BY <1>x, <1>s, <1>k, <2>1, <2>2, SameExplains
<1>3. CASE PruneSelect(l)
    <2>1. /\ pc'[l] = "archive" /\ pc[l] = "select" /\ serving'[l] = serving[l]
          /\ doomed'[l] = {r \in Active \cap linked : state[r] \notin InFlightStates}
                              \ serving[l]
          /\ UNCHANGED <<state, archived, linked, job, mine, faults>>
        BY <1>3 DEF PruneSelect, Goto, TypeInv, TypeOK
    <2>2. Kept \subseteq InFlight \cup serving'[l] \cup doomed'[l]
        BY <2>1 DEF Kept, InFlight
    <2>3. InFlight \subseteq X
        BY <1>q, <2>1 DEF PruneCovers
    <2>4. QueuedIsSeen(X)' /\ PruneCovers(X)'
        BY <1>0, <1>q, <1>k, <2>1, <2>2, <2>3 DEF QueuedIsSeen, PruneCovers
    <2> QED
        BY <1>x, <1>s, <1>k, <2>1, <2>4, SameExplains
<1>4. ASSUME NEW r \in Run, PruneArchive(l, r) PROVE Slots'
    <2>1. /\ pc[l] = "archive" /\ pc'[l] = "archive" /\ serving'[l] = serving[l]
          /\ doomed'[l] = doomed[l] \ {r}
          /\ UNCHANGED <<state, linked, job, pc, mine>>
        BY <1>4 DEF PruneArchive, TypeInv, TypeOK
    <2>2. Kept \subseteq X \cup serving[l] \cup doomed[l]
        BY <1>q, <2>1 DEF PruneCovers
    <2>3. CASE UNCHANGED faults
        <3>1. archived' = [archived EXCEPT ![r] = IF @ = "nobody" THEN "scheduler" ELSE @]
            BY <1>4, <2>3 DEF PruneArchive, Fault, TypeInv, TypeOK
        <3>2. Kept' = Kept \ {r}
            BY <2>1, <3>1 DEF Kept, Active, Created, TypeInv, TypeOK
        <3>3. QueuedIsSeen(X)' /\ PruneCovers(X)'
            BY <1>0, <1>q, <2>1, <2>2, <3>2 DEF QueuedIsSeen, PruneCovers
        <3> QED
            BY <1>x, <1>s, <2>3, <3>2, <3>3, SameExplains
    <2>4. CASE Fault("archive_write") /\ UNCHANGED archived
        <3>1. Lost' = Lost + 1
            BY <2>4, LostGrows
        <3>2. QueuedIsSeen(X \cup {r})' /\ PruneCovers(X \cup {r})'
            BY <1>0, <1>q, <1>k, <2>1, <2>2, <2>4 DEF QueuedIsSeen, PruneCovers
        <3> QED
            BY <1>x, <1>k, <2>1, <2>4, <3>1, <3>2, OneMoreExplains
    <2> QED
        BY <1>4, <2>3, <2>4 DEF PruneArchive
<1>5. CASE CreateRun(l)
    <2>1. PICK r \in Run : /\ \A q \in Run : q \in Created <=> q < r
                           /\ state' = [state EXCEPT ![r] = "DRAFT"]
        BY <1>5 DEF CreateRun
    <2>2. r \notin Created /\ r \notin linked /\ job[r] = "none"
        BY <2>1 DEF Run, Pruning, RowsLinked, Dedupe, RowsExist
    <2>3. /\ \A q \in Run : q # r => state'[q] = state[q]
          /\ pc[l] = "archive" /\ pc'[l] = "link" /\ doomed[l] = {}
          /\ UNCHANGED <<archived, linked, job, serving, faults>>
        BY <1>5, <2>1 DEF CreateRun, Goto, TypeInv, TypeOK
    <2>4. Kept' = Kept
        BY <2>2, <2>3 DEF Kept, Active, Created
    <2>5. Kept \subseteq X \cup serving[l]
        BY <1>q, <2>3 DEF PruneCovers
    <2>6. QueuedIsSeen(X)' /\ PruneCovers(X)'
        BY <1>0, <1>q, <2>2, <2>3, <2>4, <2>5 DEF QueuedIsSeen, PruneCovers
    <2> QED
        BY <1>x, <1>s, <2>3, <2>4, <2>6, SameExplains
<1>6. CASE CeilingReached(l)
    <2>1. /\ pc'[l] = "idle" /\ pc[l] = "archive"
          /\ UNCHANGED <<state, archived, linked, job, faults>>
        BY <1>6 DEF CeilingReached, Return, Goto, TypeInv, TypeOK
    <2>2. QueuedIsSeen(X)' /\ PruneCovers(X)'
        BY <1>0, <1>q, <2>1 DEF QueuedIsSeen, PruneCovers
    <2> QED
        BY <1>x, <1>s, <1>k, <2>1, <2>2, SameExplains
<1>7. CASE LinkRun(l)
    <2>1. mine[l] \in Run /\ job[mine[l]] = "none" /\ pc[l] = "link"
        BY <1>7 DEF LinkRun, TypeInv, MineIsRun, Launching, Pruning, MineIsFresh
    <2>2. /\ \A q \in Run : q # mine[l] => state'[q] = state[q]
          /\ linked' = linked \cup {mine[l]} /\ pc'[l] = "launch"
          /\ UNCHANGED <<archived, job, faults>>
        BY <1>7, <2>1 DEF LinkRun, Goto, TypeInv, TypeOK
    <2>3. Kept' \subseteq Kept \cup {mine[l]}
        BY <2>2 DEF Kept, Active, Created
    <2>4. Kept \subseteq X \cup serving[l]
        BY <1>q, <2>1 DEF PruneCovers
    <2>5. \E b \in Run : serving[l] \subseteq {b}
        <3>1. serving[l] \subseteq Run /\ \A s, t \in serving[l] : s = t
            BY DEF Pruning, ServingHolds, TypeInv, TypeOK
        <3>2. CASE serving[l] = {}
            BY <2>1, <3>2
        <3>3. ASSUME NEW s \in serving[l] PROVE \E b \in Run : serving[l] \subseteq {b}
            BY <3>1, <3>3
        <3> QED
            BY <3>2, <3>3
    <2>6. PICK b \in Run : serving[l] \subseteq {b}
        BY <2>5
    <2>7. Kept' \subseteq X \cup {b, mine[l]}
        BY <2>3, <2>4, <2>6
    <2>8. TwoBeside(X)'
        BY <2>1, <2>7 DEF TwoBeside
    <2>9. QueuedIsSeen(X)' /\ PruneCovers(X)'
        BY <1>0, <1>q, <2>1, <2>2 DEF QueuedIsSeen, PruneCovers
    <2>10. Cardinality(X) <= Lost'
        BY <1>x, <1>s, <2>2 DEF Explains
    <2> QED
        BY <2>8, <2>9, <2>10 DEF Slots, Explains
<1>8. CASE LaunchFamily(l)
    <2>1. mine[l] \in Run
        BY <1>8 DEF LaunchFamily, TypeInv, MineIsRun, Launching
    <2>2. /\ \A q \in Run : q # mine[l] => job'[q] = job[q]
          /\ pc[l] = "launch" /\ pc'[l] = "announce"
          /\ UNCHANGED <<state, archived, linked, mine, faults>>
        BY <1>8, <2>1 DEF LaunchFamily, Goto, TypeInv, TypeOK
    <2>3. QueuedIsSeen(X)' /\ PruneCovers(X)'
        BY <1>0, <1>q, <2>2 DEF QueuedIsSeen, PruneCovers
    <2> QED
        BY <1>x, <1>s, <1>k, <2>2, <2>3, SameExplains
<1>9. CASE LaunchRefused(l)
    <2>1. /\ pc'[l] = "idle" /\ pc[l] = "launch" /\ Fault("refusal")
          /\ UNCHANGED <<state, linked, job>>
          /\ \A q \in Run : archived'[q] = "nobody" => archived[q] = "nobody"
        BY <1>9 DEF LaunchRefused, Return, Goto, TypeInv, TypeOK
    <2>2. Kept' \subseteq Kept
        BY <2>1 DEF Kept, Active, Created
    <2>3. QueuedIsSeen(X)' /\ PruneCovers(X)'
        BY <1>0, <1>q, <2>1 DEF QueuedIsSeen, PruneCovers
    <2>4. Lost' = Lost
        BY <2>1, LostGrows, LostIsNat
    <2> QED
        BY <1>x, <2>2, <2>3, <2>4, SameExplains
<1>10. CASE AnnounceQueued(l)
    <2>1. mine[l] \in Run /\ mine[l] \in linked /\ state[mine[l]] \notin {"ABSENT", "DRAFT"}
        BY <1>10 DEF AnnounceQueued, TypeInv, MineIsRun, Launching, Dedupe, MineIsVisible
    <2>2. state'[mine[l]] \in InFlightStates
        BY <1>10, <2>1 DEF AnnounceQueued, CanTransition, PreTrainStates,
            InFlightStates, TerminalStates, TypeInv, TypeOK, RunState, SessionState
    <2>3. /\ \A q \in Run : q # mine[l] => state'[q] = state[q]
          /\ pc[l] = "announce" /\ pc'[l] = "record"
          /\ UNCHANGED <<archived, linked, job, mine, faults>>
        BY <1>10 DEF AnnounceQueued, Goto, TypeInv, TypeOK
    <2>4. Kept' \subseteq Kept
        BY <2>1, <2>3 DEF Kept, Active, Created
    <2>5. QueuedIsSeen(X)' /\ PruneCovers(X)'
        BY <1>0, <1>q, <2>2, <2>3 DEF QueuedIsSeen, PruneCovers
    <2> QED
        BY <1>x, <1>s, <2>3, <2>4, <2>5, SameExplains
<1>11. CASE RecordLaunched(l)
    <2>1. /\ pc'[l] = "idle" /\ pc[l] = "record"
          /\ UNCHANGED <<state, archived, linked, job>>
          /\ UNCHANGED faults \/ Fault("history_write")
        BY <1>11 DEF RecordLaunched, Return, Goto, TypeInv, TypeOK
    <2>2. QueuedIsSeen(X)' /\ PruneCovers(X)'
        BY <1>0, <1>q, <2>1 DEF QueuedIsSeen, PruneCovers
    <2>3. Lost' = Lost
        BY <1>s, <2>1, LostGrows, LostIsNat
    <2> QED
        BY <1>x, <1>k, <2>1, <2>2, <2>3, SameExplains
<1>12. CASE LauncherCrash(l)
    <2>1. /\ pc'[l] = "idle" /\ Fault("launcher_crash")
          /\ UNCHANGED <<state, archived, linked, job>>
        BY <1>12 DEF LauncherCrash, Return, Goto, TypeInv, TypeOK
    <2>2. Lost' = Lost + 1
        BY <2>1, LostGrows
    <2>3. PICK r \in Run : pc[l] = "announce" => mine[l] = r
        BY ScheduleAssumption DEF TypeInv, MineIsRun, Launching, Run
    <2>4. QueuedIsSeen(X \cup {r})' /\ PruneCovers(X \cup {r})'
        BY <1>0, <1>q, <2>1, <2>3 DEF QueuedIsSeen, PruneCovers
    <2> QED
        BY <1>x, <1>k, <2>1, <2>2, <2>4, OneMoreExplains
<1> QED
    BY <1>1, <1>2, <1>3, <1>4, <1>5, <1>6, <1>7, <1>8, <1>9, <1>10, <1>11, <1>12
    DEF LaunchNext

\* The steps of the worker and of the persons.
LEMMA OtherSlots ==
    ASSUME SingleLauncher, TypeInv, Dedupe, Pruning, Slots,
           (\E r \in Run : TrainingNext(r)) \/ PersonNext
    PROVE  Slots'
<1> USE DEF sessionVars, localVars
<1>x. PICK X \in SUBSET Run : Explains(X)
    BY DEF Slots
<1>q. QueuedIsSeen(X) /\ PruneCovers(X)
    BY <1>x DEF Explains
<1>s. faults' = faults => Lost' = Lost
    BY DEF Lost, Happened
<1>1. ASSUME NEW r \in Run, TrainingStarts(r) \/ TrainingEnds(r) \/ PersonCancels(r)
      PROVE  Slots'
    <2>1. /\ \A q \in Run : q # r => job'[q] = job[q] /\ state'[q] = state[q]
          /\ job[r] # "none" /\ job'[r] # "queued"
          /\ \/ job[r] = "queued" /\ state'[r] = "RUNNING"
             \/ state'[r] = state[r]
             \/ state'[r] \in TerminalStates
          /\ UNCHANGED <<linked, archived, localVars>>
          /\ UNCHANGED faults \/ Fault("training") \/ Fault("status_write")
        BY <1>1 DEF TrainingStarts, TrainingEnds, PersonCancels, MayRun, TerminalStates,
                    TypeInv, TypeOK
    <2>2. r \in Created
        BY <2>1 DEF Dedupe, RowsExist
    <2>3. Kept' \subseteq Kept
        BY <2>1, <2>2 DEF Kept, Active, Created
    <2>4. QueuedIsSeen(X)'
        BY <1>q, <2>1 DEF QueuedIsSeen
    <2>5. ASSUME NEW l \in Launcher, pc[l] \in {"prune", "select"}
          PROVE  InFlight' \subseteq X
        <3>1. InFlight \subseteq X
            BY <1>q, <2>5 DEF PruneCovers
        <3>2. job[r] = "queued" => r \in X
            BY <1>q, <2>1, <2>5, <3>1 DEF QueuedIsSeen, SingleLauncher, InFlight, Pruning,
                                          RowsLinked
        <3> QED
            BY <2>1, <3>1, <3>2 DEF InFlight, InFlightStates, TerminalStates, TypeInv, TypeOK
    <2>6. PruneCovers(X)'
        BY <1>q, <2>1, <2>3, <2>5 DEF PruneCovers
    <2>7. Lost' = Lost
        BY <1>s, <2>1, LostGrows, LostIsNat
    <2> QED
        BY <1>x, <2>3, <2>4, <2>6, <2>7, SameExplains
<1>2. ASSUME NEW r \in Run, PersonDeletes(r) \/ PersonRenames(r) PROVE Slots'
    <2>1. /\ \A q \in Run : archived'[q] = "nobody" => archived[q] = "nobody"
          /\ UNCHANGED <<state, linked, job, localVars, faults>>
        BY <1>2 DEF PersonDeletes, PersonRenames, TypeInv, TypeOK
    <2>2. Kept' \subseteq Kept /\ InFlight' = InFlight
        BY <2>1 DEF Kept, Active, Created, InFlight
    <2>3. QueuedIsSeen(X)' /\ PruneCovers(X)'
        BY <1>q, <2>1, <2>2 DEF QueuedIsSeen, PruneCovers
    <2> QED
        BY <1>x, <1>s, <2>1, <2>2, <2>3, SameExplains
<1>3. CASE PersonReplacesFile
    <2>1. UNCHANGED <<state, archived, linked, job, localVars, faults>>
        BY <1>3 DEF PersonReplacesFile
    <2>2. Kept' = Kept /\ InFlight' = InFlight
        BY <2>1 DEF Kept, Active, Created, InFlight
    <2>3. QueuedIsSeen(X)' /\ PruneCovers(X)'
        BY <1>q, <2>1, <2>2 DEF QueuedIsSeen, PruneCovers
    <2> QED
        BY <1>x, <1>s, <2>1, <2>2, <2>3, SameExplains
<1> QED
    BY <1>1, <1>2, <1>3 DEF TrainingNext, PersonNext

\* A state that changes nothing is explained as before.
LEMMA StutterSlots ==
    ASSUME Slots, UNCHANGED vars
    PROVE  Slots'
<1> USE DEF vars, sessionVars, localVars
<1>1. PICK X \in SUBSET Run : Explains(X)
    BY DEF Slots
<1>2. Kept' = Kept /\ InFlight' = InFlight /\ Lost' = Lost
    BY DEF Kept, Active, Created, InFlight, Lost, Happened
<1>3. QueuedIsSeen(X)' /\ PruneCovers(X)'
    BY <1>1, <1>2 DEF Explains, QueuedIsSeen, PruneCovers
<1> QED
    BY <1>1, <1>2, <1>3, SameExplains

\* Runs have no siblings.
NoSiblings == siblings = 0

\* Slot reuse: with one caller and runs without siblings, the schedule holds two
\* families at most, and one more row for each archive that failed and each
\* launch that was cut short.
THEOREM ScheduleBoundedAtTwoHolds ==
    ASSUME SingleLauncher, FanOut = 0
    PROVE  Spec => []ScheduleBoundedAtTwo
<1>1. Init => Slots /\ NoSiblings
    <2> SUFFICES ASSUME Init PROVE Slots /\ NoSiblings
        OBVIOUS
    <2>1. Kept = {} /\ InFlight = {}
        BY DEF Init, Kept, Active, Created, InFlight
    <2>2. Cardinality({}) <= Lost
        BY FS_EmptySet, LostIsNat, TypeInitially
    <2>3. TwoBeside({})
        BY <2>1, ScheduleAssumption DEF TwoBeside, Run
    <2>4. QueuedIsSeen({}) /\ PruneCovers({})
        BY DEF Init, QueuedIsSeen, PruneCovers
    <2> QED
        BY <2>2, <2>3, <2>4 DEF Init, NoSiblings, Slots, Explains
<1>2. TypeInv /\ Dedupe /\ Pruning /\ Slots /\ NoSiblings /\ [Next]_vars
        => Slots' /\ NoSiblings'
    <2> SUFFICES ASSUME TypeInv, Dedupe, Pruning, Slots, NoSiblings, [Next]_vars
                 PROVE  Slots' /\ NoSiblings'
        OBVIOUS
    <2>1. NoSiblings'
        <3>1. ASSUME NEW l \in Launcher, LaunchNext(l) \/ LauncherCrash(l)
              PROVE  NoSiblings'
            BY <3>1 DEF NoSiblings, LaunchNext, LauncherCrash, Due, PruneReadServing, PruneSelect,
                PruneArchive, CreateRun, CeilingReached, LinkRun, LaunchFamily,
                LaunchRefused, AnnounceQueued, RecordLaunched, sessionVars
        <3> QED
            BY <3>1 DEF NoSiblings, Next, TrainingNext, TrainingStarts, TrainingEnds, PersonNext,
                PersonCancels, PersonDeletes, PersonRenames, PersonReplacesFile,
                vars, sessionVars
    <2> QED
        BY <2>1, LaunchSlots, OtherSlots, StutterSlots DEF Next
<1>3. TypeInv /\ Slots /\ NoSiblings => ScheduleBoundedAtTwo
    <2> SUFFICES ASSUME TypeInv, Slots, NoSiblings PROVE ScheduleBoundedAtTwo
        OBVIOUS
    <2>1. PICK X \in SUBSET Run : Explains(X)
        BY DEF Slots
    <2>2. PICK b \in Run, c \in Run : Kept \subseteq X \cup {b, c}
        BY <2>1 DEF Explains, TwoBeside
    <2> DEFINE Y == X \cup {b}
               Z == Y \cup {c}
    <2>3. /\ Cardinality(X) \in Nat /\ Cardinality(Y) \in Nat
          /\ Cardinality(Y) <= Cardinality(X) + 1
        BY OneMore
    <2>4. Y \in SUBSET Run
        OBVIOUS
    <2> HIDE DEF Y
    <2>5. Cardinality(Z) \in Nat /\ Cardinality(Z) <= Cardinality(Y) + 1
        BY <2>4, OneMore
    <2>6. IsFiniteSet(Z)
        BY <2>4, OneMore DEF Y
    <2>7. Kept \in SUBSET Z
        BY <2>2 DEF Y
    <2> HIDE DEF Z
    <2>8. Cardinality(Kept) \in Nat /\ Cardinality(Kept) <= Cardinality(Z)
        BY <2>6, <2>7, FS_Subset, FS_CardinalityType
    <2>9. Cardinality(X) <= Lost /\ Happened("archive_write") \in Nat
          /\ Happened("launcher_crash") \in Nat
        BY <2>1, HappenedIsNat DEF Explains
    <2> QED
        BY <2>3, <2>5, <2>8, <2>9 DEF NoSiblings, ScheduleBoundedAtTwo, Lost, Kept
<1> QED
    BY <1>1, <1>2, <1>3, PruningInvariant, PTL DEF Spec
=============================================================================
