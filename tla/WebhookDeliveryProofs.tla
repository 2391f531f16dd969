------------------------ MODULE WebhookDeliveryProofs ------------------------
(***************************************************************************)
(* Theorems about WebhookDelivery, for any number of rows, hooks, loops,    *)
(* faults and days.                                                         *)
(***************************************************************************)
EXTENDS WebhookDelivery, FiniteSetTheorems, TLAPS

-----------------------------------------------------------------------------
(* The types, without the bounds that need the counting below *)

RowBatch == UNION {[S -> Nat] : S \in SUBSET Delivery}
AtMostOneRow == {{}} \cup {{d} : d \in Delivery}

RowTypes ==
    /\ status \in [Delivery -> Status]
    /\ attempts \in [Delivery -> Nat]
    /\ due \subseteq Delivery
    /\ posts \in [Delivery -> Nat]
    /\ refused \subseteq Delivery
    /\ overrun \subseteq Delivery
    /\ faults \in 0 .. MaxFaults

BatchTypes ==
    /\ held \in [Worker -> RowBatch]
    /\ at \in [Worker -> AtMostOneRow]
    /\ pc \in [Worker -> WorkerPc]

HookTypes ==
    /\ hook \in [Hook -> HookState]
    /\ days \in [Hook -> Nat]
    /\ lastDay \in [Hook -> 0 .. today]
    /\ local \in [Worker -> [days : Nat, on : 0 .. today, disable : BOOLEAN]]
    /\ today \in Day
    /\ gaveUp \in [Hook -> SUBSET (1 .. today)]
    /\ raced \subseteq Hook
    /\ edits \in 0 .. MaxEdits

Types == RowTypes /\ BatchTypes /\ HookTypes

\* A batch is a function from some rows to attempt numbers.
LEMMA BatchType ==
    ASSUME BatchTypes, NEW w \in Worker
    PROVE  /\ DOMAIN held[w] \subseteq Delivery
           /\ held[w] = [d \in DOMAIN held[w] |-> held[w][d]]
           /\ \A d \in DOMAIN held[w] : held[w][d] \in Nat
    BY DEF BatchTypes, RowBatch

LEMMA IsBatch ==
    ASSUME NEW S \in SUBSET Delivery, NEW f \in [S -> Nat]
    PROVE  f \in RowBatch
    BY DEF RowBatch

\* What Goto does to the places of the loops, and Leave to their batches.
LEMMA GotoEffect ==
    ASSUME BatchTypes, NEW w \in Worker, NEW place \in WorkerPc, NEW T \in AtMostOneRow,
           Goto(w, place, T)
    PROVE  /\ pc' \in [Worker -> WorkerPc] /\ at' \in [Worker -> AtMostOneRow]
           /\ pc'[w] = place /\ at'[w] = T
           /\ \A v \in Worker \ {w} : pc'[v] = pc[v] /\ at'[v] = at[v]
    BY DEF BatchTypes, Goto

LEMMA LeaveEffect ==
    ASSUME BatchTypes, NEW w \in Worker, NEW S, Leave(w, S)
    PROVE  /\ BatchTypes'
           /\ at'[w] = {}
           /\ pc'[w] = IF DOMAIN held'[w] = {} THEN "idle" ELSE "next"
           /\ DOMAIN held'[w] = (DOMAIN held[w]) \ S
           /\ \A d \in DOMAIN held'[w] : held'[w][d] = held[w][d]
           /\ \A v \in Worker \ {w} : pc'[v] = pc[v] /\ at'[v] = at[v] /\ held'[v] = held[v]
<1> DEFINE rest == (DOMAIN held[w]) \ S
           g == [d \in rest |-> held[w][d]]
<1>1. g \in RowBatch
    <2>1. rest \in SUBSET Delivery /\ g \in [rest -> Nat]
        BY BatchType
    <2> QED
        BY <2>1, IsBatch
<1>2. held' = [held EXCEPT ![w] = g]
    BY DEF Leave
<1>3. held' \in [Worker -> RowBatch] /\ held'[w] = g
      /\ \A v \in Worker \ {w} : held'[v] = held[v]
    BY <1>1, <1>2 DEF BatchTypes
<1>4. Goto(w, IF rest = {} THEN "idle" ELSE "next", {})
    BY DEF Leave
<1>5. {} \in AtMostOneRow /\ (IF rest = {} THEN "idle" ELSE "next") \in WorkerPc
    BY DEF AtMostOneRow, WorkerPc
<1> HIDE DEF rest
<1>6. /\ pc' \in [Worker -> WorkerPc] /\ at' \in [Worker -> AtMostOneRow]
      /\ pc'[w] = (IF rest = {} THEN "idle" ELSE "next") /\ at'[w] = {}
      /\ \A v \in Worker \ {w} : pc'[v] = pc[v] /\ at'[v] = at[v]
    BY <1>4, <1>5, GotoEffect
<1>7. DOMAIN held'[w] = rest /\ \A d \in rest : held'[w][d] = held[w][d]
    BY <1>3
<1> QED
    BY <1>3, <1>6, <1>7 DEF BatchTypes, rest

\* Write changes one status at most, and to the one given.
LEMMA WriteEffect ==
    ASSUME RowTypes, NEW d \in Delivery, NEW st \in Status, Write(d, st)
    PROVE  /\ status' \in [Delivery -> Status]
           /\ status'[d] = IF status[d] = "deleted" THEN "deleted" ELSE st
           /\ \A e \in Delivery \ {d} : status'[e] = status[e]
    BY DEF RowTypes, Write

\* The row at hand is a row of the table, and its outcome a place of the loop.
LEMMA RowAtHand ==
    ASSUME BatchTypes, NEW w \in Worker, NEW d \in at[w]
    PROVE  d \in Delivery /\ at[w] = {d} /\ Verdict(w, d) \in {"failed", "retry"}
    BY DEF BatchTypes, AtMostOneRow, Verdict

LEMMA StreakClearedTypes ==
    ASSUME HookTypes, NEW h \in Hook, StreakCleared(h)
    PROVE  /\ days' \in [Hook -> Nat] /\ lastDay' \in [Hook -> 0 .. today]
           /\ gaveUp' \in [Hook -> SUBSET (1 .. today)] /\ raced' \subseteq Hook
<1>1. 0 \in 0 .. today
    BY DEF HookTypes, Day
<1> QED
    BY <1>1 DEF HookTypes, StreakCleared

\* The types of the rows and batches, action by action.
LEMMA RowAndBatchTypesStep ==
    ASSUME Types, [Next]_vars
    PROVE  RowTypes' /\ BatchTypes'
<1> USE DeliveryAssumption
    DEF Types, rowVars, hookVars, batchVars, seenVars
<1>1. ASSUME NEW d \in Delivery, Enqueue(d) \/ ComesDue(d) \/ LeaseOverrun(d)
      PROVE  RowTypes' /\ BatchTypes'
    BY <1>1 DEF RowTypes, BatchTypes, Enqueue, ComesDue, LeaseOverrun, Fault, Status
<1>2. ASSUME NEW w \in Worker, Claim(w) PROVE RowTypes' /\ BatchTypes'
    <2>1. PICK S \in Batches \ {{}} :
             /\ attempts' = [d \in Delivery |-> attempts[d] + (IF d \in S THEN 1 ELSE 0)]
             /\ due' = due \ S
             /\ held' = [held EXCEPT ![w] = [d \in S |-> attempts[d] + 1]]
             /\ Goto(w, "next", {})
        BY <1>2 DEF Claim
    <2>2. S \in SUBSET Delivery
        BY DEF Batches, Claimable, RowTypes
    <2>3. [d \in S |-> attempts[d] + 1] \in [S -> Nat]
        BY <2>2 DEF RowTypes
    <2>4. [d \in S |-> attempts[d] + 1] \in RowBatch
        BY <2>2, <2>3, IsBatch
    <2>5. BatchTypes'
        BY <2>1, <2>4, GotoEffect DEF BatchTypes, AtMostOneRow, WorkerPc
    <2>6. attempts' \in [Delivery -> Nat]
        BY <2>1 DEF RowTypes
    <2> QED
        BY <1>2, <2>1, <2>5, <2>6 DEF Claim, RowTypes
<1>3. ASSUME NEW w \in Worker, StartRow(w) PROVE RowTypes' /\ BatchTypes'
    <2>1. PICK d \in DOMAIN held[w] : Goto(w, "post", {d})
        BY <1>3 DEF StartRow
    <2>2. {d} \in AtMostOneRow
        BY BatchType DEF AtMostOneRow
    <2> QED
        BY <1>3, <2>1, <2>2, GotoEffect DEF StartRow, RowTypes, BatchTypes, WorkerPc
<1>4. ASSUME NEW w \in Worker, Abandon(w) PROVE RowTypes' /\ BatchTypes'
    <2>1. PICK d \in DOMAIN held[w] :
              Write(d, "abandoned") /\ due' = due \ {d} /\ Leave(w, {d})
        BY <1>4 DEF Abandon
    <2>2. d \in Delivery
        BY BatchType
    <2> QED
        BY <1>4, <2>1, <2>2, WriteEffect, LeaveEffect DEF Abandon, RowTypes, Status, Ended
<1>5. ASSUME NEW w \in Worker, Post(w) PROVE RowTypes' /\ BatchTypes'
    <2>1. PICK d \in at[w] :
             /\ posts' = [posts EXCEPT ![d] = @ + 1]
             /\ \/ Goto(w, "delivered", at[w]) /\ UNCHANGED refused
                \/ Goto(w, Verdict(w, d), at[w]) /\ UNCHANGED refused
                \/ Goto(w, "failed", at[w]) /\ refused' = refused \cup {d}
        BY <1>5 DEF Post
    <2>2. d \in Delivery /\ Verdict(w, d) \in WorkerPc /\ at[w] \in AtMostOneRow
        BY RowAtHand DEF WorkerPc, BatchTypes
    <2>3. \E place \in WorkerPc : Goto(w, place, at[w])
        BY <2>1, <2>2 DEF WorkerPc
    <2>4. BatchTypes'
        BY <1>5, <2>2, <2>3, GotoEffect DEF Post, BatchTypes
    <2> QED
        BY <1>5, <2>1, <2>2, <2>4 DEF Post, RowTypes
<1>6. ASSUME NEW w \in Worker, RecordDelivered(w) \/ RecordFailed(w)
      PROVE  RowTypes' /\ BatchTypes'
    <2>1. PICK d \in at[w] :
             /\ Write(d, "delivered") \/ Write(d, "failed")
             /\ due' = due \ {d}
             /\ \/ Done(w)
                \/ \E place \in {"clear", "count"} : Goto(w, place, at[w]) /\ UNCHANGED held
        BY <1>6 DEF RecordDelivered, RecordFailed
    <2>2. d \in Delivery /\ at[w] \in AtMostOneRow
        BY RowAtHand DEF BatchTypes
    <2>3. BatchTypes'
        <3>1. CASE Done(w)
            BY <3>1, LeaveEffect DEF Done
        <3>2. ASSUME NEW place \in {"clear", "count"}, Goto(w, place, at[w]), UNCHANGED held
              PROVE  BatchTypes'
            BY <2>2, <3>2, GotoEffect DEF BatchTypes, WorkerPc
        <3> QED
            BY <2>1, <3>1, <3>2
    <2>4. status' \in [Delivery -> Status]
        BY <2>1, <2>2, WriteEffect DEF Status, Ended
    <2> QED
        BY <1>6, <2>1, <2>3, <2>4 DEF RecordDelivered, RecordFailed, RowTypes
<1>7. ASSUME NEW w \in Worker, ClearStreak(w) \/ RecordRetry(w) \/ RegisterFailure(w)
      PROVE  RowTypes' /\ BatchTypes'
    BY <1>7, LeaveEffect DEF ClearStreak, RecordRetry, RegisterFailure, Done, RowTypes
<1>8. ASSUME NEW w \in Worker, CountDay(w) PROVE RowTypes' /\ BatchTypes'
    <2>1. Done(w) \/ (Goto(w, "register", at[w]) /\ UNCHANGED held)
        BY <1>8 DEF CountDay
    <2>2. at[w] \in AtMostOneRow
        BY DEF BatchTypes
    <2>3. BatchTypes'
        BY <2>1, <2>2, LeaveEffect, GotoEffect DEF Done, BatchTypes, WorkerPc
    <2> QED
        BY <1>8, <2>3 DEF CountDay, RowTypes
<1>9. ASSUME NEW w \in Worker, DeliveryRaises(w) PROVE RowTypes' /\ BatchTypes'
    <2>1. PICK d \in at[w] : Goto(w, Verdict(w, d), at[w])
        BY <1>9 DEF DeliveryRaises
    <2>2. Verdict(w, d) \in WorkerPc /\ at[w] \in AtMostOneRow
        BY RowAtHand DEF WorkerPc, BatchTypes
    <2>3. BatchTypes'
        BY <1>9, <2>1, <2>2, GotoEffect DEF DeliveryRaises, BatchTypes
    <2> QED
        BY <1>9, <2>3 DEF DeliveryRaises, RowTypes, Fault
<1>10. ASSUME NEW w \in Worker, RecordLost(w) PROVE RowTypes' /\ BatchTypes'
    BY <1>10, LeaveEffect DEF RecordLost, Done, RowTypes, Fault
<1>11. ASSUME NEW w \in Worker, WorkerCrash(w) PROVE RowTypes' /\ BatchTypes'
    <2>1. EmptyBatch \in RowBatch
        <3>1. {} \in SUBSET Delivery /\ EmptyBatch \in [{} -> Nat]
            BY DEF EmptyBatch
        <3> QED
            BY <3>1, IsBatch
    <2>2. BatchTypes'
        BY <1>11, <2>1, GotoEffect DEF WorkerCrash, BatchTypes, AtMostOneRow, WorkerPc
    <2> QED
        BY <1>11, <2>2 DEF WorkerCrash, RowTypes, Fault
<1>12. ASSUME NEW h \in Hook, EnableHook(h) \/ DeleteHook(h) PROVE RowTypes' /\ BatchTypes'
    BY <1>12 DEF EnableHook, DeleteHook, RowTypes, BatchTypes, StreakCleared
<1>13. ASSUME NEW h \in Hook, DeleteRows(h) PROVE RowTypes' /\ BatchTypes'
    BY <1>13 DEF DeleteRows, RowTypes, BatchTypes, Status, Ended
<1>14. CASE DayPasses \/ UNCHANGED vars
    BY <1>14 DEF DayPasses, vars, RowTypes, BatchTypes
<1> QED
    BY <1>1, <1>2, <1>3, <1>4, <1>5, <1>6, <1>7, <1>8, <1>9, <1>10, <1>11, <1>12, <1>13, <1>14
    DEF Next, WorkerNext

\* The types of the hooks and of what register_failure read.
LEMMA HookTypesStep ==
    ASSUME Types, [Next]_vars
    PROVE  HookTypes'
<1> USE DeliveryAssumption DEF Types, hookVars, batchVars, seenVars
<1>n. Nothing \in [days : Nat, on : 0 .. today, disable : BOOLEAN]
    BY DEF HookTypes, Day, Nothing
<1>1. ASSUME NEW d \in Delivery, Enqueue(d) \/ ComesDue(d) \/ LeaseOverrun(d)
      PROVE  HookTypes'
    BY <1>1 DEF HookTypes, Enqueue, ComesDue, LeaseOverrun
<1>2. ASSUME NEW w \in Worker,
             \/ Claim(w) \/ StartRow(w) \/ Abandon(w) \/ Post(w)
             \/ RecordDelivered(w) \/ RecordRetry(w) \/ RecordFailed(w)
      PROVE  HookTypes'
    BY <1>2 DEF HookTypes, Claim, StartRow, Abandon, Post, RecordDelivered, RecordRetry,
                RecordFailed
<1>3. ASSUME NEW w \in Worker, DeliveryRaises(w) \/ RecordLost(w) \/ WorkerCrash(w)
      PROVE  HookTypes'
    BY <1>3, <1>n DEF HookTypes, DeliveryRaises, RecordLost, WorkerCrash
<1>4. ASSUME NEW w \in Worker, ClearStreak(w) PROVE HookTypes'
    <2>1. PICK d \in at[w] : StreakCleared(HookOf[d])
        BY <1>4 DEF ClearStreak
    <2>2. HookOf[d] \in Hook
        BY RowAtHand
    <2> QED
        BY <1>4, <2>1, <2>2, StreakClearedTypes DEF ClearStreak, HookTypes
<1>5. ASSUME NEW w \in Worker, CountDay(w) PROVE HookTypes'
    <2>1. PICK d \in at[w] :
             IF hook[HookOf[d]] = "gone" THEN UNCHANGED <<local, gaveUp>>
             ELSE /\ local' = [local EXCEPT ![w] =
                        [days |-> AdvanceDays(HookOf[d]), on |-> today,
                         disable |-> /\ hook[HookOf[d]] # "disabled"
                                     /\ AdvanceDays(HookOf[d]) >= DisableAfter]]
                  /\ gaveUp' = [gaveUp EXCEPT ![HookOf[d]] = @ \cup {today}]
        BY <1>5 DEF CountDay
    <2>2. HookOf[d] \in Hook
        BY RowAtHand
    <2>3. AdvanceDays(HookOf[d]) \in Nat /\ today \in 1 .. today /\ today \in 0 .. today
        BY <2>2 DEF AdvanceDays, HookTypes, Day
    <2>4. local' \in [Worker -> [days : Nat, on : 0 .. today, disable : BOOLEAN]]
        <3> DEFINE off == hook[HookOf[d]] # "disabled" /\ AdvanceDays(HookOf[d]) >= DisableAfter
                   read == [days |-> AdvanceDays(HookOf[d]), on |-> today, disable |-> off]
        <3>1. off \in BOOLEAN
            OBVIOUS
        <3>2. local' = local \/ local' = [local EXCEPT ![w] = read]
            BY <2>1
        <3> HIDE DEF off
        <3>3. read \in [days : Nat, on : 0 .. today, disable : BOOLEAN]
            BY <2>3, <3>1
        <3> QED
            BY <3>2, <3>3 DEF HookTypes
    <2>5. gaveUp' \in [Hook -> SUBSET (1 .. today)]
        BY <2>1, <2>2, <2>3 DEF HookTypes
    <2> QED
        BY <1>5, <2>4, <2>5 DEF CountDay, HookTypes
<1>6. ASSUME NEW w \in Worker, RegisterFailure(w) PROVE HookTypes'
    <2>1. PICK d \in at[w] :
             /\ days' = [days EXCEPT ![HookOf[d]] = local[w].days]
             /\ lastDay' = [lastDay EXCEPT ![HookOf[d]] = local[w].on]
             /\ hook' = [hook EXCEPT ![HookOf[d]] =
                            IF local[w].disable /\ @ = "enabled" THEN "disabled" ELSE @]
        BY <1>6 DEF RegisterFailure
    <2>2. HookOf[d] \in Hook
        BY RowAtHand
    <2>3. /\ days' \in [Hook -> Nat] /\ lastDay' \in [Hook -> 0 .. today]
          /\ hook' \in [Hook -> HookState]
        BY <2>1, <2>2 DEF HookTypes, HookState
    <2> QED
        BY <1>6, <1>n, <2>3 DEF RegisterFailure, HookTypes
<1>7. ASSUME NEW h \in Hook, EnableHook(h) PROVE HookTypes'
    BY <1>7, StreakClearedTypes DEF EnableHook, HookTypes, HookState, Edit
<1>8. ASSUME NEW h \in Hook, DeleteRows(h) \/ DeleteHook(h) PROVE HookTypes'
    BY <1>8 DEF DeleteRows, DeleteHook, HookTypes, HookState, Edit
<1>9. CASE DayPasses
    <2>1. today \in Nat /\ today' = today + 1 /\ today' \in Day
        BY <1>9 DEF DayPasses, HookTypes, Day
    <2>2. 0 .. today \subseteq 0 .. today' /\ 1 .. today \subseteq 1 .. today'
        BY <2>1
    <2>3. lastDay' \in [Hook -> 0 .. today'] /\ gaveUp' \in [Hook -> SUBSET (1 .. today')]
        BY <1>9, <2>2 DEF DayPasses, HookTypes
    <2>4. local' \in [Worker -> [days : Nat, on : 0 .. today', disable : BOOLEAN]]
        BY <1>9, <2>2 DEF DayPasses, HookTypes
    <2> QED
        BY <1>9, <2>1, <2>3, <2>4 DEF DayPasses, HookTypes
<1>10. CASE UNCHANGED vars
    BY <1>10 DEF vars, HookTypes
<1> QED
    BY <1>1, <1>2, <1>3, <1>4, <1>5, <1>6, <1>7, <1>8, <1>9, <1>10 DEF Next, WorkerNext

LEMMA TypesInit == ASSUME Init PROVE Types
<1> USE DeliveryAssumption
<1>1. RowTypes
    BY DEF Init, RowTypes, Status
<1>2. EmptyBatch \in RowBatch
    <2>1. {} \in SUBSET Delivery /\ EmptyBatch \in [{} -> Nat]
        BY DEF EmptyBatch
    <2> QED
        BY <2>1, IsBatch
<1>3. BatchTypes
    BY <1>2 DEF Init, BatchTypes, AtMostOneRow, WorkerPc
<1>4. HookTypes
    BY DEF Init, HookTypes, HookState, Day, Nothing
<1> QED
    BY <1>1, <1>3, <1>4 DEF Types

-----------------------------------------------------------------------------
(* The invariant of the rows and the batches *)

\* The loop is at a row of its batch, and idle without one.
Places ==
    \A w \in Worker :
        /\ at[w] \subseteq DOMAIN held[w]
        /\ (pc[w] = "idle") = (DOMAIN held[w] = {})
        /\ (pc[w] \in {"idle", "next"}) = (at[w] = {})

\* Every claim of a row has a number of its own, up to the row's attempts.
Numbers == \A w \in Worker : \A d \in DOMAIN held[w] : held[w][d] \in 1 .. attempts[d]

\* Nobody has a row before it is inserted.
Untouched ==
    \A d \in Delivery : status[d] = "absent" =>
        /\ attempts[d] = 0 /\ posts[d] = 0 /\ d \notin due
        /\ \A w \in Worker : d \notin DOMAIN held[w]

\* The lease: a row that is due is in no batch, and no row is in two.
Leased ==
    \A d \in Delivery \ overrun :
        /\ d \in due => \A w \in Worker : d \notin DOMAIN held[w]
        /\ \A v, w \in Worker : d \in DOMAIN held[v] /\ d \in DOMAIN held[w] => v = w

\* The loop has the row in its batch and has not posted it.
Waits(w, d) == d \in DOMAIN held[w] /\ (d \notin at[w] \/ pc[w] = "post")

\* A row that failed, though nobody refused it, was posted once per attempt of
\* the schedule, less once per fault.
UsedUp(d) == d \in refused \/ posts[d] + faults >= MaxAttempts

\* What the place of the loop says of the row at hand.
Outcomes ==
    \A w \in Worker : \A d \in at[w] :
        /\ pc[w] = "retry" => ~Spent(held[w][d])
        /\ pc[w] = "failed" => UsedUp(d)
        /\ pc[w] \in {"clear", "count", "register"} => status[d] \in Ended

\* Each attempt is posted at most once.
PostsCounted ==
    \A d \in Delivery : posts[d] + Cardinality({w \in Worker : Waits(w, d)}) <= attempts[d]

\* Beyond the schedule, a row is claimed once more per fault.  While it can be
\* claimed again, the fault that allows it has been counted already.
AttemptsBounded ==
    \A d \in Delivery :
        /\ attempts[d] <= MaxAttempts + faults
        /\ status[d] = "pending"
              /\ (d \in due \/ \A w \in Worker : d \in DOMAIN held[w] => ~Spent(held[w][d]))
           => attempts[d] < MaxAttempts + faults

\* An attempt that was not posted is the one under way, or cost a fault.
AttemptsPosted ==
    \A d \in Delivery :
        /\ attempts[d] <= posts[d] + faults + 1
        /\ status[d] = "pending" /\ (d \in due \/ \A w \in Worker : ~Waits(w, d))
           => attempts[d] <= posts[d] + faults

FailedUsedUp == \A d \in Delivery : status[d] = "failed" => UsedUp(d)

RowInv ==
    /\ Places /\ Numbers /\ Untouched /\ Leased /\ Outcomes
    /\ PostsCounted /\ AttemptsBounded /\ AttemptsPosted /\ FailedUsedUp

\* A row's status stays, or an end of the row is written.
EndWritten(d) ==
    \/ status'[d] = status[d]
    \/ /\ status[d] # "absent" /\ status'[d] \in Ended
       /\ status'[d] = "failed" => UsedUp(d)'

\* A loop with a batch goes on to another place of it, or leaves some rows of it,
\* and what it leaves unposted, or with its attempts spent, is ended or a fault.
BatchStep(w) ==
    /\ UNCHANGED <<attempts, overrun>>
    /\ due' \subseteq due /\ refused \subseteq refused'
    /\ faults' \in {faults, faults + 1}
    /\ \A v \in Worker \ {w} : held'[v] = held[v] /\ at'[v] = at[v] /\ pc'[v] = pc[v]
    /\ DOMAIN held'[w] \subseteq DOMAIN held[w]
    /\ \A d \in DOMAIN held'[w] : held'[w][d] = held[w][d]
    /\ at'[w] \subseteq DOMAIN held'[w]
    /\ (pc'[w] = "idle") = (DOMAIN held'[w] = {})
    /\ (pc'[w] \in {"idle", "next"}) = (at'[w] = {})
    /\ \A d \in at'[w] :
         /\ pc'[w] = "retry" => ~Spent(held[w][d])
         /\ pc'[w] = "failed" => UsedUp(d)'
         /\ pc'[w] \in {"clear", "count", "register"} => status'[d] \in Ended
    /\ \A d \in Delivery :
         /\ EndWritten(d)
         /\ Waits(w, d)' => Waits(w, d)
         /\ \/ posts'[d] = posts[d]
            \/ posts'[d] = posts[d] + 1 /\ Waits(w, d) /\ ~Waits(w, d)'
         /\ Waits(w, d) /\ ~Waits(w, d)'
              => posts'[d] = posts[d] + 1 \/ faults' = faults + 1 \/ status'[d] \in Ended
    /\ \A d \in DOMAIN held[w] \ DOMAIN held'[w] :
         ~Spent(held[w][d]) \/ faults' = faults + 1 \/ status'[d] \in Ended

\* The loops that have yet to post a row are finitely many; one less is one less.
LEMMA WaitersCount ==
    ASSUME NEW S \in SUBSET Worker
    PROVE  /\ Cardinality(S) \in Nat
           /\ \A T \in SUBSET S : Cardinality(T) <= Cardinality(S)
           /\ \A w \in S : Cardinality(S \ {w}) = Cardinality(S) - 1
           /\ \A w \in Worker \ S : Cardinality(S \cup {w}) = Cardinality(S) + 1
<1>1. IsFiniteSet(S)
    BY DeliveryAssumption, FS_Subset
<1> QED
    BY <1>1, FS_CardinalityType, FS_Subset, FS_AddElement, FS_RemoveElement

\* Such a step keeps the invariant.
LEMMA BatchStepKeeps ==
    ASSUME Types, Types', RowInv, NEW w \in Worker, BatchStep(w)
    PROVE  RowInv'
<1> USE DEF RowInv
<1>f. faults \in Nat /\ faults' \in Nat /\ MaxAttempts \in Nat \ {0}
    BY DeliveryAssumption DEF Types, RowTypes
<1>u. \A d \in Delivery : UsedUp(d) => UsedUp(d)'
    BY <1>f DEF UsedUp, BatchStep, Types, RowTypes
<1>1. Places'
    BY DEF Places, BatchStep
<1>2. Numbers'
    BY DEF Numbers, BatchStep
<1>3. Untouched'
    BY DEF Untouched, BatchStep, EndWritten, Ended, Waits
<1>4. Leased'
    BY DEF Leased, BatchStep
<1>5. Outcomes'
    BY <1>u DEF Outcomes, BatchStep, EndWritten, Types, BatchTypes, AtMostOneRow, Places
<1>6. FailedUsedUp'
    BY <1>u DEF FailedUsedUp, BatchStep, EndWritten
<1>w. \A d \in Delivery : \A v \in Worker \ {w} : Waits(v, d)' = Waits(v, d)
    BY DEF Waits, BatchStep
<1>d. \A d \in Delivery : /\ attempts'[d] = attempts[d] /\ attempts[d] \in Nat
                          /\ posts[d] \in Nat /\ posts'[d] \in {posts[d], posts[d] + 1}
                          /\ status'[d] = "pending" => status[d] = "pending" /\ status'[d] \notin Ended
    BY DEF Types, RowTypes, BatchStep, EndWritten, Ended
<1>7. PostsCounted'
    <2> SUFFICES ASSUME NEW d \in Delivery
                 PROVE  posts'[d] + Cardinality({v \in Worker : Waits(v, d)'}) <= attempts'[d]
        BY DEF PostsCounted
    <2> DEFINE W == {v \in Worker : Waits(v, d)}
               V == {v \in Worker : Waits(v, d)'}
    <2>1. posts[d] + Cardinality(W) <= attempts[d]
        BY DEF PostsCounted
    <2>2. V \subseteq W
        BY <1>w DEF BatchStep
    <2>3. Cardinality(W) \in Nat /\ Cardinality(V) \in Nat /\ Cardinality(V) <= Cardinality(W)
        BY <2>2, WaitersCount
    <2>4. CASE posts'[d] = posts[d]
        BY <1>d, <2>1, <2>3, <2>4
    <2>5. CASE posts'[d] = posts[d] + 1 /\ Waits(w, d) /\ ~Waits(w, d)'
        <3>1. V = W \ {w} /\ w \in W
            BY <1>w, <2>2, <2>5
        <3>2. Cardinality(V) = Cardinality(W) - 1
            BY <3>1, WaitersCount
        <3> QED
            BY <1>d, <2>1, <2>3, <2>5, <3>2
    <2> QED
        BY <2>4, <2>5 DEF BatchStep
<1>8. AttemptsBounded'
    <2> SUFFICES ASSUME NEW d \in Delivery
                 PROVE  /\ attempts'[d] <= MaxAttempts + faults'
                        /\ status'[d] = "pending"
                              /\ \/ d \in due'
                                 \/ \A v \in Worker : d \in DOMAIN held'[v] => ~Spent(held'[v][d])
                           => attempts'[d] < MaxAttempts + faults'
        BY DEF AttemptsBounded, Spent
    <2>1. attempts[d] <= MaxAttempts + faults
        BY DEF AttemptsBounded
    <2>2. faults' \in {faults, faults + 1}
        BY DEF BatchStep
    <2>3. attempts[d] < MaxAttempts + faults => attempts[d] < MaxAttempts + faults'
        BY <1>d, <1>f, <2>2
    <2>4. faults' = faults + 1 => attempts[d] < MaxAttempts + faults'
        BY <1>d, <1>f, <2>1
    <2>5. CASE status'[d] = "pending" /\ d \in due'
        <3>1. attempts[d] < MaxAttempts + faults
            BY <1>d, <2>5 DEF AttemptsBounded, BatchStep
        <3> QED
            BY <1>d, <1>f, <2>1, <2>2, <2>3, <3>1
    <2>6. CASE /\ status'[d] = "pending"
               /\ \A v \in Worker : d \in DOMAIN held'[v] => ~Spent(held'[v][d])
        <3>1. \A v \in Worker \ {w} : d \in DOMAIN held[v] => ~Spent(held[v][d])
            BY <2>6 DEF BatchStep
        <3>2. CASE d \in DOMAIN held[w] => ~Spent(held[w][d])
            <4>1. attempts[d] < MaxAttempts + faults
                BY <1>d, <2>6, <3>1, <3>2 DEF AttemptsBounded
            <4> QED
                BY <1>d, <1>f, <2>1, <2>2, <2>3, <4>1
        <3>3. CASE d \in DOMAIN held[w] /\ Spent(held[w][d])
            <4>1. d \notin DOMAIN held'[w]
                BY <2>6, <3>3 DEF BatchStep
            <4>2. faults' = faults + 1
                BY <1>d, <2>6, <3>3, <4>1 DEF BatchStep
            <4> QED
                BY <1>d, <1>f, <2>1, <2>4, <4>2
        <3> QED
            BY <3>2, <3>3
    <2>7. attempts'[d] <= MaxAttempts + faults'
        BY <1>d, <1>f, <2>1, <2>2
    <2> QED
        BY <1>d, <2>5, <2>6, <2>7
<1>9. AttemptsPosted'
    <2> SUFFICES ASSUME NEW d \in Delivery
                 PROVE  /\ attempts'[d] <= posts'[d] + faults' + 1
                        /\ status'[d] = "pending" /\ (d \in due' \/ \A v \in Worker : ~Waits(v, d)')
                           => attempts'[d] <= posts'[d] + faults'
        BY DEF AttemptsPosted
    <2>1. attempts[d] <= posts[d] + faults + 1
        BY DEF AttemptsPosted
    <2>2. faults' \in {faults, faults + 1}
        BY DEF BatchStep
    <2>3. attempts'[d] <= posts'[d] + faults' + 1
        BY <1>d, <1>f, <2>1, <2>2
    <2>4. attempts[d] <= posts[d] + faults => attempts'[d] <= posts'[d] + faults'
        BY <1>d, <1>f, <2>2
    <2>5. posts'[d] = posts[d] + 1 \/ faults' = faults + 1 => attempts'[d] <= posts'[d] + faults'
        BY <1>d, <1>f, <2>1, <2>2
    <2>6. CASE status'[d] = "pending" /\ d \in due'
        BY <1>d, <2>3, <2>4, <2>6 DEF AttemptsPosted, BatchStep
    <2>7. CASE status'[d] = "pending" /\ \A v \in Worker : ~Waits(v, d)'
        <3>1. CASE Waits(w, d)
            BY <1>d, <2>3, <2>5, <2>7, <3>1 DEF BatchStep
        <3>2. CASE ~Waits(w, d)
            BY <1>d, <1>w, <2>3, <2>4, <2>7, <3>2 DEF AttemptsPosted
        <3> QED
            BY <3>1, <3>2
    <2> QED
        BY <2>3, <2>6, <2>7
<1> QED
    BY <1>1, <1>2, <1>3, <1>4, <1>5, <1>6, <1>7, <1>8, <1>9

\* A step that touches no row and no batch keeps it.
LEMMA RowFrame ==
    ASSUME RowInv, UNCHANGED <<rowVars, held, at, pc, posts, refused, overrun, faults>>
    PROVE  RowInv'
    BY DEF RowInv, rowVars, Places, Numbers, Untouched, Leased, Waits, UsedUp, Outcomes,
           PostsCounted, AttemptsBounded, AttemptsPosted, FailedUsedUp, Spent

\* So do a row that is inserted, a row whose wait or lease is over ...
LEMMA TimePassesKeeps ==
    ASSUME Types, RowInv, NEW d \in Delivery, Enqueue(d) \/ ComesDue(d) \/ LeaseOverrun(d)
    PROVE  RowInv'
<1> USE DeliveryAssumption DEF RowInv, Types, batchVars, seenVars
<1>0. /\ UNCHANGED <<attempts, held, at, pc, posts, refused>>
      /\ due' = due \cup {d} /\ overrun \subseteq overrun'
      /\ faults' \in {faults, faults + 1} /\ faults \in Nat
      /\ status[d] \in {"absent", "pending"} /\ status'[d] = "pending"
      /\ \A e \in Delivery \ {d} : status'[e] = status[e]
    BY DEF Enqueue, ComesDue, LeaseOverrun, Fault, RowTypes
<1>1. (\A w \in Worker : d \notin DOMAIN held[w]) \/ (d \in overrun' /\ faults' = faults + 1)
    BY DEF Enqueue, ComesDue, LeaseOverrun, Fault, Holders, Untouched
<1>2. /\ attempts \in [Delivery -> Nat] /\ posts \in [Delivery -> Nat]
    BY DEF RowTypes
<1>3. \A e \in Delivery : UsedUp(e) => UsedUp(e)'
    BY <1>0, <1>2 DEF UsedUp
<1>4. Places' /\ Numbers' /\ PostsCounted'
    BY <1>0 DEF Places, Numbers, PostsCounted, Waits
<1>a. Untouched'
    BY <1>0 DEF Untouched
<1>5. Leased'
    <2> SUFFICES ASSUME NEW e \in Delivery \ overrun'
                 PROVE  /\ e \in due' => \A w \in Worker : e \notin DOMAIN held'[w]
                        /\ \A v, w \in Worker :
                              e \in DOMAIN held'[v] /\ e \in DOMAIN held'[w] => v = w
        BY DEF Leased
    <2>1. CASE e = d
        BY <1>0, <1>1, <2>1
    <2>2. CASE e # d
        BY <1>0, <2>2 DEF Leased
    <2> QED
        BY <2>1, <2>2
<1>6. Outcomes'
    <2>1. \A w \in Worker : \A e \in at[w] : e \in Delivery
        BY RowAtHand
    <2>2. \A e \in Delivery : status[e] \in Ended => status'[e] \in Ended
        BY <1>0 DEF Ended
    <2> QED
        BY <1>0, <1>3, <2>1, <2>2 DEF Outcomes, Spent
<1>b. FailedUsedUp'
    BY <1>0, <1>3 DEF FailedUsedUp
<1>7. attempts[d] < MaxAttempts + faults' /\ attempts[d] <= posts[d] + faults'
    <2>1. CASE status[d] = "absent"
        BY <1>0, <1>2, <2>1 DEF Untouched
    <2>2. CASE status[d] = "pending" /\ \A w \in Worker : d \notin DOMAIN held[w]
        BY <1>0, <1>2, <2>2 DEF AttemptsBounded, AttemptsPosted, Waits
    <2>3. CASE faults' = faults + 1
        BY <1>0, <1>2, <2>3 DEF AttemptsBounded, AttemptsPosted
    <2> QED
        BY <1>0, <1>1, <2>1, <2>2, <2>3
<1>8. AttemptsBounded'
    BY <1>0, <1>2, <1>7 DEF AttemptsBounded, Spent
<1>9. AttemptsPosted'
    BY <1>0, <1>2, <1>7 DEF AttemptsPosted, Waits
<1> QED
    BY <1>4, <1>a, <1>5, <1>6, <1>b, <1>8, <1>9

\* ... the rows of a hook that is deleted ...
LEMMA DeleteRowsKeeps ==
    ASSUME Types, RowInv, NEW h \in Hook, DeleteRows(h)
    PROVE  RowInv'
<1> USE DEF RowInv, Types, batchVars, seenVars
<1>1. /\ UNCHANGED <<attempts, held, at, pc, posts, refused, overrun, faults>>
      /\ due' \subseteq due
      /\ \A d \in Delivery : \/ status'[d] = status[d]
                             \/ status'[d] = "deleted" /\ status[d] # "absent"
    BY DEF DeleteRows
<1>2. Places' /\ Numbers' /\ PostsCounted'
    BY <1>1 DEF Places, Numbers, PostsCounted, Waits
<1>3. Untouched' /\ Leased'
    BY <1>1 DEF Untouched, Leased
<1>4. Outcomes' /\ FailedUsedUp'
    BY <1>1, RowAtHand DEF Outcomes, FailedUsedUp, UsedUp, Spent, Ended
<1>5. AttemptsBounded' /\ AttemptsPosted'
    BY <1>1 DEF AttemptsBounded, AttemptsPosted, Spent, Waits
<1> QED
    BY <1>2, <1>3, <1>4, <1>5

\* ... and a claim, which gives each row of its batch the next number.
LEMMA ClaimKeeps ==
    ASSUME Types, Types', RowInv, NEW w \in Worker, Claim(w)
    PROVE  RowInv'
<1> USE DeliveryAssumption DEF RowInv, Types
<1>1. PICK S \in Batches \ {{}} :
         /\ attempts' = [d \in Delivery |-> attempts[d] + (IF d \in S THEN 1 ELSE 0)]
         /\ due' = due \ S
         /\ held' = [held EXCEPT ![w] = [d \in S |-> attempts[d] + 1]]
         /\ Goto(w, "next", {})
    BY DEF Claim
<1>2. /\ S # {} /\ S \subseteq due /\ S \subseteq Delivery
      /\ \A d \in S : status[d] = "pending"
    BY DEF Batches, Claimable, RowTypes
<1>3. /\ UNCHANGED <<status, posts, refused, overrun, faults>>
      /\ pc[w] = "idle" /\ DOMAIN held[w] = {}
    BY DEF Claim, seenVars, Places
<1>4. /\ DOMAIN held'[w] = S /\ \A d \in S : held'[w][d] = attempts[d] + 1
      /\ \A v \in Worker \ {w} : held'[v] = held[v]
    BY <1>1 DEF BatchTypes
<1>5. /\ pc'[w] = "next" /\ at'[w] = {}
      /\ \A v \in Worker \ {w} : pc'[v] = pc[v] /\ at'[v] = at[v]
    BY <1>1, GotoEffect DEF WorkerPc, AtMostOneRow
<1>6. /\ \A d \in S : attempts'[d] = attempts[d] + 1
      /\ \A d \in Delivery \ S : attempts'[d] = attempts[d]
      /\ attempts \in [Delivery -> Nat] /\ posts \in [Delivery -> Nat] /\ faults \in Nat
    BY <1>1, <1>2 DEF RowTypes
<1>7. Places'
    BY <1>2, <1>4, <1>5 DEF Places
<1>8. Numbers'
    <2>1. \A v \in Worker \ {w} : DOMAIN held[v] \subseteq Delivery
          /\ \A d \in DOMAIN held[v] : held[v][d] \in 1 .. attempts[d]
        BY BatchType DEF Numbers
    <2> QED
        BY <1>2, <1>4, <1>6, <2>1 DEF Numbers
<1>9. Untouched'
    BY <1>1, <1>2, <1>3, <1>4, <1>6 DEF Untouched
<1>10. Leased'
    BY <1>1, <1>2, <1>3, <1>4 DEF Leased
<1>11. Outcomes' /\ FailedUsedUp'
    BY <1>3, <1>4, <1>5 DEF Outcomes, FailedUsedUp, UsedUp, Spent
<1>w. \A d \in Delivery :
         /\ \A v \in Worker \ {w} : Waits(v, d)' = Waits(v, d)
         /\ Waits(w, d)' = (d \in S) /\ ~Waits(w, d)
    BY <1>3, <1>4, <1>5 DEF Waits
<1>12. PostsCounted'
    <2> SUFFICES ASSUME NEW d \in Delivery
                 PROVE  posts'[d] + Cardinality({v \in Worker : Waits(v, d)'}) <= attempts'[d]
        BY DEF PostsCounted
    <2> DEFINE W == {v \in Worker : Waits(v, d)}
               V == {v \in Worker : Waits(v, d)'}
    <2>1. posts[d] + Cardinality(W) <= attempts[d] /\ Cardinality(W) \in Nat
        BY WaitersCount DEF PostsCounted
    <2>2. CASE d \in S
        <3>1. V = W \cup {w} /\ w \in Worker \ W
            BY <1>w, <2>2
        <3>2. Cardinality(V) = Cardinality(W) + 1
            BY <3>1, WaitersCount
        <3> QED
            BY <1>3, <1>6, <2>1, <2>2, <3>2
    <2>3. CASE d \notin S
        <3>1. V = W
            BY <1>w, <2>3
        <3> QED
            BY <1>3, <1>6, <2>1, <2>3, <3>1
    <2> QED
        BY <2>2, <2>3
<1>13. AttemptsBounded'
    <2> SUFFICES ASSUME NEW d \in Delivery
                 PROVE  /\ attempts'[d] <= MaxAttempts + faults
                        /\ status[d] = "pending"
                              /\ \/ d \in due'
                                 \/ \A v \in Worker : d \in DOMAIN held'[v] => ~Spent(held'[v][d])
                           => attempts'[d] < MaxAttempts + faults
        BY <1>3 DEF AttemptsBounded, Spent
    <2>1. CASE d \in S
        <3>1. attempts[d] < MaxAttempts + faults
            BY <1>2, <2>1 DEF AttemptsBounded
        <3>2. attempts'[d] <= MaxAttempts + faults
            BY <1>6, <2>1, <3>1
        <3>3. d \notin due' /\ d \in DOMAIN held'[w] /\ held'[w][d] = attempts'[d]
            BY <1>1, <1>4, <1>6, <2>1
        <3>4. ~Spent(held'[w][d]) => attempts'[d] < MaxAttempts + faults
            BY <1>6, <2>1, <3>3 DEF Spent
        <3> QED
            BY <3>2, <3>3, <3>4
    <2>2. CASE d \notin S
        <3>1. \A v \in Worker : d \in DOMAIN held[v] => v # w /\ held'[v] = held[v]
            BY <1>3, <1>4
        <3> QED
            BY <1>1, <1>6, <2>2, <3>1 DEF AttemptsBounded
    <2> QED
        BY <2>1, <2>2
<1>14. AttemptsPosted'
    <2> SUFFICES ASSUME NEW d \in Delivery
                 PROVE  /\ attempts'[d] <= posts[d] + faults + 1
                        /\ status[d] = "pending" /\ (d \in due' \/ \A v \in Worker : ~Waits(v, d)')
                           => attempts'[d] <= posts[d] + faults
        BY <1>3 DEF AttemptsPosted
    <2>1. CASE d \in S
        <3>1. attempts[d] <= posts[d] + faults
            BY <1>2, <2>1 DEF AttemptsPosted
        <3>2. attempts'[d] <= posts[d] + faults + 1
            BY <1>6, <2>1, <3>1
        <3> QED
            BY <1>1, <1>w, <2>1, <3>2
    <2>2. CASE d \notin S
        BY <1>1, <1>6, <1>w, <2>2 DEF AttemptsPosted
    <2> QED
        BY <2>1, <2>2
<1> QED
    BY <1>7, <1>8, <1>9, <1>10, <1>11, <1>12, <1>13, <1>14

\* Each step of a loop beyond its claim is such a BatchStep.  First those that
\* end with the rows S of the batch, posting nothing:
LEMMA LeavingIsBatchStep ==
    ASSUME Types, Types', RowInv, NEW w \in Worker, NEW S, Leave(w, S),
           UNCHANGED <<attempts, posts, overrun, refused>>, due' \subseteq due,
           faults' \in {faults, faults + 1},
           \A d \in Delivery : EndWritten(d),
           \A d \in S : \/ status'[d] \in Ended \/ faults' = faults + 1
                        \/ d \in at[w] /\ pc[w] # "post" /\ ~Spent(held[w][d]),
           at[w] \subseteq S
    PROVE  BatchStep(w)
<1> USE DEF Types
<1>1. /\ at'[w] = {}
      /\ pc'[w] = IF DOMAIN held'[w] = {} THEN "idle" ELSE "next"
      /\ DOMAIN held'[w] = (DOMAIN held[w]) \ S
      /\ \A d \in DOMAIN held'[w] : held'[w][d] = held[w][d]
      /\ \A v \in Worker \ {w} : pc'[v] = pc[v] /\ at'[v] = at[v] /\ held'[v] = held[v]
    BY LeaveEffect
<1>2. \A d \in Delivery :
         /\ Waits(w, d)' => Waits(w, d)
         /\ Waits(w, d) /\ ~Waits(w, d)' => faults' = faults + 1 \/ status'[d] \in Ended
    BY <1>1 DEF Waits
<1> QED
    BY <1>1, <1>2 DEF BatchStep

\* ... and those that go on with the row at hand, having posted it before:
LEMMA StayingIsBatchStep ==
    ASSUME Types, Types', RowInv, NEW w \in Worker, NEW d \in at[w], NEW place,
           Goto(w, place, at[w]), UNCHANGED held,
           UNCHANGED <<attempts, posts, overrun, refused>>, due' \subseteq due,
           faults' \in {faults, faults + 1},
           \A e \in Delivery : EndWritten(e),
           pc[w] = "post" => faults' = faults + 1,
           place \in WorkerPc \ {"idle", "next", "post"},
           place = "retry" => ~Spent(held[w][d]),
           place = "failed" => UsedUp(d)',
           place \in {"clear", "count", "register"} => status'[d] \in Ended
    PROVE  BatchStep(w)
<1> USE DEF Types
<1>1. d \in Delivery /\ at[w] = {d} /\ at[w] \in AtMostOneRow /\ d \in DOMAIN held[w]
    BY RowAtHand DEF BatchTypes, RowInv, Places
<1>2. /\ pc'[w] = place /\ at'[w] = {d}
      /\ \A v \in Worker \ {w} : pc'[v] = pc[v] /\ at'[v] = at[v]
    BY <1>1, GotoEffect
<1>3. \A e \in Delivery :
         /\ Waits(w, e)' => Waits(w, e)
         /\ Waits(w, e) /\ ~Waits(w, e)' => faults' = faults + 1
    BY <1>1, <1>2 DEF Waits
<1> QED
    BY <1>1, <1>2, <1>3 DEF BatchStep, RowInv, Places

\* A row that one of Write's outcomes ends.
LEMMA WriteEnds ==
    ASSUME RowTypes, RowInv, NEW w \in Worker, NEW d \in Delivery, d \in DOMAIN held[w],
           NEW st \in Ended, Write(d, st), UNCHANGED <<refused, posts, faults>>,
           st = "failed" => UsedUp(d)
    PROVE  /\ \A e \in Delivery : EndWritten(e)
           /\ status'[d] \in Ended
<1>1. st \in Status
    BY DEF Status
<1>2. status[d] # "absent"
    BY DEF RowInv, Untouched
<1>3. UsedUp(d)' = UsedUp(d)
    BY DEF UsedUp
<1>4. "deleted" \in Ended
    BY DEF Ended
<1> QED
    BY <1>1, <1>2, <1>3, <1>4, WriteEffect DEF EndWritten

\* Without a Write every row's status stays.
LEMMA NothingEnds ==
    ASSUME UNCHANGED status
    PROVE  \A d \in Delivery : EndWritten(d)
    BY DEF EndWritten

LEMMA PostIsBatchStep ==
    ASSUME Types, Types', RowInv, NEW w \in Worker, Post(w)
    PROVE  BatchStep(w)
<1> USE DeliveryAssumption DEF Types
<1>1. PICK d \in at[w] :
         /\ posts' = [posts EXCEPT ![d] = @ + 1]
         /\ \/ Goto(w, "delivered", at[w]) /\ UNCHANGED refused
            \/ Goto(w, Verdict(w, d), at[w]) /\ UNCHANGED refused
            \/ Goto(w, "failed", at[w]) /\ refused' = refused \cup {d}
    BY DEF Post
<1>2. /\ d \in Delivery /\ at[w] = {d} /\ at[w] \in AtMostOneRow
      /\ d \in DOMAIN held[w] /\ pc[w] = "post"
      /\ UNCHANGED <<status, attempts, due, held, overrun, faults>>
    BY RowAtHand DEF BatchTypes, RowInv, Places, Post, rowVars
<1>3. PICK place \in {"delivered", "failed", "retry"} :
         /\ Goto(w, place, at[w])
         /\ place = "retry" => ~Spent(held[w][d])
         /\ place = "failed" => Spent(held[w][d]) \/ d \in refused'
         /\ refused \subseteq refused'
    BY <1>1 DEF Verdict
<1>4. /\ pc'[w] = place /\ at'[w] = {d}
      /\ \A v \in Worker \ {w} : pc'[v] = pc[v] /\ at'[v] = at[v]
    BY <1>2, <1>3, GotoEffect DEF WorkerPc
<1>5. posts'[d] = posts[d] + 1 /\ \A e \in Delivery \ {d} : posts'[e] = posts[e]
    BY <1>1, <1>2 DEF RowTypes
<1>6. place = "failed" => UsedUp(d)'
    <2>1. attempts[d] \in Nat /\ posts[d] \in Nat /\ faults \in Nat
        BY <1>2 DEF RowTypes
    <2>2. attempts[d] <= posts[d] + faults + 1 /\ held[w][d] \in 1 .. attempts[d]
        BY <1>2 DEF RowInv, AttemptsPosted, Numbers
    <2>3. Spent(held[w][d]) => posts'[d] + faults >= MaxAttempts
        BY <1>5, <2>1, <2>2 DEF Spent
    <2> QED
        BY <1>2, <1>3, <2>3 DEF UsedUp
<1>7. /\ Waits(w, d) /\ ~Waits(w, d)'
      /\ \A e \in Delivery \ {d} : Waits(w, e)' = Waits(w, e)
    BY <1>2, <1>3, <1>4 DEF Waits
<1>8. \A e \in Delivery : EndWritten(e)
    BY <1>2, NothingEnds
<1> QED
    BY <1>2, <1>3, <1>4, <1>5, <1>6, <1>7, <1>8 DEF BatchStep, RowInv, Places

LEMMA StartRowIsBatchStep ==
    ASSUME Types, Types', RowInv, NEW w \in Worker, StartRow(w)
    PROVE  BatchStep(w)
<1> USE DEF Types
<1>1. PICK d \in DOMAIN held[w] : Goto(w, "post", {d})
    BY DEF StartRow
<1>2. d \in Delivery /\ {d} \in AtMostOneRow
    BY BatchType DEF AtMostOneRow
<1>3. /\ pc'[w] = "post" /\ at'[w] = {d}
      /\ \A v \in Worker \ {w} : pc'[v] = pc[v] /\ at'[v] = at[v]
    BY <1>1, <1>2, GotoEffect DEF WorkerPc
<1>4. /\ UNCHANGED <<rowVars, held, posts, refused, overrun, faults>>
      /\ at[w] = {}
    BY DEF StartRow, seenVars, RowInv, Places
<1>5. \A e \in Delivery : EndWritten(e) /\ Waits(w, e)' = Waits(w, e)
    BY <1>3, <1>4 DEF EndWritten, Waits, rowVars
<1> QED
    BY <1>1, <1>3, <1>4, <1>5 DEF BatchStep, RowInv, Places, rowVars

LEMMA AbandonIsBatchStep ==
    ASSUME Types, Types', RowInv, NEW w \in Worker, Abandon(w)
    PROVE  BatchStep(w)
<1> USE DEF Types
<1>1. PICK d \in DOMAIN held[w] :
          Write(d, "abandoned") /\ due' = due \ {d} /\ Leave(w, {d})
    BY DEF Abandon
<1>2. /\ UNCHANGED <<attempts, posts, overrun, refused, faults>>
      /\ d \in Delivery /\ at[w] = {}
    BY BatchType DEF Abandon, seenVars, RowInv, Places
<1>3. (\A e \in Delivery : EndWritten(e)) /\ status'[d] \in Ended
    BY <1>1, <1>2, WriteEnds DEF Ended
<1> QED
    BY <1>1, <1>2, <1>3, LeavingIsBatchStep

LEMMA RecordIsBatchStep ==
    ASSUME Types, Types', RowInv, NEW w \in Worker, RecordDelivered(w) \/ RecordFailed(w)
    PROVE  BatchStep(w)
<1> USE DEF Types
<1>1. PICK d \in at[w], st \in {"delivered", "failed"}, place \in {"clear", "count"} :
         /\ pc[w] = st /\ Write(d, st)
         /\ due' = due \ {d}
         /\ Done(w) \/ (Goto(w, place, at[w]) /\ UNCHANGED held)
    BY DEF RecordDelivered, RecordFailed
<1>2. /\ UNCHANGED <<attempts, posts, overrun, refused, faults>>
      /\ d \in Delivery /\ at[w] = {d} /\ d \in DOMAIN held[w]
    BY RowAtHand DEF RecordDelivered, RecordFailed, seenVars, RowInv, Places
<1>3. (\A e \in Delivery : EndWritten(e)) /\ status'[d] \in Ended
    <2>1. st = "failed" => UsedUp(d)
        BY <1>1 DEF RowInv, Outcomes
    <2> QED
        BY <1>1, <1>2, <2>1, WriteEnds DEF Ended
<1>4. CASE Done(w)
    <2>1. Leave(w, {d}) /\ due' \subseteq due /\ at[w] \subseteq {d}
        BY <1>1, <1>2, <1>4 DEF Done
    <2> QED
        BY <1>2, <1>3, <2>1, LeavingIsBatchStep
<1>5. CASE Goto(w, place, at[w]) /\ UNCHANGED held
    <2>1. place \in WorkerPc \ {"idle", "next", "post"} /\ due' \subseteq due
        BY <1>1 DEF WorkerPc
    <2> QED
        BY <1>1, <1>2, <1>3, <1>5, <2>1, StayingIsBatchStep
<1> QED
    BY <1>1, <1>4, <1>5

LEMMA EndedRowIsBatchStep ==
    ASSUME Types, Types', RowInv, NEW w \in Worker,
           ClearStreak(w) \/ RecordRetry(w) \/ CountDay(w) \/ RegisterFailure(w)
    PROVE  BatchStep(w)
<1> USE DEF Types
<1>1. /\ UNCHANGED <<status, attempts, posts, overrun, refused, faults>>
      /\ due' \subseteq due
      /\ pc[w] \in {"clear", "retry", "count", "register"}
    BY DEF ClearStreak, RecordRetry, CountDay, RegisterFailure, seenVars, rowVars
<1>2. \A d \in Delivery : EndWritten(d)
    BY <1>1, NothingEnds
<1>3. \A d \in at[w] : /\ pc[w] = "retry" => ~Spent(held[w][d])
                       /\ pc[w] # "retry" => status'[d] \in Ended
    BY <1>1 DEF RowInv, Outcomes
<1>4. CASE Done(w)
    <2>1. Leave(w, at[w])
        BY <1>4 DEF Done
    <2>2. \A d \in at[w] : status'[d] \in Ended
             \/ (d \in at[w] /\ pc[w] # "post" /\ ~Spent(held[w][d]))
        BY <1>1, <1>3
    <2> QED
        BY <1>1, <1>2, <2>1, <2>2, LeavingIsBatchStep
<1>5. ASSUME NEW d \in at[w], pc[w] = "count", Goto(w, "register", at[w]), UNCHANGED held
      PROVE  BatchStep(w)
    <2>1. "register" \in WorkerPc \ {"idle", "next", "post"}
        BY DEF WorkerPc
    <2> QED
        BY <1>1, <1>2, <1>3, <1>5, <2>1, StayingIsBatchStep
<1> QED
    BY <1>4, <1>5 DEF ClearStreak, RecordRetry, CountDay, RegisterFailure

\* An exception costs a fault, and the row goes on as failed or to be retried.
LEMMA DeliveryRaisesIsBatchStep ==
    ASSUME Types, Types', RowInv, NEW w \in Worker, DeliveryRaises(w)
    PROVE  BatchStep(w)
<1> USE DEF Types
<1>1. PICK d \in at[w] : Goto(w, Verdict(w, d), at[w])
    BY DEF DeliveryRaises
<1>2. /\ UNCHANGED <<status, attempts, due, held, posts, overrun, refused>>
      /\ faults' = faults + 1
      /\ d \in Delivery /\ d \in DOMAIN held[w]
    BY RowAtHand DEF DeliveryRaises, Fault, seenVars, rowVars, RowInv, Places
<1>3. \A e \in Delivery : EndWritten(e)
    BY <1>2, NothingEnds
<1>4. Spent(held[w][d]) => UsedUp(d)'
    <2>1. attempts[d] \in Nat /\ posts[d] \in Nat /\ faults \in Nat /\ MaxAttempts \in Nat
        BY <1>2, DeliveryAssumption DEF RowTypes
    <2>2. attempts[d] <= posts[d] + faults + 1 /\ held[w][d] \in 1 .. attempts[d]
        BY <1>2 DEF RowInv, AttemptsPosted, Numbers
    <2> QED
        BY <1>2, <2>1, <2>2 DEF UsedUp, Spent
<1>5. /\ Verdict(w, d) \in WorkerPc \ {"idle", "next", "post"}
      /\ Verdict(w, d) = "retry" => ~Spent(held[w][d])
      /\ Verdict(w, d) = "failed" => UsedUp(d)'
      /\ Verdict(w, d) \notin {"clear", "count", "register"}
    BY <1>4 DEF Verdict, WorkerPc
<1> QED
    BY <1>1, <1>2, <1>3, <1>5, StayingIsBatchStep

\* So does an outcome that is lost, and a crash.
LEMMA LossIsBatchStep ==
    ASSUME Types, Types', RowInv, NEW w \in Worker, RecordLost(w) \/ WorkerCrash(w)
    PROVE  BatchStep(w)
<1> USE DEF Types
<1>1. /\ UNCHANGED <<status, attempts, due, posts, overrun, refused>>
      /\ faults' = faults + 1
    BY DEF RecordLost, WorkerCrash, Fault, seenVars, rowVars
<1>2. \A e \in Delivery : EndWritten(e)
    BY <1>1, NothingEnds
<1>3. CASE RecordLost(w)
    BY <1>1, <1>2, <1>3, LeavingIsBatchStep DEF RecordLost, Done
<1>4. CASE WorkerCrash(w)
    <2>1. /\ held' = [held EXCEPT ![w] = EmptyBatch]
          /\ Goto(w, "idle", {}) /\ {} \in AtMostOneRow /\ "idle" \in WorkerPc
        BY <1>4 DEF WorkerCrash, AtMostOneRow, WorkerPc
    <2>2. /\ DOMAIN held'[w] = {} /\ \A v \in Worker \ {w} : held'[v] = held[v]
        BY <2>1 DEF BatchTypes, EmptyBatch
    <2>3. /\ pc'[w] = "idle" /\ at'[w] = {}
          /\ \A v \in Worker \ {w} : pc'[v] = pc[v] /\ at'[v] = at[v]
        BY <2>1, GotoEffect
    <2>4. \A d \in Delivery : ~Waits(w, d)'
        BY <2>2 DEF Waits
    <2> QED
        BY <1>1, <1>2, <2>2, <2>3, <2>4 DEF BatchStep
<1> QED
    BY <1>3, <1>4

LEMMA RowInvStep ==
    ASSUME Types, Types', RowInv, [Next]_vars
    PROVE  RowInv'
<1>1. ASSUME NEW d \in Delivery, Enqueue(d) \/ ComesDue(d) \/ LeaseOverrun(d)
      PROVE  RowInv'
    BY <1>1, TimePassesKeeps
<1>2. ASSUME NEW w \in Worker, Claim(w) PROVE RowInv'
    BY <1>2, ClaimKeeps
<1>3. ASSUME NEW w \in Worker,
             \/ StartRow(w) \/ Abandon(w) \/ Post(w) \/ RecordDelivered(w) \/ RecordFailed(w)
             \/ ClearStreak(w) \/ RecordRetry(w) \/ CountDay(w) \/ RegisterFailure(w)
             \/ DeliveryRaises(w) \/ RecordLost(w) \/ WorkerCrash(w)
      PROVE  RowInv'
    <2>1. BatchStep(w)
        BY <1>3, StartRowIsBatchStep, AbandonIsBatchStep, PostIsBatchStep, RecordIsBatchStep,
           EndedRowIsBatchStep, DeliveryRaisesIsBatchStep, LossIsBatchStep
    <2> QED
        BY <2>1, BatchStepKeeps
<1>4. ASSUME NEW h \in Hook, DeleteRows(h) PROVE RowInv'
    BY <1>4, DeleteRowsKeeps
<1>5. CASE DayPasses \/ UNCHANGED vars \/ \E h \in Hook : EnableHook(h) \/ DeleteHook(h)
    BY <1>5, RowFrame DEF DayPasses, EnableHook, DeleteHook, vars, batchVars, seenVars
<1> QED
    BY <1>1, <1>2, <1>3, <1>4, <1>5 DEF Next, WorkerNext

LEMMA RowInvInit == ASSUME Init PROVE RowInv
<1> USE DeliveryAssumption DEF Init
<1>1. \A w \in Worker : DOMAIN held[w] = {} /\ at[w] = {} /\ pc[w] = "idle"
    BY DEF EmptyBatch
<1>2. Places /\ Numbers /\ Untouched /\ Leased /\ Outcomes
    BY <1>1 DEF Places, Numbers, Untouched, Leased, Outcomes
<1>3. PostsCounted
    <2> SUFFICES ASSUME NEW d \in Delivery
                 PROVE  posts[d] + Cardinality({w \in Worker : Waits(w, d)}) <= attempts[d]
        BY DEF PostsCounted
    <2>1. {w \in Worker : Waits(w, d)} = {}
        BY <1>1 DEF Waits
    <2>2. Cardinality({w \in Worker : Waits(w, d)}) = 0
        BY <2>1, FS_EmptySet
    <2>3. posts[d] = 0 /\ attempts[d] = 0
        OBVIOUS
    <2> QED
        BY <2>2, <2>3
<1>4. AttemptsBounded /\ AttemptsPosted /\ FailedUsedUp
    BY DEF AttemptsBounded, AttemptsPosted, FailedUsedUp
<1> QED
    BY <1>2, <1>3, <1>4 DEF RowInv

\* The invariant of the rows: leases exclude, attempts are numbered, and each is
\* posted once or accounted for by a fault.
THEOREM RowInvariant == Spec => [](Types /\ RowInv)
<1>1. Init => Types /\ RowInv
    BY TypesInit, RowInvInit
<1>2. Types /\ RowInv /\ [Next]_vars => Types' /\ RowInv'
    <2> SUFFICES ASSUME Types, RowInv, [Next]_vars PROVE Types' /\ RowInv'
        OBVIOUS
    <2>1. Types'
        BY RowAndBatchTypesStep, HookTypesStep DEF Types
    <2> QED
        BY <2>1, RowInvStep
<1> QED
    BY <1>1, <1>2, PTL DEF Spec

-----------------------------------------------------------------------------
(* The invariant of the streaks *)

\* How many days deliveries of h gave up on, up to day n.
GaveUpBy(h, n) == Cardinality({g \in gaveUp[h] : g <= n})

\* What a register_failure read, and what it is about to write ...
ReadInRange ==
    \A w \in Worker :
        /\ local[w].days <= local[w].on
        /\ local[w].disable => local[w].days >= DisableAfter
\* ... is backed by as many days with a give-up, unless the streak was cleared
\* meanwhile ...
ReadBacked ==
    \A w \in Worker : \A d \in at[w] :
        pc[w] = "register" /\ HookOf[d] \notin raced
        => local[w].days <= GaveUpBy(HookOf[d], local[w].on)
\* ... and so is the streak of the hook.
StreakBacked ==
    \A h \in Hook :
        /\ days[h] <= lastDay[h]
        /\ h \notin raced => days[h] <= GaveUpBy(h, lastDay[h])

StreakInv == ReadInRange /\ ReadBacked /\ StreakBacked

LEMMA GiveUpsCount ==
    ASSUME HookTypes, NEW h \in Hook
    PROVE  /\ IsFiniteSet(gaveUp[h])
           /\ \A S \in SUBSET gaveUp[h] :
                 /\ IsFiniteSet(S) /\ Cardinality(S) \in Nat
                 /\ Cardinality(S) <= Cardinality(gaveUp[h])
           /\ \A n \in Nat : GaveUpBy(h, n) \in Nat /\ GaveUpBy(h, n) <= Cardinality(gaveUp[h])
<1>1. IsFiniteSet(1 .. today)
    BY FS_Interval DEF HookTypes, Day
<1>2. IsFiniteSet(gaveUp[h])
    BY <1>1, FS_Subset DEF HookTypes
<1>3. \A S \in SUBSET gaveUp[h] :
         /\ IsFiniteSet(S) /\ Cardinality(S) \in Nat
         /\ Cardinality(S) <= Cardinality(gaveUp[h])
    BY <1>2, FS_Subset, FS_CardinalityType
<1>4. \A n : {g \in gaveUp[h] : g <= n} \in SUBSET gaveUp[h]
    OBVIOUS
<1> QED
    BY <1>2, <1>3, <1>4 DEF GaveUpBy

\* A step that neither counts a day nor clears a streak, and in which no loop
\* comes to its second statement, keeps the invariant.
LEMMA StreakFrame ==
    ASSUME Types, StreakInv, UNCHANGED <<days, lastDay, gaveUp, raced>>,
           \A w \in Worker : local'[w] \in {local[w], Nothing},
           \A w \in Worker : pc'[w] = "register" =>
               pc[w] = "register" /\ at'[w] = at[w] /\ local'[w] = local[w]
    PROVE  StreakInv'
<1>1. ReadInRange'
    BY DEF StreakInv, ReadInRange, Nothing
<1>2. ReadBacked' /\ StreakBacked'
    BY DEF StreakInv, ReadBacked, StreakBacked, GaveUpBy
<1> QED
    BY <1>1, <1>2 DEF StreakInv

\* A streak that is cleared: whoever read it before is marked.
LEMMA StreakClearedKeeps ==
    ASSUME Types, Types', StreakInv, NEW h \in Hook, StreakCleared(h), UNCHANGED local,
           \A w \in Worker : pc'[w] = "register" => pc[w] = "register" /\ at'[w] = at[w]
    PROVE  StreakInv'
<1> USE DEF StreakInv, Types
<1>1. /\ days'[h] = 0 /\ lastDay'[h] = 0 /\ gaveUp'[h] = {}
      /\ \A g \in Hook \ {h} :
            days'[g] = days[g] /\ lastDay'[g] = lastDay[g] /\ gaveUp'[g] = gaveUp[g]
      /\ raced \subseteq raced'
      /\ \A w \in Worker : \A d \in at[w] :
            pc[w] = "register" /\ HookOf[d] = h => h \in raced'
    BY DEF StreakCleared, HookTypes
<1>2. ReadInRange'
    BY DEF ReadInRange
<1>3. ReadBacked'
    <2> SUFFICES ASSUME NEW w \in Worker, NEW d \in at'[w],
                        pc'[w] = "register", HookOf[d] \notin raced'
                 PROVE  local[w].days <= Cardinality({g \in gaveUp'[HookOf[d]] : g <= local[w].on})
        BY DEF ReadBacked, GaveUpBy
    <2>1. d \in at[w] /\ pc[w] = "register" /\ HookOf[d] \in Hook \ {h}
        BY <1>1, RowAtHand, DeliveryAssumption
    <2> QED
        BY <1>1, <2>1 DEF ReadBacked, GaveUpBy
<1>4. StreakBacked'
    <2> SUFFICES ASSUME NEW k \in Hook
                 PROVE  /\ days'[k] <= lastDay'[k]
                        /\ k \notin raced'
                           => days'[k] <= Cardinality({g \in gaveUp'[k] : g <= lastDay'[k]})
        BY DEF StreakBacked, GaveUpBy
    <2>1. CASE k = h
        <3>1. Cardinality({g \in gaveUp'[k] : g <= lastDay'[k]}) = 0
            <4>1. {g \in gaveUp'[k] : g <= lastDay'[k]} = {}
                BY <1>1, <2>1
            <4> QED
                BY <4>1, FS_EmptySet
        <3> QED
            BY <1>1, <2>1, <3>1
    <2>2. CASE k # h
        BY <1>1, <2>2 DEF StreakBacked, GaveUpBy
    <2> QED
        BY <2>1, <2>2
<1> QED
    BY <1>2, <1>3, <1>4

\* advance_failure_days: a day that is counted has a give-up nobody counted yet.
LEMMA AdvanceBacked ==
    ASSUME HookTypes, NEW h \in Hook, days[h] <= lastDay[h]
    PROVE  /\ AdvanceDays(h) \in Nat /\ AdvanceDays(h) <= today
           /\ days[h] <= GaveUpBy(h, lastDay[h])
              => AdvanceDays(h) <= Cardinality({g \in gaveUp[h] \cup {today} : g <= today})
<1> DEFINE Before == {g \in gaveUp[h] : g <= lastDay[h]}
           Now == {g \in gaveUp[h] \cup {today} : g <= today}
<1>1. /\ today \in Nat /\ lastDay[h] \in Nat /\ lastDay[h] <= today /\ days[h] \in Nat
      /\ gaveUp[h] \subseteq 1 .. today
    BY DEF HookTypes, Day
<1>2. IsFiniteSet(Before) /\ IsFiniteSet(Now)
    <2>1. IsFiniteSet(gaveUp[h]) /\ IsFiniteSet(gaveUp[h] \cup {today})
        BY GiveUpsCount, FS_AddElement
    <2> QED
        BY <2>1, FS_Subset
<1>3. Cardinality(Before) \in Nat /\ Cardinality(Now) \in Nat
    BY <1>2, FS_CardinalityType
<1>4. Cardinality(Before) <= Cardinality(Now)
    <2>1. Before \subseteq Now
        BY <1>1
    <2> QED
        BY <1>2, <2>1, FS_Subset
<1>5. lastDay[h] # today => Cardinality(Before) + 1 <= Cardinality(Now)
    <2> SUFFICES ASSUME lastDay[h] # today PROVE Cardinality(Before) + 1 <= Cardinality(Now)
        OBVIOUS
    <2>1. today \notin Before /\ Before \cup {today} \subseteq Now
        BY <1>1
    <2>2. Cardinality(Before \cup {today}) = Cardinality(Before) + 1
        BY <1>2, <2>1, FS_AddElement
    <2> QED
        BY <1>2, <2>1, <2>2, FS_Subset
<1> HIDE DEF Before, Now
<1>6. days[h] <= GaveUpBy(h, lastDay[h]) => AdvanceDays(h) <= Cardinality(Now)
    <2>1. GaveUpBy(h, lastDay[h]) = Cardinality(Before)
        BY DEF GaveUpBy, Before
    <2> QED
        BY <1>1, <1>3, <1>4, <1>5, <2>1 DEF AdvanceDays
<1> QED
    BY <1>1, <1>6 DEF AdvanceDays, Now

LEMMA CountDayKeepsStreak ==
    ASSUME Types, Types', RowInv, StreakInv, NEW w \in Worker, CountDay(w)
    PROVE  StreakInv'
<1> USE DeliveryAssumption DEF Types, StreakInv
<1>0. PICK d \in at[w] :
         IF hook[HookOf[d]] = "gone" THEN Done(w) /\ UNCHANGED <<local, gaveUp>>
         ELSE /\ local' = [local EXCEPT ![w] =
                    [days |-> AdvanceDays(HookOf[d]), on |-> today,
                     disable |-> /\ hook[HookOf[d]] # "disabled"
                                 /\ AdvanceDays(HookOf[d]) >= DisableAfter]]
              /\ gaveUp' = [gaveUp EXCEPT ![HookOf[d]] = @ \cup {today}]
              /\ Goto(w, "register", at[w])
              /\ UNCHANGED held
    BY DEF CountDay
<1>1. UNCHANGED <<days, lastDay, raced, today>> /\ d \in Delivery /\ at[w] = {d}
    BY RowAtHand DEF CountDay, hookVars
<1>2. CASE hook[HookOf[d]] = "gone"
    <2>1. Leave(w, at[w]) /\ UNCHANGED <<local, gaveUp>>
        BY <1>0, <1>2 DEF Done
    <2> QED
        BY <1>1, <2>1, LeaveEffect, StreakFrame
<1>3. CASE hook[HookOf[d]] # "gone"
    <2> DEFINE h == HookOf[d]
               off == hook[h] # "disabled" /\ AdvanceDays(h) >= DisableAfter
               read == [days |-> AdvanceDays(h), on |-> today, disable |-> off]
    <2>1. h \in Hook /\ days[h] <= lastDay[h]
        BY <1>1 DEF StreakBacked
    <2>2. /\ local' = [local EXCEPT ![w] = read]
          /\ gaveUp' = [gaveUp EXCEPT ![h] = @ \cup {today}]
          /\ Goto(w, "register", at[w])
        BY <1>0, <1>3
    <2>3. /\ local'[w] = read /\ \A v \in Worker \ {w} : local'[v] = local[v]
          /\ gaveUp'[h] = gaveUp[h] \cup {today}
          /\ \A k \in Hook \ {h} : gaveUp'[k] = gaveUp[k]
        BY <2>1, <2>2 DEF HookTypes
    <2>4. /\ pc'[w] = "register" /\ at'[w] = {d}
          /\ \A v \in Worker \ {w} : pc'[v] = pc[v] /\ at'[v] = at[v]
        BY <1>1, <2>2, GotoEffect DEF BatchTypes, WorkerPc
    <2>5. /\ AdvanceDays(h) \in Nat /\ AdvanceDays(h) <= today
          /\ days[h] <= GaveUpBy(h, lastDay[h])
             => AdvanceDays(h) <= Cardinality({g \in gaveUp[h] \cup {today} : g <= today})
        BY <2>1, AdvanceBacked
    <2>d. /\ local'[w].days = AdvanceDays(h) /\ local'[w].on = today
          /\ local'[w].disable => AdvanceDays(h) >= DisableAfter
        <3>1. off => AdvanceDays(h) >= DisableAfter
            OBVIOUS
        <3> HIDE DEF off
        <3> QED
            BY <2>3, <3>1
    <2> HIDE DEF h, off
    <2>6. ReadInRange'
        <3> SUFFICES ASSUME NEW v \in Worker
                     PROVE  /\ local'[v].days <= local'[v].on
                            /\ local'[v].disable => local'[v].days >= DisableAfter
            BY DEF ReadInRange
        <3>1. CASE v = w
            BY <2>5, <2>d, <3>1
        <3>2. CASE v # w
            BY <2>3, <3>2 DEF ReadInRange
        <3> QED
            BY <3>1, <3>2
    <2>7. \A k \in Hook, n \in Nat :
             /\ GaveUpBy(k, n) \in Nat /\ GaveUpBy(k, n)' \in Nat
             /\ GaveUpBy(k, n) <= GaveUpBy(k, n)'
        <3> SUFFICES ASSUME NEW k \in Hook, NEW n \in Nat
                     PROVE  LET G == Cardinality({g \in gaveUp'[k] : g <= n}) IN
                            GaveUpBy(k, n) \in Nat /\ G \in Nat /\ GaveUpBy(k, n) <= G
            BY DEF GaveUpBy
        <3>1. IsFiniteSet(gaveUp'[k])
            <4>1. IsFiniteSet(gaveUp[k]) /\ IsFiniteSet(gaveUp[k] \cup {today})
                BY GiveUpsCount, FS_AddElement
            <4> QED
                BY <2>3, <4>1
        <3>2. {g \in gaveUp[k] : g <= n} \subseteq {g \in gaveUp'[k] : g <= n}
            BY <2>3
        <3>3. IsFiniteSet({g \in gaveUp'[k] : g <= n})
            BY <3>1, FS_Subset
        <3>4. /\ IsFiniteSet({g \in gaveUp[k] : g <= n})
              /\ Cardinality({g \in gaveUp[k] : g <= n}) <= Cardinality({g \in gaveUp'[k] : g <= n})
            BY <3>2, <3>3, FS_Subset
        <3> QED
            BY <3>3, <3>4, FS_CardinalityType DEF GaveUpBy
    <2>8. StreakBacked'
        <3> SUFFICES ASSUME NEW k \in Hook
                     PROVE  /\ days[k] <= lastDay[k]
                            /\ k \notin raced => days[k] <= GaveUpBy(k, lastDay[k])'
            BY <1>1 DEF StreakBacked
        <3>1. lastDay[k] \in Nat /\ days[k] \in Nat
            BY DEF HookTypes
        <3>2. GaveUpBy(k, lastDay[k])' = Cardinality({g \in gaveUp'[k] : g <= lastDay[k]})
            BY <1>1 DEF GaveUpBy
        <3>3. /\ GaveUpBy(k, lastDay[k]) \in Nat
              /\ Cardinality({g \in gaveUp'[k] : g <= lastDay[k]}) \in Nat
              /\ GaveUpBy(k, lastDay[k]) <= Cardinality({g \in gaveUp'[k] : g <= lastDay[k]})
            BY <2>7, <3>1 DEF GaveUpBy
        <3> QED
            BY <3>1, <3>2, <3>3 DEF StreakBacked
    <2>9. ReadBacked'
        <3> SUFFICES ASSUME NEW v \in Worker, NEW e \in at'[v], pc'[v] = "register",
                            HookOf[e] \notin raced
                     PROVE  local'[v].days
                            <= Cardinality({g \in gaveUp'[HookOf[e]] : g <= local'[v].on})
            BY <1>1 DEF ReadBacked, GaveUpBy
        <3>1. CASE v = w
            <4>1. e = d /\ HookOf[e] = h
                BY <2>4, <3>1 DEF h
            <4>2. days[h] <= GaveUpBy(h, lastDay[h])
                BY <2>1, <4>1 DEF StreakBacked
            <4> QED
                BY <2>3, <2>5, <2>d, <3>1, <4>1, <4>2
        <3>2. CASE v # w
            <4>1. /\ e \in at[v] /\ pc[v] = "register" /\ local'[v] = local[v]
                BY <2>3, <2>4, <3>2
            <4>2. /\ HookOf[e] \in Hook /\ local[v].on \in Nat /\ local[v].days \in Nat
                BY <4>1, RowAtHand DEF HookTypes
            <4>3. local[v].days <= GaveUpBy(HookOf[e], local[v].on)
                BY <4>1 DEF ReadBacked
            <4>4. /\ GaveUpBy(HookOf[e], local[v].on) \in Nat
                  /\ Cardinality({g \in gaveUp'[HookOf[e]] : g <= local[v].on}) \in Nat
                  /\ GaveUpBy(HookOf[e], local[v].on)
                     <= Cardinality({g \in gaveUp'[HookOf[e]] : g <= local[v].on})
                BY <2>7, <4>2 DEF GaveUpBy
            <4> QED
                BY <4>1, <4>2, <4>3, <4>4
        <3> QED
            BY <3>1, <3>2
    <2> QED
        BY <2>6, <2>8, <2>9
<1> QED
    BY <1>2, <1>3

LEMMA RegisterFailureKeepsStreak ==
    ASSUME Types, Types', RowInv, StreakInv, NEW w \in Worker, RegisterFailure(w)
    PROVE  StreakInv'
<1> USE DeliveryAssumption DEF Types, StreakInv
<1>0. PICK d \in at[w] :
         /\ days' = [days EXCEPT ![HookOf[d]] = local[w].days]
         /\ lastDay' = [lastDay EXCEPT ![HookOf[d]] = local[w].on]
    BY DEF RegisterFailure
<1>1. /\ UNCHANGED <<gaveUp, raced>> /\ HookOf[d] \in Hook /\ pc[w] = "register"
      /\ local' = [local EXCEPT ![w] = Nothing] /\ Leave(w, at[w])
    BY RowAtHand DEF RegisterFailure, Done, seenVars
<1> DEFINE h == HookOf[d]
<1>2. /\ days'[h] = local[w].days /\ lastDay'[h] = local[w].on
      /\ \A k \in Hook \ {h} : days'[k] = days[k] /\ lastDay'[k] = lastDay[k]
      /\ local'[w] = Nothing /\ \A v \in Worker \ {w} : local'[v] = local[v]
    BY <1>0, <1>1 DEF HookTypes
<1>3. /\ pc'[w] # "register"
      /\ \A v \in Worker \ {w} : pc'[v] = pc[v] /\ at'[v] = at[v]
    BY <1>1, LeaveEffect
<1>4. ReadInRange'
    BY <1>2 DEF ReadInRange, Nothing
<1>5. ReadBacked'
    BY <1>1, <1>2, <1>3 DEF ReadBacked, GaveUpBy
<1>6. StreakBacked'
    BY <1>1, <1>2 DEF StreakBacked, ReadInRange, ReadBacked, GaveUpBy
<1> QED
    BY <1>4, <1>5, <1>6

LEMMA StreakInvStep ==
    ASSUME Types, Types', RowInv, StreakInv, [Next]_vars
    PROVE  StreakInv'
<1> USE DEF Types, hookVars, batchVars, seenVars
<1>1. ASSUME NEW d \in Delivery, Enqueue(d) \/ ComesDue(d) \/ LeaseOverrun(d)
      PROVE  StreakInv'
    BY <1>1, StreakFrame DEF Enqueue, ComesDue, LeaseOverrun
<1>2. ASSUME NEW w \in Worker,
             \/ Claim(w) \/ StartRow(w) \/ Abandon(w) \/ Post(w) \/ RecordDelivered(w)
             \/ RecordRetry(w) \/ RecordFailed(w)
             \/ DeliveryRaises(w) \/ RecordLost(w) \/ WorkerCrash(w)
      PROVE  StreakInv'
    <2>1. /\ UNCHANGED <<days, lastDay, gaveUp, raced>>
          /\ \A v \in Worker : local'[v] \in {local[v], Nothing}
          /\ \A v \in Worker \ {w} : local'[v] = local[v]
        BY <1>2 DEF Claim, StartRow, Abandon, Post, RecordDelivered, RecordRetry, RecordFailed,
                    DeliveryRaises, RecordLost, WorkerCrash, HookTypes
    <2>2. \E place \in WorkerPc \ {"register"}, T \in AtMostOneRow : Goto(w, place, T)
        <3>1. ASSUME NEW S, Leave(w, S)
              PROVE  \E place \in WorkerPc \ {"register"}, T \in AtMostOneRow : Goto(w, place, T)
            <4>1. {} \in AtMostOneRow /\ {"idle", "next"} \subseteq WorkerPc \ {"register"}
                BY DEF AtMostOneRow, WorkerPc
            <4> QED
                BY <3>1, <4>1 DEF Leave
        <3>2. CASE Abandon(w) \/ RecordRetry(w) \/ RecordLost(w)
            BY <3>1, <3>2 DEF Abandon, RecordRetry, RecordLost, Done
        <3>3. CASE RecordDelivered(w) \/ RecordFailed(w)
            BY <3>1, <3>3 DEF RecordDelivered, RecordFailed, Done, BatchTypes, WorkerPc
        <3>4. CASE Claim(w) \/ WorkerCrash(w)
            BY <3>4 DEF Claim, WorkerCrash, AtMostOneRow, WorkerPc
        <3>5. CASE StartRow(w)
            <4>1. PICK d \in DOMAIN held[w] : Goto(w, "post", {d})
                BY <3>5 DEF StartRow
            <4> QED
                BY <4>1, BatchType DEF AtMostOneRow, WorkerPc
        <3>6. CASE Post(w) \/ DeliveryRaises(w)
            <4>1. PICK place \in {"delivered", "failed", "retry"} : Goto(w, place, at[w])
                BY <3>6, RowAtHand DEF Post, DeliveryRaises
            <4> QED
                BY <4>1 DEF BatchTypes, WorkerPc
        <3> QED
            BY <1>2, <3>2, <3>3, <3>4, <3>5, <3>6
    <2>3. /\ pc'[w] # "register"
          /\ \A v \in Worker \ {w} : pc'[v] = pc[v] /\ at'[v] = at[v]
        BY <2>2, GotoEffect
    <2> QED
        BY <2>1, <2>3, StreakFrame
<1>3. ASSUME NEW w \in Worker, ClearStreak(w) PROVE StreakInv'
    <2>1. PICK d \in at[w] : StreakCleared(HookOf[d])
        BY <1>3 DEF ClearStreak
    <2>2. HookOf[d] \in Hook /\ UNCHANGED local /\ Leave(w, at[w])
        BY <1>3, RowAtHand, DeliveryAssumption DEF ClearStreak, Done
    <2>3. /\ pc'[w] # "register"
          /\ \A v \in Worker \ {w} : pc'[v] = pc[v] /\ at'[v] = at[v]
        BY <2>2, LeaveEffect
    <2> QED
        BY <2>1, <2>2, <2>3, StreakClearedKeeps
<1>4. ASSUME NEW w \in Worker, CountDay(w) PROVE StreakInv'
    BY <1>4, CountDayKeepsStreak
<1>5. ASSUME NEW w \in Worker, RegisterFailure(w) PROVE StreakInv'
    BY <1>5, RegisterFailureKeepsStreak
<1>6. ASSUME NEW h \in Hook, EnableHook(h) PROVE StreakInv'
    <2>1. StreakCleared(h) /\ UNCHANGED <<local, pc, at>>
        BY <1>6 DEF EnableHook
    <2> QED
        BY <2>1, StreakClearedKeeps
<1>7. CASE DayPasses \/ UNCHANGED vars \/ \E h \in Hook : DeleteRows(h) \/ DeleteHook(h)
    <2>1. UNCHANGED <<days, lastDay, gaveUp, raced, local, pc, at>>
        BY <1>7 DEF DayPasses, DeleteRows, DeleteHook, vars
    <2> QED
        BY <2>1, StreakFrame
<1> QED
    BY <1>1, <1>2, <1>3, <1>4, <1>5, <1>6, <1>7 DEF Next, WorkerNext

LEMMA StreakInvInit == ASSUME Init PROVE StreakInv
<1>1. ReadInRange /\ ReadBacked
    BY DEF Init, ReadInRange, ReadBacked, Nothing
<1>2. StreakBacked
    <2> SUFFICES ASSUME NEW h \in Hook
                 PROVE  days[h] <= lastDay[h] /\ days[h] <= GaveUpBy(h, lastDay[h])
        BY DEF StreakBacked
    <2>1. {g \in gaveUp[h] : g <= lastDay[h]} = {} /\ days[h] = 0 /\ lastDay[h] = 0
        BY DEF Init
    <2>2. GaveUpBy(h, lastDay[h]) = 0
        BY <2>1, FS_EmptySet DEF GaveUpBy
    <2> QED
        BY <2>1, <2>2
<1> QED
    BY <1>1, <1>2 DEF StreakInv

\* The invariant of the streaks: what a hook counts is backed by days on which
\* deliveries gave up.
THEOREM StreakInvariant == Spec => []StreakInv
<1>1. Types /\ Types' /\ RowInv /\ StreakInv /\ [Next]_vars => StreakInv'
    BY StreakInvStep
<1> QED
    BY <1>1, StreakInvInit, RowInvariant, PTL DEF Spec

-----------------------------------------------------------------------------
(* The properties of the runs *)

LEMMA TypesGiveTypeOK ==
    ASSUME Types, RowInv, StreakInv
    PROVE  TypeOK
<1> USE DeliveryAssumption DEF Types
<1>1. attempts \in [Delivery -> 0 .. MaxAttempts + faults]
    BY DEF RowTypes, RowInv, AttemptsBounded
<1>2. \A d \in Delivery : posts[d] <= attempts[d]
    <2> SUFFICES ASSUME NEW d \in Delivery PROVE posts[d] <= attempts[d]
        OBVIOUS
    <2>1. posts[d] + Cardinality({w \in Worker : Waits(w, d)}) <= attempts[d]
        BY DEF RowInv, PostsCounted
    <2>2. Cardinality({w \in Worker : Waits(w, d)}) \in Nat
        BY WaitersCount
    <2> QED
        BY <2>1, <2>2 DEF RowTypes
<1>3. \A w \in Worker :
         /\ DOMAIN held[w] \subseteq Delivery
         /\ \A d \in DOMAIN held[w] : held[w][d] \in 1 .. attempts[d]
         /\ at[w] \subseteq DOMAIN held[w]
         /\ (pc[w] = "idle") = (DOMAIN held[w] = {})
    BY BatchType DEF RowInv, Numbers, Places
<1>4. \A h \in Hook : days[h] <= lastDay[h]
    BY DEF StreakInv, StreakBacked
<1> QED
    BY <1>1, <1>2, <1>3, <1>4 DEF TypeOK, RowTypes, BatchTypes, HookTypes, AtMostOneRow

\* No attempt is counted beyond the schedule but for a fault, no post made but
\* for an attempt, no streak longer than the days that passed.
THEOREM TypeCorrect == Spec => []TypeOK
<1>1. Types /\ RowInv /\ StreakInv => TypeOK
    BY TypesGiveTypeOK
<1> QED
    BY <1>1, RowInvariant, StreakInvariant, PTL

\* claim_due: two loops never have the same row, unless its lease ran out on one
\* of them, however many loops, rows and crashes there are.
THEOREM ExclusiveClaimHolds == Spec => []ExclusiveClaim
<1>1. Types /\ RowInv => ExclusiveClaim
    <2> SUFFICES ASSUME RowInv, NEW d \in Delivery \ overrun
                 PROVE  Cardinality(Holders(d)) <= 1
        BY DEF ExclusiveClaim
    <2>1. \A v, w \in Holders(d) : v = w
        BY DEF RowInv, Leased, Holders
    <2>2. CASE Holders(d) = {}
        BY <2>2, FS_EmptySet
    <2>3. CASE Holders(d) # {}
        <3>1. PICK w : Holders(d) = {w}
            BY <2>1, <2>3
        <3>2. Cardinality({w}) = 1
            BY FS_Singleton
        <3> QED
            BY <3>1, <3>2
    <2> QED
        BY <2>1, <2>2, <2>3
<1> QED
    BY <1>1, RowInvariant, PTL

\* The schedule of policy.py: at most MAX_ATTEMPTS posts and one per fault, and no
\* row is failed before they are used up, again but for faults.
THEOREM PostsWithinScheduleHolds == Spec => []PostsWithinSchedule
<1>1. Types /\ RowInv => PostsWithinSchedule
    <2> SUFFICES ASSUME Types, RowInv, NEW d \in Delivery
                 PROVE  /\ posts[d] <= MaxAttempts + faults
                        /\ status[d] = "failed" /\ d \notin refused
                           => posts[d] >= MaxAttempts - faults
        BY DEF PostsWithinSchedule
    <2>1. /\ posts[d] \in Nat /\ attempts[d] \in Nat /\ faults \in Nat /\ MaxAttempts \in Nat
          /\ Cardinality({w \in Worker : Waits(w, d)}) \in Nat
        BY DeliveryAssumption, WaitersCount DEF Types, RowTypes
    <2>2. /\ posts[d] + Cardinality({w \in Worker : Waits(w, d)}) <= attempts[d]
          /\ attempts[d] <= MaxAttempts + faults
        BY DEF RowInv, PostsCounted, AttemptsBounded
    <2>3. status[d] = "failed" /\ d \notin refused => posts[d] + faults >= MaxAttempts
        BY DEF RowInv, FailedUsedUp, UsedUp
    <2> QED
        BY <2>1, <2>2, <2>3
<1> QED
    BY <1>1, RowInvariant, PTL

\* No step takes a row out of the states it ends in: the outcomes written by id
\* only ever write another end.
THEOREM EndedStaysEndedHolds == Spec => EndedStaysEnded
<1>1. ASSUME Types, Types', RowInv, [Next]_vars, NEW d \in Delivery, status[d] \in Ended
      PROVE  status'[d] \in Ended
    <2> USE DEF Types
    <2>1. ASSUME NEW e \in Delivery, Enqueue(e) \/ ComesDue(e) \/ LeaseOverrun(e)
          PROVE  status'[d] \in Ended
        BY <1>1, <2>1 DEF Enqueue, ComesDue, LeaseOverrun, Ended, RowTypes
    <2>2. ASSUME NEW w \in Worker,
             \/ StartRow(w) \/ Abandon(w) \/ Post(w) \/ RecordDelivered(w) \/ RecordFailed(w)
             \/ ClearStreak(w) \/ RecordRetry(w) \/ CountDay(w) \/ RegisterFailure(w)
             \/ DeliveryRaises(w) \/ RecordLost(w) \/ WorkerCrash(w)
          PROVE  status'[d] \in Ended
        <3>1. BatchStep(w)
            BY <1>1, <2>2, StartRowIsBatchStep, AbandonIsBatchStep, PostIsBatchStep,
               RecordIsBatchStep, EndedRowIsBatchStep, DeliveryRaisesIsBatchStep, LossIsBatchStep
        <3> QED
            BY <1>1, <3>1 DEF BatchStep, EndWritten
    <2>3. ASSUME NEW h \in Hook, DeleteRows(h) PROVE status'[d] \in Ended
        BY <1>1, <2>3 DEF DeleteRows, Ended
    <2>4. CASE \/ DayPasses \/ UNCHANGED vars
               \/ \E w \in Worker : Claim(w)
               \/ \E h \in Hook : EnableHook(h) \/ DeleteHook(h)
        BY <1>1, <2>4 DEF DayPasses, vars, rowVars, Claim, EnableHook, DeleteHook
    <2> QED
        BY <1>1, <2>1, <2>2, <2>3, <2>4 DEF Next, WorkerNext
<1>2. Types /\ Types' /\ RowInv /\ [Next]_vars
      => [\A d \in Delivery : status[d] \in Ended => status'[d] \in Ended]_status
    BY <1>1
<1> QED
    BY <1>2, RowInvariant, PTL DEF Spec, EndedStaysEnded

\* register_failure switches a hook off only on the strength of give-ups on
\* DISABLE_AFTER_FAILURE_DAYS different days, unless somebody cleared its streak
\* between the read and the write.
THEOREM DisabledAfterDaysHolds == Spec => DisabledAfterDays
<1>1. ASSUME Types, RowInv, StreakInv, [Next]_vars, NEW h \in Hook \ raced,
             hook[h] = "enabled", hook'[h] = "disabled"
      PROVE  Cardinality(gaveUp[h]) >= DisableAfter
    <2> USE DEF Types
    <2>1. PICK w \in Worker : RegisterFailure(w)
        <3>1. hook \in [Hook -> HookState]
            BY <1>1 DEF HookTypes
        <3>2. hook' # hook
            BY <1>1
        <3>3. ASSUME NEW g \in Hook, EnableHook(g) \/ DeleteRows(g) \/ DeleteHook(g)
              PROVE  FALSE
            BY <1>1, <3>1, <3>3 DEF EnableHook, DeleteRows, DeleteHook
        <3>4. ~ DayPasses /\ ~ UNCHANGED vars
            BY <3>2 DEF DayPasses, vars, hookVars
        <3>5. \A d \in Delivery : ~ (Enqueue(d) \/ ComesDue(d) \/ LeaseOverrun(d))
            BY <3>2 DEF Enqueue, ComesDue, LeaseOverrun, hookVars
        <3>6. ASSUME NEW w \in Worker,
                 \/ Claim(w) \/ StartRow(w) \/ Abandon(w) \/ Post(w) \/ RecordDelivered(w)
                 \/ RecordFailed(w) \/ ClearStreak(w) \/ RecordRetry(w) \/ CountDay(w)
                 \/ DeliveryRaises(w) \/ RecordLost(w) \/ WorkerCrash(w)
              PROVE  FALSE
            BY <3>2, <3>6 DEF Claim, StartRow, Abandon, Post, RecordDelivered, RecordFailed,
               ClearStreak, RecordRetry, CountDay, DeliveryRaises, RecordLost, WorkerCrash, hookVars
        <3> QED
            BY <1>1, <3>3, <3>4, <3>5, <3>6 DEF Next, WorkerNext
    <2>2. PICK d \in at[w] :
             hook' = [hook EXCEPT ![HookOf[d]] = IF local[w].disable /\ @ = "enabled"
                                                 THEN "disabled" ELSE @]
        BY <2>1 DEF RegisterFailure
    <2>3. HookOf[d] = h /\ local[w].disable /\ pc[w] = "register"
        BY <1>1, <2>1, <2>2 DEF RegisterFailure, HookTypes
    <2>4. local[w].days >= DisableAfter /\ local[w].days <= GaveUpBy(h, local[w].on)
        BY <1>1, <2>3 DEF StreakInv, ReadInRange, ReadBacked
    <2>5. local[w].days \in Nat /\ local[w].on \in Nat
        BY <1>1 DEF HookTypes
    <2>6. /\ GaveUpBy(h, local[w].on) \in Nat
          /\ GaveUpBy(h, local[w].on) <= Cardinality(gaveUp[h])
          /\ Cardinality(gaveUp[h]) \in Nat
        BY <1>1, <2>5, GiveUpsCount
    <2> QED
        BY <2>4, <2>5, <2>6, DeliveryAssumption
<1>2. Types /\ RowInv /\ StreakInv /\ [Next]_vars
      => [\A h \in Hook \ raced :
            hook[h] = "enabled" /\ hook'[h] = "disabled"
            => Cardinality(gaveUp[h]) >= DisableAfter]_hook
    BY <1>1
<1> QED
    BY <1>2, RowInvariant, StreakInvariant, PTL DEF Spec, DisabledAfterDays
=============================================================================
