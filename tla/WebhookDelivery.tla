-------------------------- MODULE WebhookDelivery --------------------------
(***************************************************************************)
(* Outbound webhooks (webhooks/service.py, policy.py): events insert rows, *)
(* worker loops claim the due rows under a lease, post them one after the  *)
(* other and record each outcome, and a hook whose deliveries give up on   *)
(* several days is switched off.  Every statement commits on its own.      *)
(*                                                                         *)
(* Clock readings are kept as what the code compares: a row is due or it   *)
(* is not, and a give-up happened on a day.                                *)
(***************************************************************************)
EXTENDS Integers, FiniteSets

CONSTANTS
    Delivery,       \* rows that may be queued
    Test,           \* the is_test ones among them
    Hook,
    HookOf,         \* [Delivery -> Hook]
    Worker,         \* the delivery loops, and the threads kick() starts
    Batch,          \* CLAIM_BATCH (20)
    MaxAttempts,    \* MAX_ATTEMPTS (5)
    DisableAfter,   \* DISABLE_AFTER_FAILURE_DAYS (3)
    LastDay,        \* bound: days that pass
    MaxEdits,       \* bound: what persons do to the hooks
    MaxFaults       \* bound: crashes, exceptions and overrun leases

ASSUME DeliveryAssumption ==
    /\ Test \subseteq Delivery
    /\ IsFiniteSet(Delivery) /\ IsFiniteSet(Worker)
    /\ HookOf \in [Delivery -> Hook]
    /\ Batch \in Nat \ {0}
    /\ MaxAttempts \in Nat \ {0}
    /\ DisableAfter \in Nat \ {0}
    /\ LastDay \in Nat \ {0}
    /\ MaxEdits \in Nat /\ MaxFaults \in Nat

VARIABLES
    \* table webhook_deliveries
    status,     \* [Delivery -> Status]
    attempts,   \* [Delivery -> Nat]
    due,        \* the rows whose next_attempt_at has passed
    \* table webhooks
    hook,       \* [Hook -> HookState]
    days,       \* failure_days
    lastDay,    \* last_failure_on; 0 = NULL
    \* one batch per worker
    held,       \* the rows of the batch still to do, each with the attempts
                \* its claim returned: a function on a subset of Delivery
    at,         \* [Worker -> SUBSET Delivery]: the row being delivered
    pc,         \* [Worker -> WorkerPc]
    local,      \* [Worker -> what register_failure read]
    today,
    \* history: what the receivers saw, and when deliveries gave up
    posts,      \* [Delivery -> Nat]
    refused,    \* answered with a status that waiting does not change
    gaveUp,     \* [Hook -> SUBSET Day]: since its streak was last cleared
    raced,      \* hooks cleared while a register_failure was under way
    overrun,    \* rows whose lease ran out on a worker that was still at its batch
    edits, faults

rowVars == <<status, attempts, due>>
hookVars == <<hook, days, lastDay>>
batchVars == <<held, at, pc, local>>
seenVars == <<posts, refused, gaveUp, raced, overrun>>
vars == <<rowVars, hookVars, batchVars, today, seenVars, edits, faults>>

Day == 1 .. LastDay
Ended == {"delivered", "failed", "abandoned", "deleted"}
Status == {"absent", "pending"} \cup Ended
HookState == {"enabled", "disabled", "deleting", "gone"}
WorkerPc == {"idle", "next", "post", "delivered", "retry", "failed",
             "clear", "count", "register"}
Nothing == [days |-> 0, on |-> 0, disable |-> FALSE]

Holders(d) == {w \in Worker : d \in DOMAIN held[w]}
EmptyBatch == [d \in {} |-> 0]

Init ==
    /\ status = [d \in Delivery |-> "absent"]
    /\ attempts = [d \in Delivery |-> 0]
    /\ due = {}
    /\ hook = [h \in Hook |-> "enabled"]
    /\ days = [h \in Hook |-> 0]
    /\ lastDay = [h \in Hook |-> 0]
    /\ held = [w \in Worker |-> EmptyBatch]
    /\ at = [w \in Worker |-> {}]
    /\ pc = [w \in Worker |-> "idle"]
    /\ local = [w \in Worker |-> Nothing]
    /\ today = 1
    /\ posts = [d \in Delivery |-> 0]
    /\ refused = {}
    /\ gaveUp = [h \in Hook |-> {}]
    /\ raced = {}
    /\ overrun = {}
    /\ edits = 0
    /\ faults = 0

Fault == faults < MaxFaults /\ faults' = faults + 1
-----------------------------------------------------------------------------
(* Emitting, and the passing of time *)

\* emit, or enqueue_test.  The subscribers were read in an earlier statement, so
\* by the time of the INSERT the hook may be off, or gone.
Enqueue(d) ==
    /\ status[d] = "absent"
    /\ status' = [status EXCEPT ![d] = "pending"]
    /\ due' = due \cup {d}
    /\ UNCHANGED <<attempts, hookVars, batchVars, today, seenVars, edits, faults>>

\* next_attempt_at passes: the back-off is over, or the lease of a worker that
\* died.
ComesDue(d) ==
    /\ status[d] = "pending"
    /\ d \notin due
    /\ Holders(d) = {}
    /\ due' = due \cup {d}
    /\ UNCHANGED <<status, attempts, hookVars, batchVars, today, seenVars, edits, faults>>

\* The lease runs out while the worker is still at its batch: CLAIM_BATCH slow
\* receivers take longer than CLAIM_LEASE_SECONDS.
LeaseOverrun(d) ==
    /\ status[d] = "pending"
    /\ d \notin due
    /\ Holders(d) # {}
    /\ Fault
    /\ due' = due \cup {d}
    /\ overrun' = overrun \cup {d}
    /\ UNCHANGED <<status, attempts, hookVars, batchVars, today, posts, refused,
                   gaveUp, raced, edits>>

DayPasses ==
    /\ today < LastDay
    /\ today' = today + 1
    /\ UNCHANGED <<rowVars, hookVars, batchVars, seenVars, edits, faults>>
-----------------------------------------------------------------------------
(* process_due *)

\* The worker moves on, with row T at hand (none: {}).
Goto(w, place, T) ==
    /\ pc' = [pc EXCEPT ![w] = place]
    /\ at' = [at EXCEPT ![w] = T]
\* ... and is done with the rows S of its batch: the next one, or the end.
Leave(w, S) ==
    LET rest == (DOMAIN held[w]) \ S IN
    /\ held' = [held EXCEPT ![w] = [d \in rest |-> held[w][d]]]
    /\ Goto(w, IF rest = {} THEN "idle" ELSE "next", {})
Done(w) == Leave(w, at[w])

\* Mutant of Claimable: a row whose attempts are spent is left alone.
ClaimableUnspent == {d \in due : status[d] = "pending" /\ attempts[d] < MaxAttempts}
\* Due rows, of which a claim takes up to Batch.
Claimable == {d \in due : status[d] = "pending"}
Batches == {S \in SUBSET Claimable :
              \/ Cardinality(S) = Batch
              \/ S = Claimable /\ Cardinality(S) <= Batch}

\* Mutant of Claim: it counts the attempt but sets no lease.
ClaimUnleased(w) ==
    /\ pc[w] = "idle"
    /\ \E S \in Batches \ {{}} :
         /\ attempts' = [d \in Delivery |-> attempts[d] + (IF d \in S THEN 1 ELSE 0)]
         /\ held' = [held EXCEPT ![w] = [d \in S |-> attempts[d] + 1]]
         /\ Goto(w, "next", {})
    /\ UNCHANGED <<status, due, hookVars, local, today, seenVars, edits, faults>>

\* claim_due: one UPDATE with SKIP LOCKED counts the attempt and sets the lease.
Claim(w) ==
    /\ pc[w] = "idle"
    /\ \E S \in Batches \ {{}} :
         /\ attempts' = [d \in Delivery |-> attempts[d] + (IF d \in S THEN 1 ELSE 0)]
         /\ due' = due \ S
         /\ held' = [held EXCEPT ![w] = [d \in S |-> attempts[d] + 1]]
         /\ Goto(w, "next", {})
    /\ UNCHANGED <<status, hookVars, local, today, seenVars, edits, faults>>

\* deliver_one reads the hook: the row is to be posted.
StartRow(w) ==
    /\ pc[w] = "next"
    /\ \E d \in DOMAIN held[w] :
         /\ hook[HookOf[d]] # "gone"
         /\ hook[HookOf[d]] # "disabled" \/ d \in Test
         /\ Goto(w, "post", {d})
    /\ UNCHANGED <<rowVars, hookVars, held, local, today, seenVars, edits, faults>>

\* An UPDATE by id; a deleted row is not there any more.
Write(d, st) == status' = [status EXCEPT ![d] = IF @ = "deleted" THEN @ ELSE st]

\* ... or the hook is gone, or off and this is no test.
Abandon(w) ==
    /\ pc[w] = "next"
    /\ \E d \in DOMAIN held[w] :
         /\ \/ hook[HookOf[d]] = "gone"
            \/ hook[HookOf[d]] = "disabled" /\ d \notin Test
         /\ Write(d, "abandoned")
         /\ due' = due \ {d}
         /\ Leave(w, {d})
    /\ UNCHANGED <<attempts, hookVars, local, today, seenVars, edits, faults>>

\* Mutant of Spent: the last wait of the schedule is never used.
SpentEarly(n) == n + 1 >= MaxAttempts
\* Mutant of Spent: one wait too many.
SpentLate(n) == n > MaxAttempts
\* next_delay_seconds(n) is None.
Spent(n) == n >= MaxAttempts
\* What record_attempt makes of OUTCOME_RETRY.
Verdict(w, d) == IF Spent(held[w][d]) THEN "failed" ELSE "retry"

\* _send and classify_outcome: a 2xx; a transport error, 5xx, 408 or 429; or a
\* status that waiting does not change.
Post(w) ==
    /\ pc[w] = "post"
    /\ \E d \in at[w] :
         /\ posts' = [posts EXCEPT ![d] = @ + 1]
         /\ \/ Goto(w, "delivered", at[w]) /\ UNCHANGED refused
            \/ Goto(w, Verdict(w, d), at[w]) /\ UNCHANGED refused
            \/ Goto(w, "failed", at[w]) /\ refused' = refused \cup {d}
    /\ UNCHANGED <<rowVars, hookVars, held, local, today, gaveUp, raced, overrun,
                   edits, faults>>

\* failure_days = 0, last_failure_on = NULL: in one UPDATE, by id.
StreakCleared(h) ==
    /\ days' = [days EXCEPT ![h] = 0]
    /\ lastDay' = [lastDay EXCEPT ![h] = 0]
    /\ gaveUp' = [gaveUp EXCEPT ![h] = {}]
    /\ raced' = IF \E w \in Worker : pc[w] = "register" /\ \E d \in at[w] : HookOf[d] = h
                THEN raced \cup {h} ELSE raced

\* record_attempt, success ...
RecordDelivered(w) ==
    /\ pc[w] = "delivered"
    /\ \E d \in at[w] :
         /\ Write(d, "delivered")
         /\ due' = due \ {d}
         /\ IF d \in Test THEN Done(w) ELSE Goto(w, "clear", at[w]) /\ UNCHANGED held
    /\ UNCHANGED <<attempts, hookVars, local, today, seenVars, edits, faults>>

\* ... and its second statement: the streak of the hook is over.
ClearStreak(w) ==
    /\ pc[w] = "clear"
    /\ \E d \in at[w] : StreakCleared(HookOf[d])
    /\ Done(w)
    /\ UNCHANGED <<rowVars, hook, local, today, posts, refused, overrun,
                   edits, faults>>

\* Mutant of RecordRetry: the UPDATE also puts the row back to pending.
RecordRetryReopens(w) ==
    /\ pc[w] = "retry"
    /\ \E d \in at[w] : Write(d, "pending")
    /\ due' = due \ at[w]
    /\ Done(w)
    /\ UNCHANGED <<attempts, hookVars, local, today, seenVars, edits, faults>>

\* Retry: next_attempt_at moves into the future, the status is left alone.
RecordRetry(w) ==
    /\ pc[w] = "retry"
    /\ due' = due \ at[w]
    /\ Done(w)
    /\ UNCHANGED <<status, attempts, hookVars, local, today, seenVars, edits, faults>>

\* Given up, by an answer or because the attempts are spent.
RecordFailed(w) ==
    /\ pc[w] = "failed"
    /\ \E d \in at[w] :
         /\ Write(d, "failed")
         /\ due' = due \ {d}
         /\ IF d \in Test THEN Done(w) ELSE Goto(w, "count", at[w]) /\ UNCHANGED held
    /\ UNCHANGED <<attempts, hookVars, local, today, seenVars, edits, faults>>

\* Mutant of AdvanceDays: every delivery that gives up counts.
AdvanceEveryTime(h) == days[h] + 1
\* advance_failure_days: a day counts once, however many give up on it.
AdvanceDays(h) == IF lastDay[h] = today THEN days[h] ELSE days[h] + 1

\* register_failure reads the hook ...
CountDay(w) ==
    /\ pc[w] = "count"
    /\ \E d \in at[w] : LET h == HookOf[d] IN
         IF hook[h] = "gone" THEN Done(w) /\ UNCHANGED <<local, gaveUp>>
         ELSE /\ local' = [local EXCEPT ![w] =
                   [days |-> AdvanceDays(h), on |-> today,
                    disable |-> hook[h] # "disabled" /\ AdvanceDays(h) >= DisableAfter]]
              /\ gaveUp' = [gaveUp EXCEPT ![h] = @ \cup {today}]
              /\ Goto(w, "register", at[w])
              /\ UNCHANGED held
    /\ UNCHANGED <<rowVars, hookVars, today, posts, refused, raced, overrun,
                   edits, faults>>

\* ... and writes by id what it computed.
RegisterFailure(w) ==
    /\ pc[w] = "register"
    /\ \E d \in at[w] : LET h == HookOf[d] IN
         /\ days' = [days EXCEPT ![h] = local[w].days]
         /\ lastDay' = [lastDay EXCEPT ![h] = local[w].on]
         /\ hook' = [hook EXCEPT ![h] = IF local[w].disable /\ @ = "enabled"
                                        THEN "disabled" ELSE @]
    /\ local' = [local EXCEPT ![w] = Nothing]
    /\ Done(w)
    /\ UNCHANGED <<rowVars, today, seenVars, edits, faults>>

\* The posted row meets an exception, at whatever statement: process_due records
\* one more failed attempt for it.
DeliveryRaises(w) ==
    /\ at[w] # {}
    /\ Fault
    /\ \E d \in at[w] : Goto(w, Verdict(w, d), at[w])
    /\ local' = [local EXCEPT ![w] = Nothing]
    /\ UNCHANGED <<rowVars, hookVars, held, today, seenVars, edits>>

\* ... and cannot record that either: the row keeps its lease, and the loop goes
\* on with the next one.
RecordLost(w) ==
    /\ at[w] # {}
    /\ Fault
    /\ Done(w)
    /\ local' = [local EXCEPT ![w] = Nothing]
    /\ UNCHANGED <<rowVars, hookVars, today, seenVars, edits>>

\* The process dies with its batch.
WorkerCrash(w) ==
    /\ pc[w] # "idle"
    /\ Fault
    /\ held' = [held EXCEPT ![w] = EmptyBatch]
    /\ Goto(w, "idle", {})
    /\ local' = [local EXCEPT ![w] = Nothing]
    /\ UNCHANGED <<rowVars, hookVars, today, seenVars, edits>>
-----------------------------------------------------------------------------
(* Persons: api/v1/webhooks.py *)

Edit == edits < MaxEdits /\ edits' = edits + 1

\* POST /webhooks/{id}/enable
EnableHook(h) ==
    /\ Edit
    /\ hook[h] \in {"enabled", "disabled"}
    /\ hook' = [hook EXCEPT ![h] = "enabled"]
    /\ StreakCleared(h)
    /\ UNCHANGED <<rowVars, batchVars, today, posts, refused, overrun, faults>>

\* DELETE /webhooks/{id}: its rows first ...
DeleteRows(h) ==
    /\ Edit
    /\ hook[h] \in {"enabled", "disabled"}
    /\ hook' = [hook EXCEPT ![h] = "deleting"]
    /\ status' = [d \in Delivery |->
          IF HookOf[d] = h /\ status[d] # "absent" THEN "deleted" ELSE status[d]]
    /\ due' = {d \in due : HookOf[d] # h}
    /\ UNCHANGED <<attempts, days, lastDay, batchVars, today, seenVars, faults>>

\* ... then the hook, in another statement.
DeleteHook(h) ==
    /\ hook[h] = "deleting"
    /\ hook' = [hook EXCEPT ![h] = "gone"]
    /\ UNCHANGED <<rowVars, days, lastDay, batchVars, today, seenVars, edits, faults>>
-----------------------------------------------------------------------------
WorkerNext(w) ==
    \/ Claim(w) \/ StartRow(w) \/ Abandon(w) \/ Post(w)
    \/ RecordDelivered(w) \/ ClearStreak(w) \/ RecordRetry(w)
    \/ RecordFailed(w) \/ CountDay(w) \/ RegisterFailure(w)

Next ==
    \/ \E d \in Delivery : Enqueue(d) \/ ComesDue(d) \/ LeaseOverrun(d)
    \/ DayPasses
    \/ \E w \in Worker : WorkerNext(w) \/ DeliveryRaises(w) \/ RecordLost(w) \/ WorkerCrash(w)
    \/ \E h \in Hook : EnableHook(h) \/ DeleteRows(h) \/ DeleteHook(h)

Spec == Init /\ [][Next]_vars

\* Time passes and the loops poll for ever (process_due every few seconds).
Fairness ==
    /\ \A d \in Delivery : WF_vars(ComesDue(d))
    /\ \A w \in Worker : WF_vars(WorkerNext(w))

FairSpec == Spec /\ Fairness
-----------------------------------------------------------------------------
\* Every variable has the values its column, or local of process_due, can have:
\* among them, an attempt is only counted beyond MAX_ATTEMPTS for a fault, a post
\* only made for an attempt, and a streak never longer than the days that passed.
TypeOK ==
    /\ status \in [Delivery -> Status]
    /\ attempts \in [Delivery -> 0 .. MaxAttempts + faults]
    /\ due \subseteq Delivery
    /\ hook \in [Hook -> HookState]
    /\ lastDay \in [Hook -> 0 .. today]
    /\ days \in [Hook -> Nat] /\ \A h \in Hook : days[h] <= lastDay[h]
    /\ pc \in [Worker -> WorkerPc]
    /\ at \in [Worker -> {{}} \cup {{d} : d \in Delivery}]
    /\ \A w \in Worker :
         /\ DOMAIN held[w] \subseteq Delivery
         /\ \A d \in DOMAIN held[w] : held[w][d] \in 1 .. attempts[d]
         /\ at[w] \subseteq DOMAIN held[w]
         /\ (pc[w] = "idle") = (DOMAIN held[w] = {})
    /\ local \in [Worker -> [days : Nat, on : 0 .. today, disable : BOOLEAN]]
    /\ today \in Day
    /\ posts \in [Delivery -> Nat] /\ \A d \in Delivery : posts[d] <= attempts[d]
    /\ refused \subseteq Delivery /\ overrun \subseteq Delivery
    /\ gaveUp \in [Hook -> SUBSET (1 .. today)]
    /\ raced \subseteq Hook
    /\ edits \in 0 .. MaxEdits /\ faults \in 0 .. MaxFaults

\* "Two workers never take the same row" (claim_due): the lease keeps a row that
\* one loop is still working on from every other, unless the lease itself ran
\* out on that loop.
ExclusiveClaim == \A d \in Delivery \ overrun : Cardinality(Holders(d)) <= 1

\* The retry schedule of policy.py: a delivery is posted at most MAX_ATTEMPTS
\* times, plus once for each attempt whose outcome was lost; and one that has
\* failed, though no receiver refused it, used up the whole schedule.
PostsWithinSchedule ==
    \A d \in Delivery :
      /\ posts[d] <= MaxAttempts + faults
      /\ status[d] = "failed" /\ d \notin refused => posts[d] >= MaxAttempts - faults

\* register_failure switches a hook off only when deliveries gave up on
\* DISABLE_AFTER_FAILURE_DAYS different days since the last success or the last
\* time somebody switched it on (record_attempt, enable_webhook), unless that
\* came between its read and its write.
DisabledAfterDays ==
    [][\A h \in Hook \ raced :
         hook[h] = "enabled" /\ hook'[h] = "disabled"
         => Cardinality(gaveUp[h]) >= DisableAfter]_hook

\* A delivery that has ended stays ended: nothing sends it again.  (It may still
\* change from one end to another: outcomes are written by id.)
EndedStaysEnded ==
    [][\A d \in Delivery : status[d] \in Ended => status'[d] \in Ended]_status

\* Every queued delivery is settled, whatever crashes: delivered, failed or
\* abandoned, or removed with its hook.
EveryDeliveryEnds ==
    \A d \in Delivery : status[d] = "pending" ~> status[d] \in Ended
=============================================================================
