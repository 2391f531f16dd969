# Formal models of StockAI

StockAI (the repository `faro-lib`) forecasts demand for a company's products and turns
the forecasts into purchasing advice. Two HTTP services (`src/backend`, Python, and
`src/backend-rs`, Rust), a worker process and a web front end share one PostgreSQL
database. Almost every hard behaviour of the system comes from that: several processes
read and write the same rows, **each statement commits on its own**, and any of the
processes can die between two statements.

The other half is the browser: several tabs share a session, a phone counts stock without a
connection, and a screen submits orders over a network that loses answers.

The modules here model both at the grain of one action per committed statement (or per
statement and the reads beside it that nothing can disturb), per request, or per event a
screen handles. TLC checks them on small instances; every safety property that is checked,
TLAPS also proves for instances of any size.

## 1. Inventory

| Component | State it keeps | Operations | What makes it correct |
|---|---|---|---|
| Session state machine (`sessions/state_machine.py`, `sessions/service.py`) | `sessions.status`, `last_job_id`, `archived_at` | `transition` (reads, then writes by id), `force_status`, `archive_session`, `restore_session` | a status means what the screens take it to mean: COMPLETED has a result, RUNNING has a runner |
| Training queue (`training/queue.py`, `training/job_service.py`) | `jobs`: status, worker_id, created_at | `create_job`, `claim`, `mark_completed`, `mark_failed`, `cancel_job` | one worker per job, no waiting row is passed, the tenant's concurrent limit, no job lost |
| Training launch (`api/v1/training.py`, `sessions/family_service.py`) | the sibling sessions of a family | `start_training`, `launch_training_family`, `_enqueue` | a launch cut anywhere leaves rows the rest can handle |
| Training worker (`workers/worker.py`, `workers/runner.py`) | process-local `_running_jobs`, the thread pool, `session_results` | `recover_orphaned_jobs`, `_loop`, `_execute`, `run_training_job` | recovery fails only dead jobs, a RUNNING row is somebody's, one verdict is announced |
| Scheduled retrain (`sessions/retrain_service.py`, `sessions/schedule_runs.py`) | `scheduled_jobs.next_run`, `schedule_runs`, `sessions.scheduled_job_id` | due check, prune, create under the ceiling, link, launch, record | no two runs at once, slots reused, the app is never left blank, new data is trained in the end |
| What the app reads (`sessions/planning_service.py`) | none | `resolve_active_session` | reads the newest finished forecast |
| Webhooks (`webhooks/`, `api/v1/webhooks.py`) | `webhook_deliveries`, `webhooks.failure_days`, `disabled_at` | emit, claim under a lease, post, record, count failing days, enable, delete | every delivery is settled, the retry schedule is kept, a hook goes off for the right reason |
| Ceilings (`entitlements/service.py`, `training/daily_cap.py`) | counts, a per-tenant advisory lock | `limit_guard`, `enforce_limit`, `ensure_can_train` | a count and the write it allows are one step |
| Message outbox (`notifications/outbox.py`) | `outbound_messages` | enqueue with `dedupe_key`, expire, claim, finish | as webhooks; secrets wiped when a row ends |
| Audit stream (`audit_stream/`) | destination cursor, `lease_token` | claim, deliver, advance, replay | at least once and in order; a lost lease moves no cursor |
| Scheduled reports (`scheduled_reports/`) | schedules, runs | claim a period, build, recover stale | one run per local period, also across time-zone changes |
| Loop catch-up (`workers/loop_state.py`) | last boundary of each loop | `mark_run`, `missed_boundary` | a boundary is handled once or recorded as skipped |
| Inventory sync (`inventory_sync/`) | profile lease, run ledger, staging | claim, renew per batch, resume, brake | two runs never write one profile |
| ERP order feed (`po_erp/`) | `erp_feed_seq`, acknowledgements | page after a cursor, acknowledge | no change is skipped by the cursor |
| Sign-in of a browser (`Frontend/src/lib/auth.ts`, `lib/api.ts`, `AuthGuard.tsx`; `api/v1/auth.py`) | localStorage and sessionStorage tokens, `_refreshing`, `_authEpoch`; `refresh_tokens`, the block list | `setAuth`, `clearAuth`, `tryRefresh`, `answerPeer`, `endSession`; login, refresh, logout, reset | one log-out for all tabs, no renewal revives a session, every waiting request is answered, no redirect loop |
| Purchase order (`inventory/reception_service.py`, `po_cancel_service.py`, `po_payment_service.py`) | `inventory_po_log`, `inventory_po_items`, `inventory_stock`, `supplier_lead_time_obs` | send, receive, pay, cancel and the undo of each | header, lines, stock and learned lead times agree; the marks of an order do not contradict each other |
| Ordering from the cart (`Frontend/src/app/compras/page.tsx`; `api/v1/inventory.py` `log_po`, `inventory/roi_service.py`) | the cart, `pendingSubmission`, the price-break panel; `idempotency_key`, `po_number` | edit, step up, submit, retry; replay, number, write | one order per intent, each decision logged once, the screen names the right order |
| Stock count (`Frontend/src/app/conteo-fisico/`, `lib/stockCountDevice.ts`; `inventory/stock_count_service.py`) | the queue of each screen and the one in the phone's storage; `stock_counts`, `stock_count_lines`, `stock_count_ops` | scan, flush, remove, leave, enter; upsert, delete, close, cancel, apply | no scan lost or counted twice, applying is exact |
| Rust API, SSO/SCIM/MFA, billing/trial, ingest connectors, assistant/AI, ForecastingCore, the other screens, SDK, MCP server, deploy | see `PROJECT.json` | | |

**How they interact.** A launch (from a person, the scheduler thread or the e-mail ingest)
inserts sessions and jobs; a worker claims jobs, trains in a thread, writes the result and
both status columns, and emits webhooks; a person can cancel, delete, rename, relaunch or
replace the file at any moment; the app reads whatever `resolve_active_session` finds. There
is no message queue and no notification: everything is polled from tables. A buyer turns the
app's advice into an order on one screen; the order is sent, received and paid through others;
receptions, write-offs and counts all write the same stock rows, under the tenant's advisory
lock or by one conditional UPDATE. Every one of these screens sends its requests through the
session of the browser.

**Hard behaviours.** Reads used after another process wrote (a stale `transition`, a
cancel's check, the failure streak of a hook); two writes that belong together with a crash
in between (job and session, session and its schedule marker); leases that run out on a
worker that is only slow; recovery that must tell a dead job from a sibling's live one;
deletion that became archiving, and queries that did not follow; checks made before a lock and
used under it; answers that are lost while the request goes on, and what the screen repeats
then; a screen that is left and goes on; events between tabs that come late or not at all. Each is listed, at the line
where it bites, in `PROJECT.json` under `hazards`.

## 2. Modules

| Module | What it models |
|---|---|
| `SessionStates` | the transition table of the training half of a session's life |
| `TrainingQueue` | launches, cancels, workers, their recovery and their threads over `jobs` and `sessions` |
| `AtMostOnce` | what the queue promises about one job: executed at most once, by one worker |
| `MCTrainingQueue`, `MCTrainingRecovery` | two instances of `TrainingQueue` |
| `TrainingQueueProofs` | types, ownership, results, verdicts, the order of starts and the attendance of RUNNING rows, proved |
| `TrainingQueueRefinement` | `TrainingQueue` implements `AtMostOnce`, proved |
| `ScheduledRetrain` | one schedule: the launcher, the training of its runs, the persons around it, the app's reading |
| `ScheduledRetrainProofs` | types, the dedupe, the prune and the two slots, proved |
| `WebhookDelivery`, `MCWebhookDelivery` | delivery rows, loops with their batches, hooks and their failure streak |
| `WebhookDeliveryProofs` | types, leases, the retry schedule and the streaks, proved |
| `AuthTabs`, `MCAuthTabs` | the session of one browser over several tabs, and the server's half of it |
| `AuthTabsProofs` | types and the end of a session in every tab, proved |
| `PurchaseOrder`, `MCPurchaseOrder` | one order: its lines, header, marks, stock and lead time, and the requests on it |
| `PurchaseOrderProofs` | types, the accounts and the marks of an order, proved |
| `OrderSubmission`, `MCOrderSubmission` | a cart, its price-break panel, its submissions and the server's numbering of orders |
| `OrderSubmissionProofs` | types, keys, intents and the log of decisions, proved |
| `StockCount`, `MCStockCount` | one count: the phones' screens and storage, the server's lines, and applying it to moving stock |
| `StockCountProofs` | types, the fate of each scan, the total of each line and applying, proved |

`ScheduledRetrain` does not instantiate `TrainingQueue`: it needs of a job only that it is
queued, taken, and ended in some way, so it has a two-action worker of its own
(`TrainingStarts`, `TrainingEnds`) whose outcomes are those of the queue's threads:
COMPLETED, FAILED, or ended with a session nobody could write. Both modules share
`SessionStates`.

### Correspondence

*TrainingQueue.* `status`, `owner`, `born` are columns of `jobs`, `sess` of `sessions`;
`result` is the stored training result. `born` is `created_at`, which is `NOW()` and so the
start of the inserting transaction, not its commit: `LaunchBeginInsert` takes the stamp,
`LaunchCreateJob` is the commit that makes the row visible, and between the two the base job
of a launch may wait for the tenant's lock for as long as others hold it. The observer `unseen`
keeps, for a claimed row, which older rows were not committed yet. `launching`/`current`, `cancelling`,
`worker`/`excluded`/`orphans`/`fixing` and `thread` are the program counters and local
variables of `start_training`, `cancel_job`, the worker process and `run_training_job`.
`LaunchCreateJob`, `LaunchLinkJob` and `LaunchWriteQueued` are the three statements of
`_enqueue` (`sessions.last_job_id`, which nothing modelled reads, is left out), with the status that `transition` read in between kept, so that its write can be
stale. `WorkerPoll` and `WorkerTakes` are the two statements of `claim`: which tenants are
at their limit, and the `UPDATE ... SKIP LOCKED` itself. `RecoverJob` and `RecoverSession`
are the two writes of the recovery for each orphan; `RecoveryRaises` is a statement of it that
raises, after which `_run` enters the poll loop with its orphans as they are. `SaveResult`, `MarkCompleted`,
`CompleteSession`, `Announce` and `MarkFailed`, `FailSession` are the tail of
`run_training_job` in its order. A write that raises is a fault of a named kind
(`session_write`, `job_write`, and `job_read` for the query of the recovery), bounded by
`MaxFaults`. `LaunchCountActive` folds the gates
of a launch (active jobs, configuration, data gate) into one accept-or-refuse.

*ScheduledRetrain.* `state`, `linked`, `archived` and `updates` are the columns of the
schedule's sessions (`updates` is the order of `updated_at` among COMPLETED rows, all the
code ever asks of it); `history` is the launched rows of `schedule_runs`; `data` numbers the
contents of the file, and `content` is what a run read. `Due` is `_launch` up to the prune:
its skips change nothing that is modelled, so a skipped call is a call that does not start.
The prune is three actions, the read of the serving run, the read of the rest, and one write
per row, because sessions move between them. `archived` keeps who archived, as the table does.

*WebhookDelivery.* Times are kept as what the code compares: a row is `due` or not, and a
failure falls on a day. `held` is a worker's claimed batch with the attempt number its claim
returned, `at` the row it is working on. `Claim` takes any batch the query can return (the
order by `next_attempt_at` is abstracted). Every UPDATE by id overwrites whatever another
worker recorded, as in the code. `DeliveryRaises` is the catch of `process_due`, which records
one more failed attempt for a row whatever statement raised, and `RecordLost` the catch
inside it.

*AuthTabs.* `token` and `user` are localStorage, `refresh` and `rejected` the sessionStorage
of each tab; tokens and sessions are numbers in the order of their issue. `attempt` is
`_refreshing` with the refresh token (or the token to be replaced) it was started with, and
`clean` stands for `epoch === _authEpoch`. `events` holds the storage events a tab has not
handled (those it would ignore are left out), `channel` the BroadcastChannel messages in any
order, `lock` the Web Lock that serialises the answers. `page` says where the tab is: a
request out, waiting for a renewal, retrying, the AuthGuard's wait, the login screen. `old`
and `revoked` are the two reasons the server refuses a token. `Discard` and `Restore` are a
browser that drops a background document (its sessionStorage stays) and loads it again.

*PurchaseOrder.* `received`, `status`, `receivedAt` and `stamp` are columns of the order and
its lines, `lessons` the rows this order has in `supplier_lead_time_obs`, `stock` the rows of
`inventory_stock`. `clerk` is a request: which statement comes next, the lines it `seen` and
the quantities it `plan`s to write. A reception and its undo are three steps (header, lines,
transaction), the others two (check, conditional UPDATE). The observer `late` names the
writes that were made although what the request had checked was no longer so.

*OrderSubmission.* `cart` is the screen's list; `pending` is `pendingSubmission`, with the
decisions in place of their JSON signature; `requests` are the HTTP requests with the place
the server has reached in each (`sent`, `keyless` after the look-up of the key, `numbered`
after the number was computed, then answered, conflict or failed); `orders` is
`inventory_po_log` in commit order. `HearNothing` ends the screen's wait without ending the
request. `offers` is what the price-break panel shows: `EvaluatePriceBreaks` is its answer,
`ApplyStepUp` its button, which does not ask whether the line was ordered meanwhile, and the
panel goes only when nothing is approved any more or the changed cart has been evaluated. The
observer `stepped` names the lines stepped up after they were ordered. The observer `intent` counts what the buyer means as different orders: it moves on
when a submission is confirmed or the cart differs from the one submitted last.

*StockCount.* `queue` is the queue of the open screen and `saved` the one in localStorage, which
every `commit` writes: scans are numbered in the order they are
made and are only appended, so the set of their numbers says it all, and the one `flush` takes
first is the least it may send. `flagged` is the refused scans of the phones, `flight` the
one request `flush` waits for, `strays` and `deletes` requests nobody waits for any more. `left`
holds the screens that were left (`Leave`) with a request or a look-up under way: they go on
with a queue of their own (`LeftHearAccepted`, `LateScan`, ...) and save it under the same key as
the screen entered since (`Enter`). `removed`, `rejected`, `overwritten` and `swept` are
observers: what a person removed, what was refused, what another screen's save took out of the
storage, and what was deleted with a line by somebody who did not know of it. The handlers of
the server lock the count's row, so each is one step; `apply_count` is two, since write-offs
take no lock. `line` keeps, as an observer, the scans that made each line.

### Order of the plan

1. Queue, worker, launch, cancel; `AtMostOnce`; type and ownership proofs. *(done)*
2. Scheduled retrain with its proofs. *(done)*
3. Webhook delivery, with its proofs. *(done)*
4. The protocols of the front end with the server: session, order, cart, count, with their
   proofs. *(done)*
5. Outbox and audit stream. Both are lease queues; an abstract `LeasedQueue` (a row is
   settled at least once, and no settled row is taken again) is worth stating, with
   `WebhookDelivery` and the outbox shown to implement it, and a cursor specification (every
   record delivered, in order, repeats allowed) for the audit stream.
6. Scheduled reports and loop catch-up: one run per period; handled or recorded as skipped.
7. Test deliveries in the webhook runs; the re-forecast mode of a schedule; a non-atomic
   delete; the archive branch of a launch whose job was already inserted.
8. Proofs worth adding: `LeasedQueue` and the refinements of item 5, step by step.

## 3. What is checked

Every passing run finishes; the bounds are constants of the specifications.

| Run | Instance | What it shows |
|---|---|---|
| `queue_safety` | one session launched twice (two jobs), two workers of capacity 1, the first job cancellable, one fault of any of five kinds | `ExclusiveExecution`, `OrphansAreDead`, `CompletedSessionHasResult`, `OneVerdict`, `PassedOnlyUnseen`, `RunningSessionHasRunner` |
| `queue_recovery` | one launch that fans out to two sessions, a plan of one concurrent job, two workers, two faults (crashes, lost writes of a job's end, recoveries that raise) | `LeftOnlyByLostWrite`, `EveryJobEnds`, and that the queue implements `AtMostOnce` |
| `retrain` | one launcher, up to five runs, two edits, two faults of any of six kinds, a ceiling of four sessions of which one is taken | `OneAtATime`, `ScheduleBoundedAtTwo`, `PruneNeverBlanks`, `CatchesUp` |
| `webhooks` | one hook, two deliveries, two loops, batches of two, two attempts, off after two failing days, two days, one edit, one fault | `ExclusiveClaim`, `PostsWithinSchedule`, `DisabledAfterDays`, `EndedStaysEnded`, `EveryDeliveryEnds` |
| `auth` | two tabs, one person, one sign-in, two access tokens (one renewal), one discarded document, any expiries, resets, log-outs and orders of events | `LogoutReachesEveryTab`, `OnlyTheUntoldRevive`, `EveryRenewalSettles`, `NoLoginLoop` |
| `order` | one order of two units of one article and one of another, two requests at a time, two undos, one sale | `StatusMatchesLines`, `LessonIffComplete`, `OnlyLateWritesDrift`, `OnlyLateMarksContradict` |
| `order_submit` | two articles in one quantity, three changes of the cart, three submissions, one order of another user | `OneOrderPerIntent`, `EachDecisionLoggedOnce`, `MissingLinesWereReopened` |
| `count` | one phone, one article, two scans, one reload, the screen left once | `NothingDropped`, `EachScanCountedOnce` |
| `count_apply` | the same phone and article, of one unit, two scans or typed totals of 0, one move of stock | `ApplyIsExact`, `EveryScanIsSettled` |

**Why the bounds are enough.** Two workers and two jobs are what every race in the queue
needs: a race is between two claims, a claim and a recovery, or a request and a thread. Two
launches of one session give every interleaving of a relaunch with a cancelled run, and of an
insert that waits for the lock with one that overtakes it; a
family of two under a limit of one makes a job wait for its sibling. One fault meets every
program point; two let a worker die again while it recovers. A schedule needs three runs to
have one serving, one pruned and one in training; two more let each fault or edit cost a
run. The ceiling of four is above what the schedule needs (so that `ScheduleBoundedAtTwo`
is not true just because the plan refuses) and low enough to be reached after two crashes.
In the webhook run the two attempts have one retry, and two failing days on either side of
a midnight, a success or an enable are what the streak is about. `Test` is empty there: test
deliveries are in the module but in no run yet.

With two tabs one asks and one answers, one logs out and the other must hear of it, or one is
discarded; two tokens are one renewal, and a second sign-in would only start the same again. An
order of two lines tells complete from partial and lets a return fail on one row only; two
requests are every race between a read and a write; two undos give back, receive again and give
back again. Three submissions are a first, its retry and one more while a request of each is at
the server, and the third change of the cart restores what the first rejected. One quantity is
enough there: a line that was changed reads `modified` and one that was not `approved`, so the
carts still differ; the proofs have any set of quantities. Two scans keep one waiting behind
another. One phone is enough for its queue; scans of a second one meet only in `upsert_line` and
`delete_line`, which hold the count's row, and the requests a reload leaves behind are served in
any order beside the new ones. Leaving once gives two screens with two queues over one storage;
the reload then shows what the storage has. The proofs have no bound on phones, exits or
reloads. `Len(issued) < MaxToken` lets the server stop renewing; a renewal that then fails is
one of its ordinary outcomes.

**Reading the properties.** Some name their exceptions, and each is a fact about the code:

- `PassedOnlyUnseen` says that a waiting job is passed by a younger one only when its own row
  was not committed at that one's claim. Full arrival order does not hold (see the divergences).
- `LeftOnlyByLostWrite` says that only two steps leave a RUNNING row to nobody: a `mark_failed`
  that raises in its thread, and a start-up recovery that raises. A later start of that worker
  repairs either; while it lives, only a person's cancel does.
- `EveryJobEnds` says what such a row costs: the job itself, and the waiting jobs of its tenant
  when rows of that kind fill the plan's limit, since `_tenant_at_concurrent_job_limit` counts
  them. Every other queued job ends.
- `RunningSessionHasRunner` holds while nothing has failed. After a failed or interrupted
  session write a session can read RUNNING with no job behind it, and no recovery looks
  for it.
- `ScheduleBoundedAtTwo` allows one more row for each archive that failed and each launch
  cut short: a run whose launcher died before the row read QUEUED can have a job and still
  look idle to the due check.
- `CatchesUp` says that in the end the app reads a forecast of the current file, unless the
  schedule is `Wedged` (a session left in QUEUED or RUNNING by a run that has ended makes
  `in_flight_session` skip for ever), lost its last slot to a half-made session (`SlotLost`),
  or takes an archived run for a served one (`CountsArchived`).
- `DisabledAfterDays` excludes hooks whose streak was cleared between the read and the write
  of a `register_failure`, and `ExclusiveClaim` rows whose lease ran out on a slow loop.
- `LogoutReachesEveryTab` and `OnlyTheUntoldRevive` except a tab whose removal event is
  still pending and one that was discarded while the session ended.
- `OnlyLateWritesDrift` and `OnlyLateMarksContradict` say that only a write whose reads were
  out of date can break the accounts of an order or the consistency of its marks: for every
  other interleaving, undo and failure they hold. What the out-of-date write does is shown by
  `order_undo`; the like of it for receptions (two of "everything arrived" book an order twice)
  and for the marks (an order is cancelled between the check and the UPDATE of a payment) is
  in the same state space.
- `EachDecisionLoggedOnce` speaks of orders the screen heard of. A cart that is changed after
  an answer was lost is another intent: its order and the unheard one can share articles.
- `MissingLinesWereReopened` names two ways in which a line is marked as ordered without being
  on its order: it was rejected with an earlier order and restored, or the price-break panel put
  it back into the cart after it was ordered. Both keep `decision_logged`, so the next order
  leaves the line out; there is no third.
- `NothingDropped` names two ways out of the phone's storage besides being counted or removed. A
  screen that was left saves its old queue over a newer scan, or the open one saves over a scan
  recorded late on the other (`overwritten`); such a scan is still in the memory of its screen
  and may be sent from there, so it is not always lost. And the DELETE of a line takes along
  what the line counted by the time it is served (`swept`): scans made after the person removed
  the line, and those of other phones. Their references stay in `stock_count_ops`.
- `EachScanCountedOnce` takes the scans of a phone in their order, except scans a person
  removed or dismissed, that were refused, or that another screen's save took out of the
  storage, whose request still arrived later.
- `ApplyIsExact` leaves out the articles written off between apply's read and its write.
- `EveryScanIsSettled` holds while the screen is open, and its run does not leave or reload it;
  with the count closed a scan left on a phone stays in its queue until somebody opens that
  count again.

**Where documentation and code differ.** Three runs expect a violation; `PROJECT.json`
quotes the sentence each of them refutes.

| Run | What TLC finds |
|---|---|
| `order_undo` | an undo writes from lines it read before the lock: stock and lines part |
| `count_offline` | the system quantity is that of the scan's arrival, so a reception before it is taken out again on apply |
| `cart_restored` | a line rejected with one order and restored for the next is marked as ordered but not sent |

**Divergences without a run.** These follow from the actions of the modules, or are the exceptions
their properties name, and are recorded here:

- a job that ends between the check and the write of `cancel_job` (`job_service.py:70-79`) is
  flipped to CANCELLED, which `tests/test_edge_cases.py:1062` asserts against;
- a session stays QUEUED for ever when its run ends before the launch's stale write
  (`family_service.py:172-177`; `docs/public-api.md:234` has clients poll until COMPLETED or
  FAILED);
- a job inserted while `claim` runs is taken above the tenant's limit (`queue.py:70-90`;
  `worker.py:85` says it must wait);
- the siblings of a run carry no schedule marker and pile up (`family_service.py:299`;
  `retrain_service.py:28-31` says a schedule is bounded at two);
- a run a person deleted still counts as the training of today's data
  (`schedule_runs.py:57-73` says it does not);
- a renamed older run is taken to be the serving one (`retrain_service.py:82-90`);
- a failure streak cleared by an enable comes back through a write computed before
  (`webhooks/service.py:508-525`, `api/v1/webhooks.py:191`);
- a job's `created_at` is fixed when its transaction starts, and the base job of a launch then
  waits for the tenant's advisory lock (`family_service.py:168-170`,
  `entitlements/service.py:172-175`), which sibling jobs do not take: a younger job can be
  committed and claimed first (`queue.py:3`: "Dequeue uses ORDER BY created_at to preserve arrival
  order");
- a screen of a count that was left saves its old queue over what the screen entered since has
  stored, and a reload before the next save loses the newer scan (`CountScan.tsx:82-86`, 133, 395;
  `stockCountDevice.ts:6-8`: "A scan is never dropped: it leaves the queue only when the server
  accepted it");
- the DELETE of a line takes with it what was counted while it travelled, and by other phones
  (`stock_count_service.py:276-279`; the same sentence);
- the price-break panel still offers a step-up for a line that was just ordered, and taking it up
  puts the line back into the cart (`page.tsx:1204-1215`; 1336: "The lines just ordered leave the
  cart for good");
- a tab whose document was discarded is not told of a log-out; restored, it renews with the
  refresh token it kept (`auth.ts:85-94`, `AuthGuard.tsx:47`; `auth.ts:80-84` says another tab
  used to undo a log-out and must surrender its token).

### Fairness

- *Queue.* The worker container restarts (`restart: unless-stopped`, with a fixed
  `WORKER_ID`, `src/deploy/docker-compose.prod.yml`), its loop polls for ever, and a training
  ends or raises: weak fairness for each worker's and each thread's own steps. A launch or a
  cancel is a request that may die: fairness only while it lives. Crashes and faults are
  never fair.
- *Schedule.* The scheduler thread polls for ever and `next_run` is advanced only after a
  launch returned, so a schedule becomes due again whatever the last call did: weak fairness
  of the launcher's steps and of each run's training. Nothing is assumed of persons.
- *Webhooks.* The loops poll every few seconds and clocks advance: weak fairness of each
  loop's steps and of a row becoming due. Days need not pass.
- *Session.* A fetch settles and a timer fires: weak fairness, per tab, of the end of a
  renewal (`Progress`). The delivery of events and messages between tabs is not fair: that
  every renewal settles must not depend on it, and does not. Nor are people, expiries and
  discards.
- *Count.* The 12-second timer calls `flush` again and again (weak fairness); a network that
  keeps being tried does not lose every request nor every answer (strong fairness of being
  served and of hearing it, since each can fail in between).
- The order and the cart are checked for safety only: nothing obliges a person to go on.

## 4. What is proved

All proofs are about the specifications without fairness, for any values of the constants
that satisfy the assumptions of the module, which say only what the code or the meaning of a
bound says:

| Assumption | What it says |
|---|---|
| `TrainingQueue!ConstantsAssumption` | the set of jobs is finite, functions have their domains, a family's base job is none of its siblings, a worker has room for one job |
| `ScheduledRetrain!ScheduleAssumption` | at least one run, and counts and bounds are numbers |
| `WebhookDelivery!DeliveryAssumption` | finitely many deliveries and loops, each delivery has a hook, batch, attempts and threshold are at least 1 |
| `AuthTabs!BoundsAssumption`, `PersonAssumption` | bounds are numbers; nobody is not a person |
| `PurchaseOrder!OrderAssumption`, `BoundsAssumption` | an order has finitely many lines and at least one, each of at least one unit; bounds are numbers |
| `OrderSubmission!QuantityAssumption`, `BoundsAssumption` | the recommended quantity is one that can be chosen, none is zero; bounds are numbers |
| `StockCount!QuantityAssumption`, `BoundsAssumption` | stock and scanned amounts are numbers; so are bounds |

Three theorems have a hypothesis of their own. `SingleLauncher` (the scheduler is the only
caller of a schedule) is needed by `OneAtATime`, `ScheduleBoundedAtTwo` and
`PruneNeverBlanks`: the check and the launch are not one step, and two launchers pass it
together. The e-mail ingest can be a second one; that is listed as a hazard.
`ScheduleBoundedAtTwo` also needs `FanOut = 0`: the siblings of pruned runs pile up. The runs
check all three under the same conditions.

| Theorem | Statement |
|---|---|
| `TrainingQueueProofs!TypeCorrect` | `Spec => []TypeOK` |
| `TrainingQueueProofs!OwnershipInvariant` | the inductive invariant `Ownership` |
| `TrainingQueueProofs!ExclusiveExecutionHolds` | no job is ever inside two workers |
| `TrainingQueueProofs!OrphansAreDeadHolds` | recovery never fails a job that is being executed |
| `TrainingQueueProofs!CompletedHasResultHolds` | a COMPLETED session has a result |
| `TrainingQueueProofs!OneVerdictHolds` | a job is announced as completed or as failed, never as both |
| `TrainingQueueProofs!PassedOnlyUnseenHolds` | within a tenant a waiting job is passed only while its row is not committed |
| `TrainingQueueProofs!LeftOnlyByLostWriteHolds` | only a lost write of its end leaves a RUNNING row to nobody (an action property) |
| `TrainingQueueProofs!RunningSessionHasRunnerHolds` | until something fails, a RUNNING session is being trained |
| `TrainingQueueRefinement!QueueImplementsAtMostOnce` | every step is a step of `AtMostOnce` or a stutter |
| `ScheduledRetrainProofs!TypeCorrect` | `Spec => []TypeOK` |
| `ScheduledRetrainProofs!OneAtATimeHolds` | one run at a time |
| `ScheduledRetrainProofs!ScheduleBoundedAtTwoHolds` | two families at most, and one more for each loss |
| `ScheduledRetrainProofs!PruneNeverBlanksHolds` | the prune leaves something to read (an action property) |
| `WebhookDeliveryProofs!TypeCorrect` | `Spec => []TypeOK` |
| `WebhookDeliveryProofs!ExclusiveClaimHolds` | no row in two batches, unless its lease ran out |
| `WebhookDeliveryProofs!PostsWithinScheduleHolds` | posts are bounded by the schedule and the faults |
| `WebhookDeliveryProofs!EndedStaysEndedHolds` | an ended row stays ended (an action property) |
| `WebhookDeliveryProofs!StreakInvariant` | the inductive invariant of the streaks |
| `WebhookDeliveryProofs!DisabledAfterDaysHolds` | a hook is switched off for the right reason (an action property) |
| `AuthTabsProofs!TypeCorrect` | `Spec => []TypeOK` |
| `AuthTabsProofs!LogoutReachesEveryTabHolds` | no tab that was told keeps a refresh token |
| `AuthTabsProofs!OnlyTheUntoldReviveHolds` | no tab that was told revives a session (an action property) |
| `PurchaseOrderProofs!TypeCorrect` | `Spec => []TypeOK`: no quantity and no stock below zero |
| `PurchaseOrderProofs!StatusMatchesLinesHolds` | the header says what the lines say |
| `PurchaseOrderProofs!LessonIffCompleteHolds` | the lead time is learned once, by complete orders |
| `PurchaseOrderProofs!OnlyLateWritesDriftHolds` | stock and lines part only by late writes |
| `PurchaseOrderProofs!OnlyLateMarksContradictHolds` | the marks contradict each other only by late writes |
| `OrderSubmissionProofs!TypeCorrect` | `Spec => []TypeOK` |
| `OrderSubmissionProofs!OneOrderPerIntentHolds` | one order per intent |
| `OrderSubmissionProofs!EachDecisionLoggedOnceHolds` | each decision is logged once |
| `OrderSubmissionProofs!MissingLinesWereReopenedHolds` | ordered lines are on their order, but for restored and stepped-up ones |
| `StockCountProofs!CountInvariant` | the inductive invariant of the count |
| `StockCountProofs!TypeCorrect` | `Spec => []TypeOK` |
| `StockCountProofs!NothingDroppedHolds` | a scan is stored, counted or removed, or went in one of the two named ways |
| `StockCountProofs!EachScanCountedOnceHolds` | a line is the total of its scans, each once and in order |
| `StockCountProofs!ApplyIsExactHolds` | applying moves the stock by the difference (an action property) |

**The arguments.** Each property is a part, or a consequence, of an invariant that every
action keeps; what has to be added to the property says why the code works.

*Queue.* `ExclusiveExecution` and `OrphansAreDead` are not inductive: nothing in them says why
a row that is QUEUED has no thread yet. `Ownership` adds it: an executed job is a claimed row
of the worker that executes it, a RUNNING row has an owner, what a recovery has selected is
owned by the worker that recovers (which then executes nothing), and only a row that exists is
being cancelled. A claim needs QUEUED and sets the owner, and no write ever goes back to
QUEUED, so ownership is assigned once. `CompletedSessionHasResult` needs the order in the
thread (a thread past `SaveResult` has stored a result, and results are never removed) and that
no other writer says COMPLETED. `OneVerdict` follows from `AnnouncedIsOver`: an announced job
is past QUEUED and inside no worker, so there is no second thread to announce it.
`PassedOnlyUnseen` needs that the stamps of transactions differ and are taken before the row is
there (`StampsDiffer`, `PendingStamped`), and that a claimed row never waits again and had
every older row that is still absent among its unseen (`ClaimedOnce`). `LeftOnlyByLostWrite` needs the
order in the thread (`WrittenIsFinal`): a thread that has written the end of its row, whichever
end, leaves it in a state that is not RUNNING, so a thread that leaves without a fault leaves
nothing behind; a crash or a restart does not, since a worker that is down is one that will look
again. The refinement maps a job to "executing" when
some worker has it, to "waiting" when its row is QUEUED, and otherwise to "over"; each action
changes the phase of one job at most, and a crash those of one worker.

*Schedule.* `OneAtATime` rests on `Dedupe`. The due check sees a run only once its session is
linked and reads QUEUED or RUNNING, so the invariant says what the launcher knows at each
place: a run the history shows as launched has a session that exists; while its job may run,
its session reads QUEUED or RUNNING (*recorded is visible*); nothing recorded runs while a
launcher is between its due check and its own record; and the launcher's own run is the newest.
`PruneNeverBlanks` adds `Pruning`: a session is COMPLETED only when its job has ended and its
`updated_at` was written, so there is always a last one; the one row spared stays COMPLETED
while the others are archived, and no step of the schedule archives it.
`ScheduleBoundedAtTwo` cannot be counted on directly, since a row may be left behind long
before it is in the way. `Slots` keeps, for each archive that failed and each launcher that
crashed, the one row it left behind (a set `X` no larger than the number of those faults): all
other rows are, at every moment, two at most. The crash that matters is the one after the job
was inserted and before the session reads QUEUED, which is the only way a queued job outside `X`
escapes the next due check.

*Webhooks.* `RowInv` states the lease (a row that is due is in no batch and no row is in two)
together with the accounts of attempts: each claim has a number of its own, each attempt is
posted at most once, and one that was not posted is under way or cost a fault. With it
`failed` is only written by an attempt that used up the schedule. `StreakInv` backs every
number a hook or a `register_failure` in progress holds by as many days on which deliveries
were given up.

*Session.* What makes a log-out reach every tab is that a tab which has the token's removal
still before it is the only one, besides a discarded one, with a renewal whose answer would be
used (`OnlyUntoldRenew`, by the epoch), and that nothing is under way in or towards a document
that is gone (`GoneIsQuiet`).

*Order.* `Accounts` adds to the properties what a request has planned: a reception names no
more than was outstanding in the lines it read, an undo gives back all of what it saw. A write
whose reads still hold then keeps lines, header, stock and lesson together; any other is
recorded in `late`.

*Cart.* A key stands for one set of decisions (`KeysFit`), an intent uses one key as long as
the screen has it (`IntentsFit`), and orders are numbered without a gap, one per key
(`OrdersFit`). Hence one order per intent, and the number a request answers with is that of the
order with its lines. What is in the cart then fits the orders heard of (`CartFits`): a line whose
decision is logged is on an order the screen knows, or was reopened.

*Count.* Every screen, open or left, queues a scan together with those its phone made before
that still wait (`QueuesInOrder`), and sends it only when those were answered, refused, removed or
overwritten (`SentInOrder`), so the server takes them in order. `Stored` and `Shown` say that the
storage, and the open screen, have all scans of the phone that still wait: a save by one screen
takes out only what the observer records. `AcceptedIsLogged` and `LoggedIsAccepted` tie the
references to the lines: what was accepted is in its line unless it went with that line. That a line's amount is the total of its
scans is a statement about a recursive sum; the invariant says it without recursion, that there
is a sequence of running totals ending in the amount (`Adds`), and a scan extends that sequence
by one place. That such a sequence ends in `Total` is shown by the least place where the two
would differ.

**Only model-checked.** Liveness: `EveryJobEnds`, `CatchesUp`, `EveryDeliveryEnds`,
`EveryRenewalSettles`, `NoLoginLoop` and `EveryScanIsSettled`, since proofs about fairness and
ENABLED are outside this prover's reach; and the three runs that expect a violation. Every
invariant and every action property of the passing runs is proved. Induction over data has no
general form here, but where it was needed (the total of a line, the last update among rows)
the least counterexample served.

## 5. What is not modelled, and why

- The training itself (data loading, models, metrics) is one step that succeeds or raises.
- `MOCK_TRAINING` and the deprecated `claim_specific` shim: they do not run in production.
- Re-forecast mode, SQL-backed schedules and their snapshots; restoring an archived session;
  the choice of grain by a tenant; several schedules sharing one tenant's ceiling (they
  appear only as `OtherSessions`).
- In a schedule: a launcher that dies half-way through the siblings; a launch that fails
  after its job row was inserted (its run is archived while the job trains); an archive that
  fails in the refusal branch; a file replaced by another and then put back.
- Warehouse scopes of webhooks, their validation and the once-per-transition scans. The hook's
  row and its subscribers are read in one statement; the receiver is free to answer anything.
- SSO, SCIM, MFA, API keys, sign-up and the trial's end; a browser without BroadcastChannel
  or Web Locks; two people on one browser at once; the token's 30-second margin (a token is
  old from then on, and the server may accept or refuse it).
- Approval chains, supplier confirmations, returns and transfers of an order; a send that
  reaches only some suppliers; the Rust ports of the same requests, which have the same steps.
- Orders without a key: the export that is recognised by its content (`roi_service.py:211`,
  two at once both write), the conversion of a single recommendation, whose key does not
  survive a failed attempt (`page.tsx:1426-1433`), and orders written by hand. A reload of the
  purchasing screen, which forgets the cart and the key. Destinations, cost centres, budgets,
  suppliers and unit prices of a cart, which are part of its signature only: a step-up sets its
  quantity here, and a cart that differs in them alone is taken for the same.
- The phone's catalogue and camera, the count's scope, the review screen; a browser that
  cannot store the queue (the screen then warns); two tabs of one browser on the same count, and
  leaving the screen while its closing dialog is open; leaving or reloading in the liveness run; an
  article deleted while it is counted (it
  is one of the ways a scan is refused).
- Most of the TypeScript is screens that fetch, format and draw, and texts in several
  languages: no state to check outlives a render there. The front-end modules take the parts
  that run a protocol, which are a small share of its lines.
- The components marked `not_modelled` in `PROJECT.json`, each with its reason there.

## 6. Running it

`tlc -config MCTrainingQueue.cfg MCTrainingQueue.tla` and likewise for the other pairs listed
under `runs` in `PROJECT.json`; `tlapm TrainingQueueProofs.tla` for the proofs, and likewise for
`TrainingQueueRefinement`, `ScheduledRetrainProofs`, `WebhookDeliveryProofs`, `AuthTabsProofs`,
`PurchaseOrderProofs`, `OrderSubmissionProofs` and `StockCountProofs`.
Operators named "Mutant of ..." in the modules are wrong variants of a definition, kept to
see that each property can be violated; no specification uses them.
