# Helvetic Lens in TLA+

Specifications of the Helvetic Lens backend (`services/api/helvetic_lens`), the
TLC configurations that check them on small instances, and proofs checked by
TLAPS. The repository's code is the reference: each definition translates code,
and `PROJECT.json` (`map`) names the lines.

## The system and its parts

Helvetic Lens is a modular monolith on one host. PostgreSQL is the source of
truth; Redis and Celery carry work out of the web process; beat fires periodic
tasks; a private model manager serves local models.

| Part | State it keeps | Operations | Interacts through |
| --- | --- | --- | --- |
| Durable jobs (`jobs.py`, `ai_dispatch.py`, `dispatch_turns.py`) | `jobs` rows (state, attempts, cancel flag, lease owner, clocks), `outbox_messages` rows | enqueue, claim, heartbeat, progress, complete, fail, defer, yield, cancel, retry, reconcile, dispatch | row locks, the advisory lock of the dispatcher, the broker |
| Celery wiring (`celery_app.py`, `worker_supervisor.py`, `monitoring_queues.py`) | envelopes in Redis, unacknowledged deliveries | `run_job`, `dispatch_outbox` (2 s), `recover_jobs` (30 s), schedulers | late acknowledgement, rejection of lost workers |
| Application service (`service.py`) | everything else of the public product | `execute_job`, `cancel_job`, `retry_job`, admissions | unlocked `session.get` transactions |
| Interest briefs (`interest_jobs.py`, `interest_execution.py`, `interest_assessment_store.py`, `interest_admission.py`, `interest_recovery.py`) | brief assessments, admission batches | execute under a lease fence, close unfinished, recover | jobs, dispatcher |
| Digests (`digests.py`) | preferences, deliveries, checkpointed selection | schedule, prepare batches, deliver, quiet hours | jobs, SMTP |
| Connector synchronization (`synchronization.py`, `connectors.py`) | schedules, runs, the cursor of a stream, pages with their items, receipts | due schedule, "Sync now", run a page, store an item, fan out, fail | jobs, official sources, the feeds of users |
| Source claims (`*_acquisition.py`, `*_runtime.py`) | per-source claim tickets with a lease and a backoff | claim, publish, release | periodic tasks |
| Domain e-mails (`*_delivery.py`) | delivery rows and attempts | admit, send, retry | jobs, SMTP |
| Product investigations (`product_investigations.py`, `product_investigation_worker.py`) | runs with a generation and steps | admit, step, exhaust, cancel | jobs, model |
| Feed worker (`feed_worker.py`, `feed_operations.py`, `feed_api.py`) | feeds, checks with a checkpoint, retained updates, assessments | start a check, plan, search, read, judge, record, edit the feed | jobs, searches, publishers, the model |
| Accounts (`auth.py`, `account_*`) | sessions, recovery tokens, erasure | sign in, recover, erase | organization locks |
| Model manager (`services/model-manager`) | downloads, one active inference process | probe, download, start, stop | HTTP from the service |
| Connectors, parsers, analysis, matching, evaluation (`*_connector.py`, `extraction.py`, `diffing.py`, `analysis.py`, ...) | corpus rows | pure transformations and I/O | called from job bodies |
| Web client (`apps/web`), deployment scripts (`scripts`, `deploy`) | browser state, host state | user interface, releases | HTTP |

Hard behaviours, in the order this project takes them:

1. *Interleavings around the job row.* Most handlers read the row with
   `session.get`, take no lock, and write only the columns they changed; the
   dispatcher and recovery lock theirs. `claim` locks.
2. *Leases.* A lease is a heartbeat that is recent enough. Recovery gives a job
   whose heartbeat is too old to another execution while the first may live.
3. *Delivery at least once.* The dispatcher sends before it commits; Celery
   acknowledges late; Redis can lose its queue.
4. *The handoff window.* AI work leaves PostgreSQL a few rows at a time.
5. *Progress.* Every admitted job ends, whatever fails on the way.
6. *One message per delivery.* The SMTP server accepts a message before the
   delivery commits; the job may be repeated, overtaken or cancelled around it.
7. *Work that spans transactions.* A digest is prepared a page at a time; the
   filter, the subscription and the model change between the pages.
8. *Cursors and checkpoints.* A synchronization and a feed check talk to a source
   for minutes, and go on from where an earlier run stopped: one that failed, was
   edited away, or is still alive under a lease it has lost.

What makes each part correct, beyond the parts modelled so far, is listed in
`PROJECT.json` under `hazards`, with the code line where it bites.

## Modules

| Module | Models |
| --- | --- |
| `JobLifecycle` | the abstract promise about a job: wait or work until an end, success is final, cancellation only on request |
| `DurableJobs` | the job queue in detail: rows, outbox, broker, executions, API, dispatcher, recovery, faults |
| `MCDurableJobs` | values of its constants for TLC |
| `DurableJobsProofs` | the TLAPS proofs about `DurableJobs` under every fault and overlap |
| `JobLifecycleProofs` | the TLAPS proofs of what it promises while leases are kept, `JobLifecycle` included |
| `DigestDelivery` | the e-mail digests of one recipient: preference, schedule, deliveries, paged preparation, the transaction around SMTP |
| `MCDigestDelivery` | values of its constants for TLC |
| `DigestDeliveryProofs` | the TLAPS proofs about `DigestDelivery` |
| `DigestMailGuards` | the TLAPS proofs about what a message leaves under, the lease and the subscription, and that no period is closed over an alert in silence |
| `InterestBriefs` | the shared relevance briefs of one event: admission, allowance, fenced attempts, supersession, cancellation, retry, policy |
| `MCInterestBriefs` | values of its constants for TLC |
| `InterestBriefsProofs` | the TLAPS proofs about `InterestBriefs` |
| `ConnectorSync` | one stream of an official connector: schedule, runs, resumed pages, cursor, fan-out |
| `MCConnectorSync` | values of its constants for TLC |
| `ConnectorSyncProofs` | the TLAPS proofs about `ConnectorSync` |
| `FeedChecks` | the checks of one monitoring feed: inheritance, steps under a lease, updates, assessments, edits of the feed |
| `MCFeedChecks` | values of its constants for TLC |
| `FeedChecksProofs` | the TLAPS proofs about `FeedChecks` |
| `FeedHistoryProofs` | the TLAPS proofs about the history of a feed: what is judged, what has been read, the order of versions |

`DurableJobs` implements `JobLifecycle` (its `Life` instance maps the row state
to a phase and `cancel_requested` to a wish). `DigestDelivery` takes the job
interface from what `DurableJobs` shows of it: claims under the lock, lease
checks by host name, handlers at the end of an execution that do not look at
the lease, lapses that recovery turns into a retry or a failure. `InterestBriefs`
takes less of it: its handlers are fenced by the lease triple and the
organization lock, so a job that waits is simply in reach of a claim.
`ConnectorSync` has the unfenced ends of `execute_job` again, around pages that
outlive a lease; `FeedChecks` the fenced steps of `feed_worker`.

### DurableJobs

| State | Code |
| --- | --- |
| `job[j]` | the columns of `Job` that control it: `state`, `attempts`, `cancel_requested`, `lease_owner`, and whether `available_at` was put off (`delay`) |
| `due`, `lapsed`, `overdue` | what the clock says: `available_at` has passed, the heartbeat is too old, the handoff is too old. `late` holds candidates of a turn that were ready before it |
| `msg[j]` | the pending outbox message: none, later, due |
| `keyed` | rows that hold their idempotency key |
| `left[j]` | batches the checkpoint does not cover yet |
| `broker[j]` | envelopes in Redis, unacknowledged ones included |
| `pc`, `held`, `snap` | an execution slot: what it does, for which job, the row its open transaction has read |
| `api` | the open transaction of `POST /api/jobs/{id}/cancel` or `/retry` (one: the API runs one process under `write_guard`) |
| `turn`, `slots`, `cands`, `heads`, `staged` | the open transaction of `dispatch_outbox` |
| `rec` | the open transaction of `recover_jobs` |

A transaction that reads with `session.get` and writes at commit is two actions
(`Open`/`Commit`, `ApiOpen`/`ApiCommit`); `Merge` writes the columns that
changed against the snapshot, as SQLAlchemy does. A transaction that takes
`FOR UPDATE` first is one action (`Claim`, `Batch` and its successors) or holds
`Locked` from its first row to its commit (the dispatcher's turn). Recovery
takes its rows one at a time, since each `SKIP LOCKED` row is independent of the
others.

The bodies of jobs are abstract. A body may heartbeat, return, raise, find its
model not ready, or, for checkpointed work (`BatchJobs`) and digests
(`DigestJobs`), commit batches. `AiJobs` are those in the two AI queues;
`ModelJobs` may wait for a model.

Environment switches, each a constant of the module:

* `Faults`: `crash` (a killed process, its envelope comes back), `redelivery`
  (Redis delivers an unacknowledged envelope again), `loss` (queued envelopes
  vanish), `refusal` (`send_task` raises), `rollback` (a dispatcher dies with
  its turn open, after what it sent).
* `Overrun`: an execution may outlive its lease. The model calls of a body take
  longer than `max(30, lease_seconds)` or its process is suspended; nothing
  stops it.
* `Overlap`: unlocked transactions may interleave with any other. Without it
  they run alone. The code does not serialise them across processes, so `TRUE`
  is what it does; `FALSE` isolates what the queue would promise without lost
  updates.
* `Requests`: what users ask through the API in a run.

Bounds: `MaxAttempts` 2 (one retry, then exhaustion; `job_max_attempts` is 3),
`MaxEnvelopes` 1 or 2 (a duplicate is one envelope more than needed), `AiWindow`
1 (the deployed value), `Batches` 2 (a first and a last).

### DigestDelivery

| State | Code |
| --- | --- |
| `pref` | `DigestPreference`: `enabled`, the filter (severities and sources), `next_delivery_at`, `last_sent_at` (`mark`) |
| `member` | the account is active and still a member (`_recipient`) |
| `delivery[d]` | `DigestDelivery`: status and period |
| `job[d]`, `check[d]` | its job and `payload["checkpoint"]`: page, whether the alert is in the selection, the preference fingerprint (`print`), complete |
| `pc`, `held`, `sel` | a slot in `execute_job`: preparing, between `mark` calls, delivering, ending |
| `lock` | the slot whose `deliver` transaction is open between its row locks and its commit |
| `mails`, `unclear` | what SMTP accepted, and what of it the database could not learn |
| `alert` | one event, any event: when it was detected, whether its digest told it, whether the preference excluded it |

`Subscribe`, `Unsubscribe`, `SendNow` are API calls; `EnqueueDue` the scheduler;
`Prepare*` one batch of `prepare_batch` with its yield; `Deliver*`, `Find*`,
`Select`, `HandOver`, `Commit*` and `SendFails` the paths of `deliver`;
`Complete`, `Fail` and `Abandon` the ends of an execution. The transaction is
split at SMTP only, the one effect that its rollback does not undo.

Abstractions. A page is a step that finds the alert or not. The fingerprint is
the tuple it hashes: opt-in, filter, runtime (whether assessments can be
verified). An attempt that fails may be the last or not, as the counter is
`DurableJobs`'s. One elapsed-time schedule with a fixed frequency; the 51-event
cap and muted events only choose among events of a period and are left out; the
alert is detected and admitted in one step.

Bounds: one period of two pages in `mails`, two periods of two pages in
`alerts`, time just long enough for them to end, at most two accepted messages
per delivery (`MaxMails`), so that a duplicate can be seen.

### InterestBriefs

| State | Code |
| --- | --- |
| `input` | what a dossier assembled now is made of: evidence, interests, prompt, configuration, served model |
| `policy` | `interest_brief_policies`: enabled and revision; `policy_key` of a job is the revision it was admitted under |
| `brief[k]` | the `interest_event_assessments` row of input and language `k`: status, `attempt_key` (the number of the attempt), `attempts` |
| `ledger[k]` | the rows of `interest_assessment_attempts` whose status is `running` |
| `job[k]` | the job of the brief: state, lease, `cancel_requested`, attempts, `max_attempts`, policy, retries asked for |
| `exec[w]` | an execution of `BriefJobs._execute`: claimed, bound to its brief, generating, published, raised and why |
| `adm[a]` | an admission between its first guard and its reserving transaction |
| `request` | `cancel_job` between reading the job and writing it |

A transaction that locks the organization row first (`lock_organization`: claim,
guard, admission, policy, retry) is one action. `claim`, `fail` and `cancel` at
the end of an execution compare the lease (`lease_owner`, `attempts`,
`leased_at`); since no two claims share all three, the lease is the execution
that took it. The failure of an attempt (`store.fail`) is fenced by its token
only and belongs to `Evict` and `Break`; what the job then becomes is a later
step, `Settle`, because another transaction may come in between. The prompt is
measured between two checks of the same facts, of which only the second writes:
`FindChanged`, `FindSettled` and `Start` may happen at either.

Abstractions. `ready` is every claimable state. The delay of a retry is not
modelled. A batch of admissions is one admission at a time, `AdmitStop` stands
for its refusals (daily and global allowance, missing capability), its failures
and its end. A recovered job finds `attempts` below the maximum, so the branch
of `jobs.claim` for exhausted attempts is out of reach and left out.
`enqueue_interest_brief`, which admits without a policy, has no caller in the
services. A superseded brief stays superseded: reactivation is listed as open in
`docs/INTEREST_ASSESSMENTS.md`.

Bounds: two dossiers compete in `briefs`, one in `briefs_end`; `MaxAttempts` 2 is one recovery (3 in the code), `MaxRetries` 1
(2 in the code), `MaxPending` 1, so that a second dossier meets a full queue.

### ConnectorSync

| State | Code |
| --- | --- |
| `published` | how many items the source has, numbered in its order |
| `schedule` | `ConnectorSchedule`: enabled, and whether `next_run_at` has come |
| `cursor` | `ConnectorState.cursor`: the last item up to which pages were persisted |
| `page[k]` | `ConnectorPage` by its key (cursor in, cursor out, items): open or persisted, and the item it continues at |
| `stored`, `feeds` | items with a `ConnectorReceipt` and an event; events that users' feeds were told of |
| `run[r]`, `job[r]` | a `ConnectorRun` with its fixed boundary (the events found since its first start) and its job |
| `exec[w]` | a slot: its run, where it is in `run_page`, the cursors of its page and the next item |

`Admit`, `AdmitReused`, `Postpone`, `EnqueueManual`, `UpdateSchedule` are the ways
to a run; `ReadCursor`, `ReturnSaved`, `OpenPage`, `StoreItem`, `MarkItem`,
`FailItem`, `ClosePage` the transactions of `run_page` in their order; `FanOut`,
`Report` and `Complete` what follows; `Degrade`, `Raise`, `LoseHeartbeat`, `Stop`
and `Crash` how it ends otherwise. What a page finds is read from the source
once, before its transactions.

Abstractions. A cursor is the number of the last item it covers. Rows of runs
that nobody looks at any more are forgotten (`Unused`), so that two rows stand
for any number. Slots of a container share a host name, so `heartbeat` only asks
whether the job is running. A lease that lapses under its worker (`LapseEarly`)
uses up what is left of the bound on mishaps. `retried` and `lapsed` record that
a user retried an old run, or that a lease lapsed under its worker.

Bounds: two runs, two slots, two items, pages of two items (one in
`stale_cursor`), `MaxAttempts` 2 (3 in the code), `MaxMishaps` 2: a failure and a
failure of what repairs it.

### FeedChecks

| State | Code |
| --- | --- |
| `web` | the version of a document its publisher serves |
| `feed`, `owner` | `Feed`: status, revision, `job_id`, cached plan; `scope` counts the changes of what `feed_intelligence.spec` binds besides the revision. Whether `require_owner` passes |
| `job[c]`, `check[c]` | the durable job and the `FeedCheck` row of a check, with the revision and scope it was made under |
| `saved[c]`, `receipts[c]` | the checkpoint in the job's payload, written by both transactions of a step; `receipts_json`, written by the second |
| `exec[w]` | a slot: where it is in `execute`, its copy of the checkpoint, the version it fetched |
| `updates`, `assessed`, `decided` | `FeedUpdate` rows by sequence; those assessed under the settings in force; those with a verdict |
| `begun` | history: versions that are retained and not recorded yet, within the scope |

Every transaction locks the organization row and is one action: `StartCheck`
(`enqueue_due`, `POST .../check`), `Change` (`PATCH`), `Open` (the first
transaction of a step: `_current`, `_next_gate`, `_prepare`), and the second, one
action per outcome (`Plan`, `Judge`, `Search`, `ReadPortion`, `RecordOriginal`,
`ReadIndex`, `ReadFails`, `Unreadable`, `Finish`), which records, writes the
checkpoint and yields the job. `_current` is `Owns` (the lease, else the step is
`Lost`) and `Permitted` (the settings, else it is `Refused` and `Drop` cancels
the check in a transaction of its own).

Abstractions. A plan has one question, an update is judged in one piece, an
index always lists the same page. A lease triple never comes twice, so the slot
stands for it. `next_check_at` only delays a check: the feed is always due. Rows
nobody reads again are forgotten. A document whose bytes are retained and cannot
be read is a mishap of the step that reads it (`Unreadable`); in the code the
same bytes mostly fail again, so that the check after it, and the next, report
the same gap and never fetch that address anew (`feed_worker.py:166-184`,
`294-303`).

Bounds: two checks, two slots, an index and a document of two versions and two
portions, one search cursor, `MaxAttempts` 2, and two mishaps: changes around the
feed count as one each, their undoing (a pause resumed, an owner reinstated) is
free.

## Runs

| Run | Question | Instance |
| --- | --- | --- |
| `duplicates` | Does the queue implement `JobLifecycle` while every execution keeps its lease, does one execution own a job, and is only one row of an idempotency key live? | two rows of one key, two slots, crashes, duplicate envelopes, refused sends, dead dispatchers, cancels and retries |
| `overlap` | With overrun leases and lost updates: is waiting work ever left without a message, does a turn drop a message it should keep, does a digest succeed before its last batch? | a digest row, two slots of one container, crashes, lost envelopes, retries |
| `settles` | Does every job end, with its attempts in bounds? | a model job whose model starts late, one slot, crashes, refused sends, dead dispatchers, cancels and retries, everything overlapping |
| `late_handler` | *(violated)* Does an execution that ends leave a job alone that is no longer under its lease? | two slots, `Overrun` |
| `mails` | Does a message leave once, under the lease, to a subscriber and from a complete selection? | one delivery of two pages, two slots of one container, every fault and every request but leaving |
| `alerts` | Is a period ever closed without its alert, does the watermark go back, does a former member get a message? | two deliveries, a filter that hides the alert and one that needs the model, a model that comes and goes, crashes, a transport that may be disabled |
| `briefs` | Do briefs, their attempts and their jobs agree, is the allowance kept, and does only the lease holder publish, from inputs in force? | two inputs that change and change back, two workers with overrun leases, cancellations that race claims, crashes and failures |
| `briefs_end` | Does every brief job end, with attempts in bounds? | one dossier, a policy saved once, one retry by the user, cancellations, two workers, crashes and overrun leases |
| `connectors` | Is an item ever skipped by the cursor, an event lost before the fan-out, a stream run twice at once; does a stream catch up? | two runs, two slots, item failures, crashes, cancels, retries, edits of the schedule, an early lapse |
| `stale_cursor` | *(violated)* Does a stream catch up whatever its leases do? | pages of one item, an early lapse |
| `feeds` | Does every step of a check get on, is nothing retained lost, overtaken or passed over, and has a completed check read its sources? | two checks, two slots, two mishaps of any kind |
| `undrained` | *(violated)* Does a completed check leave no update without an assessment? | one slot, a document of four versions, one mishap |

Two rows and two slots are where the interesting cases are: a rival for a key, a
window or a lock needs one other. Two slots of one container matter more than
two containers: their host name is the same, so the lease check cannot tell
them apart, and `SYMMETRY` over slots is sound there (no property names a
slot, and no run with a liveness property uses it). `briefs` also permutes inputs
and languages, which nothing orders. Runs say `CHECK_DEADLOCK FALSE`
because a system whose jobs have all ended does stop.

`ExclusiveExecution` and `Lifecycle` are claimed without `Overrun` and `Overlap`
only; `late_handler` shows what happens otherwise. `ReadyHasMessage`,
`DroppedIsClosed`, `SucceededIsComplete`, `TypeOK` and `Settles` are checked
with both. `EventsAreCovered`, `OneActiveRun` and `CursorMovesOn` hold until a
lease lapses under its worker, the latter two until a user retries an old run;
`CatchesUpAlone` as long as one worker is in the stream at a time.

`feeds` has no liveness property: its graph is too large for one. `StepsAdvance`
takes its place: each step that hands a check on adds to what has been seen,
searched or judged, or takes from a finite list, so that a check goes on only as
long as its sources serve something new; `NothingPassedOver` and `JudgedInOrder`
say what has been done by then. That everything is assessed by then is what
`undrained` refutes; it takes four versions of a document, or three and two
mishaps, so that the instance of `feeds` is too small to meet it. The other
properties of `feeds` were checked with three versions, two mishaps and one slot
as well.

### Fairness

`Settles` is checked under `FairSpec`. Beat fires `dispatch_outbox` every 2 s and
`recover_jobs` every 30 s from its own process, so a dispatcher turn and a
recovery pass that could start do start (weak fairness), clocks run, and the
model manager brings the model up. Strong fairness is used where a step is
enabled again and again and held up in between: a turn commits although some
turns die (`DispatchCommit`), a message gets through although some sends are
refused (`Send`), an API call and a handler commit although row locks come and
go (`ApiCommit`, `Commit`), an envelope is taken although the slot is busy
(`TakeEnvelope`), a body ends although some processes are killed (`Finish`).
Nothing is assumed of crashes, requests, or a particular outcome of a body.

`JobEnds` needs weak fairness only: an execution that lives takes its next step
(`Running`; its calls have a total time budget), recovery takes a job whose
execution is gone (`Abandoned` and `Lapse`), and a job that waits is claimed
when a worker is free. That an execution overruns its lease is not assumed.

`CatchesUpAlone` assumes that beat admits (every 15 s) and recovers (every 30 s)
and that a slot goes on with what it took. A claim is fair in the strong sense,
and so is admission: a run that is postponed is due when its window opens, so
that beat cannot find the window closed each time it looks.

### Findings

* `late_handler`: what ends an execution looks neither at the lease nor at the
  state. `complete` makes a job succeed that recovery has requeued, `fail` moves a
  job that another execution completed, and `heartbeat` answers false when the
  lease is lost, whereupon `execute_job` cancels a job nobody asked to cancel.
* `stale_cursor`: run A reads cursor 0 and outlives its lease on the page from 0 to
  1; B persists that page, a later run the page from 1 to 2; then A writes the end
  of its own page, 1. From there every run finds the page from 1 to 2 persisted,
  returns its saved result (`connectors.py:916-925`) and leaves the cursor where it
  is: the stream succeeds and stands still until an item of that page changes.
* `undrained`: `_next_gate` compares `position` with the end of the list before
  `_prepare` moves it past addresses that were seen. When the last page of a
  search holds only such addresses, and the last turn was assessment's, the check
  finishes at once, although its docstring promises to drain the history: updates
  whose verdicts an edit reset stay without one until the next check.

The lines they disagree with are quoted in `PROJECT.json`.

One observation has no run: `interest_jobs.enqueue` returns an existing job before
it looks at the policy. A job of the old policy that has been claimed but not
begun its attempt is shared by an admission of the new one, then cancelled, and
its brief can be neither admitted nor retried again while the inputs stay.

## Proofs

TLAPS checks these for every number of jobs, slots, hosts, attempts, batches,
pages, periods, messages, runs and items, under every fault. Every safety property
of a passing run is a theorem, and so is the refinement of `JobLifecycle`. All but
the three of `JobLifecycleProofs` hold with and without `Overrun` and `Overlap`; the
properties of a synchronization that end with an early lapse say so themselves.

`DurableJobsProofs`: `TypeCorrect`, `WorkIsNeverStranded` (`ReadyHasMessage`),
`DroppedStaysClosed` (`DroppedIsClosed`) and `SuccessIsComplete`
(`SucceededIsComplete`). `ReadyHasMessage` is not inductive: the commit of a
dispatcher's turn closes messages, and only the row lock keeps their rows from
becoming ready since the turn looked at them. Hence `JobInv`, the conjunction of
the types, `ReadyHasMessage` and `DroppedIsClosed`: every handler that makes a
row ready leaves a message in the same commit (`RowWrite`), whatever it read,
and none may write a row that a turn has dropped. `SucceededIsComplete` needs to
know of an execution that has read its row and is about to complete it:
`CheckpointInv` adds that the checkpoint already covers every batch then.

`JobLifecycleProofs`: `OneExecutionPerJob` (`ExclusiveExecution`),
`OneUnfinishedRowPerKey` (`OneLiveJobPerKey`) and `QueueImplementsLife`
(`Lifecycle`). The three assume `~Overrun` and `~Overlap`, as their runs do, and
need to: an execution that outlives its lease ends rows it no longer owns
(`late_handler`), and two transactions that read a row before either writes it undo
each other's state and cancellation. `SerialInv` adds to `JobInv` what is true
without them. `TxPart`: one transaction is open at a time, and what it read is
still the row. `LeasePart`: whoever executes a job holds its lease, which has not
lapsed, nobody else does, and it raised `JobCancelled` only on a request. `RowPart`:
rows a turn has staged are still ready, and every row that has not succeeded holds
its key alone. The refinement then has two lemmas: a write whose old and new row
are a move of the life (`Moves`) is a step of `JobLifecycle` (`LifeMoves`), a step
that writes no row is a stutter (`LifeStutters`), and each handler is shown to make
such a move from the rows it meets.

`DigestDeliveryProofs`: `DigestTypes` (a selection never runs out of pages and a
slot never works on a missing row), `WatermarkNeverRewinds`, and
`DeliveryIsMailedOnce`. The invariant `MailInv` of the last says that a
transaction between its locks and its commit holds the lock on a delivery that
nobody has marked sent (`SendHolds`), and that every message accepted is shown
by the delivery row, still in that transaction, or counted as unclear
(`Accounted`).

`DigestMailGuards`: `MailLeavesUnderLease` (`MailUnderLease`) and
`MailReachesSubscriber` (`MailToSubscriber`). Both are about the moment of the
SMTP hand-over, long after the transaction checked what it relies on; that the
checks still hold there is a matter of the row locks. `LeaseInv` adds to
`MailInv` that a sending slot's job is running, owned by its host and not to be
cancelled (`LeaseHolds`): every other writer of that row waits for its lock, and
the one that does not, the creation of a delivery, meets only rows without a
slot (`Booked`). `WantInv` adds that while a slot sends, the preference and the
membership are those it read (`WantHolds`), and that a complete selection made
for a subscriber covers every page, or belongs to a delivery already mailed
(`WholeSelections`): a page is complete early only when the preference is
disabled, and then its fingerprint differs from the one in force.

`NoPeriodIsSilent` (`NoAlertSkipped`) is in the same module because it needs both:
a delivery is skipped when its selection is empty, so that the selection must be
whole, and a message must still be what was selected when its period is closed.
`AlertInv` adds four facts. A period lies in the past of its creation and the alert
is detected now, so a delivery holds the alert from the start or never
(`PeriodsPast`). A selection that has read the page of the alert has it whenever
the filter and the runtime in its fingerprint show it (`FaithfulSelections`).
While a message is leaving it names an alert that the filter in force does not
hide, and what was accepted is told (`MessagesNameAlert`). Whatever is closed over
the alert was answered, told or declined (`ClosedIsAnswered`). The case that needs
all of it is the empty selection: a whole one, under the fingerprint in force, with
a filter that hides nothing and a model that is there, cannot lack the alert.

`InterestBriefsProofs`: every safety property the runs check of briefs, for any
number of inputs, languages, workers, admissions and policies. The invariant
`BriefInv` joins the types, `UnfinishedHasJob`, `OneOpenAttempt` and
`CompletedIsPublished`, which need each other (an attempt is closed because the
ledger holds it and nothing else), with three strengthenings. `WithinLimits`
says which attempts are still open to a job or brief in each state: without it
a claim or `Start` could step past its limit. `Addressed` says that whoever works
has a brief. `PublishedStays` says that a brief published by an execution is
still published when the job completes, in a later transaction. It is proved
per group of actions from two lemmas about rows: a job that ends without success
closes its brief in the same step (`JobCloses`), any other step of a job leaves
it limits to go on (`JobGoesOn`). The action properties follow from one account
of what a step may do to a brief and who does it (`Explained`). `AllowanceHolds`
shows that only an admission and a retry add a live job, and each only where
there was room for one.

`ConnectorSyncProofs`: every safety property of `ConnectorSync`. The invariant
`SyncInv` joins the types with what a slot knows in the middle of a page
(`InPage`, `InBounds`: the page it works on exists and its index is within it),
what backs a page (`Backing`: every item before its checkpoint is stored), that a
worker without an early lapse holds the lease (`LeaseKept`), that what a run found
is carried to its fan-out (`Carried`), `OneActiveRun`, and that without lapse and
retry the cursor is where the worker read it (`CursorHeld`). Each action belongs to
a class of steps that touch the same rows (`StepOf`); one lemma per class says what
it leaves, and the conjuncts are proved from those.

`FeedChecksProofs`: `FeedTypes`, `OneCheckAtATime` (`UnfinishedIsCurrent`),
`NothingRetainedIsLost` (`OriginalsAreFinished`) and `EveryStepAdvances`
(`StepsAdvance`). `FeedInv` adds to the first what a worker knows: its copy of the
checkpoint is the one saved while its claim is in force (`Copies`: without it a
late save could undo another step), and is at the step it calls for
(`StepsAreDue`). A checkpoint is sound (`Checkpoints`): what it judges next is an
update behind its cursor, and what it retains is of an original, since an index
that fails is never carried on. `Retained` says where each original is: in the
receipts of the newest check and, while that is live, in its checkpoint. Two
layers keep the proof short: lemmas about checkpoints as values (`OpenedState`,
`FoundState`, `FailedState`, `InheritedState`, ...), and the reduction of every
action to one of eleven classes by what it touches (`StepOf`, `Steps`).

`FeedHistoryProofs`: `HistoryIsJudgedInOrder` (`JudgedInOrder`),
`EverySourceIsRead` (`NothingPassedOver`) and `UpdatesFollowVersions`
(`VersionsInOrder`).

* The cursor alone is not inductive: between the two transactions of a verdict the
  gate is ahead of it. `JudgeInv` says that everything before the gate is assessed
  too, of the saved checkpoint and of the receipts a failed check leaves, and that a
  check is never ahead of the settings, so that what an edit resets stays behind it.
* `CompleteInv` says of both checkpoints of the newest check, whatever its state,
  that each address the user gave has been seen or is still listed (`Listed`), and
  that what was seen is recorded, waits, or is exempt. A check finishes with nothing
  listed. The list moves to the first address not seen yet; that nothing unseen is
  dropped on the way needs the least of a set of indices, which the library's
  induction theorem gives without an operator parameter (`LeastOf`).
* `OrderInv` says where an original that is half read can be: an address is retained
  once, in what comes first (`resume`) or in what is tried again (`retry`), and its
  version is newer than every one recorded (`Tidy`). While an address is read,
  nothing of it is left in `resume`. What a worker with its claim in force has
  fetched is the newest there is; one that lost its claim may hold an old version,
  and the fence is what keeps it from recording it. So the theorem assumes nothing
  about leases.

Assumptions: the modules state theirs on the constants (`ConstantsAssumption`,
`DigestAssumption`, `BriefAssumption`, `SyncAssumption`, `FeedAssumption`), TLC
evaluates them in every run; only `JobLifecycleProofs` assumes more, in the
statements of its theorems.

Only model-checked: liveness (`Settles`, `JobEnds`, `CatchesUpAlone`), since
fairness and `ENABLED` are out of the prover's reach. No safety property of a run is
left to TLC alone. Each inductive invariant was checked by TLC on an instance of its
run, as an invariant, before it was proved.

## Not modelled

* What a job body computes: extraction, matching, analysis, ranking, connectors.
  They are pure or I/O; only the outcome touches the queue.
* Dispatch order between tenants and priorities (`dispatch_turns`): who goes
  first, not whether; planned.
* What a brief says: prompts, dossiers, validation of citations.
* The AI window as a bound: the dispatcher counts free slots at the start of its
  turn, and a cancelled row that is retried while the turn is open is sent on top.
  The bound is exceeded by that row, so no property states it.
* Around a synchronization: the pressure of other streams (`queue_pressure`), the
  idempotency key of a slot of the schedule, run counters, connector health, source
  packs, key-set cycles; a claim never finds its attempts exhausted.
* Around a feed: links to dossiers and their imports, research contexts beyond
  "it changed", following, feedback, the portions of an assessment.
* Browser state and deployment scripts: outside the services' control flow.
* Wall-clock lengths: a lease, a handoff age and a delay either has run out or
  not; no property here compares two durations.

## Plan

1. `Investigations`: generations, steps and pauses of a product investigation, the
   next component with fenced steps of minutes.
2. `DispatchTurns`: the choice of the next message across tenants; no ready
   tenant starves.
3. `SourceClaims`, then domain e-mails and the model manager, as components of the
   same shape (a claim with a lease, work outside a transaction, a fenced publish);
   `Memberships`: an organization keeps an administrator.
4. Proofs: the variants behind the liveness properties, as action properties (what
   each step of a job or a stream uses up), and an abstract specification of a
   synchronization that `ConnectorSync` implements while leases are kept.
