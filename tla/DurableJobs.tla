------------------------------ MODULE DurableJobs ------------------------------
(***************************************************************************)
(* The durable job queue: rows of the `jobs` table, their transactional    *)
(* outbox, the broker that carries envelopes, the Celery executions that   *)
(* claim and finish jobs, the API calls that cancel and retry them, the    *)
(* dispatcher turn and the recovery pass (jobs.py, ai_dispatch.py,         *)
(* celery_app.py, HelveticLens.execute_job).                               *)
(*                                                                         *)
(* A handler that reads its row with session.get takes no lock: its        *)
(* decisions use the row as read, and its UPDATE, at flush time, writes    *)
(* only the columns it changed.  Such a handler is two actions here, one   *)
(* that reads (`Open`, `ApiOpen`) and one that writes (`Commit`,           *)
(* `ApiCommit`).  A handler that reads with SELECT ... FOR UPDATE is one   *)
(* action.                                                                 *)
(*                                                                         *)
(* Timestamps are kept as what the code asks about them: available_at <=   *)
(* now (`due`), heartbeat_at older than the lease (`lapsed`),              *)
(* dispatched_at older than 30 seconds (`overdue`).                        *)
(***************************************************************************)
EXTENDS Integers, FiniteSets

CONSTANTS
    Jobs,          \* rows the jobs table may hold
    Workers,       \* execution slots: the prefork children of every consumer
    Hosts,         \* values of socket.gethostname()
    HostOf,        \* the host of each slot; slots of one container share it
    KeyOf,         \* the logical idempotency key of each row
    AiJobs,        \* rows routed to an AI queue
    ModelJobs,     \* rows that need the local model (impact_analysis, ask, ...)
    BatchJobs,     \* rows run as checkpointed batches (topic_match_*, ...)
    DigestJobs,    \* digest_delivery rows: batches, then a delivery that can wait
    MaxAttempts,   \* settings.job_max_attempts
    AiWindow,      \* settings.job_ai_dispatch_window
    Batches,       \* batches a checkpointed job needs
    MaxEnvelopes,  \* bound: envelopes of one job held by the broker
    Requests,      \* API requests a run includes
    Faults,        \* faults of the environment a run includes
    Overrun,       \* TRUE: an execution may outlive its lease
    Overlap,       \* TRUE: unlocked transactions may overlap
    NoHost, NoJob  \* a null lease_owner; an execution without a job

FaultKinds == {"crash", "redelivery", "loss", "refusal", "rollback"}

ASSUME ConstantsAssumption ==
    /\ IsFiniteSet(Jobs)
    /\ HostOf \in [Workers -> Hosts]
    /\ NoHost \notin Hosts
    /\ NoJob \notin Jobs
    /\ DOMAIN KeyOf = Jobs
    /\ AiJobs \subseteq Jobs /\ ModelJobs \subseteq Jobs
    /\ BatchJobs \subseteq Jobs /\ DigestJobs \subseteq Jobs
    /\ BatchJobs \cap DigestJobs = {}
    /\ MaxAttempts \in Nat \ {0}
    /\ AiWindow \in 1..16
    /\ Batches \in Nat \ {0}
    /\ MaxEnvelopes \in Nat \ {0}
    /\ Requests \subseteq {"cancel", "retry"}
    /\ Faults \subseteq FaultKinds
    /\ Overrun \in BOOLEAN /\ Overlap \in BOOLEAN

VARIABLES
    job,        \* the row: state, attempts, cancel_requested, lease_owner, policy delay
    due,        \* waiting rows with available_at <= now
    lapsed,     \* running rows whose heartbeat_at is older than the lease
    overdue,    \* dispatched rows whose dispatched_at is older than 30 seconds
    msg,        \* the pending outbox message of a row, and whether it is available
    keyed,      \* rows that hold their idempotency key
    left,       \* batches the row's checkpoint has not covered
    modelReady, \* the local model serves
    broker,     \* envelopes of each job in the broker's queue
    pc,         \* what an execution slot is doing
    held,       \* the job it executes
    snap,       \* the row its open transaction read
    api,        \* the API transaction: operation, job, the row it read, age
    rec,        \* the recovery transaction: rows it selected, age
    turn,       \* a dispatcher holds the advisory lock
    slots,      \* AI handoffs this turn may still make
    cands,      \* candidates the turn has not looked at
    heads,      \* candidates that count against the AI window
    late,       \* candidates whose available_at is after the turn's `now`
    staged      \* what the turn's uncommitted transaction did to a row

rowVars  == <<job, due, lapsed, overdue, msg, keyed, left>>
execVars == <<pc, held, snap>>
turnVars == <<turn, slots, cands, heads, late, staged>>
vars == <<rowVars, modelReady, broker, execVars, api, rec, turnVars>>

Terminal  == {"succeeded", "failed", "cancelled"}
Ready     == {"queued", "retrying", "waiting_for_model"}
Claimable == Ready \cup {"dispatched"}
States    == {"absent", "running"} \cup Claimable \cup Terminal

Row == [state: States, attempts: 0..MaxAttempts, cancel: BOOLEAN,
        owner: Hosts \cup {NoHost}, delay: BOOLEAN]

NoRow == [state |-> "absent", attempts |-> 0, cancel |-> FALSE,
          owner |-> NoHost, delay |-> FALSE]

TxOps  == {"mark", "complete", "fail", "defer", "cancel"}
ApiOps == {"cancel", "retry"}
IdleApi == [op |-> "idle", job |-> NoJob, snap |-> NoRow, early |-> FALSE]
IdleRec == [on |-> FALSE, stale |-> {}, early |-> FALSE]

State(j) == job[j].state

-------------------------------------------------------------------------------
(* The column changes of each handler, as functions of the row it read.    *)

(* Mutant: a completion that overlooks the cancellation request.            *)
CompletedRegardless(s) == [s EXCEPT !.state = "succeeded", !.owner = NoHost, !.delay = FALSE]

Completed(s) == [s EXCEPT !.state = IF s.cancel THEN "cancelled" ELSE "succeeded",
                          !.owner = NoHost, !.delay = FALSE]

Cancelled(s) == [s EXCEPT !.state = "cancelled", !.cancel = TRUE, !.owner = NoHost]

Retries(s) == ~s.cancel /\ s.attempts < MaxAttempts

FailedRow(s) ==
    IF s.cancel THEN [Cancelled(s) EXCEPT !.delay = FALSE]
    ELSE [s EXCEPT !.state = IF Retries(s) THEN "retrying" ELSE "failed",
                   !.owner = NoHost, !.delay = FALSE]

(* Mutant: a refund without max(0, ...).                                    *)
RefundedBelowZero(s) == s.attempts - 1

RefundedAttempts(s) == IF s.attempts > 0 THEN s.attempts - 1 ELSE 0

DeferredForModel(s) ==
    [s EXCEPT !.state = "waiting_for_model", !.attempts = RefundedAttempts(s),
              !.owner = NoHost, !.delay = FALSE]

DeferredUntil(s) ==
    [s EXCEPT !.state = "queued", !.attempts = RefundedAttempts(s),
              !.owner = NoHost, !.delay = TRUE]

Yielded(s) == [s EXCEPT !.state = "queued", !.attempts = 0,
                        !.owner = NoHost, !.delay = FALSE]

Requested(s) ==
    CASE s.state \in Terminal  -> s
      [] s.state \in Claimable -> Cancelled(s)
      [] OTHER                 -> [s EXCEPT !.cancel = TRUE]

Retried(s) ==
    IF s.state \in {"failed", "cancelled"}
    THEN [s EXCEPT !.state = "queued", !.attempts = 0, !.cancel = FALSE,
                   !.delay = FALSE]
    ELSE s

Recovered(s) ==
    CASE s.state = "dispatched"      -> [s EXCEPT !.state = "queued"]
      [] s.attempts >= MaxAttempts   -> [s EXCEPT !.state = "failed", !.owner = NoHost,
                                                  !.delay = FALSE]
      [] OTHER                       -> [s EXCEPT !.state = "retrying", !.owner = NoHost]

(* The UPDATE of a unit of work that read `old` and leaves `new` writes     *)
(* only the columns that differ between the two.                            *)
Written(o, n, c) == IF n = o THEN c ELSE n
Merge(cur, old, new) ==
    [state    |-> Written(old.state, new.state, cur.state),
     attempts |-> Written(old.attempts, new.attempts, cur.attempts),
     cancel   |-> Written(old.cancel, new.cancel, cur.cancel),
     owner    |-> Written(old.owner, new.owner, cur.owner),
     delay    |-> Written(old.delay, new.delay, cur.delay)]

-------------------------------------------------------------------------------
(* Locks, the outbox and the clock.                                         *)

(* Mutant: the dispatcher reads its rows without FOR UPDATE.                *)
NeverLocked(j) == FALSE /\ staged[j] # "no"

(* The dispatcher's transaction holds the row lock of what it has staged.   *)
Locked(j) == staged[j] # "no"

(* Without Overlap an unlocked transaction runs alone.                      *)
Serial == Overlap \/ (api.op = "idle" /\ ~rec.on /\ \A w \in Workers : pc[w] \notin TxOps)

(* _enqueue_outbox: a pending message is reused, else one is added that     *)
(* becomes available with the job.                                          *)
Outbox(j, when) == msg' = IF msg[j] = "none" THEN [msg EXCEPT ![j] = when] ELSE msg

(* Row j is written; `fresh` says that heartbeat_at := now is part of it.   *)
Put(j, row, fresh) ==
    /\ job' = [job EXCEPT ![j] = row]
    /\ lapsed' = IF row.state = "running" /\ ~fresh THEN lapsed ELSE lapsed \ {j}
    /\ overdue' = IF row.state = "dispatched" THEN overdue ELSE overdue \ {j}

(* available_at := now, a moment in the future, or unchanged.  `late` is    *)
(* what a dispatcher turn makes of it: the turn compares with a `now` of    *)
(* its own, which a transaction that began before the turn (early) precedes. *)
MakeDue(j, early) ==
    /\ due' = due \cup {j}
    /\ late' = IF early THEN late \ {j} ELSE late \cup ({j} \cap cands)
Postpone(j) ==
    /\ due' = due \ {j}
    /\ late' = late \cup ({j} \cap cands)
KeepDue(j) ==
    /\ due' = IF job'[j].state \in Claimable THEN due ELSE due \ {j}
    /\ UNCHANGED late

Init ==
    /\ job = [j \in Jobs |-> NoRow]
    /\ due = {} /\ lapsed = {} /\ overdue = {} /\ keyed = {}
    /\ msg = [j \in Jobs |-> "none"]
    /\ left = [j \in Jobs |-> IF j \in BatchJobs \cup DigestJobs THEN Batches ELSE 0]
    /\ modelReady = FALSE
    /\ broker = [j \in Jobs |-> 0]
    /\ pc = [w \in Workers |-> "idle"]
    /\ held = [w \in Workers |-> NoJob]
    /\ snap = [w \in Workers |-> NoRow]
    /\ api = IdleApi
    /\ rec = IdleRec
    /\ turn = FALSE /\ slots = 0 /\ cands = {} /\ heads = {} /\ late = {}
    /\ staged = [j \in Jobs |-> "no"]

-------------------------------------------------------------------------------
(* Admission.                                                               *)

Holder(k) == {i \in Jobs : KeyOf[i] = k /\ i \in keyed}

(* Mutant: the key of any ended row is freed.                               *)
FreedWhenEnded(i) == State(i) \in Terminal /\ i \in ModelJobs /\ ~Locked(i)

(* enqueue returns the row that holds the key, unless it succeeded and the   *)
(* caller does not reuse results; then the key is freed for a new row.       *)
Freed(i) == State(i) = "succeeded" /\ i \in ModelJobs /\ ~Locked(i)

Admitted == [NoRow EXCEPT !.state = "queued"]

Enqueue(j) ==
    /\ Serial
    /\ State(j) = "absent"
    /\ \A i \in Holder(KeyOf[j]) : Freed(i)
    /\ keyed' = (keyed \ Holder(KeyOf[j])) \cup {j}
    /\ Put(j, Admitted, TRUE)
    /\ MakeDue(j, FALSE)
    /\ Outbox(j, "due")
    /\ UNCHANGED <<left, modelReady, broker, execVars, api, rec,
                   turn, slots, cands, heads, staged>>

-------------------------------------------------------------------------------
(* The dispatcher turn: one transaction under the advisory lock.            *)

HandedOff == {j \in AiJobs : State(j) = "dispatched"}
FreeSlots == IF AiWindow > Cardinality(HandedOff)
             THEN AiWindow - Cardinality(HandedOff) ELSE 0

Pending  == {j \in Jobs : msg[j] = "due"}
AiReady  == {j \in AiJobs \cap Pending : State(j) \in Ready /\ j \in due}

(* free_slots and candidates.  An AI row that is ready is a candidate only  *)
(* as a tenant's head and while slots are free; every other row with an     *)
(* available message is a candidate that does not count.                    *)
DispatchBegin ==
    /\ Serial
    /\ ~turn
    /\ slots' = FreeSlots
    /\ heads' \in SUBSET AiReady
    /\ (heads' = {}) <=> (slots' = 0 \/ AiReady = {})
    /\ cands' = heads' \cup (Pending \ AiReady)
    /\ cands' # {}
    /\ turn' = TRUE
    /\ late' = cands' \ due
    /\ api' = [api EXCEPT !.early = (api.op = "retry")]
    /\ rec' = [rec EXCEPT !.early = rec.on]
    /\ UNCHANGED <<rowVars, modelReady, broker, execVars, staged>>

(* Rows another transaction is about to write are skipped (SKIP LOCKED).    *)
Writing(j) == (api.job = j) \/ \E w \in Workers : held[w] = j /\ pc[w] \in TxOps

Examine(j) ==
    /\ Serial
    /\ turn /\ j \in cands
    /\ cands' = cands \ {j} /\ heads' = heads \ {j} /\ late' = late \ {j}
    /\ UNCHANGED <<rowVars, modelReady, execVars, api, rec, turn>>

Stage(j, what) == staged' = [staged EXCEPT ![j] = what]

NoSlot(j) == j \in heads /\ slots = 0

Skip(j) ==
    /\ Examine(j)
    /\ NoSlot(j) \/ Writing(j) \/ msg[j] # "due" \/ State(j) = "dispatched"
    /\ UNCHANGED <<staged, slots, broker>>

Offered(j) == Examine(j) /\ ~NoSlot(j) /\ msg[j] = "due"

Discard(j) ==
    /\ Offered(j)
    /\ State(j) \in Terminal \cup {"running"}
    /\ Stage(j, "discarded")
    /\ UNCHANGED <<slots, broker>>

Reschedule(j) ==
    /\ Offered(j)
    /\ State(j) \in Ready /\ j \in late
    /\ Stage(j, "rescheduled")
    /\ UNCHANGED <<slots, broker>>

Send(j) ==
    /\ Offered(j)
    /\ State(j) \in Ready /\ j \notin late
    /\ broker[j] < MaxEnvelopes
    /\ broker' = [broker EXCEPT ![j] = @ + 1]
    /\ Stage(j, "sent")
    /\ slots' = IF j \in heads THEN slots - 1 ELSE slots

Refuse(j) ==
    /\ "refusal" \in Faults
    /\ Offered(j)
    /\ State(j) \in Ready /\ j \notin late
    /\ Stage(j, "refused")
    /\ UNCHANGED <<slots, broker>>

Handled(s, what) ==
    CASE what = "sent"    -> [s EXCEPT !.state = "dispatched"]
      [] what = "refused" -> [s EXCEPT !.state = "queued"]
      [] OTHER            -> s

MessageAfter(j) ==
    CASE staged[j] = "no"          -> msg[j]
      [] staged[j] = "refused"     -> "later"
      [] staged[j] = "rescheduled" -> IF j \in due THEN "due" ELSE "later"
      [] OTHER                     -> "none"

EndTurn ==
    /\ turn' = FALSE /\ slots' = 0 /\ cands' = {} /\ heads' = {} /\ late' = {}
    /\ staged' = [j \in Jobs |-> "no"]

DispatchCommit ==
    /\ turn /\ cands = {}
    /\ job' = [j \in Jobs |-> Handled(job[j], staged[j])]
    /\ overdue' = overdue \ {j \in Jobs : staged[j] = "sent"}
    /\ msg' = [j \in Jobs |-> MessageAfter(j)]
    /\ EndTurn
    /\ UNCHANGED <<due, lapsed, keyed, left, modelReady, broker, execVars, api, rec>>

(* The process dies before its commit: the envelopes it sent remain.        *)
DispatchRollback ==
    /\ "rollback" \in Faults
    /\ turn
    /\ EndTurn
    /\ UNCHANGED <<rowVars, modelReady, broker, execVars, api, rec>>

-------------------------------------------------------------------------------
(* The recovery pass.                                                       *)

(* Mutants: recovery that ignores the heartbeat, or the running rows.       *)
StaleAnyRunning(j) == \/ State(j) = "running"
                      \/ State(j) = "dispatched" /\ j \in overdue
StaleHandoff(j) == State(j) = "dispatched" /\ j \in overdue

Stale(j) == \/ State(j) = "running" /\ j \in lapsed
            \/ State(j) = "dispatched" /\ j \in overdue

RecoverBegin ==
    /\ Serial
    /\ ~rec.on
    /\ \E j \in Jobs : Stale(j)
    /\ rec' = [on |-> TRUE, stale |-> {j \in Jobs : Stale(j)}, early |-> FALSE]
    /\ UNCHANGED <<rowVars, modelReady, broker, execVars, api, turnVars>>

Without(r, j) == IF r.stale = {j} THEN IdleRec ELSE [r EXCEPT !.stale = @ \ {j}]

(* Locked rows are skipped; a row that changed since is not selected.       *)
RecoverSkip(j) ==
    /\ j \in rec.stale
    /\ Locked(j) \/ ~Stale(j)
    /\ rec' = Without(rec, j)
    /\ UNCHANGED <<rowVars, modelReady, broker, execVars, api, turnVars>>

Recover(j) ==
    /\ j \in rec.stale
    /\ ~Locked(j) /\ Stale(j)
    /\ rec' = Without(rec, j)
    /\ Put(j, Recovered(job[j]), FALSE)
    /\ IF Recovered(job[j]).state = "failed"
       THEN KeepDue(j) /\ UNCHANGED msg
       ELSE MakeDue(j, rec.early) /\ Outbox(j, "due")
    /\ UNCHANGED <<keyed, left, modelReady, broker, execVars, api,
                   turn, slots, cands, heads, staged>>

-------------------------------------------------------------------------------
(* Executions: claim under the row lock, then the job's body.               *)

(* An idle slot takes an envelope; it is acknowledged when run_job returns. *)
Take(j, w) ==
    /\ Serial
    /\ pc[w] = "idle" /\ broker[j] > 0
    /\ ~Locked(j)
    /\ broker' = [broker EXCEPT ![j] = @ - 1]
    /\ UNCHANGED <<msg, keyed, left, modelReady, snap, api, rec, turnVars>>

Waits(j) == job[j].delay /\ j \notin due

(* A duplicate or early delivery finds nothing to claim.                    *)
ClaimNothing(j, w) ==
    /\ Take(j, w)
    /\ \/ State(j) \notin Claimable
       \/ ~job[j].cancel /\ Waits(j)
    /\ UNCHANGED <<job, due, lapsed, overdue, pc, held>>

ClaimCancelled(j, w) ==
    /\ Take(j, w)
    /\ State(j) \in Claimable /\ job[j].cancel
    /\ Put(j, Cancelled(job[j]), TRUE)
    /\ due' = due \ {j}
    /\ UNCHANGED <<pc, held>>

ClaimExhausted(j, w) ==
    /\ Take(j, w)
    /\ State(j) \in Claimable /\ ~job[j].cancel /\ ~Waits(j)
    /\ job[j].attempts >= MaxAttempts
    /\ Put(j, [job[j] EXCEPT !.state = "failed", !.delay = FALSE], FALSE)
    /\ due' = due \ {j}
    /\ UNCHANGED <<pc, held>>

Claim(j, w) ==
    /\ Take(j, w)
    /\ State(j) \in Claimable /\ ~job[j].cancel /\ ~Waits(j)
    /\ job[j].attempts < MaxAttempts
    /\ Put(j, [job[j] EXCEPT !.state = "running", !.attempts = @ + 1,
                             !.owner = HostOf[w]], TRUE)
    /\ due' = due \ {j}
    /\ pc' = [pc EXCEPT ![w] = "work"]
    /\ held' = [held EXCEPT ![w] = j]

Release(w) ==
    /\ pc' = [pc EXCEPT ![w] = "idle"]
    /\ held' = [held EXCEPT ![w] = NoJob]
    /\ snap' = [snap EXCEPT ![w] = NoRow]

Owns(w, s) == s.state = "running" /\ s.owner = HostOf[w]

(* An unlocked transaction of an execution reads its row.                   *)
Open(w, op) ==
    /\ Serial
    /\ Overlap \/ ~Locked(held[w])
    /\ pc' = [pc EXCEPT ![w] = op]
    /\ snap' = [snap EXCEPT ![w] = job[held[w]]]
    /\ UNCHANGED <<rowVars, modelReady, broker, held, api, rec, turnVars>>

(* mark: heartbeat, then progress.  A lease that reads as lost raises       *)
(* JobCancelled and writes nothing.                                         *)
MarkOwned(w) == /\ pc[w] = "work" /\ held[w] \notin BatchJobs
                /\ Owns(w, job[held[w]])
                /\ Open(w, "mark")
MarkLost(w) ==
    /\ Serial
    /\ pc[w] = "work" /\ held[w] \notin BatchJobs
    /\ ~Owns(w, job[held[w]])
    /\ pc' = [pc EXCEPT ![w] = "raised"]
    /\ UNCHANGED <<rowVars, modelReady, broker, held, snap, api, rec, turnVars>>

(* Mutant: a digest that returns before its last batch.                     *)
ReturnEarly(w) == pc[w] = "work" /\ held[w] \notin BatchJobs /\ Open(w, "complete")

(* How the body ends: it returns, it raises, the model is not ready, or     *)
(* JobCancelled reached the end of execute_job.                             *)
Return(w) == /\ pc[w] = "work" /\ held[w] \notin BatchJobs
             /\ held[w] \in DigestJobs => left[held[w]] = 0
             /\ Open(w, "complete")
Raise(w)  == pc[w] = "work" /\ Open(w, "fail")
Warmup(w) == pc[w] = "work" /\ held[w] \in ModelJobs /\ ~modelReady /\ Open(w, "defer")
Abandon(w) == pc[w] = "raised" /\ Open(w, "cancel")

AfterOp(op, s) ==
    CASE op = "complete" -> Completed(s)
      [] op = "fail"     -> FailedRow(s)
      [] op = "defer"    -> DeferredForModel(s)
      [] op = "cancel"   -> Cancelled(s)
      [] op = "mark"     -> s

(* Mutant: a failed attempt that does not go back to the outbox.            *)
RequeuesDeferred(op, s) == op = "defer"

Requeues(op, s) == op = "defer" \/ (op = "fail" /\ Retries(s))

(* The transaction flushes and commits.                                     *)
Commit(w) ==
    LET j == held[w]
        s == snap[w]
    IN /\ pc[w] \in TxOps
       /\ ~Locked(j)
       /\ Put(j, Merge(job[j], s, AfterOp(pc[w], s)), TRUE)
       /\ IF Requeues(pc[w], s)
          THEN Postpone(j) /\ Outbox(j, "later")
          ELSE KeepDue(j) /\ UNCHANGED msg
       /\ IF pc[w] = "mark"
          THEN /\ pc' = [pc EXCEPT ![w] = IF s.cancel THEN "raised" ELSE "work"]
               /\ snap' = [snap EXCEPT ![w] = NoRow]
               /\ UNCHANGED held
          ELSE Release(w)
       /\ UNCHANGED <<keyed, left, modelReady, broker, api, rec,
                      turn, slots, cands, heads, staged>>

(* Checkpointed work: one transaction that locks the job, checks the lease  *)
(* and commits the batch together with the checkpoint and the queue yield.  *)
Batch(w) ==
    /\ Serial
    /\ pc[w] = "work" /\ held[w] \in BatchJobs \cup DigestJobs
    /\ ~Locked(held[w])
    /\ UNCHANGED <<keyed, modelReady, broker, api, rec,
                   turn, slots, cands, heads, staged>>

BatchLost(w) ==
    /\ Batch(w)
    /\ ~Owns(w, job[held[w]])
    /\ Release(w)
    /\ UNCHANGED <<job, due, late, lapsed, overdue, msg, left>>

BatchCancelled(w) ==
    /\ Batch(w)
    /\ Owns(w, job[held[w]]) /\ job[held[w]].cancel
    /\ pc' = [pc EXCEPT ![w] = "raised"]
    /\ UNCHANGED <<job, due, late, lapsed, overdue, msg, left, held, snap>>

BatchOwned(w) == Batch(w) /\ Owns(w, job[held[w]]) /\ ~job[held[w]].cancel

YieldBatch(w) ==
    LET j == held[w] IN
    /\ BatchOwned(w)
    /\ left[j] > 1
    /\ left' = [left EXCEPT ![j] = @ - 1]
    /\ Put(j, Yielded(job[j]), TRUE)
    /\ MakeDue(j, FALSE) /\ Outbox(j, "due")
    /\ Release(w)

LastBatch(w) ==
    LET j == held[w] IN
    /\ BatchOwned(w)
    /\ left[j] <= 1
    /\ left' = [left EXCEPT ![j] = 0]
    /\ UNCHANGED <<due, late, msg>>
    /\ IF j \in BatchJobs
       THEN Put(j, Completed(job[j]), TRUE) /\ Release(w)
       ELSE left[j] = 1 /\ Put(j, job[j], TRUE) /\ UNCHANGED <<pc, held, snap>>

(* Quiet hours: the delivery transaction puts the job off without an        *)
(* attempt; the pending message, old or new, waits with it.                 *)
WaitQuietHours(w) ==
    LET j == held[w] IN
    /\ BatchOwned(w)
    /\ j \in DigestJobs /\ left[j] = 0
    /\ Put(j, DeferredUntil(job[j]), TRUE)
    /\ Postpone(j)
    /\ msg' = [msg EXCEPT ![j] = "later"]
    /\ Release(w)
    /\ UNCHANGED left

-------------------------------------------------------------------------------
(* The API: POST /api/jobs/{id}/cancel and /retry.                          *)

ApiOpen(op, j) ==
    /\ Serial
    /\ Overlap \/ ~Locked(j)
    /\ api.op = "idle"
    /\ \/ op = "cancel" /\ State(j) \notin Terminal \cup {"absent"} /\ ~job[j].cancel
       \/ op = "retry" /\ State(j) \in {"failed", "cancelled"}
    /\ api' = [op |-> op, job |-> j, snap |-> job[j], early |-> FALSE]
    /\ UNCHANGED <<rowVars, modelReady, broker, execVars, rec, turnVars>>

ApiCommit ==
    LET j == api.job IN
    /\ api.op # "idle"
    /\ ~Locked(j)
    /\ api' = IdleApi
    /\ IF api.op = "cancel"
       THEN /\ Put(j, Merge(job[j], api.snap, Requested(api.snap)), FALSE)
            /\ KeepDue(j) /\ UNCHANGED msg
       ELSE /\ Put(j, Merge(job[j], api.snap, Retried(api.snap)), FALSE)
            /\ MakeDue(j, api.early) /\ Outbox(j, "due")
    /\ UNCHANGED <<keyed, left, modelReady, broker, execVars, rec,
                   turn, slots, cands, heads, staged>>

-------------------------------------------------------------------------------
(* The environment: time, the model, process and broker faults.             *)

JobBecomesDue(j) ==
    /\ Serial
    /\ j \notin due /\ State(j) \in Claimable
    /\ due' = due \cup {j}
    /\ UNCHANGED <<job, lapsed, overdue, msg, keyed, left, modelReady, broker,
                   execVars, api, rec, turnVars>>

MessageBecomesDue(j) ==
    /\ Serial
    /\ msg[j] = "later"
    /\ msg' = [msg EXCEPT ![j] = "due"]
    /\ UNCHANGED <<job, due, lapsed, overdue, keyed, left, modelReady, broker,
                   execVars, api, rec, turnVars>>

Executed(j) == \E w \in Workers : held[w] = j

LeaseLapses(j) ==
    /\ Serial
    /\ State(j) = "running" /\ j \notin lapsed
    /\ Overrun \/ ~Executed(j)
    /\ lapsed' = lapsed \cup {j}
    /\ UNCHANGED <<job, due, overdue, msg, keyed, left, modelReady, broker,
                   execVars, api, rec, turnVars>>

HandoffAges(j) ==
    /\ Serial
    /\ State(j) = "dispatched" /\ j \notin overdue
    /\ overdue' = overdue \cup {j}
    /\ UNCHANGED <<job, due, lapsed, msg, keyed, left, modelReady, broker,
                   execVars, api, rec, turnVars>>

ModelBecomesReady ==
    /\ Serial
    /\ ~modelReady
    /\ modelReady' = TRUE
    /\ UNCHANGED <<rowVars, broker, execVars, api, rec, turnVars>>

(* task_reject_on_worker_lost returns the envelope of a dead execution.     *)
Crash(w) ==
    /\ "crash" \in Faults
    /\ Serial
    /\ pc[w] # "idle"
    /\ broker[held[w]] < MaxEnvelopes
    /\ broker' = [broker EXCEPT ![held[w]] = @ + 1]
    /\ Release(w)
    /\ UNCHANGED <<rowVars, modelReady, api, rec, turnVars>>

(* The broker delivers an unacknowledged envelope again.                    *)
Redeliver(w) ==
    /\ "redelivery" \in Faults
    /\ Serial
    /\ pc[w] # "idle"
    /\ broker[held[w]] < MaxEnvelopes
    /\ broker' = [broker EXCEPT ![held[w]] = @ + 1]
    /\ UNCHANGED <<rowVars, modelReady, execVars, api, rec, turnVars>>

LoseEnvelopes(j) ==
    /\ "loss" \in Faults
    /\ Serial
    /\ broker[j] > 0
    /\ broker' = [broker EXCEPT ![j] = 0]
    /\ UNCHANGED <<rowVars, modelReady, execVars, api, rec, turnVars>>

-------------------------------------------------------------------------------
Dispatcher ==
    \/ DispatchBegin \/ DispatchCommit \/ DispatchRollback
    \/ \E j \in Jobs : Skip(j) \/ Discard(j) \/ Reschedule(j) \/ Send(j) \/ Refuse(j)

Recovery == RecoverBegin \/ \E j \in Jobs : RecoverSkip(j) \/ Recover(j)

TakeEnvelope(j, w) == \/ ClaimNothing(j, w) \/ ClaimCancelled(j, w)
                      \/ ClaimExhausted(j, w) \/ Claim(j, w)

(* The steps that take a body to its end.                                   *)
Finish(w) == \/ Return(w) \/ Raise(w) \/ Warmup(w) \/ Abandon(w)
             \/ BatchLost(w) \/ BatchCancelled(w) \/ YieldBatch(w) \/ LastBatch(w)
             \/ WaitQuietHours(w)

Execution(w) == \/ \E j \in Jobs : TakeEnvelope(j, w)
                \/ MarkOwned(w) \/ MarkLost(w) \/ Commit(w) \/ Finish(w)

Api == ApiCommit \/ \E j \in Jobs, op \in Requests : ApiOpen(op, j)

Time(j) == \/ JobBecomesDue(j) \/ MessageBecomesDue(j)
           \/ LeaseLapses(j) \/ HandoffAges(j)

Environment ==
    \/ ModelBecomesReady
    \/ \E j \in Jobs : Time(j) \/ LoseEnvelopes(j)
    \/ \E w \in Workers : Crash(w) \/ Redeliver(w)

Next ==
    \/ \E j \in Jobs : Enqueue(j)
    \/ Dispatcher \/ Recovery \/ Api \/ Environment
    \/ \E w \in Workers : Execution(w)

Spec == Init /\ [][Next]_vars

(***************************************************************************)
(* Beat fires the dispatcher every 2 s and recovery every 30 s, in a        *)
(* consumer of their own; clocks run; the model starts; commits go through; *)
(* a consumer takes the envelopes and its bodies end.  Strong fairness says *)
(* that what holds a step up does not repeat for ever: a dispatcher that    *)
(* dies, a refused send, a row lock, a body whose process is killed.        *)
(***************************************************************************)
Fairness ==
    /\ WF_vars(DispatchBegin) /\ SF_vars(DispatchCommit)
    /\ WF_vars(RecoverBegin)
    /\ SF_vars(ApiCommit)
    /\ WF_vars(ModelBecomesReady)
    /\ \A j \in Jobs :
          /\ WF_vars(Skip(j) \/ Discard(j) \/ Reschedule(j))
          /\ SF_vars(Send(j))
          /\ WF_vars(RecoverSkip(j) \/ Recover(j))
          /\ WF_vars(JobBecomesDue(j)) /\ WF_vars(MessageBecomesDue(j))
          /\ WF_vars(LeaseLapses(j)) /\ WF_vars(HandoffAges(j))
          /\ SF_vars(\E w \in Workers : TakeEnvelope(j, w))
    /\ \A w \in Workers : SF_vars(Commit(w)) /\ SF_vars(Finish(w))

FairSpec == Spec /\ Fairness

-------------------------------------------------------------------------------
RowTypeOK ==
    /\ job \in [Jobs -> Row]
    /\ due \subseteq Jobs /\ lapsed \subseteq Jobs /\ overdue \subseteq Jobs
    /\ keyed \subseteq Jobs
    /\ msg \in [Jobs -> {"none", "later", "due"}]
    /\ left \in [Jobs -> 0..Batches]

ExecTypeOK ==
    /\ pc \in [Workers -> {"idle", "work", "raised"} \cup TxOps]
    /\ held \in [Workers -> Jobs \cup {NoJob}]
    /\ snap \in [Workers -> Row]
    /\ \A w \in Workers : pc[w] = "idle" <=> held[w] = NoJob

TxTypeOK ==
    /\ api \in [op: ApiOps \cup {"idle"}, job: Jobs \cup {NoJob}, snap: Row,
                early: BOOLEAN]
    /\ api.op = "idle" <=> api.job = NoJob
    /\ rec \in [on: BOOLEAN, stale: SUBSET Jobs, early: BOOLEAN]

TurnTypeOK ==
    /\ turn \in BOOLEAN /\ slots \in 0..AiWindow
    /\ cands \subseteq Jobs /\ heads \subseteq cands /\ late \subseteq cands
    /\ staged \in [Jobs -> {"no", "sent", "refused", "discarded", "rescheduled"}]

(* Every variable has its type; attempts never exceed max_attempts, whatever *)
(* lost update or refund touches them; slots are only held with a job.       *)
TypeOK ==
    /\ RowTypeOK /\ ExecTypeOK /\ TxTypeOK /\ TurnTypeOK
    /\ modelReady \in BOOLEAN
    /\ broker \in [Jobs -> 0..MaxEnvelopes]

(* Work that waits is never stranded: a row in a ready state has a pending  *)
(* outbox message, whatever stale execution, lost update, recovery pass,    *)
(* or dead dispatcher touched it (jobs.py _enqueue_outbox and its callers). *)
ReadyHasMessage == \A j \in Jobs : State(j) \in Ready => msg[j] # "none"

(* A message the open turn drops belongs to a row that nobody can bring back *)
(* before the turn commits: the row lock outlives the decision (dispatch).   *)
DroppedIsClosed ==
    \A j \in Jobs : staged[j] = "discarded" => State(j) \in Terminal \cup {"running"}

(* What an execution writes when it ends leaves a job alone that is not       *)
(* under its lease any more: no late failure reopens what another execution *)
(* completed, no late cancellation ends what was requeued (execute_job's    *)
(* except branches, docs/ARCHITECTURE.md "leases fencing execution").       *)
LeaseFences ==
    [][\A w \in Workers :
        (pc[w] \in TxOps /\ pc'[w] \notin TxOps /\ ~Owns(w, job[held[w]]))
            => job'[held[w]] = job[held[w]]]_vars

(* Two rows of one idempotency key are never both unfinished                *)
(* (enqueue frees the key of a succeeded row only).                         *)
OneLiveJobPerKey ==
    \A i, j \in Jobs :
        (KeyOf[i] = KeyOf[j] /\ {State(i), State(j)} \cap (Terminal \cup {"absent"}) = {})
            => i = j

(* At most one execution works on a job at a time (claim and the lease).    *)
ExclusiveExecution ==
    \A v, w \in Workers : (held[v] = held[w] /\ held[v] # NoJob) => v = w

(* A checkpointed job succeeds only when its checkpoint covers every batch:  *)
(* no retry, lost lease or stale execution skips one (the yield and the      *)
(* completion commit with the checkpoint).                                   *)
SucceededIsComplete ==
    \A j \in BatchJobs \cup DigestJobs : State(j) = "succeeded" => left[j] = 0

(* Every admitted job reaches a terminal state.                             *)
Settles == \A j \in Jobs : State(j) # "absent" ~> State(j) \in Terminal

(* While every execution keeps its lease and no unlocked transaction        *)
(* overlaps another, the queue implements the lifecycle it promises: no     *)
(* crash, duplicate envelope, dead dispatcher or recovery pass moves a job  *)
(* where its life does not lead (jobs.py, HelveticLens.execute_job).        *)
PhaseOf(s) ==
    CASE s \in Claimable -> "waiting"
      [] s = "running"   -> "working"
      [] OTHER           -> s

Life == INSTANCE JobLifecycle
            WITH phase <- [j \in Jobs |-> PhaseOf(State(j))],
                 wish  <- {j \in Jobs : job[j].cancel}

Lifecycle == Life!LifeSpec

===============================================================================
