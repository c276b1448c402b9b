---------------------------- MODULE InterestBriefs ----------------------------
(***************************************************************************)
(* Shared relevance briefs of one event of one organization: admission     *)
(* against the current inputs and the saved policy, the durable job of     *)
(* each brief, its fenced attempts, supersession by newer inputs, the      *)
(* user's retries, and the policy changes that stop old work               *)
(* (interest_jobs.py, interest_execution.py, interest_assessment_store.py, *)
(* brief_attempts.py, interest_automation.py, interest_policy.py,          *)
(* interest_recovery.py).                                                  *)
(*                                                                         *)
(* Every handler that locks the organization row or reads its job with     *)
(* SELECT ... FOR UPDATE is one action.  The cancel request reads its job   *)
(* without a lock and is two (`CancelRead`, `CancelWrite`).  The outbox,    *)
(* the broker and the dispatcher are those of DurableJobs: a job that waits *)
(* is in reach of a claim.                                                  *)
(***************************************************************************)
EXTENDS Integers, FiniteSets

CONSTANTS
    Inputs,       \* what a dossier can be made of: evidence, interests, prompt, model
    Locales,      \* languages a brief is written in
    Workers,      \* executions of brief jobs
    Admitters,    \* executions of admission jobs
    MaxPending,   \* the organization's unfinished brief jobs
    MaxAttempts,  \* attempts of a job, and generations of a brief
    MaxRetries,   \* retries a user may ask for
    MaxRevision,  \* bound: times the policy is saved
    Cancels,      \* TRUE: users cancel jobs
    Overrun,      \* TRUE: an execution may outlive its lease
    NoWorker      \* a null lease_owner

ASSUME BriefAssumption ==
    /\ MaxPending \in Nat \ {0} /\ MaxAttempts \in Nat \ {0}
    /\ MaxRetries \in Nat /\ MaxRevision \in Nat
    /\ IsFiniteSet(Inputs \X Locales)
    /\ NoWorker \notin Workers /\ Overrun \in BOOLEAN /\ Cancels \in BOOLEAN

(* A brief is keyed by its input fingerprint, which binds the language.      *)
Keys == Inputs \X Locales
NoKey == <<>>

VARIABLES
    input,   \* what a dossier assembled now would be made of
    policy,  \* interest_brief_policies: enabled, revision
    brief,   \* interest_event_assessments: status, attempt_key, attempts
    ledger,  \* interest_assessment_attempts: the attempts recorded as running
    job,     \* the brief's job
    exec,    \* an execution: what it does, its brief, its attempt, what it raised
    adm,     \* an admission: its brief and policy while it measures
    request  \* the API transaction that cancels a job: the brief, the state read

vars == <<input, policy, brief, ledger, job, exec, adm, request>>

NoBrief == [status |-> "absent", attempt |-> 0, attempts |-> 0]
NoJob == [state |-> "absent", lease |-> NoWorker, cancel |-> FALSE,
          attempts |-> 0, max |-> MaxAttempts, policy |-> 0, retries |-> 0]
Doing(pc, k, token, why) == [pc |-> pc, key |-> k, token |-> token, why |-> why]
Idle == Doing("idle", NoKey, 0, "none")
NoAdmission == [key |-> NoKey, policy |-> 0]
NoRequest == [key |-> NoKey, seen |-> "none"]

Init ==
    /\ input \in Inputs
    /\ policy = [enabled |-> TRUE, revision |-> 0]
    /\ brief = [k \in Keys |-> NoBrief]
    /\ ledger = [k \in Keys |-> {}]
    /\ job = [k \in Keys |-> NoJob]
    /\ exec = [w \in Workers |-> Idle]
    /\ adm = [a \in Admitters |-> NoAdmission]
    /\ request = NoRequest

-------------------------------------------------------------------------------
(* Rows.                                                                     *)

Unfinished == {k \in Keys : brief[k].status \in {"queued", "running"}}
Live == {k \in Keys : job[k].state \in {"ready", "running"}}

(* The updates that close the briefs of S, and the attempts they own.        *)
BriefsClosed(S, status) ==
    [k \in Keys |-> IF k \in S THEN [status |-> status, attempt |-> 0, attempts |-> brief[k].attempts]
                    ELSE brief[k]]
(* Mutant: the attempt is left open.                                         *)
LedgerForgotten(S) == ledger
LedgerClosed(S) ==
    [k \in Keys |-> IF k \in S THEN ledger[k] \ {brief[k].attempt} ELSE ledger[k]]
Close(S, status) == brief' = BriefsClosed(S, status) /\ ledger' = LedgerClosed(S)

(* Mutant: a job that ends forgets its brief.                                *)
CloseUnfinishedNever(k, status) == k \in Keys /\ Close({}, status)
CloseUnfinished(k, status) == Close({k} \cap Unfinished, status)

(* Other inputs in the same language.                                        *)
(* Mutants: itself too; history too.                                         *)
StaleItself(k) == {o \in Unfinished : o[2] = k[2]}
StaleHistoryToo(k) == {o \in Keys \ {k} : o[2] = k[2] /\ brief[o].status # "absent"}
StaleFor(k) == {o \in Unfinished \ {k} : o[2] = k[2]}

CurrentPolicy(revision) == policy.enabled /\ policy.revision = revision

-------------------------------------------------------------------------------
(* Admission: measured outside a transaction, reserved inside one.           *)

AdmitMeasure(a, l) ==
    LET k == <<input, l>> IN
    /\ adm[a] = NoAdmission
    /\ policy.enabled
    /\ brief[k].status \in {"absent", "queued"}
    /\ adm' = [adm EXCEPT ![a] = [key |-> k, policy |-> policy.revision]]
    /\ UNCHANGED <<input, policy, brief, ledger, job, exec, request>>

(* It may reserve: the policy and the inputs are those it measured.          *)
Admissible(a) ==
    /\ adm[a].key # NoKey
    /\ CurrentPolicy(adm[a].policy)
    /\ adm[a].key[1] = input
    /\ brief[adm[a].key].status \in {"absent", "queued"}

(* Somebody reserved it meanwhile: the admission shares that job.            *)
AdmitReuse(a) ==
    /\ Admissible(a) /\ job[adm[a].key].state # "absent"
    /\ Close(StaleFor(adm[a].key), "superseded")
    /\ adm' = [adm EXCEPT ![a] = NoAdmission]
    /\ UNCHANGED <<input, policy, job, exec, request>>

Requested(j) == IF j.state = "ready"
                THEN [j EXCEPT !.state = "cancelled", !.cancel = TRUE]
                ELSE [j EXCEPT !.cancel = TRUE]

(* Mutant: an allowance checked one job too late.                            *)
RoomForOneMore(S) == Cardinality(S) <= MaxPending
Room(S) == Cardinality(S) < MaxPending

(* The brief, its job and its message commit together; jobs of superseded    *)
(* briefs are cancelled first and leave their place.                         *)
AdmitNew(a) ==
    LET k == adm[a].key
        stale == {o \in Live : o \in StaleFor(k) \/ brief[o].status = "superseded"}
        gone == {o \in stale : job[o].state = "ready"}
    IN  /\ Admissible(a) /\ job[k].state = "absent"
        /\ Room(Live \ gone)
        /\ brief' = [BriefsClosed(StaleFor(k), "superseded") EXCEPT
                        ![k] = [brief[k] EXCEPT !.status = "queued"]]
        /\ ledger' = LedgerClosed(StaleFor(k))
        /\ job' = [o \in Keys |->
                       IF o = k THEN [NoJob EXCEPT !.state = "ready", !.policy = adm[a].policy]
                       ELSE IF o \in stale THEN Requested(job[o]) ELSE job[o]]
        /\ adm' = [adm EXCEPT ![a] = NoAdmission]
        /\ UNCHANGED <<input, policy, exec, request>>

(* Refused, failed, cancelled or dead: nothing was written.                  *)
AdmitStop(a) ==
    /\ adm[a] # NoAdmission
    /\ adm' = [adm EXCEPT ![a] = NoAdmission]
    /\ UNCHANGED <<input, policy, brief, ledger, job, exec, request>>

-------------------------------------------------------------------------------
(* The job's execution.  Its lease (owner, attempts, leased_at) names it.    *)

(* Mutant: an attempt that is not counted.                                   *)
ClaimUncounted(k, w) == job' = [job EXCEPT ![k] = [@ EXCEPT !.state = "running", !.lease = w]]
ClaimRow(k, w) ==
    LET j == job[k] IN
    job' = [job EXCEPT ![k] = [j EXCEPT !.state = "running", !.lease = w,
                                        !.attempts = j.attempts + 1]]

Claim(w, k) ==
    /\ exec[w].pc = "idle"
    /\ job[k].state = "ready" /\ ~job[k].cancel
    /\ ClaimRow(k, w)
    /\ exec' = [exec EXCEPT ![w] = Doing("claimed", k, 0, "none")]
    /\ UNCHANGED <<input, policy, brief, ledger, adm, request>>

(* A job that was to be cancelled when its lease expired.                    *)
ClaimCancelled(k) ==
    /\ job[k].state = "ready" /\ job[k].cancel
    /\ job' = [job EXCEPT ![k] = [job[k] EXCEPT !.state = "cancelled", !.lease = NoWorker]]
    /\ CloseUnfinished(k, "failed")
    /\ UNCHANGED <<input, policy, exec, adm, request>>

Leased(w) == LET j == job[exec[w].key] IN j.state = "running" /\ j.lease = w
Stopped(w) == ~Leased(w) \/ job[exec[w].key].cancel
(* Mutants: the lease, or the policy, is not looked at.                      *)
GuardAnyLease(w) == LET j == job[exec[w].key] IN
    j.state = "running" /\ ~j.cancel /\ CurrentPolicy(j.policy)
Guard(w) == ~Stopped(w) /\ CurrentPolicy(job[exec[w].key].policy)

Raised(w, why) ==
    exec' = [exec EXCEPT ![w] = Doing("raised", exec[w].key, 0, why)]
At(w, pc) ==
    exec' = [exec EXCEPT ![w] = Doing(pc, exec[w].key, 0, "none")]

(* The brief is in the attempt this execution started.                       *)
Holds(w) == LET b == brief[exec[w].key] IN
    exec[w].token # 0 /\ b.status = "running" /\ b.attempt = exec[w].token
Fenced(w) == IF Holds(w) THEN {exec[w].key} ELSE {}

Working(w) == exec[w].pc \notin {"idle", "raised"}

(* A guard of a later step, or the heartbeat, finds the execution stopped.   *)
Evict(w) ==
    /\ Working(w) /\ ~Guard(w)
    /\ Close(Fenced(w), "failed")
    /\ Raised(w, IF Stopped(w) THEN "cancelled" ELSE "permanent")
    /\ UNCHANGED <<input, policy, job, adm, request>>

(* The runtime, the model, the deadline, the database, a shutdown.           *)
Break(w) ==
    /\ Working(w)
    /\ Close(Fenced(w), "failed")
    /\ \E why \in {"transient", "permanent", "cancelled"} : Raised(w, why)
    /\ UNCHANGED <<input, policy, job, adm, request>>

(* A recovered job fences the attempt of the execution before it, a retried  *)
(* one takes up its failed brief: at most MaxAttempts generations.           *)
Recovered(k) == brief[k].status = "running" /\ job[k].attempts > 1
Again(k) == Recovered(k) \/ brief[k].status = "failed"

(* Mutant: one generation too many.                                          *)
SpentTooLate(k) == brief[k].attempts > MaxAttempts
Spent(k) == brief[k].attempts >= MaxAttempts

Bind(w) ==
    LET k == exec[w].key IN
    /\ exec[w].pc = "claimed" /\ Guard(w)
    /\ Again(k) => ~Spent(k)
    /\ brief' = [brief EXCEPT ![k] =
                    IF Again(k) THEN [status |-> "queued", attempt |-> 0, attempts |-> brief[k].attempts]
                    ELSE brief[k]]
    /\ ledger' = LedgerClosed(IF Recovered(k) THEN {k} ELSE {})
    /\ At(w, "bound")
    /\ UNCHANGED <<input, policy, job, adm, request>>

BindExhausted(w) ==
    /\ exec[w].pc = "claimed" /\ Guard(w)
    /\ Again(exec[w].key) /\ Spent(exec[w].key)
    /\ Raised(w, "permanent")
    /\ UNCHANGED <<input, policy, brief, ledger, job, adm, request>>

(* prepare, before the prompt is measured and again by start after it: the   *)
(* inputs and the brief.  Only the second check writes.                      *)
Checking(w) == exec[w].pc = "bound" /\ Guard(w)
SameInput(k) == k[1] = input

FindChanged(w) ==
    /\ Checking(w) /\ ~SameInput(exec[w].key)
    /\ Raised(w, "changed")
    /\ UNCHANGED <<input, policy, brief, ledger, job, adm, request>>

(* Mutant: whatever settled the brief is taken for a result.                 *)
AnythingSettled(k) == brief[k].status # "queued"
Published(k) == brief[k].status = "succeeded"

FindSettled(w) ==
    /\ Checking(w) /\ SameInput(exec[w].key)
    /\ brief[exec[w].key].status # "queued"
    /\ IF Published(exec[w].key) THEN At(w, "published")
       ELSE Raised(w, "permanent")
    /\ UNCHANGED <<input, policy, brief, ledger, job, adm, request>>

(* claim: the attempt and its ledger row, in the transaction that supersedes *)
(* what older inputs left unfinished.                                        *)
Start(w) ==
    LET k == exec[w].key
        n == brief[k].attempts + 1
    IN  /\ Checking(w) /\ SameInput(k) /\ brief[k].status = "queued"
        /\ brief' = [BriefsClosed(StaleFor(k), "superseded") EXCEPT
                        ![k] = [status |-> "running", attempt |-> n, attempts |-> n]]
        /\ ledger' = [LedgerClosed(StaleFor(k)) EXCEPT ![k] = ledger[k] \cup {n}]
        /\ exec' = [exec EXCEPT ![w] = Doing("generating", k, n, "none")]
        /\ UNCHANGED <<input, policy, job, adm, request>>

(* The answer is generated outside every transaction; here it comes back.    *)
Returning(w) == exec[w].pc = "generating" /\ Guard(w)

Publishable(w) == SameInput(exec[w].key) /\ Holds(w)

Publish(w) ==
    /\ Returning(w) /\ Publishable(w)
    /\ Close({exec[w].key}, "succeeded")
    /\ At(w, "published")
    /\ UNCHANGED <<input, policy, job, adm, request>>

Discard(w) ==
    /\ Returning(w) /\ ~Publishable(w)
    /\ Close(Fenced(w), "superseded")
    /\ Raised(w, "permanent")
    /\ UNCHANGED <<input, policy, job, adm, request>>

Ended(j, state) == [j EXCEPT !.state = state, !.lease = NoWorker]

Complete(w) ==
    /\ exec[w].pc = "published" /\ Guard(w)
    /\ job' = [job EXCEPT ![exec[w].key] = Ended(job[exec[w].key], "succeeded")]
    /\ exec' = [exec EXCEPT ![w] = Idle]
    /\ UNCHANGED <<input, policy, brief, ledger, adm, request>>

(* The error handler: only the lease it took lets it touch the job.          *)
Settle(w) ==
    LET k == exec[w].key
        j == job[k]
        why == exec[w].why
    IN  /\ exec[w].pc = "raised"
        /\ exec' = [exec EXCEPT ![w] = Idle]
        /\ IF ~Leased(w) THEN UNCHANGED <<job, brief, ledger>>
           ELSE IF j.cancel \/ why = "cancelled"
           THEN /\ job' = [job EXCEPT ![k] = [Ended(j, "cancelled") EXCEPT !.cancel = TRUE]]
                /\ CloseUnfinished(k, "failed")
           ELSE IF why = "transient" /\ j.attempts < j.max
           THEN job' = [job EXCEPT ![k] = Ended(j, "ready")] /\ UNCHANGED <<brief, ledger>>
           ELSE /\ job' = [job EXCEPT ![k] = [Ended(j, "failed") EXCEPT
                               !.max = IF why = "transient" THEN j.max ELSE j.attempts]]
                /\ CloseUnfinished(k, IF why = "changed" THEN "superseded" ELSE "failed")
        /\ UNCHANGED <<input, policy, adm, request>>

Crash(w) ==
    /\ exec[w].pc # "idle"
    /\ exec' = [exec EXCEPT ![w] = Idle]
    /\ UNCHANGED <<input, policy, brief, ledger, job, adm, request>>

(* reconcile: the heartbeat is older than the lease.                         *)
Abandoned(k) == \A w \in Workers : exec[w].key = k => job[k].lease # w
Lapse(k) ==
    /\ job[k].state = "running" /\ (Overrun \/ Abandoned(k))
    /\ IF job[k].attempts >= job[k].max
       THEN job' = [job EXCEPT ![k] = Ended(job[k], "failed")] /\ CloseUnfinished(k, "failed")
       ELSE job' = [job EXCEPT ![k] = Ended(job[k], "ready")] /\ UNCHANGED <<brief, ledger>>
    /\ UNCHANGED <<input, policy, exec, adm, request>>

-------------------------------------------------------------------------------
(* The API: write_guard runs one of CancelRead..CancelWrite and RetryBrief   *)
(* at a time.                                                                *)

CancelRead(k) ==
    /\ Cancels /\ request = NoRequest
    /\ job[k].state \in {"ready", "running"}
    /\ request' = [key |-> k, seen |-> job[k].state]
    /\ UNCHANGED <<input, policy, brief, ledger, job, exec, adm>>

(* The columns it writes follow from the state it read.                      *)
CancelWrite ==
    LET k == request.key IN
    /\ request # NoRequest
    /\ IF request.seen = "ready"
       THEN /\ job' = [job EXCEPT ![k] = [job[k] EXCEPT !.state = "cancelled", !.cancel = TRUE]]
            /\ CloseUnfinished(k, "failed")
       ELSE job' = [job EXCEPT ![k] = [job[k] EXCEPT !.cancel = TRUE]] /\ UNCHANGED <<brief, ledger>>
    /\ request' = NoRequest
    /\ UNCHANGED <<input, policy, exec, adm>>

(* interest_recovery.prepare and jobs.retry, one transaction.                *)
RetryBrief(k) ==
    /\ request = NoRequest
    /\ job[k].state \in {"failed", "cancelled"} /\ brief[k].status = "failed"
    /\ ~Spent(k) /\ job[k].retries < MaxRetries
    /\ CurrentPolicy(job[k].policy) /\ Room(Live)
    /\ brief' = [brief EXCEPT ![k] = [brief[k] EXCEPT !.status = "queued"]]
    /\ job' = [job EXCEPT ![k] = [job[k] EXCEPT !.state = "ready", !.cancel = FALSE,
                                      !.attempts = 0, !.retries = job[k].retries + 1]]
    /\ UNCHANGED <<input, policy, ledger, exec, adm, request>>

(* A changed policy stops admissions and the jobs bound to the one before.   *)
SavePolicy(enabled) ==
    /\ policy.revision < MaxRevision
    /\ policy' = [enabled |-> enabled, revision |-> policy.revision + 1]
    /\ job' = [k \in Keys |-> IF k \in Live THEN Requested(job[k]) ELSE job[k]]
    /\ Close({k \in Live : job[k].state = "ready"} \cap Unfinished, "failed")
    /\ UNCHANGED <<input, exec, adm, request>>

(* Evidence, interests, prompt, configuration or the served model change.    *)
ChangeInput ==
    /\ input' \in Inputs \ {input}
    /\ UNCHANGED <<policy, brief, ledger, job, exec, adm, request>>

-------------------------------------------------------------------------------
Admission ==
    \E a \in Admitters :
        \/ \E l \in Locales : AdmitMeasure(a, l)
        \/ AdmitReuse(a) \/ AdmitNew(a) \/ AdmitStop(a)

(* What an execution does of its own accord, or has happen to it.            *)
Running(w) ==
    \/ Evict(w) \/ Break(w) \/ Bind(w) \/ BindExhausted(w)
    \/ FindChanged(w) \/ FindSettled(w) \/ Start(w)
    \/ Publish(w) \/ Discard(w) \/ Complete(w) \/ Settle(w)

Queue ==
    \E k \in Keys :
        \/ \E w \in Workers : Claim(w, k)
        \/ ClaimCancelled(k) \/ Lapse(k)

Api == (\E k \in Keys : CancelRead(k) \/ RetryBrief(k)) \/ CancelWrite

Outside == (\E enabled \in BOOLEAN : SavePolicy(enabled)) \/ ChangeInput

Next ==
    \/ Admission \/ Queue \/ Api \/ Outside
    \/ \E w \in Workers : Running(w) \/ Crash(w)

Spec == Init /\ [][Next]_vars

(* An execution that lives goes on, an expired lease is recovered, a job     *)
(* that waits is claimed when a worker is free.                              *)
Fairness ==
    /\ \A w \in Workers : WF_vars(Running(w))
    /\ \A k \in Keys :
         /\ WF_vars(Abandoned(k) /\ Lapse(k))
         /\ WF_vars(ClaimCancelled(k) \/ \E w \in Workers : Claim(w, k))

FairSpec == Spec /\ Fairness

-------------------------------------------------------------------------------
(* Properties.                                                               *)

(* Every variable has its type; neither a retry nor a recovery spends more   *)
(* than MaxAttempts on a job or on a brief.                                  *)
TypeOK ==
    /\ input \in Inputs
    /\ policy \in [enabled: BOOLEAN, revision: 0..MaxRevision]
    /\ brief \in [Keys -> [status: {"absent", "queued", "running", "succeeded", "failed", "superseded"},
                           attempt: 0..MaxAttempts, attempts: 0..MaxAttempts]]
    /\ ledger \in [Keys -> SUBSET (1..MaxAttempts)]
    /\ job \in [Keys -> [state: {"absent", "ready", "running", "succeeded", "failed", "cancelled"},
                         lease: Workers \cup {NoWorker}, cancel: BOOLEAN,
                         attempts: 0..MaxAttempts, max: 1..MaxAttempts,
                         policy: 0..MaxRevision, retries: 0..MaxRetries]]
    /\ exec \in [Workers -> [pc: {"idle", "claimed", "bound", "generating", "published", "raised"},
                             key: Keys \cup {NoKey}, token: 0..MaxAttempts,
                             why: {"none", "transient", "permanent", "cancelled", "changed"}]]
    /\ adm \in [Admitters -> [key: Keys \cup {NoKey}, policy: 0..MaxRevision]]
    /\ request \in [key: Keys \cup {NoKey}, seen: {"none", "ready", "running"}]

(* An unfinished brief has a job that will finish it: whichever way a job    *)
(* ends, it withdraws its brief (close_unfinished).                          *)
UnfinishedHasJob == Unfinished \subseteq Live

(* The only attempt on record as running is the one the brief is in: every   *)
(* writer of a brief closes the attempt it takes away (brief_attempts).      *)
OneOpenAttempt ==
    \A k \in Keys :
        ledger[k] = IF brief[k].status = "running" THEN {brief[k].attempt} ELSE {}

(* A job that succeeded left a published brief, also when it found it there. *)
CompletedIsPublished ==
    \A k \in Keys : job[k].state = "succeeded" => brief[k].status = "succeeded"

(* New briefs and retries together never exceed the pending allowance.       *)
PendingAllowance == Cardinality(Live) <= MaxPending

(* A brief enters an attempt or is published only by the execution that      *)
(* holds its lease, in its own attempt, uncancelled, from the inputs and     *)
(* under the policy in force (guard, AssessmentStore.claim and finish).      *)
WorkUnderLease ==
    [][\A k \in Keys :
         (brief'[k] # brief[k] /\ brief'[k].status \in {"running", "succeeded"})
            => \E w \in Workers :
                 /\ exec[w].key = k /\ Leased(w) /\ ~job[k].cancel
                 /\ CurrentPolicy(job[k].policy) /\ SameInput(k)
                 /\ brief'[k].status = "succeeded" => Holds(w)]_vars

(* History stands: a published or superseded brief never changes, a failed   *)
(* one is only queued again.                                                 *)
HistoryStands ==
    [][\A k \in Keys :
         /\ brief[k].status \in {"succeeded", "superseded"} => brief'[k] = brief[k]
         /\ brief[k].status = "failed" => brief'[k].status \in {"failed", "queued"}]_vars

(* A brief is superseded only by other inputs: while they are in force, or   *)
(* by an execution that met them.  Another language never does it (prepare). *)
OnlyStaleSuperseded ==
    [][\A k \in Keys :
         (brief[k].status # "superseded" /\ brief'[k].status = "superseded")
            => \/ ~SameInput(k)
               \/ \E w \in Workers : exec[w].key = k /\ exec[w].why = "changed"]_vars

(* Every job ends, however often its inputs change, its executions die or    *)
(* lose their leases, and the user asks for retries.                         *)
JobEnds == \A k \in Keys : (k \in Live) ~> (k \notin Live)

===============================================================================
