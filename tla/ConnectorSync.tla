---------------------------- MODULE ConnectorSync ----------------------------
(***************************************************************************)
(* Synchronization of one stream of an official source: the schedule, the  *)
(* runs and their durable jobs, the page a run discovers behind the cursor,*)
(* the items it stores one transaction at a time, the cursor it moves, and *)
(* the fan-out of the events to the feeds of organizations                 *)
(* (synchronization.py, connectors.py, service.py _run_connector_job).     *)
(*                                                                         *)
(* Items are numbered in the order of the source; the cursor is the last   *)
(* item of the last page.  Each transaction is one action: the schedule    *)
(* row is locked, jobs are claimed and recovered under SELECT ... FOR      *)
(* UPDATE.  A worker keeps the lease under the name of its container       *)
(* (celery_app.py run_job), which both slots of the ingest queue share, so *)
(* a heartbeat only asks whether the job is running.                       *)
(***************************************************************************)
EXTENDS Integers, FiniteSets

CONSTANTS
    Runs,         \* rows of connector_runs that still matter, each with its job
    Workers,      \* slots that consume the ingest queue
    Items,        \* bound: items the source ever publishes
    PageSize,     \* items of one discovered page
    MaxAttempts,  \* settings.job_max_attempts
    MaxMishaps,   \* bound: crashes, failures, cancellations, retries, edits of the
                  \* schedule and leases that lapse early
    Overrun,      \* TRUE: a run may outlive its lease
    NoRun         \* the run of a worker that is idle

ASSUME SyncAssumption ==
    /\ Items \in Nat /\ PageSize \in Nat \ {0} /\ MaxAttempts \in Nat \ {0}
    /\ MaxMishaps \in Nat /\ Overrun \in BOOLEAN /\ NoRun \notin Runs

VARIABLES
    published, \* the source: items 1..published can be discovered
    schedule,  \* connector_schedules: enabled, and when it runs next
    cursor,    \* connector_states.cursor_json
    page,      \* connector_pages, by the ends of the page
    stored,    \* items with a receipt and an event
    feeds,     \* items whose event is in the feeds of organizations
    run,       \* connector_runs: started, and the events not older than started_at
    job,       \* the run's job
    exec,      \* a worker: its run, the page it holds and the index it is at
    mishaps,
    retried,   \* a user has retried some job
    lapsed     \* some lease has lapsed while its worker was busy

storeVars == <<cursor, page, stored, feeds>>
boundVars == <<mishaps, retried, lapsed>>
vars == <<published, schedule, storeVars, run, job, exec, boundVars>>

(* A page is keyed by its input cursor, its output cursor and its items.     *)
Pages == {k \in (0..Items) \X (0..Items) : k[1] <= k[2]}
NoPage == [status |-> "absent", next |-> 0]
NewRun == [started |-> FALSE, found |-> {}]
NewJob == [state |-> "ready", attempts |-> 0, cancel |-> FALSE]
NoJob == [NewJob EXCEPT !.state = "absent"]
Idle == [pc |-> "idle", run |-> NoRun, from |-> 0, to |-> 0, index |-> 0]

Init ==
    /\ published = 0
    /\ schedule = [enabled |-> TRUE, due |-> TRUE]
    /\ cursor = 0
    /\ page = [k \in Pages |-> NoPage]
    /\ stored = {} /\ feeds = {}
    /\ run = [r \in Runs |-> NewRun]
    /\ job = [r \in Runs |-> NoJob]
    /\ exec = [w \in Workers |-> Idle]
    /\ mishaps = 0 /\ retried = FALSE /\ lapsed = FALSE

(* Mutant: a job that is running is not looked for.                          *)
ActiveReady == {r \in Runs : job[r].state = "ready"}
Active == {r \in Runs : job[r].state \in {"ready", "running"}}
Ended == {r \in Runs : job[r].state \in {"failed", "cancelled"}}
(* Rows, and the slots of the container, are alike: any will do.             *)
One(S) == CHOOSE x \in S : TRUE
IdleWorkers == {w \in Workers : exec[w].run = NoRun}
WorkersOf(r) == {w \in Workers : exec[w].run = r}
Once == mishaps < MaxMishaps /\ mishaps' = mishaps + 1
Mishap == Once /\ UNCHANGED <<retried, lapsed>>

-------------------------------------------------------------------------------
(* The schedule.  Beat fires every 15 s; the row is locked to admit.         *)

BecomeDue ==
    /\ ~schedule.due
    /\ schedule' = [schedule EXCEPT !.due = TRUE]
    /\ UNCHANGED <<published, storeVars, run, job, exec, boundVars>>

Due == schedule.enabled /\ schedule.due

(* Outside its window the run waits for the window to open.                  *)
Postpone ==
    /\ Due
    /\ schedule' = [schedule EXCEPT !.due = FALSE]
    /\ UNCHANGED <<published, storeVars, run, job, exec, boundVars>>

(* A row nobody executes is forgotten when its job succeeded, or when it     *)
(* ended and a retry would find nothing that is not in the feeds.            *)
Unused == {r \in Runs :
    \/ job[r].state = "absent"
    \/ WorkersOf(r) = {} /\ job[r].state = "succeeded"
    \/ WorkersOf(r) = {} /\ r \in Ended /\ run[r].found \subseteq feeds}

(* Mutant: no look for a job of the stream that is not finished.             *)
EnqueueBlindly ==
    /\ Unused # {}
    /\ run' = [run EXCEPT ![One(Unused)] = NewRun]
    /\ job' = [job EXCEPT ![One(Unused)] = NewJob]
Enqueue ==
    /\ Active = {} /\ Unused # {}
    /\ run' = [run EXCEPT ![One(Unused)] = NewRun]
    /\ job' = [job EXCEPT ![One(Unused)] = NewJob]

Admit ==
    /\ Due /\ Enqueue
    /\ schedule' = [schedule EXCEPT !.due = FALSE]
    /\ UNCHANGED <<published, storeVars, exec, boundVars>>

(* The stream is being synchronized: the slot is over all the same.          *)
AdmitReused ==
    /\ Due /\ Active # {}
    /\ schedule' = [schedule EXCEPT !.due = FALSE]
    /\ UNCHANGED <<published, storeVars, run, job, exec, boundVars>>

(* "Sync now" does not look at the schedule's clock; it may be paused.       *)
EnqueueManual ==
    /\ Enqueue
    /\ UNCHANGED <<published, schedule, storeVars, exec, boundVars>>

UpdateSchedule(enabled) ==
    /\ Mishap
    /\ schedule' = [enabled |-> enabled, due |-> schedule.due \/ enabled]
    /\ UNCHANGED <<published, storeVars, run, job, exec>>

-------------------------------------------------------------------------------
(* The job of a run, as the queue changes it.                                *)

Ends(r, state) == job' = [job EXCEPT ![r] = [job[r] EXCEPT !.state = state]]
Cancelled(r) ==
    job' = [job EXCEPT ![r] = [job[r] EXCEPT !.state = "cancelled", !.cancel = TRUE]]
Begins(r, pc) == [Idle EXCEPT !.pc = pc, !.run = r]

Claim(r) ==
    /\ IdleWorkers # {} /\ job[r].state = "ready" /\ ~job[r].cancel
    /\ job' = [job EXCEPT ![r] = [job[r] EXCEPT !.state = "running",
                                               !.attempts = job[r].attempts + 1]]
    /\ exec' = [exec EXCEPT ![One(IdleWorkers)] = Begins(r, "start")]
    /\ UNCHANGED <<published, schedule, storeVars, run, boundVars>>

ClaimCancelled(r) ==
    /\ job[r].state = "ready" /\ job[r].cancel
    /\ Cancelled(r)
    /\ UNCHANGED <<published, schedule, storeVars, run, exec, boundVars>>

(* Back to the queue while attempts are left.                                *)
(* Mutant: once more than the maximum.                                       *)
RequeuedOnceMore(r) == IF job[r].attempts <= MaxAttempts THEN "ready" ELSE "failed"
Requeued(r) == IF job[r].attempts < MaxAttempts THEN "ready" ELSE "failed"

(* Recovery goes by the age of the heartbeat alone: the worker is dead, or   *)
(* busy with a page for longer than the lease.  The latter uses up what is   *)
(* left of the bound on mishaps.                                             *)
Lapse(r) ==
    /\ job[r].state = "running" /\ WorkersOf(r) = {}
    /\ Ends(r, Requeued(r))
    /\ UNCHANGED <<published, schedule, storeVars, run, exec, boundVars>>

LapseEarly(r) ==
    /\ Overrun /\ mishaps < MaxMishaps /\ mishaps' = MaxMishaps /\ lapsed' = TRUE
    /\ job[r].state = "running" /\ WorkersOf(r) # {}
    /\ Ends(r, Requeued(r))
    /\ UNCHANGED <<published, schedule, storeVars, run, exec, retried>>

RequestCancel(r) ==
    /\ r \in Active /\ Mishap
    /\ IF job[r].state = "ready" THEN Cancelled(r)
       ELSE job' = [job EXCEPT ![r] = [job[r] EXCEPT !.cancel = TRUE]]
    /\ UNCHANGED <<published, schedule, storeVars, run, exec>>

(* Nothing looks for another job of the stream.                              *)
Retry(r) ==
    /\ r \in Ended /\ Once /\ retried' = TRUE
    /\ job' = [job EXCEPT ![r] = NewJob]
    /\ UNCHANGED <<published, schedule, storeVars, run, exec, lapsed>>

-------------------------------------------------------------------------------
(* A worker executes a run: one bounded page, then the fan-out.              *)

At(w, pc) == exec[w].pc = pc
Goes(w, pc) == exec' = [exec EXCEPT ![w] = [exec[w] EXCEPT !.pc = pc]]
PageDone(w) == exec' = [exec EXCEPT ![w] = Begins(exec[w].run, "fanout")]
Leaves(w) == exec' = [exec EXCEPT ![w] = Idle]
Heartbeat(w) == job[exec[w].run].state = "running" /\ ~job[exec[w].run].cancel
Key(w) == <<exec[w].from, exec[w].to>>
Length(w) == exec[w].to - exec[w].from

(* Mutant: each attempt starts the run anew.                                 *)
RestartedRun(r) == [started |-> TRUE, found |-> {}]
StartedRun(r) == [run[r] EXCEPT !.started = TRUE]

(* started_at is that of the first attempt.                                  *)
StartRun(w) ==
    /\ At(w, "start") /\ Heartbeat(w)
    /\ run' = [run EXCEPT ![exec[w].run] = StartedRun(exec[w].run)]
    /\ Goes(w, "read")
    /\ UNCHANGED <<published, schedule, storeVars, job, boundVars>>

ReadCursor(w) ==
    /\ At(w, "read")
    /\ exec' = [exec EXCEPT ![w] = [exec[w] EXCEPT !.pc = "discover", !.from = cursor]]
    /\ UNCHANGED <<published, schedule, storeVars, run, job, boundVars>>

(* The page the source answers for the cursor that was read.                 *)
Found(w) ==
    <<exec[w].from,
      IF exec[w].from + PageSize < published THEN exec[w].from + PageSize
      ELSE IF exec[w].from < published THEN published ELSE exec[w].from>>

(* A page that is complete returns its saved result.                         *)
(* Mutant: so does one that is not.                                          *)
ReturnSavedAnyway(w) ==
    /\ At(w, "discover") /\ page[Found(w)].status # "absent"
    /\ PageDone(w)
    /\ UNCHANGED <<published, schedule, storeVars, run, job, boundVars>>
ReturnSaved(w) ==
    /\ At(w, "discover") /\ page[Found(w)].status = "persisted"
    /\ PageDone(w)
    /\ UNCHANGED <<published, schedule, storeVars, run, job, boundVars>>

(* A new page, or one whose items are stored up to its next index.           *)
OpenPage(w) ==
    LET k == Found(w) IN
    /\ At(w, "discover") /\ page[k].status # "persisted"
    /\ page' = [page EXCEPT ![k] = [page[k] EXCEPT !.status = "open"]]
    /\ exec' = [exec EXCEPT ![w] = [exec[w] EXCEPT !.pc = "items", !.to = k[2],
                                                   !.index = page[k].next]]
    /\ UNCHANGED <<published, schedule, cursor, stored, feeds, run, job, boundVars>>

(* The source does not answer as expected: a degraded result.                *)
Degrade(w) ==
    /\ At(w, "discover") /\ Mishap
    /\ PageDone(w)
    /\ UNCHANGED <<published, schedule, storeVars, run, job>>

(* An item whose receipt exists is left alone.  Its event is not older than  *)
(* any run that has started.                                                 *)
StoreItem(w) ==
    LET i == exec[w].from + exec[w].index + 1 IN
    /\ At(w, "items") /\ exec[w].index < Length(w)
    /\ stored' = stored \cup {i}
    /\ run' = [r \in Runs |->
                  IF run[r].started /\ i \notin stored
                  THEN [run[r] EXCEPT !.found = run[r].found \cup {i}] ELSE run[r]]
    /\ Goes(w, "mark")
    /\ UNCHANGED <<published, schedule, cursor, page, feeds, job, boundVars>>

(* The safe checkpoint is a transaction of its own.                          *)
MarkItem(w) ==
    /\ At(w, "mark")
    /\ page' = [page EXCEPT ![Key(w)] = [page[Key(w)] EXCEPT !.next = exec[w].index + 1]]
    /\ exec' = [exec EXCEPT ![w] = [exec[w] EXCEPT !.pc = "items", !.index = exec[w].index + 1]]
    /\ UNCHANGED <<published, schedule, cursor, stored, feeds, run, job, boundVars>>

(* Mutant: the next attempt begins behind the item that failed.              *)
PastFailed(i) == i + 1
AtFailed(i) == i

(* An item that fails leaves a partial page, whoever persisted it meanwhile. *)
FailItem(w) ==
    /\ At(w, "items") /\ exec[w].index < Length(w) /\ Mishap
    /\ page' = [page EXCEPT ![Key(w)] = [status |-> "open", next |-> AtFailed(exec[w].index)]]
    /\ PageDone(w)
    /\ UNCHANGED <<published, schedule, cursor, stored, feeds, run, job>>

(* The cursor moves to the end of this page, wherever it is by now.          *)
ClosePage(w) ==
    /\ At(w, "items") /\ exec[w].index = Length(w)
    /\ cursor' = exec[w].to
    /\ page' = [page EXCEPT ![Key(w)] = [status |-> "persisted", next |-> Length(w)]]
    /\ PageDone(w)
    /\ UNCHANGED <<published, schedule, stored, feeds, run, job, boundVars>>

(* finish_run: every event since the first start of the run.                 *)
FanOut(w) ==
    /\ At(w, "fanout")
    /\ feeds' = feeds \cup run[exec[w].run].found
    /\ Goes(w, "report")
    /\ UNCHANGED <<published, schedule, cursor, page, stored, run, job, boundVars>>

Report(w) ==
    /\ At(w, "report") /\ Heartbeat(w)
    /\ Goes(w, "complete")
    /\ UNCHANGED <<published, schedule, storeVars, run, job, boundVars>>

(* complete looks neither at the state nor at the lease.                     *)
Complete(w) ==
    /\ At(w, "complete")
    /\ Ends(exec[w].run, IF job[exec[w].run].cancel THEN "cancelled" ELSE "succeeded")
    /\ Leaves(w)
    /\ UNCHANGED <<published, schedule, storeVars, run, boundVars>>

(* A lease that is lost looks like a cancellation, and becomes one.          *)
LoseHeartbeat(w) ==
    /\ exec[w].pc \in {"start", "report"} /\ ~Heartbeat(w)
    /\ Goes(w, "stop")
    /\ UNCHANGED <<published, schedule, storeVars, run, job, boundVars>>

Stop(w) ==
    /\ At(w, "stop")
    /\ Cancelled(exec[w].run)
    /\ Leaves(w)
    /\ UNCHANGED <<published, schedule, storeVars, run, boundVars>>

(* Anything else that is raised fails the job, whatever its state.           *)
Raise(w) ==
    /\ exec[w].pc \notin {"idle", "stop", "complete"} /\ Mishap
    /\ Ends(exec[w].run, IF job[exec[w].run].cancel THEN "cancelled" ELSE Requeued(exec[w].run))
    /\ Leaves(w)
    /\ UNCHANGED <<published, schedule, storeVars, run>>

(* The process dies; its job stays running.                                  *)
Crash(w) ==
    /\ exec[w].run # NoRun /\ Mishap
    /\ Leaves(w)
    /\ UNCHANGED <<published, schedule, storeVars, run, job>>

(* The source publishes, or modifies, an item: it comes last.                *)
Publish ==
    /\ published < Items
    /\ published' = published + 1
    /\ UNCHANGED <<schedule, storeVars, run, job, exec, boundVars>>

-------------------------------------------------------------------------------
Scheduler ==
    BecomeDue \/ Postpone \/ Admit \/ AdmitReused

Administrator ==
    \/ EnqueueManual \/ \E enabled \in BOOLEAN : UpdateSchedule(enabled)
    \/ \E r \in Runs : RequestCancel(r) \/ Retry(r)

Queue(r) == ClaimCancelled(r) \/ Lapse(r)

Page(w) == \/ ReadCursor(w) \/ ReturnSaved(w) \/ OpenPage(w)
           \/ StoreItem(w) \/ MarkItem(w) \/ ClosePage(w)

Work(w) == \/ StartRun(w) \/ Page(w) \/ FanOut(w) \/ Report(w) \/ Complete(w)
           \/ LoseHeartbeat(w) \/ Stop(w)

Fault(w) == Degrade(w) \/ FailItem(w) \/ Raise(w) \/ Crash(w)

Next ==
    \/ Publish \/ Scheduler \/ Administrator
    \/ \E r \in Runs : Claim(r) \/ Queue(r) \/ LapseEarly(r)
    \/ \E w \in Workers : Work(w) \/ Fault(w)

Spec == Init /\ [][Next]_vars

(***************************************************************************)
(* Beat admits every 15 s and recovers every 30 s, consumers take what     *)
(* waits and go on with what they took.  A postponed run is due when its   *)
(* window opens, so that Beat cannot find the window closed every time.    *)
(***************************************************************************)
Fairness ==
    /\ WF_vars(BecomeDue)
    /\ SF_vars(Admit \/ AdmitReused)
    /\ \A r \in Runs : WF_vars(Queue(r)) /\ SF_vars(Claim(r))
    /\ \A w \in Workers : WF_vars(Work(w))

FairSpec == Spec /\ Fairness

-------------------------------------------------------------------------------
PCs == {"start", "read", "discover", "items", "mark", "fanout", "report", "complete", "stop"}

(* Types, and that attempts never exceed their maximum.                      *)
TypeOK ==
    /\ published \in 0..Items /\ cursor \in 0..Items
    /\ schedule \in [enabled: BOOLEAN, due: BOOLEAN]
    /\ page \in [Pages -> [status: {"absent", "open", "persisted"}, next: 0..Items]]
    /\ stored \subseteq 1..Items /\ feeds \subseteq stored
    /\ run \in [Runs -> [started: BOOLEAN, found: SUBSET (1..Items)]]
    /\ job \in [Runs -> [state: {"absent", "ready", "running", "succeeded", "failed", "cancelled"},
                         attempts: 0..MaxAttempts, cancel: BOOLEAN]]
    /\ exec \in [Workers -> [pc: PCs \cup {"idle"}, run: Runs \cup {NoRun},
                             from: 0..Items, to: 0..Items, index: 0..Items]]
    /\ mishaps \in 0..MaxMishaps /\ retried \in BOOLEAN /\ lapsed \in BOOLEAN

(* The cursor never stands behind an item that was not stored: no failed     *)
(* item, resumed page, second worker or late run makes it skip one           *)
(* (connectors.py run_page, the checkpoint and the cursor).                  *)
CursorIsBacked == \A i \in 1..Items : i <= cursor => i \in stored

(* While leases outlive their runs, an event no feed has yet was found by a  *)
(* run that may still fan it out: it is on its way, or ended in a way the    *)
(* user may retry (start_run keeps the first boundary, finish_run looks back *)
(* to it).                                                                   *)
EventsAreCovered ==
    ~lapsed => \A i \in stored \ feeds :
                   \E r \in Active \cup Ended : i \in run[r].found

(* Unless a user retries an old run or a run outlives its lease, a stream    *)
(* has one unfinished run: the clock, "Sync now" and recovery never make two *)
(* (synchronization._enqueue).                                               *)
OneActiveRun == (~retried /\ ~lapsed) => \A r, s \in Active : r = s

(* The cursor goes back only after a retry of an old run, or a lease that    *)
(* lapsed under its worker, has let two workers into the stream              *)
(* (run_page writes the end of its own page over whatever is there).         *)
CursorMovesOn == [][lapsed \/ retried \/ cursor' >= cursor]_vars

(* While the schedule stays enabled, all that the source has published is    *)
(* again and again in the feeds, or left with a run that failed or was       *)
(* cancelled and that a user may retry (the next due run goes on from the    *)
(* stored state).                                                            *)
Waits(i) == i \in stored /\ \E r \in Ended : i \in run[r].found
CatchesUp ==
    <>[](schedule.enabled) =>
        []<>(\A i \in 1..Items : i <= published => i \in feeds \/ Waits(i))

(* It does so if no two workers are ever in the stream at once.              *)
Alone == \A v, w \in Workers : (exec[v].run # NoRun /\ exec[w].run # NoRun) => v = w
CatchesUpAlone == []Alone => CatchesUp

===============================================================================
