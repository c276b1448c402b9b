------------------------- MODULE ConnectorSyncProofs -------------------------
(***************************************************************************)
(* Proofs about ConnectorSync, for any number of runs, workers and items,   *)
(* any page size and any number of mishaps, with leases overrun or kept.    *)
(***************************************************************************)
EXTENDS ConnectorSync, TLAPS

PageRows == [status: {"absent", "open", "persisted"}, next: 0..Items]
RunRows == [started: BOOLEAN, found: SUBSET (1..Items)]
JobRows == [state: {"absent", "ready", "running", "succeeded", "failed", "cancelled"},
            attempts: 0..MaxAttempts, cancel: BOOLEAN]
Executions == [pc: PCs \cup {"idle"}, run: Runs \cup {NoRun},
               from: 0..Items, to: 0..Items, index: 0..Items]

(* A worker has a run unless it is idle, and is inside its page.             *)
Inside(e) ==
    /\ e.pc = "idle" <=> e.run = NoRun
    /\ e.pc \in {"items", "mark"} => e.from + e.index <= e.to
    /\ e.pc = "mark" => e.from + e.index + 1 <= e.to
    /\ e.pc \notin {"items", "mark"} => e.index = 0
InPage ==
    /\ \A k \in Pages : k[1] + page[k].next <= k[2]
    /\ \A w \in Workers : Inside(exec[w])

(* What waits has attempts left; what a run found is stored; the run of a    *)
(* worker has its row, and is started before its page.                       *)
InBounds ==
    /\ \A r \in Runs : job[r].state = "ready" => job[r].attempts < MaxAttempts
    /\ \A r \in Runs : run[r].found \subseteq stored
    /\ \A w \in Workers :
          /\ exec[w].run # NoRun => job[exec[w].run].state # "absent"
          /\ exec[w].pc \notin {"idle", "start", "stop"} => run[exec[w].run].started

(* All up to n is stored, for every n the cursor can move to.                *)
Upto(S, n) == \A i \in 1..Items : i <= n => i \in S
Backing ==
    /\ Upto(stored, cursor)
    /\ \A k \in Pages : page[k].next > 0 => Upto(stored, k[1] + page[k].next)
    /\ \A w \in Workers :
          /\ Upto(stored, exec[w].from + exec[w].index)
          /\ exec[w].pc = "mark" => Upto(stored, exec[w].from + exec[w].index + 1)

(* Until a lease lapses under its worker, a run has one worker at most, and  *)
(* is running while it has one.                                              *)
LeaseKept ==
    ~lapsed =>
        /\ \A w \in Workers : exec[w].run # NoRun => job[exec[w].run].state = "running"
        /\ \A v, w \in Workers : (exec[v].run = exec[w].run /\ exec[v].run # NoRun) => v = w

(* An event no feed has is with a run that has its fan-out before it.        *)
Carries(r, i) ==
    /\ r \in Active \cup Ended /\ i \in run[r].found
    /\ \A w \in WorkersOf(r) : exec[w].pc \notin {"report", "complete"}
Carried == ~lapsed => \A i \in stored \ feeds : \E r \in Runs : Carries(r, i)

(* Until somebody else came in, the cursor is where the worker read it.      *)
CursorHeld ==
    (~lapsed /\ ~retried) =>
        \A w \in Workers : exec[w].pc \in {"discover", "items", "mark"} => exec[w].from = cursor

SyncInv ==
    /\ TypeOK /\ InPage /\ InBounds /\ Backing
    /\ LeaseKept /\ Carried /\ OneActiveRun /\ CursorHeld

-------------------------------------------------------------------------------
(* The steps by what they touch.                                             *)
Outside == UNCHANGED <<storeVars, run, job, exec, retried, lapsed>>
Enqueued == Enqueue /\ UNCHANGED <<storeVars, exec, retried, lapsed>>
OfQueue(r) == ClaimCancelled(r) \/ Lapse(r) \/ LapseEarly(r) \/ RequestCancel(r) \/ Retry(r)
Walks(w) == \/ ReadCursor(w) \/ ReturnSaved(w) \/ Degrade(w)
            \/ Report(w) \/ LoseHeartbeat(w) \/ Crash(w)
Ending(w) == Complete(w) \/ Stop(w) \/ Raise(w)

StepOf ==
    \/ Outside \/ Enqueued
    \/ \E r \in Runs : OfQueue(r) \/ Claim(r)
    \/ \E w \in Workers :
          \/ StartRun(w) \/ Walks(w) \/ OpenPage(w) \/ StoreItem(w) \/ MarkItem(w)
          \/ FailItem(w) \/ ClosePage(w) \/ FanOut(w) \/ Ending(w)

LEMMA Steps == [Next]_vars => StepOf
<1> SUFFICES ASSUME [Next]_vars PROVE StepOf
  OBVIOUS
<1>1. CASE Publish \/ UNCHANGED vars
  BY <1>1 DEF Publish, vars, boundVars, StepOf, Outside
<1>2. CASE Scheduler
  BY <1>2 DEF Scheduler, BecomeDue, Postpone, Admit, AdmitReused, boundVars, StepOf, Outside, Enqueued
<1>3. CASE Administrator
  <2>1. CASE EnqueueManual
    BY <2>1 DEF EnqueueManual, boundVars, StepOf, Enqueued
  <2>2. CASE \E enabled \in BOOLEAN : UpdateSchedule(enabled)
    BY <2>2 DEF UpdateSchedule, Mishap, StepOf, Outside
  <2>3. CASE \E r \in Runs : RequestCancel(r) \/ Retry(r)
    BY <2>3 DEF StepOf, OfQueue
  <2> QED
    BY <1>3, <2>1, <2>2, <2>3 DEF Administrator
<1>4. CASE \E r \in Runs : Claim(r) \/ Queue(r) \/ LapseEarly(r)
  BY <1>4 DEF Queue, StepOf, OfQueue
<1>5. CASE \E w \in Workers : Work(w) \/ Fault(w)
  BY <1>5 DEF Work, Page, Fault, StepOf, Walks, Ending
<1> QED
  BY <1>1, <1>2, <1>3, <1>4, <1>5 DEF Next


-------------------------------------------------------------------------------
(* Types.                                                                    *)
LEMMA PageKeys ==
    /\ \A f, t \in 0..Items : f <= t => <<f, t>> \in Pages
    /\ \A k \in Pages : /\ k[1] \in 0..Items /\ k[2] \in 0..Items /\ k[1] <= k[2]
                        /\ k = <<k[1], k[2]>>
  BY DEF Pages

JobStates == {"absent", "ready", "running", "succeeded", "failed", "cancelled"}

(* The updates of a row keep it a row.                                       *)
LEMMA PageUpdates ==
    ASSUME NEW p \in PageRows, NEW n \in 0..Items
    PROVE  /\ [p EXCEPT !.status = "open"] \in PageRows /\ [p EXCEPT !.next = n] \in PageRows
           /\ [status |-> "open", next |-> n] \in PageRows
           /\ [status |-> "persisted", next |-> n] \in PageRows
  BY DEF PageRows

LEMMA RunUpdates ==
    ASSUME NEW u \in RunRows, NEW i \in 1..Items
    PROVE  /\ NewRun \in RunRows /\ [u EXCEPT !.started = TRUE] \in RunRows
           /\ [u EXCEPT !.found = u.found \cup {i}] \in RunRows
  BY DEF RunRows, NewRun

LEMMA JobUpdates ==
    ASSUME NEW j \in JobRows
    PROVE  /\ NewJob \in JobRows /\ [j EXCEPT !.cancel = TRUE] \in JobRows
           /\ \A state \in JobStates :
                 /\ [j EXCEPT !.state = state] \in JobRows
                 /\ [j EXCEPT !.state = state, !.cancel = TRUE] \in JobRows
                 /\ \A n \in 0..MaxAttempts : [j EXCEPT !.state = state, !.attempts = n] \in JobRows
<1>1. ASSUME NEW i \in JobRows
      PROVE  /\ \A state \in JobStates : [i EXCEPT !.state = state] \in JobRows
             /\ \A n \in 0..MaxAttempts : [i EXCEPT !.attempts = n] \in JobRows
             /\ [i EXCEPT !.cancel = TRUE] \in JobRows
  BY DEF JobRows, JobStates
<1>2. NewJob \in JobRows
  <2>1. 0 \in 0..MaxAttempts
    BY SyncAssumption
  <2> QED
    BY <2>1 DEF NewJob, JobRows
<1>3. ASSUME NEW state \in JobStates
      PROVE  /\ [j EXCEPT !.state = state] \in JobRows
             /\ [j EXCEPT !.state = state, !.cancel = TRUE] \in JobRows
             /\ \A n \in 0..MaxAttempts : [j EXCEPT !.state = state, !.attempts = n] \in JobRows
  <2>1. [j EXCEPT !.state = state] \in JobRows
    BY <1>1
  <2>2. [[j EXCEPT !.state = state] EXCEPT !.cancel = TRUE] \in JobRows
    BY <1>1, <2>1
  <2>3. \A n \in 0..MaxAttempts : [[j EXCEPT !.state = state] EXCEPT !.attempts = n] \in JobRows
    BY <1>1, <2>1
  <2>4. [j EXCEPT !.state = state, !.cancel = TRUE] \in JobRows
    BY <2>2 DEF JobRows
  <2>5. \A n \in 0..MaxAttempts : [j EXCEPT !.state = state, !.attempts = n] \in JobRows
    BY <2>3 DEF JobRows
  <2> QED
    BY <2>1, <2>4, <2>5
<1> QED
  BY <1>1, <1>2, <1>3

LEMMA IdleExecution == Idle \in Executions
<1>1. 0 \in 0..Items
  BY SyncAssumption
<1> QED
  BY <1>1 DEF Idle, Executions

LEMMA ExecutionUpdates ==
    ASSUME NEW e \in Executions, NEW p \in PCs
    PROVE  /\ [e EXCEPT !.pc = p] \in Executions
           /\ \A f \in 0..Items : [e EXCEPT !.pc = p, !.from = f] \in Executions
           /\ \A t, n \in 0..Items : [e EXCEPT !.pc = p, !.to = t, !.index = n] \in Executions
           /\ \A n \in 0..Items : [e EXCEPT !.pc = p, !.index = n] \in Executions
           /\ \A r \in Runs : Begins(r, p) \in Executions
<1>1. ASSUME NEW d \in Executions
      PROVE  /\ [d EXCEPT !.pc = p] \in Executions
             /\ \A f \in 0..Items : [d EXCEPT !.from = f] \in Executions
             /\ \A t \in 0..Items : [d EXCEPT !.to = t] \in Executions
             /\ \A n \in 0..Items : [d EXCEPT !.index = n] \in Executions
             /\ \A r \in Runs : [d EXCEPT !.run = r] \in Executions
  BY DEF Executions
<1>2. [e EXCEPT !.pc = p] \in Executions
  BY <1>1
<1>3. ASSUME NEW f \in 0..Items PROVE [e EXCEPT !.pc = p, !.from = f] \in Executions
  <2>1. [[e EXCEPT !.pc = p] EXCEPT !.from = f] \in Executions
    BY <1>1, <1>2
  <2> QED
    BY <2>1 DEF Executions
<1>4. ASSUME NEW t \in 0..Items, NEW n \in 0..Items
      PROVE  [e EXCEPT !.pc = p, !.to = t, !.index = n] \in Executions
  <2>1. [[e EXCEPT !.pc = p] EXCEPT !.to = t] \in Executions
    BY <1>1, <1>2
  <2>2. [[[e EXCEPT !.pc = p] EXCEPT !.to = t] EXCEPT !.index = n] \in Executions
    BY <1>1, <2>1
  <2> QED
    BY <2>2 DEF Executions
<1>5. ASSUME NEW n \in 0..Items PROVE [e EXCEPT !.pc = p, !.index = n] \in Executions
  <2>1. [[e EXCEPT !.pc = p] EXCEPT !.index = n] \in Executions
    BY <1>1, <1>2
  <2> QED
    BY <2>1 DEF Executions
<1>6. ASSUME NEW r \in Runs PROVE Begins(r, p) \in Executions
  <2>1. [Idle EXCEPT !.pc = p] \in Executions
    BY <1>1, IdleExecution
  <2>2. [[Idle EXCEPT !.pc = p] EXCEPT !.run = r] \in Executions
    BY <1>1, <2>1
  <2> QED
    BY <2>2, IdleExecution DEF Executions, Begins
<1> QED
  BY <1>2, <1>3, <1>4, <1>5, <1>6

(* What the source, the schedule and the bounds contribute to TypeOK, and    *)
(* what the rows and the workers do.                                         *)
Clock ==
    /\ published \in 0..Items /\ schedule \in [enabled: BOOLEAN, due: BOOLEAN]
    /\ mishaps \in 0..MaxMishaps /\ retried \in BOOLEAN /\ lapsed \in BOOLEAN
Rows ==
    /\ cursor \in 0..Items /\ page \in [Pages -> PageRows]
    /\ stored \subseteq 1..Items /\ feeds \subseteq stored
    /\ run \in [Runs -> RunRows] /\ job \in [Runs -> JobRows]
    /\ exec \in [Workers -> Executions]

LEMMA TypesSplit == TypeOK <=> Clock /\ Rows
  BY DEF TypeOK, Clock, Rows, PageRows, RunRows, JobRows, Executions

LEMMA ClockKept ==
    ASSUME Clock, [Next]_vars
    PROVE  Clock'
<1> USE SyncAssumption
<1>b. Once => mishaps' \in 0..MaxMishaps
  BY DEF Once, Clock
<1>a. Mishap => mishaps' \in 0..MaxMishaps /\ UNCHANGED <<retried, lapsed>>
  BY <1>b DEF Mishap
<1>1. CASE Publish \/ UNCHANGED vars
  BY <1>1 DEF Publish, vars, boundVars, Clock
<1>2. CASE Scheduler
  BY <1>2 DEF Scheduler, BecomeDue, Postpone, Admit, AdmitReused, boundVars, Clock
<1>3. CASE Administrator
  <2>1. CASE EnqueueManual
    BY <2>1 DEF EnqueueManual, boundVars, Clock
  <2>2. ASSUME NEW enabled \in BOOLEAN, UpdateSchedule(enabled) PROVE Clock'
    BY <2>2, <1>a DEF UpdateSchedule, Clock
  <2>3. ASSUME NEW r \in Runs, RequestCancel(r) PROVE Clock'
    BY <2>3, <1>a DEF RequestCancel, Clock
  <2>4. ASSUME NEW r \in Runs, Retry(r) PROVE Clock'
    BY <2>4, <1>b DEF Retry, Clock
  <2> QED
    BY <1>3, <2>1, <2>2, <2>3, <2>4 DEF Administrator
<1>4. CASE \E r \in Runs : Claim(r) \/ Queue(r) \/ LapseEarly(r)
  <2>1. MaxMishaps \in 0..MaxMishaps
    OBVIOUS
  <2>2. /\ UNCHANGED <<published, schedule>>
        /\ UNCHANGED boundVars \/ (mishaps' = MaxMishaps /\ lapsed' = TRUE /\ retried' = retried)
    BY <1>4 DEF Claim, Queue, ClaimCancelled, Lapse, LapseEarly
  <2> QED
    BY <2>1, <2>2 DEF boundVars, Clock
<1>5. CASE \E w \in Workers : Work(w) \/ Fault(w)
  <2>1. UNCHANGED <<published, schedule>> /\ (UNCHANGED boundVars \/ Mishap)
    BY <1>5 DEF Work, Page, Fault, StartRun, ReadCursor, ReturnSaved, OpenPage, StoreItem,
       MarkItem, ClosePage, FanOut, Report, Complete, LoseHeartbeat, Stop, Degrade, FailItem,
       Raise, Crash
  <2> QED
    BY <2>1, <1>a DEF Clock, boundVars
<1> QED
  BY <1>1, <1>2, <1>3, <1>4, <1>5 DEF Next

(* One worker goes on, and one job is written.                               *)
LEMMA WorkerWritten ==
    ASSUME Rows, NEW w \in Workers, NEW e \in Executions, exec' = [exec EXCEPT ![w] = e]
    PROVE  /\ exec' \in [Workers -> Executions] /\ exec'[w] = e
           /\ \A v \in Workers : v # w => exec'[v] = exec[v]
  BY DEF Rows

LEMMA JobWritten ==
    ASSUME Rows, NEW r \in Runs, NEW j \in JobRows, job' = [job EXCEPT ![r] = j]
    PROVE  /\ job' \in [Runs -> JobRows] /\ job'[r] = j
           /\ \A s \in Runs : s # r => job'[s] = job[s]
  BY DEF Rows

LEMMA PageWritten ==
    ASSUME Rows, NEW k \in Pages, NEW p \in PageRows, page' = [page EXCEPT ![k] = p]
    PROVE  /\ page' \in [Pages -> PageRows] /\ page'[k] = p
           /\ \A l \in Pages : l # k => page'[l] = page[l]
  BY DEF Rows

(* The steps of a worker that end nothing.                                   *)
LEMMA Walked ==
    ASSUME SyncInv, NEW w \in Workers, Walks(w)
    PROVE  /\ exec' \in [Workers -> Executions]
           /\ UNCHANGED <<storeVars, run, job, retried, lapsed>>
           /\ \A v \in Workers : v # w => exec'[v] = exec[v]
           /\ exec[w].run \in Runs
           /\ \/ exec'[w] = Idle
              \/ exec'[w] = [exec[w] EXCEPT !.pc = "discover", !.from = cursor] /\ exec[w].pc = "read"
              \/ exec'[w] = Begins(exec[w].run, "fanout") /\ exec[w].pc = "discover"
              \/ exec'[w] = [exec[w] EXCEPT !.pc = "complete"] /\ exec[w].pc = "report"
              \/ exec'[w] = [exec[w] EXCEPT !.pc = "stop"] /\ exec[w].pc \in {"start", "report"}
<1>1. Rows /\ exec[w] \in Executions /\ cursor \in 0..Items
  BY TypesSplit DEF SyncInv, Rows
<1>2. exec[w].pc # "idle" => exec[w].run \in Runs
  BY <1>1 DEF SyncInv, InPage, Inside, Executions
<1>3. CASE ReadCursor(w)
  <2>1. [exec[w] EXCEPT !.pc = "discover", !.from = cursor] \in Executions
    BY <1>1, <1>2, <1>3, ExecutionUpdates DEF ReadCursor, At, PCs
  <2> QED
    BY <1>1, <1>2, <1>3, <2>1, WorkerWritten DEF ReadCursor, At, boundVars, storeVars
<1>4. CASE ReturnSaved(w) \/ Degrade(w)
  <2>1. Begins(exec[w].run, "fanout") \in Executions
    BY <1>1, <1>2, <1>4, ExecutionUpdates DEF ReturnSaved, Degrade, At, PCs
  <2> QED
    BY <1>1, <1>2, <1>4, <2>1, WorkerWritten
    DEF ReturnSaved, Degrade, Mishap, At, PageDone, boundVars, storeVars
<1>5. CASE Report(w)
  <2>1. [exec[w] EXCEPT !.pc = "complete"] \in Executions
    BY <1>1, <1>2, <1>5, ExecutionUpdates DEF Report, At, PCs
  <2> QED
    BY <1>1, <1>2, <1>5, <2>1, WorkerWritten DEF Report, At, Goes, boundVars, storeVars
<1>6. CASE LoseHeartbeat(w)
  <2>1. [exec[w] EXCEPT !.pc = "stop"] \in Executions
    BY <1>1, <1>2, <1>6, ExecutionUpdates DEF LoseHeartbeat, PCs
  <2> QED
    BY <1>1, <1>2, <1>6, <2>1, WorkerWritten DEF LoseHeartbeat, Goes, boundVars, storeVars
<1>7. CASE Crash(w)
  <2>1. exec[w].run \in Runs
    BY <1>1, <1>7 DEF Crash, Executions
  <2> QED
    BY <1>1, <1>7, <2>1, WorkerWritten, IdleExecution DEF Crash, Mishap, Leaves, boundVars, storeVars
<1> QED
  BY <1>3, <1>4, <1>5, <1>6, <1>7 DEF Walks

(* What the queue and the users do to a job.                                 *)
LEMMA Queued ==
    ASSUME SyncInv, NEW r \in Runs, OfQueue(r)
    PROVE  /\ job' \in [Runs -> JobRows] /\ \A s \in Runs : s # r => job'[s] = job[s]
           /\ UNCHANGED <<storeVars, run, exec>>
           /\ (lapsed => lapsed') /\ (retried => retried')
           /\ \/ job[r].state = "ready" /\ job'[r].state = "cancelled"
              \/ /\ job[r].state = "running" /\ (WorkersOf(r) = {} \/ lapsed')
                 /\ job'[r].state \in {"ready", "failed"}
                 /\ job'[r].state = "ready" => job'[r].attempts < MaxAttempts
              \/ job[r].state = "running" /\ job'[r].state = "running"
              \/ r \in Ended /\ job'[r] = NewJob /\ retried'
<1>1. Rows /\ job[r] \in JobRows
  BY TypesSplit DEF SyncInv, Rows
<1>2. CASE ClaimCancelled(r) \/ (RequestCancel(r) /\ job[r].state = "ready")
  <2>1. [job[r] EXCEPT !.state = "cancelled", !.cancel = TRUE] \in JobRows
    BY <1>1, JobUpdates, SyncAssumption DEF JobStates
  <2>2. /\ job' = [job EXCEPT ![r] = [job[r] EXCEPT !.state = "cancelled", !.cancel = TRUE]]
        /\ job[r].state = "ready" /\ UNCHANGED <<storeVars, run, exec, retried, lapsed>>
    BY <1>2 DEF ClaimCancelled, RequestCancel, Cancelled, Mishap, boundVars
  <2>3. /\ job' \in [Runs -> JobRows] /\ \A s \in Runs : s # r => job'[s] = job[s]
        /\ job'[r] = [job[r] EXCEPT !.state = "cancelled", !.cancel = TRUE]
    BY <1>1, <2>1, <2>2, JobWritten
  <2>4. job'[r].state = "cancelled"
    BY <1>1, <2>3 DEF JobRows
  <2> QED
    BY <2>2, <2>3, <2>4
<1>3. CASE Lapse(r) \/ LapseEarly(r)
  <2>1. /\ Requeued(r) \in {"ready", "failed"}
        /\ Requeued(r) = "ready" => job[r].attempts < MaxAttempts
    BY DEF Requeued
  <2>2. [job[r] EXCEPT !.state = Requeued(r)] \in JobRows
    BY <1>1, <2>1, JobUpdates, SyncAssumption DEF JobStates
  <2>3. job' = [job EXCEPT ![r] = [job[r] EXCEPT !.state = Requeued(r)]]
    BY <1>3 DEF Lapse, LapseEarly, Ends
  <2>4. /\ job' \in [Runs -> JobRows] /\ \A s \in Runs : s # r => job'[s] = job[s]
        /\ job'[r] = [job[r] EXCEPT !.state = Requeued(r)]
    BY <1>1, <2>2, <2>3, JobWritten
  <2>5. job'[r].state = Requeued(r) /\ job'[r].attempts = job[r].attempts
    BY <1>1, <2>4 DEF JobRows
  <2>6. /\ UNCHANGED <<storeVars, run, exec, retried>> /\ (lapsed => lapsed')
        /\ job[r].state = "running" /\ (WorkersOf(r) = {} \/ lapsed')
    BY <1>3 DEF Lapse, LapseEarly, boundVars
  <2> QED
    BY <2>1, <2>4, <2>5, <2>6
<1>4. CASE RequestCancel(r) /\ job[r].state # "ready"
  <2>1. [job[r] EXCEPT !.cancel = TRUE] \in JobRows
    BY <1>1, JobUpdates, SyncAssumption DEF JobStates
  <2> QED
    BY <1>1, <1>4, <2>1, JobWritten DEF RequestCancel, Active, Mishap, storeVars, JobRows
<1>5. CASE Retry(r)
  <2>1. NewJob \in JobRows
    BY <1>1, JobUpdates, SyncAssumption DEF JobStates
  <2> QED
    BY <1>1, <1>5, <2>1, JobWritten DEF Retry, storeVars
<1> QED
  <2>1. \/ ClaimCancelled(r) \/ (RequestCancel(r) /\ job[r].state = "ready")
        \/ Lapse(r) \/ LapseEarly(r)
        \/ (RequestCancel(r) /\ job[r].state # "ready")
        \/ Retry(r)
    BY DEF OfQueue
  <2> QED
    BY <2>1, <1>2, <1>3, <1>4, <1>5, Zenon

LEMMA Claimed ==
    ASSUME SyncInv, NEW r \in Runs, Claim(r)
    PROVE  /\ job' \in [Runs -> JobRows] /\ \A s \in Runs : s # r => job'[s] = job[s]
           /\ job[r].state = "ready" /\ job'[r].state = "running"
           /\ UNCHANGED <<storeVars, run, retried, lapsed>>
           /\ \E w \in Workers : /\ exec[w].run = NoRun /\ exec'[w] = Begins(r, "start")
                                 /\ \A v \in Workers : v # w => exec'[v] = exec[v]
           /\ exec' \in [Workers -> Executions]
<1>1. Rows /\ job[r] \in JobRows
  BY TypesSplit DEF SyncInv, Rows
<1>2. One(IdleWorkers) \in Workers /\ exec[One(IdleWorkers)].run = NoRun
  BY DEF Claim, One, IdleWorkers
<1>3. Begins(r, "start") \in Executions
  BY <1>1, <1>2, ExecutionUpdates DEF Rows, PCs
<1>4. job[r].attempts + 1 \in 0..MaxAttempts
  BY <1>1, SyncAssumption DEF SyncInv, InBounds, Claim, JobRows
<1>5. [job[r] EXCEPT !.state = "running", !.attempts = job[r].attempts + 1] \in JobRows
  BY <1>1, <1>4, JobUpdates DEF JobStates
<1>6. /\ job' \in [Runs -> JobRows] /\ \A s \in Runs : s # r => job'[s] = job[s]
      /\ job'[r] = [job[r] EXCEPT !.state = "running", !.attempts = job[r].attempts + 1]
  BY <1>1, <1>5, JobWritten DEF Claim
<1>7. job'[r].state = "running"
  BY <1>1, <1>6 DEF JobRows
<1>8. /\ exec' \in [Workers -> Executions] /\ exec'[One(IdleWorkers)] = Begins(r, "start")
      /\ \A v \in Workers : v # One(IdleWorkers) => exec'[v] = exec[v]
  BY <1>1, <1>2, <1>3, WorkerWritten DEF Claim
<1>9. job[r].state = "ready" /\ UNCHANGED <<storeVars, run, retried, lapsed>>
  BY DEF Claim, boundVars
<1> QED
  BY <1>2, <1>6, <1>7, <1>8, <1>9

LEMMA Admitted ==
    ASSUME SyncInv, Enqueued
    PROVE  /\ Active = {} /\ UNCHANGED <<storeVars, exec, retried, lapsed>>
           /\ job' \in [Runs -> JobRows] /\ run' \in [Runs -> RunRows]
           /\ \E u \in Unused : /\ job'[u] = NewJob /\ run'[u] = NewRun
                                /\ \A s \in Runs : s # u => job'[s] = job[s] /\ run'[s] = run[s]
<1>1. Rows
  BY TypesSplit DEF SyncInv
<1>2. One(Unused) \in Unused /\ One(Unused) \in Runs
  BY DEF Enqueued, Enqueue, One, Unused
<1>3. NewJob \in JobRows /\ NewRun \in RunRows
  <2>1. 0 \in 0..MaxAttempts
    BY SyncAssumption
  <2> QED
    BY <2>1 DEF NewJob, NewRun, JobRows, RunRows
<1>4. PICK u \in Unused : u = One(Unused)
  BY <1>2
<1>5. /\ job' = [job EXCEPT ![u] = NewJob] /\ run' = [run EXCEPT ![u] = NewRun] /\ u \in Runs
  BY <1>2, <1>4 DEF Enqueued, Enqueue
<1> QED
  BY <1>1, <1>3, <1>5 DEF Enqueued, Enqueue, Rows

LEMMA Started ==
    ASSUME SyncInv, NEW w \in Workers, StartRun(w)
    PROVE  /\ UNCHANGED <<storeVars, job, retried, lapsed>>
           /\ exec[w].pc = "start" /\ exec[w].run \in Runs
           /\ exec' \in [Workers -> Executions] /\ exec'[w] = [exec[w] EXCEPT !.pc = "read"]
           /\ \A v \in Workers : v # w => exec'[v] = exec[v]
           /\ run' \in [Runs -> RunRows] /\ run'[exec[w].run].started
           /\ \A r \in Runs : run'[r].found = run[r].found /\ (run[r].started => run'[r].started)
<1>1. Rows /\ exec[w] \in Executions
  BY TypesSplit DEF SyncInv, Rows
<1>2. exec[w].pc = "start" /\ exec[w].run \in Runs
  BY <1>1 DEF StartRun, At, SyncInv, InPage, Inside, Executions
<1>3. [exec[w] EXCEPT !.pc = "read"] \in Executions
  BY <1>1, <1>2, ExecutionUpdates DEF PCs
<1>4. run' = [run EXCEPT ![exec[w].run] = [run[exec[w].run] EXCEPT !.started = TRUE]]
  BY DEF StartRun, StartedRun
<1>5. /\ exec' \in [Workers -> Executions] /\ exec'[w] = [exec[w] EXCEPT !.pc = "read"]
      /\ \A v \in Workers : v # w => exec'[v] = exec[v]
  BY <1>1, <1>3, WorkerWritten DEF StartRun, Goes
<1>6. [run[exec[w].run] EXCEPT !.started = TRUE] \in RunRows
  BY <1>1, <1>2 DEF Rows, RunRows
<1>7. /\ run' \in [Runs -> RunRows] /\ run'[exec[w].run].started
      /\ \A r \in Runs : run'[r].found = run[r].found /\ (run[r].started => run'[r].started)
  BY <1>1, <1>2, <1>4, <1>6 DEF Rows, RunRows
<1>8. UNCHANGED <<storeVars, job, retried, lapsed>>
  BY DEF StartRun, boundVars
<1> QED
  BY <1>2, <1>5, <1>7, <1>8

(* A worker with a page.                                                     *)
LEMMA InItsPage ==
    ASSUME SyncInv, NEW w \in Workers, exec[w].pc \in {"items", "mark"}
    PROVE  /\ exec[w] \in Executions /\ exec[w].run \in Runs /\ Key(w) \in Pages
           /\ exec[w].from \in 0..Items /\ exec[w].to \in 0..Items /\ exec[w].index \in 0..Items
           /\ exec[w].from + exec[w].index <= exec[w].to
           /\ Length(w) \in 0..Items /\ exec[w].from + Length(w) = exec[w].to
           /\ Key(w)[1] = exec[w].from /\ Key(w)[2] = exec[w].to
<1>1. Rows /\ exec[w] \in Executions
  BY TypesSplit DEF SyncInv, Rows
<1>2. exec[w].from \in 0..Items /\ exec[w].to \in 0..Items /\ exec[w].index \in 0..Items
  BY <1>1 DEF Executions
<1>3. exec[w].run \in Runs
  BY <1>1 DEF SyncInv, InPage, Inside, Executions
<1>4. exec[w].from + exec[w].index <= exec[w].to
  BY DEF SyncInv, InPage, Inside
<1>5. Key(w) \in Pages /\ Length(w) \in 0..Items /\ exec[w].from + Length(w) = exec[w].to
  BY <1>2, <1>4, PageKeys, SyncAssumption DEF Key, Length
<1> QED
  BY <1>1, <1>2, <1>3, <1>4, <1>5 DEF Key

LEMMA Opened ==
    ASSUME SyncInv, NEW w \in Workers, OpenPage(w)
    PROVE  /\ UNCHANGED <<cursor, stored, feeds, run, job, retried, lapsed>>
           /\ exec[w].pc = "discover" /\ exec[w].run \in Runs
           /\ exec' \in [Workers -> Executions] /\ \A v \in Workers : v # w => exec'[v] = exec[v]
           /\ page' \in [Pages -> PageRows]
           /\ \A l \in Pages : page'[l].next = page[l].next
           /\ \E k \in Pages :
                 /\ k[1] = exec[w].from
                 /\ exec'[w] = [exec[w] EXCEPT !.pc = "items", !.to = k[2], !.index = page[k].next]
<1>1. Rows /\ exec[w] \in Executions
  BY TypesSplit DEF SyncInv, Rows
<1>2. exec[w].pc = "discover" /\ exec[w].run \in Runs
  BY <1>1 DEF OpenPage, At, SyncInv, InPage, Inside, Executions
<1>3. Found(w) \in Pages /\ Found(w)[1] = exec[w].from
  <2>1. exec[w].from \in 0..Items /\ published \in 0..Items
    BY <1>1, TypesSplit DEF Executions, SyncInv, Clock
  <2>2. PageSize \in Nat \ {0} /\ Items \in Nat
    BY SyncAssumption
  <2> DEFINE to == IF exec[w].from + PageSize < published THEN exec[w].from + PageSize
                   ELSE IF exec[w].from < published THEN published ELSE exec[w].from
  <2>3. to \in 0..Items /\ exec[w].from <= to
    BY <2>1, <2>2
  <2>4. Found(w) = <<exec[w].from, to>>
    BY DEF Found
  <2> HIDE DEF to
  <2> QED
    BY <2>1, <2>3, <2>4, PageKeys
<1>4. PICK k \in Pages : k = Found(w)
  BY <1>3
<1>5. k[2] \in 0..Items /\ page[k] \in PageRows /\ page[k].next \in 0..Items
  BY <1>1, PageKeys DEF Rows, PageRows
<1>6. [exec[w] EXCEPT !.pc = "items", !.to = k[2], !.index = page[k].next] \in Executions
  BY <1>1, <1>5, ExecutionUpdates DEF PCs
<1>7. [page[k] EXCEPT !.status = "open"] \in PageRows
  BY <1>5, PageUpdates
<1>8. /\ page' = [page EXCEPT ![k] = [page[k] EXCEPT !.status = "open"]]
      /\ exec' = [exec EXCEPT ![w] = [exec[w] EXCEPT !.pc = "items", !.to = k[2],
                                                     !.index = page[k].next]]
      /\ UNCHANGED <<cursor, stored, feeds, run, job, retried, lapsed>>
  BY <1>4 DEF OpenPage, boundVars
<1>9. /\ page' \in [Pages -> PageRows] /\ page'[k] = [page[k] EXCEPT !.status = "open"]
      /\ \A l \in Pages : l # k => page'[l] = page[l]
  BY <1>1, <1>7, <1>8, PageWritten
<1>10. /\ exec' \in [Workers -> Executions] /\ \A v \in Workers : v # w => exec'[v] = exec[v]
       /\ exec'[w] = [exec[w] EXCEPT !.pc = "items", !.to = k[2], !.index = page[k].next]
  BY <1>1, <1>6, <1>8, WorkerWritten
<1>11. page'[k].next = page[k].next
  BY <1>5, <1>9 DEF PageRows
<1> QED
  BY <1>2, <1>3, <1>4, <1>8, <1>9, <1>10, <1>11

LEMMA ItemStored ==
    ASSUME SyncInv, NEW w \in Workers, StoreItem(w)
    PROVE  /\ UNCHANGED <<cursor, page, feeds, job, retried, lapsed>> /\ exec[w].pc = "items"
           /\ exec' \in [Workers -> Executions] /\ exec'[w] = [exec[w] EXCEPT !.pc = "mark"]
           /\ \A v \in Workers : v # w => exec'[v] = exec[v]
           /\ run' \in [Runs -> RunRows]
           /\ exec[w].from + exec[w].index + 1 \in 1..Items
           /\ exec[w].from + exec[w].index + 1 <= exec[w].to
           /\ stored' = stored \cup {exec[w].from + exec[w].index + 1}
           /\ \A r \in Runs : /\ run'[r].started = run[r].started
                              /\ run[r].found \subseteq run'[r].found
                              /\ run'[r].found \subseteq run[r].found \cup stored'
                              /\ \A i \in stored' \ stored : run[r].started => i \in run'[r].found
<1>1. Rows /\ exec[w].pc = "items" /\ exec[w].index < Length(w)
  BY TypesSplit DEF StoreItem, At, SyncInv
<1>2. /\ exec[w] \in Executions /\ exec[w].from + Length(w) = exec[w].to
      /\ exec[w].from \in 0..Items /\ exec[w].to \in 0..Items /\ exec[w].index \in 0..Items
      /\ Length(w) \in 0..Items
  BY <1>1, InItsPage
<1> DEFINE i == exec[w].from + exec[w].index + 1
<1>3. i \in 1..Items /\ i <= exec[w].to
  BY <1>1, <1>2, SyncAssumption
<1>4. /\ stored' = stored \cup {i}
      /\ run' = [r \in Runs |-> IF run[r].started /\ i \notin stored
                                THEN [run[r] EXCEPT !.found = run[r].found \cup {i}] ELSE run[r]]
      /\ exec' = [exec EXCEPT ![w] = [exec[w] EXCEPT !.pc = "mark"]]
      /\ UNCHANGED <<cursor, page, feeds, job, retried, lapsed>>
  BY DEF StoreItem, Goes, boundVars
<1> HIDE DEF i
<1>5. [exec[w] EXCEPT !.pc = "mark"] \in Executions
  BY <1>2, ExecutionUpdates DEF PCs
<1>6. /\ exec' \in [Workers -> Executions] /\ exec'[w] = [exec[w] EXCEPT !.pc = "mark"]
      /\ \A v \in Workers : v # w => exec'[v] = exec[v]
  BY <1>1, <1>4, <1>5, WorkerWritten
<1>7. ASSUME NEW r \in Runs
      PROVE  /\ run'[r] \in RunRows /\ run'[r].started = run[r].started
             /\ run[r].found \subseteq run'[r].found
             /\ run'[r].found \subseteq run[r].found \cup stored'
             /\ \A n \in stored' \ stored : run[r].started => n \in run'[r].found
  <2>1. run[r] \in RunRows
    BY <1>1 DEF Rows
  <2>2. [run[r] EXCEPT !.found = run[r].found \cup {i}] \in RunRows
    BY <2>1, <1>3, RunUpdates
  <2>3. CASE run[r].started /\ i \notin stored
    <3>1. run'[r] = [run[r] EXCEPT !.found = run[r].found \cup {i}]
      BY <1>4, <2>3
    <3> QED
      BY <1>4, <2>1, <2>2, <3>1 DEF RunRows
  <2>4. CASE ~(run[r].started /\ i \notin stored)
    <3>1. run'[r] = run[r]
      BY <1>4, <2>4
    <3> QED
      BY <1>4, <2>1, <2>4, <3>1
  <2> QED
    BY <2>3, <2>4
<1>8. run' \in [Runs -> RunRows]
  BY <1>4, <1>7
<1> QED
  BY <1>1, <1>3, <1>4, <1>6, <1>7, <1>8 DEF i

LEMMA Marked ==
    ASSUME SyncInv, NEW w \in Workers, MarkItem(w)
    PROVE  /\ UNCHANGED <<cursor, stored, feeds, run, job, retried, lapsed>> /\ exec[w].pc = "mark"
           /\ exec' \in [Workers -> Executions] /\ \A v \in Workers : v # w => exec'[v] = exec[v]
           /\ exec'[w] = [exec[w] EXCEPT !.pc = "items", !.index = exec[w].index + 1]
           /\ page' \in [Pages -> PageRows] /\ page'[Key(w)].next = exec[w].index + 1
           /\ \A k \in Pages : k # Key(w) => page'[k] = page[k]
           /\ exec[w].from + exec[w].index + 1 <= exec[w].to
           /\ exec[w].index + 1 \in 1..Items
<1>1. Rows /\ exec[w].pc = "mark" /\ exec[w].from + exec[w].index + 1 <= exec[w].to
  BY TypesSplit DEF MarkItem, At, SyncInv, InPage, Inside
<1>2. /\ exec[w] \in Executions /\ Key(w) \in Pages /\ exec[w].index \in 0..Items
      /\ exec[w].from \in 0..Items /\ exec[w].to \in 0..Items
  BY <1>1, InItsPage
<1>3. exec[w].index + 1 \in 0..Items /\ exec[w].index + 1 \in 1..Items
  BY <1>1, <1>2, SyncAssumption
<1>4. [exec[w] EXCEPT !.pc = "items", !.index = exec[w].index + 1] \in Executions
  BY <1>2, <1>3, ExecutionUpdates DEF PCs
<1>5. [page[Key(w)] EXCEPT !.next = exec[w].index + 1] \in PageRows
  BY <1>1, <1>2, <1>3, PageUpdates DEF Rows
<1>6. /\ page' \in [Pages -> PageRows]
      /\ page'[Key(w)] = [page[Key(w)] EXCEPT !.next = exec[w].index + 1]
      /\ \A k \in Pages : k # Key(w) => page'[k] = page[k]
  BY <1>1, <1>2, <1>5, PageWritten DEF MarkItem
<1>7. page'[Key(w)].next = exec[w].index + 1
  BY <1>1, <1>2, <1>6 DEF Rows, PageRows
<1>8. /\ exec' \in [Workers -> Executions] /\ \A v \in Workers : v # w => exec'[v] = exec[v]
      /\ exec'[w] = [exec[w] EXCEPT !.pc = "items", !.index = exec[w].index + 1]
  BY <1>1, <1>4, WorkerWritten DEF MarkItem
<1>9. UNCHANGED <<cursor, stored, feeds, run, job, retried, lapsed>>
  BY DEF MarkItem, boundVars
<1> QED
  BY <1>1, <1>3, <1>6, <1>7, <1>8, <1>9

(* A page that is done with, because an item failed or at its end.           *)
LEMMA PageDoneWith ==
    ASSUME SyncInv, NEW w \in Workers, FailItem(w) \/ ClosePage(w)
    PROVE  /\ UNCHANGED <<stored, feeds, run, job, retried, lapsed>> /\ exec[w].pc = "items"
           /\ exec' \in [Workers -> Executions] /\ \A v \in Workers : v # w => exec'[v] = exec[v]
           /\ exec'[w] = Begins(exec[w].run, "fanout")
           /\ page' \in [Pages -> PageRows] /\ page'[Key(w)].next = exec[w].index
           /\ \A k \in Pages : k # Key(w) => page'[k] = page[k]
           /\ \/ cursor' = cursor
              \/ cursor' = exec[w].to /\ exec[w].from + exec[w].index = exec[w].to
<1>1. Rows /\ exec[w].pc = "items"
  BY TypesSplit DEF FailItem, ClosePage, At, SyncInv
<1>2. /\ exec[w] \in Executions /\ exec[w].run \in Runs /\ Key(w) \in Pages
      /\ exec[w].index \in 0..Items /\ Length(w) \in 0..Items
      /\ exec[w].from + Length(w) = exec[w].to
  BY <1>1, InItsPage
<1>3. Begins(exec[w].run, "fanout") \in Executions
  BY <1>2, ExecutionUpdates DEF PCs
<1>4. /\ exec' \in [Workers -> Executions] /\ \A v \in Workers : v # w => exec'[v] = exec[v]
      /\ exec'[w] = Begins(exec[w].run, "fanout")
  BY <1>1, <1>3, WorkerWritten DEF FailItem, ClosePage, PageDone
<1>5. PICK p \in PageRows : p.next = exec[w].index /\ page' = [page EXCEPT ![Key(w)] = p]
  <2>1. CASE FailItem(w)
    <3>1. [status |-> "open", next |-> exec[w].index] \in PageRows
      BY <1>2 DEF PageRows
    <3> QED
      BY <2>1, <3>1 DEF FailItem, AtFailed
  <2>2. CASE ClosePage(w)
    <3>1. [status |-> "persisted", next |-> Length(w)] \in PageRows
      BY <1>2 DEF PageRows
    <3> QED
      BY <2>2, <3>1 DEF ClosePage
  <2> QED
    BY <2>1, <2>2
<1>6. /\ page' \in [Pages -> PageRows] /\ page'[Key(w)] = p
      /\ \A k \in Pages : k # Key(w) => page'[k] = page[k]
  BY <1>1, <1>2, <1>5, PageWritten
<1>7. /\ UNCHANGED <<stored, feeds, run, job, retried, lapsed>>
      /\ \/ cursor' = cursor
         \/ cursor' = exec[w].to /\ exec[w].index = Length(w)
  BY DEF FailItem, ClosePage, Mishap, boundVars
<1> QED
  BY <1>1, <1>2, <1>4, <1>5, <1>6, <1>7

LEMMA FannedOut ==
    ASSUME SyncInv, NEW w \in Workers, FanOut(w)
    PROVE  /\ UNCHANGED <<cursor, page, stored, run, job, retried, lapsed>>
           /\ exec[w].pc = "fanout" /\ exec[w].run \in Runs
           /\ feeds' = feeds \cup run[exec[w].run].found
           /\ exec' \in [Workers -> Executions] /\ exec'[w] = [exec[w] EXCEPT !.pc = "report"]
           /\ \A v \in Workers : v # w => exec'[v] = exec[v]
<1>1. Rows /\ exec[w] \in Executions /\ exec[w].pc = "fanout"
  BY TypesSplit DEF FanOut, At, SyncInv, Rows
<1>2. exec[w].run \in Runs
  BY <1>1 DEF SyncInv, InPage, Inside, Executions
<1>3. [exec[w] EXCEPT !.pc = "report"] \in Executions
  BY <1>1, ExecutionUpdates DEF PCs
<1>4. /\ exec' \in [Workers -> Executions] /\ exec'[w] = [exec[w] EXCEPT !.pc = "report"]
      /\ \A v \in Workers : v # w => exec'[v] = exec[v]
  BY <1>1, <1>3, WorkerWritten DEF FanOut, Goes
<1> QED
  BY <1>1, <1>2, <1>4 DEF FanOut, boundVars

LEMMA JobEnded ==
    ASSUME SyncInv, NEW w \in Workers, Ending(w)
    PROVE  /\ UNCHANGED <<storeVars, run, retried, lapsed>> /\ exec[w].run \in Runs
           /\ exec' \in [Workers -> Executions] /\ exec'[w] = Idle
           /\ \A v \in Workers : v # w => exec'[v] = exec[v]
           /\ job' \in [Runs -> JobRows] /\ \A s \in Runs : s # exec[w].run => job'[s] = job[s]
           /\ \/ exec[w].pc = "complete" /\ job'[exec[w].run].state \in {"succeeded", "cancelled"}
              \/ /\ job'[exec[w].run].state \in {"ready", "failed", "cancelled"}
                 /\ job'[exec[w].run].state = "ready" => job'[exec[w].run].attempts < MaxAttempts
<1> DEFINE r == exec[w].run
<1>1. Rows /\ exec[w] \in Executions /\ exec[w].pc # "idle"
  BY TypesSplit DEF Ending, Complete, Stop, Raise, At, SyncInv, Rows
<1>2. r \in Runs /\ job[r] \in JobRows
  BY <1>1 DEF SyncInv, InPage, Inside, Executions, Rows
<1>3. /\ exec' \in [Workers -> Executions] /\ exec'[w] = Idle
      /\ \A v \in Workers : v # w => exec'[v] = exec[v]
  BY <1>1, IdleExecution, WorkerWritten DEF Ending, Complete, Stop, Raise, Leaves
<1>4. UNCHANGED <<storeVars, run, retried, lapsed>>
  BY DEF Ending, Complete, Stop, Raise, Mishap, boundVars
<1>5. CASE Stop(w)
  <2>1. [job[r] EXCEPT !.state = "cancelled", !.cancel = TRUE] \in JobRows
    BY <1>2, JobUpdates DEF JobStates
  <2>2. /\ job' \in [Runs -> JobRows] /\ \A s \in Runs : s # r => job'[s] = job[s]
        /\ job'[r] = [job[r] EXCEPT !.state = "cancelled", !.cancel = TRUE]
    BY <1>1, <1>2, <1>5, <2>1, JobWritten DEF Stop, Cancelled
  <2>3. job'[r].state = "cancelled"
    BY <1>2, <2>2 DEF JobRows
  <2> QED
    BY <1>2, <1>3, <1>4, <2>2, <2>3
<1>6. CASE Complete(w) \/ Raise(w)
  <2>1. PICK state \in JobStates :
            /\ job' = [job EXCEPT ![r] = [job[r] EXCEPT !.state = state]]
            /\ \/ exec[w].pc = "complete" /\ state \in {"succeeded", "cancelled"}
               \/ /\ state \in {"ready", "failed", "cancelled"}
                  /\ state = "ready" => job[r].attempts < MaxAttempts
    <3>1. CASE Complete(w)
      BY <3>1 DEF Complete, At, Ends, JobStates
    <3>2. CASE Raise(w)
      BY <3>2 DEF Raise, Ends, Requeued, JobStates
    <3> QED
      BY <1>6, <3>1, <3>2
  <2>2. [job[r] EXCEPT !.state = state] \in JobRows
    BY <1>2, JobUpdates
  <2>3. /\ job' \in [Runs -> JobRows] /\ \A s \in Runs : s # r => job'[s] = job[s]
        /\ job'[r] = [job[r] EXCEPT !.state = state]
    BY <1>1, <1>2, <2>1, <2>2, JobWritten
  <2>4. job'[r].state = state /\ job'[r].attempts = job[r].attempts
    BY <1>2, <2>3 DEF JobRows
  <2> QED
    BY <1>2, <1>3, <1>4, <2>1, <2>3, <2>4
<1> QED
  BY <1>5, <1>6 DEF Ending

-------------------------------------------------------------------------------
(* What each step keeps.                                                     *)
LEMMA RowsKept ==
    ASSUME SyncInv, StepOf
    PROVE  Rows'
<1>1. Rows
  BY TypesSplit DEF SyncInv
<1>2. CASE Outside
  BY <1>1, <1>2 DEF Outside, storeVars, Rows
<1>3. CASE Enqueued
  BY <1>1, <1>3, Admitted DEF storeVars, Rows
<1>4. ASSUME NEW r \in Runs, OfQueue(r) PROVE Rows'
  BY <1>1, <1>4, Queued DEF storeVars, Rows
<1>5. ASSUME NEW r \in Runs, Claim(r) PROVE Rows'
  BY <1>1, <1>5, Claimed DEF storeVars, Rows
<1>6. ASSUME NEW w \in Workers, StartRun(w) PROVE Rows'
  BY <1>1, <1>6, Started DEF storeVars, Rows
<1>7. ASSUME NEW w \in Workers, Walks(w) PROVE Rows'
  BY <1>1, <1>7, Walked DEF storeVars, Rows
<1>8. ASSUME NEW w \in Workers, OpenPage(w) PROVE Rows'
  BY <1>1, <1>8, Opened DEF Rows
<1>9. ASSUME NEW w \in Workers, StoreItem(w) PROVE Rows'
  BY <1>1, <1>9, ItemStored DEF Rows
<1>10. ASSUME NEW w \in Workers, MarkItem(w) PROVE Rows'
  BY <1>1, <1>10, Marked DEF Rows
<1>11. ASSUME NEW w \in Workers, FailItem(w) \/ ClosePage(w) PROVE Rows'
  <2>1. exec[w].to \in 0..Items
    BY <1>11, PageDoneWith, InItsPage
  <2>2. cursor' \in 0..Items
    BY <1>1, <1>11, <2>1, PageDoneWith DEF Rows
  <2> QED
    BY <1>1, <1>11, <2>2, PageDoneWith DEF Rows
<1>12. ASSUME NEW w \in Workers, FanOut(w) PROVE Rows'
  <2>1. run[exec[w].run].found \subseteq stored
    BY <1>12, FannedOut DEF SyncInv, InBounds
  <2> QED
    BY <1>1, <1>12, <2>1, FannedOut DEF Rows
<1>13. ASSUME NEW w \in Workers, Ending(w) PROVE Rows'
  BY <1>1, <1>13, JobEnded DEF storeVars, Rows
<1> QED
  BY <1>2, <1>3, <1>4, <1>5, <1>6, <1>7, <1>8, <1>9, <1>10, <1>11, <1>12, <1>13 DEF StepOf

(* Where a worker can be after a step, in terms of where it was.             *)
LEMMA BeginsFields ==
    ASSUME NEW r \in Runs, NEW p \in PCs
    PROVE  /\ Begins(r, p).pc = p /\ Begins(r, p).run = r
           /\ Begins(r, p).from = 0 /\ Begins(r, p).to = 0 /\ Begins(r, p).index = 0
  BY DEF Begins, Idle

LEMMA IdleFields ==
    /\ Idle.pc = "idle" /\ Idle.run = NoRun /\ Idle.from = 0 /\ Idle.to = 0 /\ Idle.index = 0
  BY DEF Idle

LEMMA NoRunIsNone == \A r \in Runs : r # NoRun
  BY SyncAssumption

LEMMA InsideUpdates ==
    ASSUME NEW e \in Executions, Inside(e), e.pc # "idle"
    PROVE  /\ Inside(Idle)
           /\ \A p \in PCs, r \in Runs : p \notin {"items", "mark"} => Inside(Begins(r, p))
           /\ \A p \in PCs : (p \notin {"items", "mark"} /\ e.pc \notin {"items", "mark"})
                                => Inside([e EXCEPT !.pc = p])
           /\ \A f \in 0..Items : e.pc \notin {"items", "mark"}
                                    => Inside([e EXCEPT !.pc = "discover", !.from = f])
<1>1. Inside(Idle)
  BY IdleFields DEF Inside
<1>2. \A p \in PCs, r \in Runs : p \notin {"items", "mark"} => Inside(Begins(r, p))
  BY BeginsFields, NoRunIsNone DEF Inside, PCs
<1>3. ASSUME NEW p \in PCs, p \notin {"items", "mark"}, e.pc \notin {"items", "mark"}
      PROVE  Inside([e EXCEPT !.pc = p])
  BY <1>3 DEF Inside, Executions, PCs
<1>4. ASSUME NEW f \in 0..Items, e.pc \notin {"items", "mark"}
      PROVE  Inside([e EXCEPT !.pc = "discover", !.from = f])
  BY <1>4 DEF Inside, Executions
<1> QED
  BY <1>1, <1>2, <1>3, <1>4

LEMMA MovedFields ==
    ASSUME NEW e \in Executions
    PROVE  \A p \in PCs, t \in Int, n \in Int :
               /\ LET d == [e EXCEPT !.pc = p]
                  IN d.pc = p /\ d.run = e.run /\ d.from = e.from /\ d.to = e.to /\ d.index = e.index
               /\ LET d == [e EXCEPT !.pc = p, !.index = n]
                  IN d.pc = p /\ d.run = e.run /\ d.from = e.from /\ d.to = e.to /\ d.index = n
               /\ LET d == [e EXCEPT !.pc = p, !.to = t, !.index = n]
                  IN d.pc = p /\ d.run = e.run /\ d.from = e.from /\ d.to = t /\ d.index = n
  BY DEF Executions

(* The fields of a worker whose step is one of those before the fan-out.     *)
LEMMA StepFields ==
    ASSUME SyncInv, NEW w \in Workers
    PROVE  /\ StartRun(w) => exec'[w].pc = "read" /\ exec'[w].index = exec[w].index
           /\ OpenPage(w) => exec'[w].pc = "items"
           /\ StoreItem(w) => exec'[w].pc = "mark" /\ exec'[w].index = exec[w].index
           /\ MarkItem(w) => exec'[w].pc = "items" /\ exec'[w].index = exec[w].index + 1
           /\ FanOut(w) => exec'[w].pc = "report" /\ exec'[w].index = exec[w].index
           /\ StartRun(w) \/ OpenPage(w) \/ StoreItem(w) \/ MarkItem(w) \/ FanOut(w) =>
                 exec[w].run \in Runs /\ exec'[w].run = exec[w].run /\ exec'[w].from = exec[w].from
<1>1. exec[w] \in Executions /\ exec[w].index \in Int
  BY TypesSplit DEF SyncInv, Rows, Executions
<1>2. exec[w].pc \in {"items", "mark"} => exec[w].run \in Runs
  BY InItsPage
<1>3. CASE StartRun(w)
  <2>1. exec[w].pc = "start" /\ exec[w].run \in Runs /\ exec'[w] = [exec[w] EXCEPT !.pc = "read"]
    BY <1>3, Started
  <2>2. /\ exec'[w].pc = "read" /\ exec'[w].run = exec[w].run /\ exec'[w].from = exec[w].from
        /\ exec'[w].index = exec[w].index
    BY <1>1, <2>1, MovedFields DEF PCs
  <2> QED
    BY <2>1, <2>2 DEF OpenPage, StoreItem, MarkItem, FanOut, At
<1>4. CASE OpenPage(w)
  <2>1. PICK k \in Pages :
            exec'[w] = [exec[w] EXCEPT !.pc = "items", !.to = k[2], !.index = page[k].next]
    BY <1>4, Opened
  <2>2. k[2] \in Int /\ page[k].next \in Int
    BY PageKeys, TypesSplit DEF SyncInv, Rows, PageRows
  <2>3. exec'[w].pc = "items" /\ exec'[w].run = exec[w].run /\ exec'[w].from = exec[w].from
    BY <1>1, <2>1, <2>2, MovedFields DEF PCs
  <2>4. exec[w].pc = "discover" /\ exec[w].run \in Runs
    BY <1>4, Opened
  <2> QED
    BY <2>3, <2>4 DEF StartRun, StoreItem, MarkItem, FanOut, At
<1>5. CASE StoreItem(w)
  <2>1. exec[w].pc = "items" /\ exec'[w] = [exec[w] EXCEPT !.pc = "mark"]
    BY <1>5, ItemStored
  <2>2. /\ exec'[w].pc = "mark" /\ exec'[w].run = exec[w].run /\ exec'[w].from = exec[w].from
        /\ exec'[w].index = exec[w].index
    BY <1>1, <2>1, MovedFields DEF PCs
  <2> QED
    BY <1>2, <2>1, <2>2 DEF StartRun, OpenPage, MarkItem, FanOut, At
<1>6. CASE MarkItem(w)
  <2>1. exec[w].pc = "mark" /\ exec'[w] = [exec[w] EXCEPT !.pc = "items", !.index = exec[w].index + 1]
    BY <1>6, Marked
  <2>2. /\ exec'[w].pc = "items" /\ exec'[w].run = exec[w].run /\ exec'[w].from = exec[w].from
        /\ exec'[w].index = exec[w].index + 1
    BY <1>1, <2>1, MovedFields DEF PCs
  <2> QED
    BY <1>2, <2>1, <2>2 DEF StartRun, OpenPage, StoreItem, FanOut, At
<1>7. CASE FanOut(w)
  <2>1. exec[w].pc = "fanout" /\ exec[w].run \in Runs /\ exec'[w] = [exec[w] EXCEPT !.pc = "report"]
    BY <1>7, FannedOut
  <2>2. /\ exec'[w].pc = "report" /\ exec'[w].run = exec[w].run /\ exec'[w].from = exec[w].from
        /\ exec'[w].index = exec[w].index
    BY <1>1, <2>1, MovedFields DEF PCs
  <2> QED
    BY <2>1, <2>2 DEF StartRun, OpenPage, StoreItem, MarkItem, At
<1> QED
  BY <1>3, <1>4, <1>5, <1>6, <1>7

LEMMA InPageKept ==
    ASSUME SyncInv, StepOf
    PROVE  InPage'
<1>1. /\ \A k \in Pages : k[1] + page[k].next <= k[2]
      /\ \A w \in Workers : Inside(exec[w]) /\ exec[w] \in Executions
  BY TypesSplit DEF SyncInv, InPage, Rows
<1>2. \A w \in Workers : exec[w].run \in Runs => exec[w].pc # "idle"
  BY <1>1, NoRunIsNone DEF Inside
<1>3. CASE UNCHANGED <<page, exec>>
  BY <1>1, <1>3 DEF InPage
<1>4. CASE Outside \/ Enqueued \/ \E r \in Runs : OfQueue(r)
  BY <1>3, <1>4, Admitted, Queued DEF Outside, storeVars
<1>5. ASSUME NEW w \in Workers, UNCHANGED page, Inside(exec'[w]),
             \A v \in Workers : v # w => exec'[v] = exec[v]
      PROVE  InPage'
  BY <1>1, <1>5 DEF InPage
<1>6. ASSUME NEW r \in Runs, Claim(r) PROVE InPage'
  <2>1. Inside(Begins(r, "start"))
    BY BeginsFields, NoRunIsNone DEF Inside, PCs
  <2> QED
    BY <1>5, <1>6, <2>1, Claimed DEF storeVars
<1>7. ASSUME NEW w \in Workers, StartRun(w) PROVE InPage'
  <2>1. exec[w].pc = "start" /\ exec'[w] = [exec[w] EXCEPT !.pc = "read"]
    BY <1>7, Started
  <2>2. Inside([exec[w] EXCEPT !.pc = "read"])
    BY <1>1, <2>1, InsideUpdates DEF PCs
  <2> QED
    BY <1>5, <1>7, <2>1, <2>2, Started DEF storeVars
<1>8. ASSUME NEW w \in Workers, Walks(w) PROVE InPage'
  <2>1. exec[w].run \in Runs /\ exec[w].pc # "idle" /\ cursor \in 0..Items
    BY <1>2, <1>8, Walked, TypesSplit DEF SyncInv, Rows
  <2>2. Inside(exec'[w])
    <3>1. \/ exec'[w] = Idle
          \/ exec'[w] = [exec[w] EXCEPT !.pc = "discover", !.from = cursor] /\ exec[w].pc = "read"
          \/ exec'[w] = Begins(exec[w].run, "fanout")
          \/ exec'[w] = [exec[w] EXCEPT !.pc = "complete"] /\ exec[w].pc = "report"
          \/ exec'[w] = [exec[w] EXCEPT !.pc = "stop"] /\ exec[w].pc \in {"start", "report"}
      BY <1>8, Walked
    <3>2. /\ Inside(Idle) /\ Inside(Begins(exec[w].run, "fanout"))
          /\ exec[w].pc \notin {"items", "mark"} =>
                /\ Inside([exec[w] EXCEPT !.pc = "complete"])
                /\ Inside([exec[w] EXCEPT !.pc = "stop"])
                /\ Inside([exec[w] EXCEPT !.pc = "discover", !.from = cursor])
      BY <1>1, <2>1, InsideUpdates DEF PCs
    <3> QED
      BY <3>1, <3>2
  <2> QED
    BY <1>5, <1>8, <2>2, Walked DEF storeVars
<1>9. ASSUME NEW w \in Workers, OpenPage(w) PROVE InPage'
  <2>1. PICK k \in Pages :
          /\ k[1] = exec[w].from
          /\ exec'[w] = [exec[w] EXCEPT !.pc = "items", !.to = k[2], !.index = page[k].next]
    BY <1>9, Opened
  <2>2. k[2] \in 0..Items /\ page[k].next \in 0..Items
    BY <2>1, PageKeys, TypesSplit DEF SyncInv, Rows, PageRows
  <2>3. /\ exec'[w].pc = "items" /\ exec'[w].run = exec[w].run /\ exec'[w].from = exec[w].from
        /\ exec'[w].to = k[2] /\ exec'[w].index = page[k].next
    BY <1>1, <2>1 DEF Executions
  <2>4. Inside(exec'[w])
    <3>1. exec[w].run # NoRun
      BY <1>9, Opened, NoRunIsNone
    <3> QED
      BY <1>1, <2>1, <2>3, <3>1 DEF Inside
  <2>5. \A l \in Pages : page'[l].next = page[l].next
    BY <1>9, Opened
  <2>6. \A v \in Workers : v # w => exec'[v] = exec[v]
    BY <1>9, Opened
  <2> QED
    BY <1>1, <2>4, <2>5, <2>6 DEF InPage
<1>10. ASSUME NEW w \in Workers, StoreItem(w) PROVE InPage'
  <2>1. /\ exec'[w] = [exec[w] EXCEPT !.pc = "mark"] /\ exec[w].pc = "items"
        /\ exec[w].from + exec[w].index + 1 <= exec[w].to /\ UNCHANGED page
        /\ \A v \in Workers : v # w => exec'[v] = exec[v]
    BY <1>10, ItemStored
  <2>2. Inside(exec'[w])
    BY <1>1, <2>1, InItsPage DEF Inside, Executions
  <2> QED
    BY <1>5, <2>1, <2>2
<1>11. ASSUME NEW w \in Workers, MarkItem(w) PROVE InPage'
  <2>1. /\ exec'[w] = [exec[w] EXCEPT !.pc = "items", !.index = exec[w].index + 1]
        /\ exec[w].from + exec[w].index + 1 <= exec[w].to /\ exec[w].pc = "mark"
        /\ page'[Key(w)].next = exec[w].index + 1
        /\ \A k \in Pages : k # Key(w) => page'[k] = page[k]
        /\ \A v \in Workers : v # w => exec'[v] = exec[v]
    BY <1>11, Marked
  <2>2. /\ Key(w)[1] = exec[w].from /\ Key(w)[2] = exec[w].to
        /\ exec[w].from \in 0..Items /\ exec[w].to \in 0..Items /\ exec[w].index \in 0..Items
    BY <2>1, InItsPage
  <2>3. /\ exec'[w].pc = "items" /\ exec'[w].run = exec[w].run /\ exec'[w].from = exec[w].from
        /\ exec'[w].to = exec[w].to /\ exec'[w].index = exec[w].index + 1
    BY <1>1, <2>1 DEF Executions
  <2>4. Inside(exec'[w])
    BY <1>1, <2>1, <2>2, <2>3 DEF Inside
  <2>5. \A k \in Pages : k[1] + page'[k].next <= k[2]
    BY <1>1, <2>1, <2>2
  <2>6. \A v \in Workers : Inside(exec'[v])
    BY <1>1, <2>1, <2>4
  <2> QED
    BY <2>5, <2>6 DEF InPage
<1>12. ASSUME NEW w \in Workers, FailItem(w) \/ ClosePage(w) PROVE InPage'
  <2>1. /\ exec'[w] = Begins(exec[w].run, "fanout") /\ exec[w].pc = "items"
        /\ page'[Key(w)].next = exec[w].index
        /\ \A k \in Pages : k # Key(w) => page'[k] = page[k]
        /\ \A v \in Workers : v # w => exec'[v] = exec[v]
    BY <1>12, PageDoneWith
  <2>2. /\ Key(w)[1] = exec[w].from /\ Key(w)[2] = exec[w].to /\ exec[w].run \in Runs
        /\ exec[w].from + exec[w].index <= exec[w].to
    BY <2>1, InItsPage
  <2>3. Inside(exec'[w])
    BY <1>1, <2>1, <2>2, InsideUpdates DEF PCs
  <2>4. \A k \in Pages : k[1] + page'[k].next <= k[2]
    BY <1>1, <2>1, <2>2
  <2>5. \A v \in Workers : Inside(exec'[v])
    BY <1>1, <2>1, <2>3
  <2> QED
    BY <2>4, <2>5 DEF InPage
<1>13. ASSUME NEW w \in Workers, FanOut(w) PROVE InPage'
  <2>1. exec[w].pc = "fanout" /\ exec'[w] = [exec[w] EXCEPT !.pc = "report"]
    BY <1>13, FannedOut
  <2>2. Inside([exec[w] EXCEPT !.pc = "report"])
    BY <1>1, <2>1, InsideUpdates DEF PCs
  <2> QED
    BY <1>5, <1>13, <2>1, <2>2, FannedOut
<1>14. ASSUME NEW w \in Workers, Ending(w) PROVE InPage'
  <2>1. Inside(Idle)
    BY IdleFields DEF Inside
  <2> QED
    BY <1>5, <1>14, <2>1, JobEnded DEF storeVars
<1> QED
  BY <1>4, <1>6, <1>7, <1>8, <1>9, <1>10, <1>11, <1>12, <1>13, <1>14 DEF StepOf

(* The fields of a worker that goes on.                                      *)
LEMMA WalkedFields ==
    ASSUME SyncInv, NEW w \in Workers, Walks(w)
    PROVE  \/ exec'[w].pc = "idle" /\ exec'[w].run = NoRun /\ exec'[w].from = 0 /\ exec'[w].index = 0
           \/ /\ exec'[w].pc = "discover" /\ exec[w].pc = "read" /\ exec'[w].run = exec[w].run
              /\ exec'[w].from = cursor /\ exec'[w].index = exec[w].index
           \/ /\ exec'[w].pc = "fanout" /\ exec[w].pc = "discover" /\ exec'[w].run = exec[w].run
              /\ exec'[w].from = 0 /\ exec'[w].index = 0
           \/ /\ exec'[w].pc \in {"complete", "stop"} /\ exec[w].pc \in {"start", "report"}
              /\ exec'[w].pc = "complete" => exec[w].pc = "report"
              /\ exec'[w].run = exec[w].run
              /\ exec'[w].from = exec[w].from /\ exec'[w].index = exec[w].index
<1>1. exec[w] \in Executions /\ exec[w].run \in Runs
  BY Walked, TypesSplit DEF SyncInv, Rows
<1>2. /\ exec'[w] = Begins(exec[w].run, "fanout") =>
            /\ exec'[w].pc = "fanout" /\ exec'[w].run = exec[w].run
            /\ exec'[w].from = 0 /\ exec'[w].index = 0
      /\ exec'[w] = Idle => /\ exec'[w].pc = "idle" /\ exec'[w].run = NoRun
                            /\ exec'[w].from = 0 /\ exec'[w].index = 0
  BY <1>1, BeginsFields, IdleFields DEF PCs
<1>3. \A p \in PCs : exec'[w] = [exec[w] EXCEPT !.pc = p] =>
            /\ exec'[w].pc = p /\ exec'[w].run = exec[w].run
            /\ exec'[w].from = exec[w].from /\ exec'[w].index = exec[w].index
  BY <1>1 DEF Executions
<1>4. exec'[w] = [exec[w] EXCEPT !.pc = "discover", !.from = cursor] =>
            /\ exec'[w].pc = "discover" /\ exec'[w].run = exec[w].run
            /\ exec'[w].from = cursor /\ exec'[w].index = exec[w].index
  BY <1>1 DEF Executions
<1>5. \/ exec'[w] = Idle
      \/ exec'[w] = [exec[w] EXCEPT !.pc = "discover", !.from = cursor] /\ exec[w].pc = "read"
      \/ exec'[w] = Begins(exec[w].run, "fanout") /\ exec[w].pc = "discover"
      \/ exec'[w] = [exec[w] EXCEPT !.pc = "complete"] /\ exec[w].pc = "report"
      \/ exec'[w] = [exec[w] EXCEPT !.pc = "stop"] /\ exec[w].pc \in {"start", "report"}
  BY Walked
<1>6. "complete" \in PCs /\ "stop" \in PCs
  BY DEF PCs
<1> QED
  BY <1>2, <1>3, <1>4, <1>5, <1>6

LEMMA InBoundsKept ==
    ASSUME SyncInv, StepOf
    PROVE  InBounds'
<1>1. Rows /\ InBounds
  BY TypesSplit DEF SyncInv
<1>0. \A w \in Workers :
         /\ exec[w] \in Executions
         /\ exec[w].run \in Runs <=> exec[w].run # NoRun
         /\ exec[w].pc # "idle" <=> exec[w].run # NoRun
  BY <1>1, NoRunIsNone DEF Rows, SyncInv, InPage, Inside, Executions
(* A step of one worker that leaves the jobs alone.                          *)
<1>2. ASSUME NEW w \in Workers, UNCHANGED job, \A v \in Workers : v # w => exec'[v] = exec[v],
             \A r \in Runs : run'[r].found \subseteq stored' /\ (run[r].started => run'[r].started),
             exec'[w].run # NoRun => exec'[w].run = exec[w].run,
             exec'[w].pc \notin {"idle", "start", "stop"} =>
                 exec'[w].run = exec[w].run /\ exec[w].run \in Runs /\ run'[exec[w].run].started
      PROVE  InBounds'
  <2>1. ASSUME NEW v \in Workers
        PROVE  /\ exec'[v].run # NoRun => job'[exec'[v].run].state # "absent"
               /\ exec'[v].pc \notin {"idle", "start", "stop"} => run'[exec'[v].run].started
    <3>1. CASE v = w
      BY <1>0, <1>1, <1>2, <3>1 DEF InBounds
    <3>2. CASE v # w
      <4>1. exec'[v] = exec[v]
        BY <1>2, <3>2
      <4> QED
        BY <1>0, <1>1, <1>2, <4>1 DEF InBounds
    <3> QED
      BY <3>1, <3>2
  <2> QED
    BY <1>1, <1>2, <2>1 DEF InBounds
<1>3. CASE Outside
  BY <1>1, <1>3 DEF Outside, storeVars, InBounds
<1>4. CASE Enqueued
  <2>1. PICK u \in Unused : /\ job'[u] = NewJob /\ run'[u] = NewRun
                            /\ \A s \in Runs : s # u => job'[s] = job[s] /\ run'[s] = run[s]
    BY <1>4, Admitted
  <2>2. UNCHANGED <<stored, exec>>
    BY <1>4, Admitted DEF storeVars
  <2>3. \A w \in Workers : exec[w].run # u
    BY <1>0, <1>1 DEF Unused, WorkersOf, InBounds
  <2>4. \A r \in Runs : /\ job'[r].state = "ready" => job'[r].attempts < MaxAttempts
                        /\ run'[r].found \subseteq stored'
    BY <1>1, <2>1, <2>2, SyncAssumption DEF InBounds, NewJob, NewRun
  <2>5. \A w \in Workers :
          /\ exec'[w].run # NoRun => job'[exec'[w].run].state # "absent"
          /\ exec'[w].pc \notin {"idle", "start", "stop"} => run'[exec'[w].run].started
    BY <1>0, <1>1, <2>1, <2>2, <2>3 DEF InBounds
  <2> QED
    BY <2>4, <2>5 DEF InBounds
<1>5. ASSUME NEW r \in Runs, OfQueue(r) PROVE InBounds'
  <2>1. /\ job'[r].state # "absent"
        /\ job'[r].state = "ready" => job'[r].attempts < MaxAttempts
        /\ \A s \in Runs : s # r => job'[s] = job[s]
        /\ UNCHANGED <<run, stored, exec>>
    BY <1>5, Queued, SyncAssumption DEF storeVars, NewJob
  <2> QED
    BY <1>0, <1>1, <2>1 DEF InBounds
<1>6. ASSUME NEW r \in Runs, Claim(r) PROVE InBounds'
  <2>1. PICK w \in Workers : /\ exec[w].run = NoRun /\ exec'[w] = Begins(r, "start")
                             /\ \A v \in Workers : v # w => exec'[v] = exec[v]
    BY <1>6, Claimed
  <2>2. /\ job'[r].state = "running" /\ \A s \in Runs : s # r => job'[s] = job[s]
        /\ UNCHANGED <<run, stored>>
    BY <1>6, Claimed DEF storeVars
  <2>3. exec'[w].pc = "start" /\ exec'[w].run = r
    BY <2>1, BeginsFields DEF PCs
  <2>4. \A v \in Workers :
          /\ exec'[v].run # NoRun => job'[exec'[v].run].state # "absent"
          /\ exec'[v].pc \notin {"idle", "start", "stop"} => run'[exec'[v].run].started
    BY <1>0, <1>1, <2>1, <2>2, <2>3 DEF InBounds
  <2> QED
    BY <1>1, <2>2, <2>4 DEF InBounds
<1>7. ASSUME NEW w \in Workers, StartRun(w) PROVE InBounds'
  <2>1. exec'[w].run = exec[w].run /\ exec[w].run \in Runs /\ run'[exec[w].run].started
    BY <1>7, Started, StepFields
  <2> QED
    BY <1>1, <1>2, <1>7, <2>1, Started DEF storeVars, InBounds
<1>8. ASSUME NEW w \in Workers, Walks(w) PROVE InBounds'
  <2>1. /\ exec[w].run \in Runs /\ UNCHANGED <<job, run, stored>>
        /\ \A v \in Workers : v # w => exec'[v] = exec[v]
    BY <1>8, Walked DEF storeVars
  <2>2. /\ exec'[w].run # NoRun => exec'[w].run = exec[w].run
        /\ exec'[w].pc \notin {"idle", "start", "stop"} =>
               exec'[w].run = exec[w].run /\ exec[w].pc \notin {"idle", "start", "stop"}
    BY <1>8, WalkedFields
  <2> QED
    BY <1>1, <1>2, <2>1, <2>2 DEF InBounds
<1>9. ASSUME NEW w \in Workers, OpenPage(w) PROVE InBounds'
  <2>1. exec'[w].run = exec[w].run /\ exec[w].run \in Runs /\ run[exec[w].run].started
    BY <1>1, <1>9, Opened, StepFields DEF InBounds
  <2> QED
    BY <1>1, <1>2, <1>9, <2>1, Opened DEF InBounds
<1>10. ASSUME NEW w \in Workers, StoreItem(w) PROVE InBounds'
  <2>1. exec[w].pc = "items" /\ exec'[w] = [exec[w] EXCEPT !.pc = "mark"]
    BY <1>10, ItemStored
  <2>2. exec'[w].run = exec[w].run /\ exec[w].run \in Runs /\ run[exec[w].run].started
    BY <1>1, <1>10, <2>1, StepFields DEF InBounds
  <2>3. /\ UNCHANGED job /\ \A v \in Workers : v # w => exec'[v] = exec[v]
        /\ \A r \in Runs : run'[r].found \subseteq stored' /\ (run[r].started => run'[r].started)
    BY <1>1, <1>10, ItemStored DEF InBounds
  <2> QED
    BY <1>2, <2>2, <2>3
<1>11. ASSUME NEW w \in Workers, MarkItem(w) PROVE InBounds'
  <2>1. exec'[w].run = exec[w].run /\ exec[w].run \in Runs /\ run[exec[w].run].started
    BY <1>1, <1>11, Marked, StepFields DEF InBounds
  <2> QED
    BY <1>1, <1>2, <1>11, <2>1, Marked DEF InBounds
<1>12. ASSUME NEW w \in Workers, FailItem(w) \/ ClosePage(w) PROVE InBounds'
  <2>1. exec[w].pc = "items" /\ exec[w].run \in Runs
    BY <1>0, <1>12, PageDoneWith
  <2>2. exec'[w].run = exec[w].run /\ run[exec[w].run].started
    BY <1>1, <1>12, <2>1, PageDoneWith, BeginsFields DEF InBounds, PCs
  <2> QED
    BY <1>1, <1>2, <1>12, <2>1, <2>2, PageDoneWith DEF InBounds
<1>13. ASSUME NEW w \in Workers, FanOut(w) PROVE InBounds'
  <2>1. exec'[w].run = exec[w].run /\ exec[w].run \in Runs /\ run[exec[w].run].started
    BY <1>1, <1>13, FannedOut, StepFields DEF InBounds
  <2> QED
    BY <1>1, <1>2, <1>13, <2>1, FannedOut DEF InBounds
<1>14. ASSUME NEW w \in Workers, Ending(w) PROVE InBounds'
  <2>1. /\ exec[w].run \in Runs /\ exec'[w].run = NoRun /\ exec'[w].pc = "idle"
        /\ \A v \in Workers : v # w => exec'[v] = exec[v]
        /\ UNCHANGED <<run, stored>>
    BY <1>14, JobEnded, IdleFields DEF storeVars
  <2>2. /\ job'[exec[w].run].state # "absent"
        /\ job'[exec[w].run].state = "ready" => job'[exec[w].run].attempts < MaxAttempts
        /\ \A s \in Runs : s # exec[w].run => job'[s] = job[s]
    BY <1>14, JobEnded
  <2>3. \A v \in Workers :
          /\ exec'[v].run # NoRun => job'[exec'[v].run].state # "absent"
          /\ exec'[v].pc \notin {"idle", "start", "stop"} => run'[exec'[v].run].started
    BY <1>0, <1>1, <2>1, <2>2 DEF InBounds
  <2> QED
    BY <1>1, <2>1, <2>2, <2>3 DEF InBounds
<1> QED
  BY <1>3, <1>4, <1>5, <1>6, <1>7, <1>8, <1>9, <1>10, <1>11, <1>12, <1>13, <1>14 DEF StepOf

LEMMA BackingKept ==
    ASSUME SyncInv, StepOf
    PROVE  Backing'
<1>1. Rows /\ Backing
  BY TypesSplit DEF SyncInv
<1>2. \A w \in Workers : exec[w].pc \notin {"items", "mark"} => exec[w].index = 0
  BY DEF SyncInv, InPage, Inside
<1>3. \A w \in Workers : exec[w].from \in 0..Items /\ exec[w].index \in 0..Items
  BY <1>1 DEF Rows, Executions
(* A step of one worker that leaves the pages and the cursor alone.          *)
<1>4. ASSUME NEW w \in Workers, UNCHANGED <<cursor, page>>, stored \subseteq stored',
             \A v \in Workers : v # w => exec'[v] = exec[v],
             Upto(stored', exec'[w].from + exec'[w].index),
             exec'[w].pc = "mark" => Upto(stored', exec'[w].from + exec'[w].index + 1)
      PROVE  Backing'
  <2>1. \A n : Upto(stored, n) => Upto(stored', n)
    BY <1>4 DEF Upto
  <2>2. ASSUME NEW v \in Workers
        PROVE  /\ Upto(stored', exec'[v].from + exec'[v].index)
               /\ exec'[v].pc = "mark" => Upto(stored', exec'[v].from + exec'[v].index + 1)
    <3>1. CASE v = w
      BY <1>4, <3>1
    <3>2. CASE v # w
      BY <1>1, <1>4, <2>1, <3>2 DEF Backing
    <3> QED
      BY <3>1, <3>2
  <2>3. /\ Upto(stored', cursor')
        /\ \A k \in Pages : page'[k].next > 0 => Upto(stored', k[1] + page'[k].next)
    BY <1>1, <1>4, <2>1 DEF Backing
  <2> QED
    BY <2>2, <2>3 DEF Backing
<1>5. Upto(stored, 0) /\ Upto(stored, 0 + 0)
  BY DEF Upto
<1>6. CASE Outside \/ Enqueued \/ \E r \in Runs : OfQueue(r)
  <2>1. UNCHANGED <<storeVars, exec>>
    BY <1>6, Admitted, Queued DEF Outside
  <2> QED
    BY <1>1, <2>1 DEF Backing, storeVars
<1>7. ASSUME NEW r \in Runs, Claim(r) PROVE Backing'
  <2>1. PICK w \in Workers : /\ exec'[w] = Begins(r, "start")
                             /\ \A v \in Workers : v # w => exec'[v] = exec[v]
    BY <1>7, Claimed
  <2>2. exec'[w].from = 0 /\ exec'[w].index = 0 /\ exec'[w].pc # "mark"
    BY <2>1, BeginsFields DEF PCs
  <2>3. UNCHANGED <<cursor, page, stored>>
    BY <1>7, Claimed DEF storeVars
  <2> QED
    BY <1>4, <1>5, <2>1, <2>2, <2>3
<1>8. ASSUME NEW w \in Workers, StartRun(w) \/ FanOut(w) PROVE Backing'
  <2>1. /\ UNCHANGED <<cursor, page, stored>>
        /\ \A v \in Workers : v # w => exec'[v] = exec[v]
        /\ exec'[w].from = exec[w].from /\ exec'[w].index = exec[w].index /\ exec'[w].pc # "mark"
    BY <1>8, Started, FannedOut, StepFields DEF storeVars
  <2> QED
    BY <1>1, <1>4, <2>1 DEF Backing
<1>9. ASSUME NEW w \in Workers, Walks(w) PROVE Backing'
  <2>1. UNCHANGED <<cursor, page, stored>> /\ \A v \in Workers : v # w => exec'[v] = exec[v]
    BY <1>9, Walked DEF storeVars
  <2>2. exec'[w].pc # "mark"
    BY <1>9, WalkedFields
  <2>3. \/ exec'[w].from = 0 /\ exec'[w].index = 0
        \/ exec'[w].from = cursor /\ exec'[w].index = 0
        \/ exec'[w].from = exec[w].from /\ exec'[w].index = exec[w].index
    BY <1>2, <1>9, WalkedFields
  <2>4. cursor + 0 = cursor
    BY <1>1 DEF Rows
  <2>5. Upto(stored, exec'[w].from + exec'[w].index)
    BY <1>1, <1>5, <2>3, <2>4 DEF Backing
  <2> QED
    BY <1>4, <2>1, <2>2, <2>5
<1>10. ASSUME NEW w \in Workers, OpenPage(w) PROVE Backing'
  <2>1. /\ UNCHANGED <<cursor, stored>> /\ \A v \in Workers : v # w => exec'[v] = exec[v]
        /\ \A l \in Pages : page'[l].next = page[l].next
        /\ exec[w].pc = "discover"
    BY <1>10, Opened
  <2>2. PICK k \in Pages :
            /\ k[1] = exec[w].from
            /\ exec'[w] = [exec[w] EXCEPT !.pc = "items", !.to = k[2], !.index = page[k].next]
    BY <1>10, Opened
  <2>3. page[k].next \in 0..Items /\ k[2] \in 0..Items /\ exec[w] \in Executions
    BY <1>1, PageKeys DEF Rows, PageRows
  <2>4. exec'[w].pc = "items" /\ exec'[w].from = k[1] /\ exec'[w].index = page[k].next
    BY <2>2, <2>3, MovedFields DEF PCs
  <2>5. Upto(stored, k[1] + page[k].next)
    <3>1. CASE page[k].next > 0
      BY <1>1, <3>1 DEF Backing
    <3>2. CASE page[k].next = 0
      <4>1. exec[w].index = 0
        BY <1>2, <2>1
      <4> QED
        BY <1>1, <2>2, <3>2, <4>1 DEF Backing
    <3> QED
      BY <2>3, <3>1, <3>2
  <2>6. \A v \in Workers :
          /\ Upto(stored', exec'[v].from + exec'[v].index)
          /\ exec'[v].pc = "mark" => Upto(stored', exec'[v].from + exec'[v].index + 1)
    BY <1>1, <2>1, <2>4, <2>5 DEF Backing
  <2> QED
    BY <1>1, <2>1, <2>6 DEF Backing
<1>11. ASSUME NEW w \in Workers, StoreItem(w) PROVE Backing'
  <2>1. /\ UNCHANGED <<cursor, page>> /\ \A v \in Workers : v # w => exec'[v] = exec[v]
        /\ stored' = stored \cup {exec[w].from + exec[w].index + 1}
    BY <1>11, ItemStored
  <2>2. /\ exec'[w].pc = "mark" /\ exec'[w].from = exec[w].from /\ exec'[w].index = exec[w].index
    BY <1>11, StepFields
  <2>3. Upto(stored, exec[w].from + exec[w].index)
    BY <1>1 DEF Backing
  <2>4. /\ Upto(stored', exec[w].from + exec[w].index)
        /\ Upto(stored', exec[w].from + exec[w].index + 1)
    BY <1>3, <2>1, <2>3, SyncAssumption DEF Upto
  <2> QED
    BY <1>4, <2>1, <2>2, <2>4
<1>12. ASSUME NEW w \in Workers, MarkItem(w) \/ FailItem(w) \/ ClosePage(w) PROVE Backing'
  <2>1. /\ UNCHANGED stored /\ \A v \in Workers : v # w => exec'[v] = exec[v]
        /\ \A k \in Pages : k # Key(w) => page'[k] = page[k]
        /\ exec[w].pc \in {"items", "mark"}
    BY <1>12, Marked, PageDoneWith
  <2>2. Key(w) \in Pages /\ Key(w)[1] = exec[w].from /\ exec[w].run \in Runs
    BY <2>1, InItsPage
  <2>3. Upto(stored, exec[w].from + exec[w].index)
    BY <1>1 DEF Backing
  <2>4. CASE MarkItem(w)
    <3>1. exec[w].pc = "mark" /\ page'[Key(w)].next = exec[w].index + 1 /\ UNCHANGED cursor
      BY <2>4, Marked
    <3>2. exec'[w].pc = "items" /\ exec'[w].from = exec[w].from /\ exec'[w].index = exec[w].index + 1
      BY <2>4, StepFields
    <3>3. /\ exec[w].from + (exec[w].index + 1) = exec[w].from + exec[w].index + 1
          /\ Upto(stored, exec[w].from + exec[w].index + 1)
      BY <1>1, <1>3, <3>1 DEF Backing
    <3>4. \A k \in Pages : page'[k].next > 0 => Upto(stored', k[1] + page'[k].next)
      BY <1>1, <2>1, <2>2, <3>1, <3>3 DEF Backing
    <3>5. \A v \in Workers :
            /\ Upto(stored', exec'[v].from + exec'[v].index)
            /\ exec'[v].pc = "mark" => Upto(stored', exec'[v].from + exec'[v].index + 1)
      BY <1>1, <2>1, <3>2, <3>3 DEF Backing
    <3> QED
      BY <1>1, <2>1, <3>1, <3>4, <3>5 DEF Backing
  <2>5. CASE FailItem(w) \/ ClosePage(w)
    <3>1. /\ exec'[w] = Begins(exec[w].run, "fanout") /\ page'[Key(w)].next = exec[w].index
          /\ \/ cursor' = cursor
             \/ cursor' = exec[w].to /\ exec[w].from + exec[w].index = exec[w].to
      BY <2>5, PageDoneWith
    <3>2. exec'[w].pc = "fanout" /\ exec'[w].from = 0 /\ exec'[w].index = 0
      BY <2>2, <3>1, BeginsFields DEF PCs
    <3>3. \A k \in Pages : page'[k].next > 0 => Upto(stored', k[1] + page'[k].next)
      BY <1>1, <2>1, <2>2, <2>3, <3>1 DEF Backing
    <3>4. \A v \in Workers :
            /\ Upto(stored', exec'[v].from + exec'[v].index)
            /\ exec'[v].pc = "mark" => Upto(stored', exec'[v].from + exec'[v].index + 1)
      BY <1>1, <1>5, <2>1, <3>2 DEF Backing
    <3>5. Upto(stored', cursor')
      BY <1>1, <2>1, <2>3, <3>1 DEF Backing
    <3> QED
      BY <3>3, <3>4, <3>5 DEF Backing
  <2> QED
    BY <1>12, <2>4, <2>5
<1>13. ASSUME NEW w \in Workers, Ending(w) PROVE Backing'
  <2>1. /\ UNCHANGED <<cursor, page, stored>> /\ \A v \in Workers : v # w => exec'[v] = exec[v]
        /\ exec'[w].from = 0 /\ exec'[w].index = 0 /\ exec'[w].pc # "mark"
    BY <1>13, JobEnded, IdleFields DEF storeVars
  <2> QED
    BY <1>4, <1>5, <2>1
<1> QED
  BY <1>6, <1>7, <1>8, <1>9, <1>10, <1>11, <1>12, <1>13 DEF StepOf

(* A lease that has lapsed stays so, and so does a retry.                    *)
LEMMA Ratchets ==
    ASSUME SyncInv, StepOf
    PROVE  (lapsed => lapsed') /\ (retried => retried')
<1>1. CASE Outside \/ Enqueued
  BY <1>1, Admitted DEF Outside
<1>2. CASE \E r \in Runs : OfQueue(r) \/ Claim(r)
  BY <1>2, Queued, Claimed
<1>3. ASSUME NEW w \in Workers, StartRun(w) \/ Walks(w) \/ OpenPage(w) \/ StoreItem(w) \/ MarkItem(w)
      PROVE  UNCHANGED <<lapsed, retried>>
  BY <1>3, Started, Walked, Opened, ItemStored, Marked
<1>4. ASSUME NEW w \in Workers, FailItem(w) \/ ClosePage(w) \/ FanOut(w) \/ Ending(w)
      PROVE  UNCHANGED <<lapsed, retried>>
  BY <1>4, PageDoneWith, FannedOut, JobEnded
<1> QED
  BY <1>1, <1>2, <1>3, <1>4 DEF StepOf

LEMMA LeaseKeptKept ==
    ASSUME SyncInv, StepOf
    PROVE  LeaseKept'
<1> SUFFICES ASSUME ~lapsed'
             PROVE  /\ \A w \in Workers : exec'[w].run # NoRun => job'[exec'[w].run].state = "running"
                    /\ \A v, w \in Workers :
                          (exec'[v].run = exec'[w].run /\ exec'[v].run # NoRun) => v = w
  BY DEF LeaseKept
<1>1. /\ \A w \in Workers : exec[w].run # NoRun => job[exec[w].run].state = "running"
      /\ \A v, w \in Workers : (exec[v].run = exec[w].run /\ exec[v].run # NoRun) => v = w
  BY Ratchets DEF SyncInv, LeaseKept
<1>2. \A w \in Workers : exec[w].run \in Runs <=> exec[w].run # NoRun
  BY NoRunIsNone, TypesSplit DEF SyncInv, Rows, Executions
(* A step of one worker that keeps its run, or leaves it, and the job.       *)
<1>3. ASSUME NEW w \in Workers, UNCHANGED job, \A v \in Workers : v # w => exec'[v] = exec[v],
             exec'[w].run # NoRun => exec'[w].run = exec[w].run
      PROVE  /\ \A v \in Workers : exec'[v].run # NoRun => job'[exec'[v].run].state = "running"
             /\ \A u, v \in Workers : (exec'[u].run = exec'[v].run /\ exec'[u].run # NoRun) => u = v
  <2>1. \A v \in Workers : exec'[v].run # NoRun => exec'[v].run = exec[v].run
    BY <1>3
  <2> QED
    BY <1>1, <1>3, <2>1
<1>4. CASE Outside
  BY <1>1, <1>4 DEF Outside
<1>5. CASE Enqueued
  <2>1. PICK u \in Unused : job'[u] = NewJob /\ \A s \in Runs : s # u => job'[s] = job[s]
    BY <1>5, Admitted
  <2>2. UNCHANGED exec
    BY <1>5, Admitted
  <2>3. \A w \in Workers : exec[w].run # u
    BY <1>1, <1>2 DEF Unused, WorkersOf
  <2> QED
    BY <1>1, <1>2, <2>1, <2>2, <2>3
<1>6. ASSUME NEW r \in Runs, OfQueue(r)
      PROVE  /\ \A w \in Workers : exec'[w].run # NoRun => job'[exec'[w].run].state = "running"
             /\ \A v, w \in Workers : (exec'[v].run = exec'[w].run /\ exec'[v].run # NoRun) => v = w
  <2>1. UNCHANGED exec /\ \A s \in Runs : s # r => job'[s] = job[s]
    BY <1>6, Queued
  <2>2. job[r].state # "running" \/ WorkersOf(r) = {} \/ job'[r].state = "running"
    BY <1>6, Queued DEF Ended
  <2>3. \A w \in Workers : exec[w].run = r => job'[r].state = "running"
    BY <1>1, <2>2, NoRunIsNone DEF WorkersOf
  <2> QED
    BY <1>1, <1>2, <2>1, <2>3
<1>7. ASSUME NEW r \in Runs, Claim(r)
      PROVE  /\ \A w \in Workers : exec'[w].run # NoRun => job'[exec'[w].run].state = "running"
             /\ \A v, w \in Workers : (exec'[v].run = exec'[w].run /\ exec'[v].run # NoRun) => v = w
  <2>1. PICK w \in Workers : /\ exec'[w] = Begins(r, "start")
                             /\ \A v \in Workers : v # w => exec'[v] = exec[v]
    BY <1>7, Claimed
  <2>2. /\ job[r].state = "ready" /\ job'[r].state = "running"
        /\ \A s \in Runs : s # r => job'[s] = job[s]
    BY <1>7, Claimed
  <2>3. exec'[w].run = r
    BY <2>1, BeginsFields DEF PCs
  <2>4. \A v \in Workers : exec[v].run # r
    BY <1>1, <2>2, NoRunIsNone
  <2> QED
    BY <1>1, <1>2, <2>1, <2>2, <2>3, <2>4
<1>8. ASSUME NEW w \in Workers, StartRun(w) \/ OpenPage(w) \/ StoreItem(w) \/ MarkItem(w) \/ FanOut(w)
      PROVE  UNCHANGED job /\ exec'[w].run = exec[w].run /\ \A v \in Workers : v # w => exec'[v] = exec[v]
  BY <1>8, Started, Opened, ItemStored, Marked, FannedOut, StepFields
<1>9. ASSUME NEW w \in Workers, Walks(w)
      PROVE  /\ UNCHANGED job /\ \A v \in Workers : v # w => exec'[v] = exec[v]
             /\ exec'[w].run # NoRun => exec'[w].run = exec[w].run
  BY <1>9, Walked, WalkedFields
<1>10. ASSUME NEW w \in Workers, FailItem(w) \/ ClosePage(w)
       PROVE  UNCHANGED job /\ exec'[w].run = exec[w].run /\ \A v \in Workers : v # w => exec'[v] = exec[v]
  <2>1. exec[w].run \in Runs
    BY <1>10, PageDoneWith, InItsPage
  <2> QED
    BY <1>10, <2>1, PageDoneWith, BeginsFields DEF PCs
<1>11. ASSUME NEW w \in Workers, Ending(w)
       PROVE  /\ \A v \in Workers : exec'[v].run # NoRun => job'[exec'[v].run].state = "running"
              /\ \A u, v \in Workers : (exec'[u].run = exec'[v].run /\ exec'[u].run # NoRun) => u = v
  <2>1. /\ exec[w].run \in Runs /\ exec'[w].run = NoRun /\ \A v \in Workers : v # w => exec'[v] = exec[v]
        /\ \A s \in Runs : s # exec[w].run => job'[s] = job[s]
    BY <1>11, JobEnded, IdleFields
  <2>2. \A v \in Workers : v # w => exec[v].run # exec[w].run
    BY <1>1, <1>2, <2>1
  <2> QED
    BY <1>1, <1>2, <2>1, <2>2
<1> QED
  BY <1>3, <1>4, <1>5, <1>6, <1>7, <1>8, <1>9, <1>10, <1>11 DEF StepOf

(* Which runs are active after a step.                                       *)
LEMMA ActiveAfter ==
    ASSUME SyncInv, StepOf, ~lapsed', ~retried'
    PROVE  Active' \subseteq Active \/ (Active = {} /\ \E u \in Runs : Active' \subseteq {u})
<1>1. ~lapsed /\ \A w \in Workers : exec[w].run # NoRun => job[exec[w].run].state = "running"
  BY Ratchets DEF SyncInv, LeaseKept
<1>2. CASE UNCHANGED job
  BY <1>2 DEF Active
<1>3. CASE Enqueued
  <2>1. PICK u \in Unused : \A s \in Runs : s # u => job'[s] = job[s]
    BY <1>3, Admitted
  <2>2. Active = {} /\ u \in Runs
    BY <1>3, Admitted DEF Unused
  <2> QED
    BY <2>1, <2>2 DEF Active
<1>4. ASSUME NEW r \in Runs, OfQueue(r) PROVE Active' \subseteq Active
  <2>1. job[r].state \in {"ready", "running"} /\ \A s \in Runs : s # r => job'[s] = job[s]
    BY <1>4, Queued
  <2> QED
    BY <2>1 DEF Active
<1>5. ASSUME NEW r \in Runs, Claim(r) PROVE Active' \subseteq Active
  <2>1. job[r].state = "ready" /\ \A s \in Runs : s # r => job'[s] = job[s]
    BY <1>5, Claimed
  <2> QED
    BY <2>1 DEF Active
<1>6. ASSUME NEW w \in Workers, Ending(w) PROVE Active' \subseteq Active
  <2>1. exec[w].run \in Runs /\ \A s \in Runs : s # exec[w].run => job'[s] = job[s]
    BY <1>6, JobEnded
  <2>2. job[exec[w].run].state = "running"
    BY <1>1, <2>1, NoRunIsNone
  <2> QED
    BY <2>1, <2>2 DEF Active
<1>7. ASSUME NEW w \in Workers,
             \/ StartRun(w) \/ Walks(w) \/ OpenPage(w) \/ StoreItem(w) \/ MarkItem(w)
             \/ FailItem(w) \/ ClosePage(w) \/ FanOut(w)
      PROVE  UNCHANGED job
  BY <1>7, Started, Walked, Opened, ItemStored, Marked, PageDoneWith, FannedOut
<1> QED
  BY <1>2, <1>3, <1>4, <1>5, <1>6, <1>7 DEF StepOf, Outside

LEMMA OneActiveRunKept ==
    ASSUME SyncInv, StepOf
    PROVE  OneActiveRun'
<1> SUFFICES ASSUME ~retried', ~lapsed' PROVE \A r, s \in Active' : r = s
  BY DEF OneActiveRun
<1>1. \A r, s \in Active : r = s
  BY Ratchets DEF SyncInv, OneActiveRun
<1> QED
  BY <1>1, ActiveAfter

LEMMA CursorHeldKept ==
    ASSUME SyncInv, StepOf
    PROVE  CursorHeld'
<1> DEFINE Reads(e) == e.pc \in {"discover", "items", "mark"}
<1> SUFFICES ASSUME ~lapsed', ~retried', NEW w \in Workers, Reads(exec'[w])
             PROVE  exec'[w].from = cursor'
  BY DEF CursorHeld
<1>1. ~lapsed /\ ~retried
  BY Ratchets
<1>2. /\ \A v \in Workers : Reads(exec[v]) => exec[v].from = cursor
      /\ \A u, v \in Workers : (exec[u].run = exec[v].run /\ exec[u].run # NoRun) => u = v
      /\ \A v \in Workers : exec[v].run # NoRun => job[exec[v].run].state = "running"
      /\ \A r, s \in Active : r = s
  BY <1>1 DEF SyncInv, CursorHeld, LeaseKept, OneActiveRun
<1>3. \A v \in Workers : /\ exec[v].pc # "idle" <=> exec[v].run # NoRun
                         /\ exec[v].run \in Runs <=> exec[v].run # NoRun
  BY NoRunIsNone, TypesSplit DEF SyncInv, InPage, Inside, Rows, Executions
(* Two workers are never in the stream.                                      *)
<1>4. \A u, v \in Workers : (exec[u].pc # "idle" /\ exec[v].pc # "idle") => u = v
  BY <1>2, <1>3 DEF Active
<1>5. ASSUME NEW v \in Workers, UNCHANGED cursor, \A u \in Workers : u # v => exec'[u] = exec[u],
             Reads(exec'[v]) => /\ exec'[v].from = exec[v].from \/ exec'[v].from = cursor
                                /\ Reads(exec[v]) \/ exec'[v].from = cursor
      PROVE  exec'[w].from = cursor'
  BY <1>2, <1>5
<1>6. CASE Outside \/ Enqueued \/ \E r \in Runs : OfQueue(r)
  <2>1. UNCHANGED <<cursor, exec>>
    BY <1>6, Admitted, Queued DEF Outside, storeVars
  <2> QED
    BY <1>2, <2>1
<1>7. ASSUME NEW r \in Runs, Claim(r) PROVE exec'[w].from = cursor'
  <2>1. PICK v \in Workers : /\ exec'[v] = Begins(r, "start")
                             /\ \A u \in Workers : u # v => exec'[u] = exec[u]
    BY <1>7, Claimed
  <2>2. exec'[v].pc = "start" /\ UNCHANGED cursor
    BY <1>7, <2>1, Claimed, BeginsFields DEF PCs, storeVars
  <2> QED
    BY <1>5, <2>1, <2>2
<1>8. ASSUME NEW v \in Workers, StartRun(v) \/ FanOut(v) PROVE exec'[w].from = cursor'
  <2>1. /\ UNCHANGED cursor /\ \A u \in Workers : u # v => exec'[u] = exec[u]
        /\ exec'[v].pc \in {"read", "report"}
    BY <1>8, Started, FannedOut, StepFields DEF storeVars
  <2> QED
    BY <1>5, <2>1
<1>9. ASSUME NEW v \in Workers, OpenPage(v) \/ StoreItem(v) \/ MarkItem(v)
      PROVE  exec'[w].from = cursor'
  <2>1. /\ UNCHANGED cursor /\ \A u \in Workers : u # v => exec'[u] = exec[u]
        /\ Reads(exec[v]) /\ exec'[v].from = exec[v].from
    BY <1>9, Opened, ItemStored, Marked, StepFields
  <2> QED
    BY <1>5, <2>1
<1>10. ASSUME NEW v \in Workers, Walks(v) PROVE exec'[w].from = cursor'
  <2>1. UNCHANGED cursor /\ \A u \in Workers : u # v => exec'[u] = exec[u]
    BY <1>10, Walked DEF storeVars
  <2>2. Reads(exec'[v]) => exec'[v].from = cursor
    BY <1>10, WalkedFields
  <2> QED
    BY <1>5, <2>1, <2>2
<1>11. ASSUME NEW v \in Workers, FailItem(v) \/ ClosePage(v) PROVE exec'[w].from = cursor'
  <2>1. /\ exec'[v] = Begins(exec[v].run, "fanout") /\ exec[v].pc = "items"
        /\ \A u \in Workers : u # v => exec'[u] = exec[u]
    BY <1>11, PageDoneWith
  <2>2. exec'[v].pc = "fanout"
    BY <2>1, InItsPage, BeginsFields DEF PCs
  <2>3. w # v /\ exec'[w] = exec[w] /\ exec[w].pc # "idle"
    BY <2>1, <2>2
  <2> QED
    BY <1>4, <2>1, <2>3
<1>12. ASSUME NEW v \in Workers, Ending(v) PROVE exec'[w].from = cursor'
  <2>1. /\ UNCHANGED cursor /\ \A u \in Workers : u # v => exec'[u] = exec[u]
        /\ exec'[v].pc = "idle"
    BY <1>12, JobEnded, IdleFields DEF storeVars
  <2> QED
    BY <1>5, <2>1
<1> QED
  BY <1>6, <1>7, <1>8, <1>9, <1>10, <1>11, <1>12 DEF StepOf

LEMMA CarriedKept ==
    ASSUME SyncInv, StepOf
    PROVE  Carried'
<1> SUFFICES ASSUME ~lapsed', NEW i \in stored' \ feeds'
             PROVE  \E r \in Runs : Carries(r, i)'
  BY DEF Carried
<1>1. /\ \A n \in stored \ feeds : \E r \in Runs : Carries(r, n)
      /\ \A u, v \in Workers : (exec[u].run = exec[v].run /\ exec[u].run # NoRun) => u = v
      /\ \A v \in Workers : exec[v].run # NoRun => job[exec[v].run].state = "running"
  BY Ratchets DEF SyncInv, Carried, LeaseKept
<1>2. \A v \in Workers : exec[v].run \in Runs <=> exec[v].run # NoRun
  BY NoRunIsNone, TypesSplit DEF SyncInv, Rows, Executions
(* A step that leaves the carrier of i a carrier.                            *)
<1>3. ASSUME NEW r \in Runs, i \in run'[r].found,
             job'[r].state \in {"ready", "running", "failed", "cancelled"},
             \A v \in Workers : exec'[v].run = r => exec'[v].pc \notin {"report", "complete"}
      PROVE  \E s \in Runs : Carries(s, i)'
  BY <1>3 DEF Carries, Active, Ended, WorkersOf
<1>4. \A r \in Runs : Carries(r, i) =>
          /\ i \in run[r].found /\ job[r].state \in {"ready", "running", "failed", "cancelled"}
          /\ \A v \in Workers : exec[v].run = r => exec[v].pc \notin {"report", "complete"}
  BY DEF Carries, Active, Ended, WorkersOf
<1>5. CASE Outside
  <2>1. UNCHANGED <<stored, feeds, run, job, exec>>
    BY <1>5 DEF Outside, storeVars
  <2> QED
    BY <1>1, <1>3, <1>4, <2>1
<1>6. CASE Enqueued
  <2>1. PICK u \in Unused : /\ job'[u] = NewJob /\ run'[u] = NewRun
                            /\ \A s \in Runs : s # u => job'[s] = job[s] /\ run'[s] = run[s]
    BY <1>6, Admitted
  <2>2. UNCHANGED <<stored, feeds, exec>>
    BY <1>6, Admitted DEF storeVars
  <2>3. PICK r \in Runs : Carries(r, i)
    BY <1>1, <2>2
  <2>4. r # u
    BY <1>4, <2>2, <2>3 DEF Unused
  <2> QED
    BY <1>3, <1>4, <2>1, <2>2, <2>3, <2>4
<1>7. ASSUME NEW q \in Runs, OfQueue(q) PROVE \E s \in Runs : Carries(s, i)'
  <2>1. /\ UNCHANGED <<stored, feeds, run, exec>> /\ \A s \in Runs : s # q => job'[s] = job[s]
        /\ job'[q].state \in {"ready", "running", "failed", "cancelled"}
    BY <1>7, Queued DEF storeVars, NewJob
  <2> QED
    BY <1>1, <1>3, <1>4, <2>1
<1>8. ASSUME NEW q \in Runs, Claim(q) PROVE \E s \in Runs : Carries(s, i)'
  <2>1. PICK w \in Workers : /\ exec'[w] = Begins(q, "start")
                             /\ \A v \in Workers : v # w => exec'[v] = exec[v]
    BY <1>8, Claimed
  <2>2. /\ UNCHANGED <<stored, feeds, run>> /\ \A s \in Runs : s # q => job'[s] = job[s]
        /\ job'[q].state = "running"
    BY <1>8, Claimed DEF storeVars
  <2>3. exec'[w].pc = "start"
    BY <2>1, BeginsFields DEF PCs
  <2> QED
    BY <1>1, <1>3, <1>4, <2>1, <2>2, <2>3
<1>9. ASSUME NEW w \in Workers, UNCHANGED <<stored, feeds, job>>,
             \A v \in Workers : v # w => exec'[v] = exec[v],
             \A r \in Runs : run[r].found \subseteq run'[r].found,
             exec'[w].pc \in {"report", "complete"} =>
                 exec'[w].run = exec[w].run /\ exec[w].pc \in {"report", "complete"}
      PROVE  \E s \in Runs : Carries(s, i)'
  <2>1. PICK r \in Runs : Carries(r, i)
    BY <1>1, <1>9
  <2>2. \A v \in Workers : exec'[v].run = r => exec'[v].pc \notin {"report", "complete"}
    BY <1>4, <1>9, <2>1
  <2> QED
    BY <1>3, <1>4, <1>9, <2>1, <2>2
<1>10. ASSUME NEW w \in Workers, StartRun(w) \/ OpenPage(w) \/ MarkItem(w)
       PROVE  \E s \in Runs : Carries(s, i)'
  <2>1. /\ UNCHANGED <<stored, feeds, job>> /\ \A v \in Workers : v # w => exec'[v] = exec[v]
        /\ \A r \in Runs : run[r].found \subseteq run'[r].found
    BY <1>10, Started, Opened, Marked DEF storeVars
  <2>2. exec'[w].pc \notin {"report", "complete"}
    BY <1>10, StepFields
  <2> QED
    BY <1>9, <2>1, <2>2
<1>11. ASSUME NEW w \in Workers, Walks(w) PROVE \E s \in Runs : Carries(s, i)'
  <2>1. /\ UNCHANGED <<stored, feeds, job, run>> /\ \A v \in Workers : v # w => exec'[v] = exec[v]
    BY <1>11, Walked DEF storeVars
  <2>2. exec'[w].pc \in {"report", "complete"} =>
            exec'[w].run = exec[w].run /\ exec[w].pc \in {"report", "complete"}
    BY <1>11, WalkedFields
  <2> QED
    BY <1>9, <2>1, <2>2
<1>12. ASSUME NEW w \in Workers, FailItem(w) \/ ClosePage(w) PROVE \E s \in Runs : Carries(s, i)'
  <2>1. /\ UNCHANGED <<stored, feeds, job, run>> /\ \A v \in Workers : v # w => exec'[v] = exec[v]
        /\ exec'[w] = Begins(exec[w].run, "fanout") /\ exec[w].pc = "items"
    BY <1>12, PageDoneWith
  <2>2. exec'[w].pc = "fanout"
    BY <2>1, InItsPage, BeginsFields DEF PCs
  <2> QED
    BY <1>9, <2>1, <2>2
(* The run of the worker that stores an item takes the event.                *)
<1>13. ASSUME NEW w \in Workers, StoreItem(w) PROVE \E s \in Runs : Carries(s, i)'
  <2>1. /\ UNCHANGED <<feeds, job>> /\ \A v \in Workers : v # w => exec'[v] = exec[v]
        /\ exec[w].pc = "items"
        /\ \A r \in Runs : /\ run[r].found \subseteq run'[r].found
                           /\ \A n \in stored' \ stored : run[r].started => n \in run'[r].found
    BY <1>13, ItemStored
  <2>2. exec[w].run \in Runs /\ exec'[w].run = exec[w].run /\ exec'[w].pc = "mark"
    BY <1>13, StepFields
  <2>3. CASE i \in stored
    <3>1. PICK r \in Runs : Carries(r, i)
      BY <1>1, <2>1, <2>3
    <3>2. \A v \in Workers : exec'[v].run = r => exec'[v].pc \notin {"report", "complete"}
      BY <1>4, <2>1, <2>2, <3>1
    <3> QED
      BY <1>3, <1>4, <2>1, <3>1, <3>2
  <2>4. CASE i \notin stored
    <3> DEFINE r == exec[w].run
    <3>1. run[r].started /\ job'[r].state = "running"
      BY <1>1, <1>2, <2>1, <2>2 DEF SyncInv, InBounds
    <3>2. i \in run'[r].found
      BY <2>1, <2>2, <2>4, <3>1
    <3>3. \A v \in Workers : exec'[v].run = r => v = w
      BY <1>1, <1>2, <2>1, <2>2
    <3> QED
      BY <1>3, <2>2, <3>1, <3>2, <3>3
  <2> QED
    BY <2>3, <2>4
<1>14. ASSUME NEW w \in Workers, FanOut(w) PROVE \E s \in Runs : Carries(s, i)'
  <2>1. /\ UNCHANGED <<stored, job, run>> /\ feeds' = feeds \cup run[exec[w].run].found
        /\ \A v \in Workers : v # w => exec'[v] = exec[v]
    BY <1>14, FannedOut
  <2>2. exec[w].run \in Runs /\ exec'[w].run = exec[w].run
    BY <1>14, StepFields
  <2>3. PICK r \in Runs : Carries(r, i)
    BY <1>1, <2>1
  <2>4. r # exec[w].run
    BY <1>4, <2>1, <2>3
  <2>5. \A v \in Workers : exec'[v].run = r => exec'[v].pc \notin {"report", "complete"}
    BY <1>4, <2>1, <2>2, <2>3, <2>4
  <2> QED
    BY <1>3, <1>4, <2>1, <2>3, <2>5
<1>15. ASSUME NEW w \in Workers, Ending(w) PROVE \E s \in Runs : Carries(s, i)'
  <2>1. /\ UNCHANGED <<stored, feeds, run>> /\ exec[w].run \in Runs /\ exec'[w].run = NoRun
        /\ \A v \in Workers : v # w => exec'[v] = exec[v]
        /\ \A s \in Runs : s # exec[w].run => job'[s] = job[s]
        /\ exec[w].pc = "complete" \/ job'[exec[w].run].state \in {"ready", "failed", "cancelled"}
    BY <1>15, JobEnded, IdleFields DEF storeVars
  <2>2. PICK r \in Runs : Carries(r, i)
    BY <1>1, <2>1
  <2>3. job'[r].state \in {"ready", "running", "failed", "cancelled"}
    BY <1>4, <2>1, <2>2
  <2>4. \A v \in Workers : exec'[v].run = r => exec'[v].pc \notin {"report", "complete"}
    BY <1>4, <2>1, <2>2, NoRunIsNone
  <2> QED
    BY <1>3, <1>4, <2>1, <2>2, <2>3, <2>4
<1> QED
  BY <1>5, <1>6, <1>7, <1>8, <1>10, <1>11, <1>12, <1>13, <1>14, <1>15 DEF StepOf

-------------------------------------------------------------------------------
LEMMA SyncInit == Init => SyncInv
<1> SUFFICES ASSUME Init PROVE SyncInv
  OBVIOUS
<1>1. Items \in Nat /\ MaxMishaps \in Nat /\ MaxAttempts \in Nat \ {0} /\ NoRun \notin Runs
  BY SyncAssumption
<1>2. 0 \in 0..Items /\ 0 \in 0..MaxMishaps /\ 0 \in 0..MaxAttempts
  BY <1>1
<1>3. NoPage \in PageRows /\ NewRun \in RunRows /\ NoPage.next = 0
  BY <1>2 DEF NoPage, NewRun, PageRows, RunRows
<1>4. NewJob \in JobRows
  BY <1>2 DEF NewJob, JobRows
<1>5. NoJob \in JobRows /\ NoJob.state = "absent"
  BY <1>4 DEF NoJob, NewJob, JobRows
<1>6. Rows
  BY <1>2, <1>3, <1>5, IdleExecution DEF Init, Rows
<1>7. Clock
  BY <1>2 DEF Init, Clock
<1>8. InPage
  <2>1. \A k \in Pages : k[1] + page[k].next <= k[2]
    BY <1>3, PageKeys DEF Init
  <2>2. \A w \in Workers : Inside(exec[w])
    BY IdleFields DEF Init, Inside
  <2> QED
    BY <2>1, <2>2 DEF InPage
<1>9. InBounds
  BY <1>1, <1>5, IdleFields DEF Init, InBounds, NewRun
<1>10. Upto(stored, 0) /\ Upto(stored, 0 + 0)
  BY DEF Upto
<1>11. Backing
  BY <1>3, <1>10, IdleFields DEF Init, Backing
<1>12. LeaseKept /\ CursorHeld
  BY IdleFields DEF Init, LeaseKept, CursorHeld
<1>13. Carried
  BY DEF Init, Carried
<1>14. OneActiveRun
  BY <1>5 DEF Init, OneActiveRun, Active
<1> QED
  BY <1>6, <1>7, <1>8, <1>9, <1>11, <1>12, <1>13, <1>14, TypesSplit DEF SyncInv

LEMMA SyncStep == SyncInv /\ [Next]_vars => SyncInv'
<1> SUFFICES ASSUME SyncInv, [Next]_vars PROVE SyncInv'
  OBVIOUS
<1>1. StepOf
  BY Steps
<1>2. Clock' /\ Rows'
  BY <1>1, ClockKept, RowsKept, TypesSplit DEF SyncInv
<1>3. TypeOK'
  BY <1>2 DEF TypeOK, Clock, Rows, PageRows, RunRows, JobRows, Executions
<1> QED
  BY <1>1, <1>3, InPageKept, InBoundsKept, BackingKept, LeaseKeptKept, CarriedKept,
     OneActiveRunKept, CursorHeldKept DEF SyncInv

LEMMA SyncInvariant == Spec => []SyncInv
  BY SyncInit, SyncStep, PTL DEF Spec

(* Types, and that no attempt is made beyond the last (job_processing.claim, *)
(* recover_expired), for every number of runs and workers.                   *)
THEOREM SyncTypes == Spec => []TypeOK
<1>1. SyncInv => TypeOK
  BY DEF SyncInv
<1> QED
  BY <1>1, SyncInvariant, PTL

(* The cursor never moves past an item that is not stored, with any number   *)
(* of workers in the stream and leases that lapse (connectors.py run_page).  *)
THEOREM CursorSkipsNothing == Spec => []CursorIsBacked
<1>1. SyncInv => CursorIsBacked
  BY DEF SyncInv, Backing, Upto, CursorIsBacked
<1> QED
  BY <1>1, SyncInvariant, PTL

(* While no lease lapses under its worker, an event that is in no feed is    *)
(* with a run that will fan it out, or that ended and can be retried         *)
(* (synchronization.py start_run, finish_run).                               *)
THEOREM NoEventIsLost == Spec => []EventsAreCovered
<1>1. SyncInv => EventsAreCovered
  BY DEF SyncInv, Carried, Carries, EventsAreCovered
<1> QED
  BY <1>1, SyncInvariant, PTL

(* Without a retry and a lapsed lease, the clock, "Sync now" and recovery    *)
(* leave a stream one unfinished run (synchronization.py _enqueue).          *)
THEOREM StreamHasOneRun == Spec => []OneActiveRun
<1>1. SyncInv => OneActiveRun
  BY DEF SyncInv
<1> QED
  BY <1>1, SyncInvariant, PTL

LEMMA CursorStep == SyncInv /\ [Next]_vars => [lapsed \/ retried \/ cursor' >= cursor]_vars
<1> SUFFICES ASSUME SyncInv, [Next]_vars, ~lapsed, ~retried PROVE cursor' >= cursor
  OBVIOUS
<1>1. StepOf /\ cursor \in 0..Items
  BY Steps, TypesSplit DEF SyncInv, Rows
<1>2. CASE UNCHANGED cursor
  BY <1>1, <1>2
<1>3. ASSUME NEW w \in Workers, FailItem(w) \/ ClosePage(w) PROVE cursor' >= cursor
  <2>1. /\ exec[w].pc = "items"
        /\ cursor' = cursor \/ cursor' = exec[w].to
    BY <1>3, PageDoneWith
  <2>2. exec[w].from = cursor
    BY <2>1 DEF SyncInv, CursorHeld
  <2>3. /\ exec[w].from \in 0..Items /\ exec[w].to \in 0..Items /\ exec[w].index \in 0..Items
        /\ exec[w].from + exec[w].index <= exec[w].to
    BY <2>1, InItsPage
  <2> QED
    BY <1>1, <2>1, <2>2, <2>3
<1>4. CASE Outside \/ Enqueued \/ \E r \in Runs : OfQueue(r) \/ Claim(r)
  BY <1>2, <1>4, Admitted, Queued, Claimed DEF Outside, storeVars
<1>5. ASSUME NEW w \in Workers,
             StartRun(w) \/ Walks(w) \/ OpenPage(w) \/ StoreItem(w) \/ MarkItem(w)
      PROVE  UNCHANGED cursor
  BY <1>5, Started, Walked, Opened, ItemStored, Marked DEF storeVars
<1>6. ASSUME NEW w \in Workers, FanOut(w) \/ Ending(w) PROVE UNCHANGED cursor
  BY <1>6, FannedOut, JobEnded DEF storeVars
<1> QED
  BY <1>1, <1>2, <1>3, <1>4, <1>5, <1>6 DEF StepOf

(* The cursor goes back only after a retry or a lapsed lease has let a       *)
(* second worker into the stream (connectors.py run_page).                   *)
THEOREM CursorOnlyMovesOn == Spec => CursorMovesOn
  BY SyncInvariant, CursorStep, PTL DEF Spec, CursorMovesOn

===============================================================================
