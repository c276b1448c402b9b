-------------------------- MODULE JobLifecycleProofs --------------------------
(***************************************************************************)
(* Proofs about DurableJobs when every execution keeps its lease (~Overrun) *)
(* and unlocked transactions do not overlap (~Overlap), for any number of   *)
(* rows, slots, hosts, envelopes and attempts, with every crash, lost or    *)
(* repeated envelope, refused send and dead dispatcher: one execution at a  *)
(* time works on a job, one unfinished row holds each key, and the queue    *)
(* implements JobLifecycle.                                                 *)
(***************************************************************************)
EXTENDS DurableJobsProofs

PhaseIn(s) == PhaseOf(s.state)

(* The life of one row: what a write may make of `s` other than admit it.   *)
Moves(s, r) ==
    \/ PhaseIn(r) = PhaseIn(s) /\ r.cancel = s.cancel
    \/ PhaseIn(s) = "waiting" /\ ~s.cancel /\ PhaseIn(r) = "working" /\ ~r.cancel
    \/ PhaseIn(s) = "working" /\ PhaseIn(r) = "waiting" /\ r.cancel = s.cancel
    \/ PhaseIn(s) = "working" /\ ~s.cancel /\ PhaseIn(r) = "succeeded" /\ ~r.cancel
    \/ PhaseIn(s) \in {"waiting", "working"} /\ PhaseIn(r) = "failed" /\ r.cancel = s.cancel
    \/ PhaseIn(s) = "working" /\ PhaseIn(r) = "working" /\ r.cancel
    \/ PhaseIn(s) = "working" /\ s.cancel /\ PhaseIn(r) = "cancelled" /\ r.cancel
    \/ PhaseIn(s) = "waiting" /\ PhaseIn(r) = "cancelled" /\ r.cancel
    \/ PhaseIn(s) \in {"failed", "cancelled"} /\ PhaseIn(r) = "waiting" /\ ~r.cancel

LifeStep == [Life!LifeNext]_(Life!lifeVars)

(* A step that writes no row takes no step of the life.                     *)
LEMMA LifeStutters == UNCHANGED job => LifeStep
BY DEF LifeStep, Life!lifeVars, State

(* A write that moves one row along its life is a step of the life.         *)
LEMMA LifeMoves ==
    ASSUME job \in [Jobs -> Row], NEW j \in Jobs, NEW row \in Row,
           job' = [job EXCEPT ![j] = row], Moves(job[j], row)
    PROVE  LifeStep
<1> DEFINE phase == [i \in Jobs |-> PhaseOf(State(i))]
           wish  == {i \in Jobs : job[i].cancel}
<1>1. \A i \in Jobs : job'[i] = IF i = j THEN row ELSE job[i]
  OBVIOUS
<1>2. phase' = [phase EXCEPT ![j] = PhaseIn(row)]
  BY <1>1 DEF State, PhaseIn
<1>3. wish' = IF row.cancel THEN wish \cup {j} ELSE wish \ {j}
  BY <1>1
<1>4. phase[j] = PhaseIn(job[j]) /\ (j \in wish <=> job[j].cancel)
      /\ job[j].cancel \in BOOLEAN /\ row.cancel \in BOOLEAN
  BY DEF State, Row, PhaseIn
<1> HIDE DEF phase, wish
<1>5. CASE PhaseIn(row) = phase[j] /\ row.cancel = job[j].cancel
  <2>1. phase' = phase
    BY <1>2, <1>5 DEF phase
  <2>2. wish' = wish
    BY <1>3, <1>4, <1>5
  <2> QED
    BY <2>1, <2>2 DEF LifeStep, Life!lifeVars, phase, wish
<1>6. CASE ~(PhaseIn(row) = phase[j] /\ row.cancel = job[j].cancel)
  <2>1. \/ Life!Begin(j) \/ Life!Requeue(j) \/ Life!Succeed(j)
        \/ Life!Fail(j) \/ Life!Ask(j) \/ Life!Cancel(j) \/ Life!Retry(j)
    BY <1>2, <1>3, <1>4, <1>6
    DEF Moves, Life!Begin, Life!Requeue, Life!Succeed, Life!Fail, Life!Ask, Life!Cancel,
        Life!Retry, Life!MoveTo, Life!Live, phase, wish
  <2> QED
    BY <2>1 DEF LifeStep, Life!LifeNext
<1> QED
  BY <1>5, <1>6

-------------------------------------------------------------------------------
(* The inductive invariant.                                                 *)

OpenTx == {w \in Workers : pc[w] \in TxOps}

NoneOpen == api.op = "idle" /\ ~rec.on /\ OpenTx = {}

(* At most one unlocked transaction is open, and the row it read is still   *)
(* what the table holds: nothing it writes is a lost update.                *)
OneTransaction ==
    /\ api.op # "idle" \/ rec.on => OpenTx = {}
    /\ rec.on => api.op = "idle"
    /\ ~rec.on => rec.stale = {}
    /\ \A v, w \in OpenTx : v = w

ReadIsCurrent ==
    /\ \A w \in OpenTx : snap[w] = job[held[w]] /\ ~Locked(held[w])
    /\ api.op # "idle" => api.snap = job[api.job] /\ ~Locked(api.job)
    /\ api.op = "cancel" => State(api.job) \notin Terminal \cup {"absent"}
    /\ api.op = "retry" => State(api.job) \in {"failed", "cancelled"}

TxPart == OneTransaction /\ ReadIsCurrent

(* A slot that executes a job holds its lease, and has raised JobCancelled  *)
(* only because somebody asked for it.                                      *)
LeaseIsKept ==
    \A w \in Workers : held[w] # NoJob =>
        /\ Owns(w, job[held[w]]) /\ held[w] \notin lapsed
        /\ pc[w] \in {"raised", "cancel"} => job[held[w]].cancel

LeasePart == LeaseIsKept /\ ExclusiveExecution

(* The row lock keeps a row as the open turn found it.                      *)
StagedIsReady ==
    \A j \in Jobs : staged[j] \in {"sent", "refused", "rescheduled"} => State(j) \in Ready

AbsentIsNull == \A j \in Jobs : State(j) = "absent" => ~job[j].cancel

(* Every row that is not absent or succeeded holds its key, alone.          *)
KeysAreHeld ==
    /\ \A j \in Jobs : State(j) \notin {"absent", "succeeded"} => j \in keyed
    /\ \A i, j \in keyed : KeyOf[i] = KeyOf[j] => i = j

RowPart == StagedIsReady /\ AbsentIsNull /\ KeysAreHeld

SerialInv == JobInv /\ TxPart /\ LeasePart /\ RowPart

-------------------------------------------------------------------------------
(* What each handler makes of a row is a move of its life.                  *)

LEMMA WorkMoves ==
    ASSUME NEW s \in Row, s.state = "running"
    PROVE  /\ Moves(s, Completed(s)) /\ Moves(s, FailedRow(s))
           /\ Moves(s, DeferredForModel(s)) /\ Moves(s, DeferredUntil(s))
           /\ Moves(s, Yielded(s))
           /\ s.cancel => Moves(s, Cancelled(s))
BY DEF Row, Moves, PhaseIn, PhaseOf, Claimable, Ready, Completed, FailedRow, Cancelled,
       DeferredForModel, DeferredUntil, Yielded

LEMMA ClaimMoves ==
    ASSUME NEW s \in Row, s.state \in Claimable, NEW h, NEW n
    PROVE  /\ Moves(s, Cancelled(s))
           /\ Moves(s, [s EXCEPT !.state = "failed", !.delay = FALSE])
           /\ ~s.cancel => Moves(s, [s EXCEPT !.state = "running", !.attempts = n, !.owner = h])
BY DEF Row, Moves, PhaseIn, PhaseOf, Claimable, Ready, Cancelled

LEMMA RequestMoves ==
    ASSUME NEW s \in Row
    PROVE  /\ s.state \notin Terminal \cup {"absent"} => Moves(s, Requested(s))
           /\ s.state \in {"failed", "cancelled"} => Moves(s, Retried(s))
           /\ s.state \in {"running", "dispatched"} => Moves(s, Recovered(s))
<1>1. s.state \in States
  BY DEF Row
<1>2. ASSUME s.state \notin Terminal \cup {"absent"} PROVE Moves(s, Requested(s))
  <2>1. CASE s.state = "running"
    BY <2>1 DEF Row, Moves, PhaseIn, PhaseOf, Claimable, Ready, Terminal, Requested
  <2>2. CASE s.state \in Claimable
    BY <2>2, ClaimMoves DEF Requested, Claimable, Ready, Terminal
  <2> QED
    BY <1>1, <1>2, <2>1, <2>2 DEF States
<1>3. ASSUME s.state \in {"failed", "cancelled"} PROVE Moves(s, Retried(s))
  BY <1>3 DEF Row, Moves, PhaseIn, PhaseOf, Claimable, Ready, Retried
<1>4. ASSUME s.state = "dispatched" PROVE Moves(s, Recovered(s))
  BY <1>4 DEF Row, Moves, PhaseIn, PhaseOf, Claimable, Ready, Recovered
<1>5. ASSUME s.state = "running" PROVE Moves(s, Recovered(s))
  BY <1>5 DEF Row, Moves, PhaseIn, PhaseOf, Claimable, Ready, Recovered
<1> QED
  BY <1>2, <1>3, <1>4, <1>5

LEMMA Stays == ASSUME NEW s PROVE Moves(s, s)
BY DEF Moves

(* An UPDATE of the columns changed since a current read writes the row.    *)
LEMMA CurrentMerge ==
    ASSUME NEW c \in Row, NEW n \in Row
    PROVE  Merge(c, c, n) = n
BY DEF Row, Merge, Written

-------------------------------------------------------------------------------
(* Frames.                                                                  *)

LEMMA InitSerial == Init => TxPart /\ LeasePart /\ RowPart
<1> SUFFICES ASSUME Init PROVE TxPart /\ LeasePart /\ RowPart
  OBVIOUS
<1>1. OpenTx = {}
  BY DEF Init, OpenTx, TxOps
<1>2. TxPart
  BY <1>1 DEF Init, TxPart, OneTransaction, ReadIsCurrent, IdleApi, IdleRec
<1>3. LeasePart
  BY DEF Init, LeasePart, LeaseIsKept, ExclusiveExecution
<1>4. RowPart
  BY DEF Init, RowPart, StagedIsReady, AbsentIsNull, KeysAreHeld, State, NoRow
<1> QED
  BY <1>2, <1>3, <1>4

(* A step that leaves no transaction open.                                  *)
LEMMA TxNone ==
    ASSUME OpenTx' = {}, api'.op = "idle", ~rec'.on => rec'.stale = {}
    PROVE  TxPart'
BY DEF TxPart, OneTransaction, ReadIsCurrent

(* Holders keep their jobs, and the row of each is left or written as its   *)
(* holder's.                                                                *)
LEMMA LeaseFrame ==
    ASSUME LeasePart,
           \A w \in Workers : held'[w] # NoJob =>
               /\ held'[w] = held[w]
               /\ Owns(w, job'[held[w]]) /\ held[w] \notin lapsed'
               /\ pc'[w] \in {"raised", "cancel"} => job'[held[w]].cancel
    PROVE  LeasePart'
BY DEF LeasePart, LeaseIsKept, ExclusiveExecution, Owns

LEMMA RowsKept ==
    ASSUME RowPart, UNCHANGED <<job, keyed>>,
           \A j \in Jobs : staged'[j] \in {staged[j], "no", "discarded"} \/ State(j) \in Ready
    PROVE  RowPart'
BY DEF RowPart, StagedIsReady, AbsentIsNull, KeysAreHeld, State

LEMMA RowWritten ==
    ASSUME TypeOK, RowPart, NEW j \in Jobs, NEW row \in Row, job' = [job EXCEPT ![j] = row],
           Moves(job[j], row), ~Locked(j), UNCHANGED <<staged, keyed>>
    PROVE  RowPart'
<1>1. job[j] \in Row /\ \A i \in Jobs : job'[i] = IF i = j THEN row ELSE job[i]
  BY DEF TypeOK, RowTypeOK
<1>2. /\ row.state \notin {"absent", "succeeded"} => State(j) \notin {"absent", "succeeded"}
      /\ row.state = "absent" => State(j) = "absent" /\ row.cancel = job[j].cancel
  BY <1>1 DEF Moves, PhaseIn, PhaseOf, State, Row, States, Claimable, Ready, Terminal
<1>3. StagedIsReady'
  BY <1>1 DEF RowPart, StagedIsReady, State, Locked
<1>4. AbsentIsNull' /\ KeysAreHeld'
  BY <1>1, <1>2 DEF RowPart, AbsentIsNull, KeysAreHeld, State
<1> QED
  BY <1>3, <1>4 DEF RowPart

-------------------------------------------------------------------------------
(* Every execution keeps its lease; unlocked transactions run alone.        *)
Undisturbed == ~Overrun /\ ~Overlap

SerialStep == TxPart' /\ LeasePart' /\ RowPart' /\ LifeStep

LEMMA SerialIsAlone == ASSUME Undisturbed, Serial PROVE NoneOpen
BY DEF Undisturbed, Serial, NoneOpen, OpenTx

(* A slot that holds a job runs it, and the clock cannot take it away.      *)
LEMMA Holders ==
    ASSUME SerialInv, NEW w \in Workers, held[w] # NoJob
    PROVE  /\ held[w] \in Jobs /\ State(held[w]) = "running" /\ Owns(w, job[held[w]])
           /\ held[w] \notin lapsed
           /\ \A v \in Workers : held[v] = held[w] => v = w
           /\ pc[w] \in {"raised", "cancel"} => job[held[w]].cancel
BY DEF SerialInv, LeasePart, LeaseIsKept, ExclusiveExecution, Owns, State,
       JobInv, TypeOK, ExecTypeOK

(* A step that writes no row, opens no transaction and takes no job away.   *)
LEMMA QuietStep ==
    ASSUME SerialInv, NoneOpen, UNCHANGED <<job, keyed, pc, held>>,
           lapsed' = lapsed, api'.op = "idle", ~rec'.on, rec'.stale = rec.stale,
           \A j \in Jobs : staged'[j] \in {staged[j], "no", "discarded"} \/ State(j) \in Ready
    PROVE  SerialStep
<1>1. TxPart'
  BY TxNone DEF NoneOpen, OpenTx, SerialInv, TxPart, OneTransaction
<1>2. LeasePart'
  BY LeaseFrame DEF SerialInv, LeasePart, LeaseIsKept, Owns
<1>3. RowPart'
  BY RowsKept DEF SerialInv
<1> QED
  BY <1>1, <1>2, <1>3, LifeStutters DEF SerialStep

(* A write of one row that nobody executes, or that its holder writes.      *)
LEMMA WriteStep ==
    ASSUME SerialInv, NEW j \in Jobs, NEW row \in Row, NEW fresh, Put(j, row, fresh),
           Moves(job[j], row), ~Locked(j), UNCHANGED <<staged, keyed>>, TxPart',
           \A w \in Workers : held'[w] # NoJob =>
               /\ held'[w] = held[w]
               /\ held[w] = j => Owns(w, row)
               /\ pc'[w] \in {"raised", "cancel"} =>
                      IF held[w] = j THEN row.cancel ELSE pc[w] \in {"raised", "cancel"}
    PROVE  SerialStep
<1>1. /\ job' = [job EXCEPT ![j] = row] /\ job \in [Jobs -> Row]
      /\ job'[j] = row /\ \A i \in Jobs : i # j => job'[i] = job[i]
      /\ lapsed' \subseteq lapsed
  BY DEF Put, SerialInv, JobInv, TypeOK, RowTypeOK
<1>2. RowPart'
  BY <1>1, RowWritten DEF SerialInv, JobInv
<1>3. LifeStep
  BY <1>1, LifeMoves
<1>4. ASSUME NEW w \in Workers, held'[w] # NoJob
      PROVE  /\ held'[w] = held[w]
             /\ Owns(w, job'[held[w]]) /\ held[w] \notin lapsed'
             /\ pc'[w] \in {"raised", "cancel"} => job'[held[w]].cancel
  <2>1. /\ held'[w] = held[w] /\ held[w] \in Jobs /\ held[w] \notin lapsed
        /\ Owns(w, job[held[w]])
        /\ pc[w] \in {"raised", "cancel"} => job[held[w]].cancel
    BY <1>4, Holders
  <2>2. CASE held[w] = j
    BY <1>1, <1>4, <2>1, <2>2
  <2>3. CASE held[w] # j
    BY <1>1, <1>4, <2>1, <2>3
  <2> QED
    BY <2>2, <2>3
<1>5. LeasePart'
  BY <1>4, LeaseFrame DEF SerialInv
<1> QED
  BY <1>2, <1>3, <1>5 DEF SerialStep

-------------------------------------------------------------------------------
(* Admission and the dispatcher.                                            *)

LEMMA EnqueueSerial ==
    ASSUME SerialInv, Undisturbed, NEW j \in Jobs, Enqueue(j)
    PROVE  SerialStep
<1>1. /\ NoneOpen /\ State(j) = "absent"
      /\ \A i \in Holder(KeyOf[j]) : Freed(i)
      /\ keyed' = (keyed \ Holder(KeyOf[j])) \cup {j}
      /\ Put(j, Admitted, TRUE) /\ UNCHANGED <<pc, held, api, rec, staged>>
  BY SerialIsAlone DEF Enqueue, execVars
<1>t. job \in [Jobs -> Row] /\ keyed \subseteq Jobs
  BY DEF SerialInv, JobInv, TypeOK, RowTypeOK
<1>2. Admitted \in Row /\ Admitted.state = "queued" /\ ~Admitted.cancel
  BY NullRow DEF Admitted, Row, NoRow, States, Claimable, Ready
<1>3. \A i \in Jobs : job'[i] = IF i = j THEN Admitted ELSE job[i]
  BY <1>1, <1>t DEF Put
<1>4. TxPart'
  BY <1>1, TxNone DEF NoneOpen, OpenTx, SerialInv, TxPart, OneTransaction
<1>5. LeasePart'
  <2>1. ASSUME NEW w \in Workers, held'[w] # NoJob
        PROVE  /\ held'[w] = held[w]
               /\ Owns(w, job'[held[w]]) /\ held[w] \notin lapsed'
               /\ pc'[w] \in {"raised", "cancel"} => job'[held[w]].cancel
    BY <1>1, <1>3, <2>1, Holders DEF Put, State
  <2> QED
    BY <2>1, LeaseFrame DEF SerialInv
<1>6. RowPart'
  <2>1. StagedIsReady' /\ AbsentIsNull'
    BY <1>1, <1>2, <1>3 DEF SerialInv, RowPart, StagedIsReady, AbsentIsNull, State, Ready
  <2>2. KeysAreHeld'
    <3>1. \A i \in Jobs : State(i)' \notin {"absent", "succeeded"} => i \in keyed'
      <4>1. \A i \in Holder(KeyOf[j]) : State(i) = "succeeded"
        BY <1>1 DEF Freed
      <4> QED
        BY <1>1, <1>3, <4>1 DEF SerialInv, RowPart, KeysAreHeld, State
    <3>2. \A a, b \in keyed' : KeyOf[a] = KeyOf[b] => a = b
      BY <1>1, <1>t DEF SerialInv, RowPart, KeysAreHeld, Holder
    <3> QED
      BY <3>1, <3>2 DEF KeysAreHeld
  <2> QED
    BY <2>1, <2>2 DEF RowPart
<1>7. LifeStep
  <2> DEFINE phase == [i \in Jobs |-> PhaseOf(State(i))]
             wish  == {i \in Jobs : job[i].cancel}
  <2>1. phase' = [phase EXCEPT ![j] = "waiting"] /\ phase[j] = "absent"
    BY <1>1, <1>2, <1>3 DEF State, PhaseOf, Claimable, Ready
  <2>2. wish' = wish
    BY <1>1, <1>2, <1>3 DEF SerialInv, RowPart, AbsentIsNull
  <2>3. Life!Admit(j)
    BY <2>1, <2>2 DEF Life!Admit, Life!MoveTo
  <2> QED
    BY <2>3 DEF LifeStep, Life!LifeNext
<1> QED
  BY <1>4, <1>5, <1>6, <1>7 DEF SerialStep

LEMMA DispatchSerial ==
    ASSUME SerialInv, Undisturbed, Dispatcher
    PROVE  SerialStep
<1>t. /\ job \in [Jobs -> Row] /\ \A w \in Workers : held[w] \in Jobs \cup {NoJob}
      /\ staged \in [Jobs -> {"no", "sent", "refused", "discarded", "rescheduled"}]
      /\ rec \in [on: BOOLEAN, stale: SUBSET Jobs, early: BOOLEAN]
      /\ api \in [op: ApiOps \cup {"idle"}, job: Jobs \cup {NoJob}, snap: Row,
                  early: BOOLEAN]
  BY DEF SerialInv, JobInv, TypeOK, RowTypeOK, ExecTypeOK, TxTypeOK, TurnTypeOK
<1>1. CASE DispatchBegin
  <2>1. /\ NoneOpen /\ UNCHANGED <<job, keyed, lapsed, pc, held, staged>>
        /\ api' = [api EXCEPT !.early = (api.op = "retry")]
        /\ rec' = [rec EXCEPT !.early = rec.on]
    BY <1>1, SerialIsAlone DEF DispatchBegin, rowVars, execVars
  <2>2. api'.op = "idle" /\ ~rec'.on /\ rec'.stale = rec.stale
    BY <2>1, <1>t DEF NoneOpen
  <2> QED
    BY <2>1, <2>2, QuietStep
<1>2. ASSUME NEW j \in Jobs,
             Skip(j) \/ Discard(j) \/ Reschedule(j) \/ Send(j) \/ Refuse(j)
      PROVE  SerialStep
  <2>1. Examine(j)
    BY <1>2 DEF Skip, Discard, Reschedule, Send, Refuse, Offered
  <2>2. NoneOpen /\ UNCHANGED <<job, keyed, lapsed, pc, held, api, rec>>
    BY <2>1, SerialIsAlone DEF Examine, rowVars, execVars
  <2>3. \/ UNCHANGED staged
        \/ Stage(j, "discarded")
        \/ State(j) \in Ready /\ \E what \in {"rescheduled", "sent", "refused"} : Stage(j, what)
    BY <1>2 DEF Skip, Discard, Reschedule, Send, Refuse
  <2>4. \A i \in Jobs : staged'[i] \in {staged[i], "no", "discarded"} \/ State(i) \in Ready
    BY <2>3, <1>t DEF Stage
  <2> QED
    BY <2>2, <2>4, QuietStep DEF NoneOpen
<1>3. CASE DispatchCommit \/ DispatchRollback
  <2>1. /\ UNCHANGED <<lapsed, keyed, pc, held, snap, api, rec>>
        /\ staged' = [j \in Jobs |-> "no"]
    BY <1>3 DEF DispatchCommit, DispatchRollback, EndTurn, rowVars, execVars
  <2>2. \A j \in Jobs : \/ job'[j] = job[j]
                       \/ /\ Locked(j) /\ State(j) \in Ready
                          /\ job'[j].state \in {"queued", "dispatched"}
                          /\ job'[j].cancel = job[j].cancel
    <3>1. CASE DispatchRollback
      BY <3>1 DEF DispatchRollback, rowVars
    <3>2. CASE DispatchCommit
      <4> SUFFICES ASSUME NEW j \in Jobs
                   PROVE  \/ job'[j] = job[j]
                          \/ /\ Locked(j) /\ State(j) \in Ready
                             /\ job'[j].state \in {"queued", "dispatched"}
                             /\ job'[j].cancel = job[j].cancel
        OBVIOUS
      <4>1. job'[j] = Handled(job[j], staged[j])
        BY <3>2 DEF DispatchCommit
      <4>2. CASE staged[j] \in {"sent", "refused"}
        <5>1. State(j) \in Ready /\ Locked(j)
          BY <4>2 DEF SerialInv, RowPart, StagedIsReady, Locked
        <5> QED
          BY <4>1, <4>2, <5>1, <1>t DEF Handled, Row
      <4>3. CASE staged[j] \notin {"sent", "refused"}
        BY <4>1, <4>3 DEF Handled
      <4> QED
        BY <4>2, <4>3
    <3> QED
      BY <1>3, <3>1, <3>2
  <2>3. TxPart'
    <3>1. OneTransaction'
      BY <2>1 DEF SerialInv, TxPart, OneTransaction, OpenTx
    <3>2. ASSUME NEW w \in OpenTx'
          PROVE  snap'[w] = job'[held'[w]] /\ staged'[held'[w]] = "no"
      <4>1. w \in OpenTx /\ held[w] \in Jobs
        BY <2>1, <3>2 DEF OpenTx, TxOps, SerialInv, JobInv, TypeOK, ExecTypeOK
      <4> QED
        BY <2>1, <2>2, <4>1 DEF SerialInv, TxPart, ReadIsCurrent, Locked
    <3>3. CASE api.op = "idle"
      BY <2>1, <3>1, <3>2, <3>3 DEF TxPart, ReadIsCurrent, Locked
    <3>4. CASE api.op # "idle"
      <4>1. api.job \in Jobs
        BY <3>4 DEF SerialInv, JobInv, TypeOK, TxTypeOK
      <4>2. job'[api.job] = job[api.job] /\ staged'[api.job] = "no"
        BY <2>1, <2>2, <3>4, <4>1 DEF SerialInv, TxPart, ReadIsCurrent
      <4> QED
        BY <2>1, <3>1, <3>2, <4>2 DEF SerialInv, TxPart, ReadIsCurrent, State, Locked
    <3> QED
      BY <3>3, <3>4
  <2>4. LeasePart'
    <3>1. ASSUME NEW w \in Workers, held'[w] # NoJob
          PROVE  /\ held'[w] = held[w]
                 /\ Owns(w, job'[held[w]]) /\ held[w] \notin lapsed'
                 /\ pc'[w] \in {"raised", "cancel"} => job'[held[w]].cancel
      BY <2>1, <2>2, <3>1, Holders DEF Ready
    <3> QED
      BY <3>1, LeaseFrame DEF SerialInv
  <2>5. RowPart'
    BY <2>1, <2>2 DEF SerialInv, RowPart, StagedIsReady, AbsentIsNull, KeysAreHeld, State, Ready
  <2>6. LifeStep
    <3>1. \A j \in Jobs : PhaseOf(State(j))' = PhaseOf(State(j)) /\ job'[j].cancel = job[j].cancel
      BY <2>2 DEF PhaseOf, State, Claimable, Ready
    <3> QED
      BY <3>1 DEF LifeStep, Life!lifeVars
  <2> QED
    BY <2>3, <2>4, <2>5, <2>6 DEF SerialStep
<1> QED
  BY <1>1, <1>2, <1>3 DEF Dispatcher

-------------------------------------------------------------------------------
(* Recovery, the API and the environment.                                   *)

LEMMA WithoutOne ==
    ASSUME SerialInv, NEW j \in rec.stale
    PROVE  /\ rec.on /\ (~Without(rec, j).on => Without(rec, j).stale = {})
           /\ api.op = "idle" /\ OpenTx = {}
BY DEF SerialInv, TxPart, OneTransaction, Without, IdleRec, JobInv, TypeOK, TxTypeOK

LEMMA RecoverySerial ==
    ASSUME SerialInv, Undisturbed, Recovery
    PROVE  SerialStep
<1>t. job \in [Jobs -> Row] /\ rec.stale \subseteq Jobs
  BY DEF SerialInv, JobInv, TypeOK, RowTypeOK, TxTypeOK
<1>1. ASSUME UNCHANGED <<job, keyed, lapsed, pc, held, api, staged>>,
             api.op = "idle", OpenTx = {}, ~rec'.on => rec'.stale = {}
      PROVE  SerialStep
  <2>1. TxPart'
    BY <1>1, TxNone DEF OpenTx
  <2>2. LeasePart'
    BY <1>1, LeaseFrame DEF SerialInv, LeasePart, LeaseIsKept
  <2>3. RowPart'
    BY <1>1, RowsKept DEF SerialInv
  <2> QED
    BY <1>1, <2>1, <2>2, <2>3, LifeStutters DEF SerialStep
<1>2. CASE RecoverBegin
  BY <1>1, <1>2, SerialIsAlone DEF RecoverBegin, NoneOpen, rowVars, execVars, turnVars
<1>3. ASSUME NEW j \in Jobs, RecoverSkip(j) PROVE SerialStep
  <2>1. j \in rec.stale /\ rec' = Without(rec, j)
    BY <1>3 DEF RecoverSkip
  <2> QED
    BY <1>1, <1>3, <2>1, WithoutOne DEF RecoverSkip, rowVars, execVars, turnVars
<1>4. ASSUME NEW j \in Jobs, Recover(j) PROVE SerialStep
  <2> DEFINE row == Recovered(job[j])
  <2>1. /\ j \in rec.stale /\ rec' = Without(rec, j) /\ Put(j, row, FALSE)
        /\ ~Locked(j) /\ Stale(j) /\ UNCHANGED <<staged, keyed, pc, held, api>>
    BY <1>4 DEF Recover, execVars
  <2>2. job[j] \in Row /\ row \in Row /\ job[j].state \in {"running", "dispatched"}
    BY <1>t, <2>1, RowOperations DEF Stale, State
  <2>3. Moves(job[j], row)
    BY <2>2, RequestMoves
  <2>4. TxPart'
    BY <2>1, WithoutOne, TxNone DEF OpenTx
  <2>5. \A w \in Workers : held[w] # j
    BY <2>1, Holders, ConstantsAssumption DEF Stale, State
  <2> HIDE DEF row
  <2> QED
    BY <2>1, <2>2, <2>3, <2>4, <2>5, WriteStep
<1> QED
  BY <1>2, <1>3, <1>4 DEF Recovery

LEMMA ApiSerial ==
    ASSUME SerialInv, Undisturbed, Api
    PROVE  SerialStep
<1>t. /\ job \in [Jobs -> Row]
      /\ api \in [op: ApiOps \cup {"idle"}, job: Jobs \cup {NoJob}, snap: Row,
                  early: BOOLEAN]
      /\ (api.op = "idle" <=> api.job = NoJob)
  BY DEF SerialInv, JobInv, TypeOK, RowTypeOK, TxTypeOK
<1>1. ASSUME NEW j \in Jobs, NEW op \in Requests, ApiOpen(op, j) PROVE SerialStep
  <2>1. /\ NoneOpen /\ UNCHANGED <<job, keyed, lapsed, pc, held, snap, rec, staged>>
        /\ api' = [op |-> op, job |-> j, snap |-> job[j], early |-> FALSE]
        /\ ~Locked(j)
        /\ \/ op = "cancel" /\ State(j) \notin Terminal \cup {"absent"}
           \/ op = "retry" /\ State(j) \in {"failed", "cancelled"}
    BY <1>1, SerialIsAlone DEF ApiOpen, Undisturbed, rowVars, execVars, turnVars
  <2>2. TxPart'
    BY <2>1 DEF NoneOpen, SerialInv, TxPart, OneTransaction, ReadIsCurrent, OpenTx, State, Locked
  <2>3. LeasePart'
    BY <2>1, LeaseFrame DEF SerialInv, LeasePart, LeaseIsKept
  <2>4. RowPart'
    BY <2>1, RowsKept DEF SerialInv
  <2> QED
    BY <2>1, <2>2, <2>3, <2>4, LifeStutters DEF SerialStep
<1>2. CASE ApiCommit
  <2> DEFINE j == api.job
             new == IF api.op = "cancel" THEN Requested(job[j]) ELSE Retried(job[j])
  <2>1. /\ api.op \in ApiOps /\ j \in Jobs /\ api.snap = job[j] /\ ~Locked(j)
        /\ OpenTx = {} /\ ~rec.on /\ rec.stale = {}
        /\ api.op = "cancel" => job[j].state \notin Terminal \cup {"absent"}
        /\ api.op = "retry" => job[j].state \in {"failed", "cancelled"}
    BY <1>2, <1>t DEF ApiCommit, SerialInv, TxPart, OneTransaction, ReadIsCurrent, State
  <2>2. job[j] \in Row /\ new \in Row
    BY <1>t, <2>1, RowOperations
  <2>3. Put(j, new, FALSE) /\ UNCHANGED <<staged, keyed, pc, held, snap, rec>> /\ api' = IdleApi
    BY <1>2, <2>1, <2>2, CurrentMerge DEF ApiCommit, execVars
  <2>4. Moves(job[j], new)
    BY <2>1, <2>2, RequestMoves DEF ApiOps
  <2>5. TxPart'
    BY <2>1, <2>3, TxNone DEF OpenTx, IdleApi
  <2>6. ASSUME NEW w \in Workers, held[w] # NoJob, held[w] = j
        PROVE  Owns(w, new) /\ (pc[w] \in {"raised", "cancel"} => new.cancel)
    <3>1. job[j].state = "running" /\ Owns(w, job[j])
      BY <2>6, Holders DEF State
    <3>2. new = [job[j] EXCEPT !.cancel = TRUE]
      BY <2>1, <3>1 DEF Requested, Terminal, Claimable, Ready, ApiOps
    <3> QED
      BY <2>2, <3>1, <3>2 DEF Owns, Row
  <2> HIDE DEF new
  <2> QED
    BY <2>1, <2>2, <2>3, <2>4, <2>5, <2>6, WriteStep
<1> QED
  BY <1>1, <1>2 DEF Api

(* A slot lets its job go; nothing else changes.                            *)
LEMMA LetGoStep ==
    ASSUME SerialInv, NoneOpen, NEW w \in Workers, Release(w),
           UNCHANGED <<job, keyed, lapsed, api, rec, staged>>
    PROVE  SerialStep
<1>t. pc \in [Workers -> {"idle", "work", "raised"} \cup TxOps]
      /\ held \in [Workers -> Jobs \cup {NoJob}]
  BY DEF SerialInv, JobInv, TypeOK, ExecTypeOK
<1>1. \A v \in Workers : /\ pc'[v] \in {pc[v], "idle"}
                         /\ held'[v] # NoJob => held'[v] = held[v] /\ pc'[v] = pc[v]
  BY <1>t DEF Release
<1>2. TxPart'
  BY <1>1, TxNone DEF NoneOpen, OpenTx, TxOps, SerialInv, TxPart, OneTransaction
<1>3. LeasePart'
  BY <1>1, LeaseFrame DEF SerialInv, LeasePart, LeaseIsKept
<1>4. RowPart'
  BY RowsKept DEF SerialInv
<1> QED
  BY <1>2, <1>3, <1>4, LifeStutters DEF SerialStep

LEMMA EnvironmentSerial ==
    ASSUME SerialInv, Undisturbed, Environment
    PROVE  SerialStep
<1>1. CASE ModelBecomesReady \/ \E j \in Jobs : LoseEnvelopes(j)
  BY <1>1, SerialIsAlone, QuietStep
  DEF ModelBecomesReady, LoseEnvelopes, rowVars, execVars, turnVars, NoneOpen
<1>2. ASSUME NEW j \in Jobs, JobBecomesDue(j) \/ MessageBecomesDue(j) \/ HandoffAges(j)
      PROVE  SerialStep
  BY <1>2, SerialIsAlone, QuietStep
  DEF JobBecomesDue, MessageBecomesDue, HandoffAges, execVars, turnVars, NoneOpen
<1>3. ASSUME NEW j \in Jobs, LeaseLapses(j) PROVE SerialStep
  <2>1. /\ NoneOpen /\ \A w \in Workers : held[w] # j
        /\ lapsed' = lapsed \cup {j} /\ UNCHANGED <<job, keyed, pc, held, api, rec, staged>>
    BY <1>3, SerialIsAlone DEF LeaseLapses, Executed, Undisturbed, execVars, turnVars
  <2>2. TxPart'
    BY <2>1, TxNone DEF NoneOpen, OpenTx, SerialInv, TxPart, OneTransaction
  <2>3. LeasePart'
    BY <2>1, LeaseFrame DEF SerialInv, LeasePart, LeaseIsKept
  <2>4. RowPart'
    BY <2>1, RowsKept DEF SerialInv
  <2> QED
    BY <2>1, <2>2, <2>3, <2>4, LifeStutters DEF SerialStep
<1>4. ASSUME NEW w \in Workers, Crash(w) PROVE SerialStep
  BY <1>4, SerialIsAlone, LetGoStep DEF Crash, rowVars, turnVars
<1>5. ASSUME NEW w \in Workers, Redeliver(w) PROVE SerialStep
  BY <1>5, SerialIsAlone, QuietStep DEF Redeliver, rowVars, execVars, turnVars, NoneOpen
<1> QED
  BY <1>1, <1>2, <1>3, <1>4, <1>5 DEF Environment, Time

-------------------------------------------------------------------------------
(* Executions.                                                              *)

LEMMA TakeSerial ==
    ASSUME SerialInv, Undisturbed, NEW j \in Jobs, NEW w \in Workers, TakeEnvelope(j, w)
    PROVE  SerialStep
<1>t. /\ job \in [Jobs -> Row] /\ HostOf[w] \in Hosts
      /\ pc \in [Workers -> {"idle", "work", "raised"} \cup TxOps]
      /\ held \in [Workers -> Jobs \cup {NoJob}]
      /\ MaxAttempts \in Nat /\ j # NoJob
  BY ConstantsAssumption DEF SerialInv, JobInv, TypeOK, RowTypeOK, ExecTypeOK
<1>1. /\ NoneOpen /\ ~Locked(j) /\ pc[w] = "idle" /\ held[w] = NoJob
      /\ UNCHANGED <<keyed, snap, api, rec, staged>>
  BY SerialIsAlone DEF TakeEnvelope, ClaimNothing, ClaimCancelled, ClaimExhausted, Claim, Take,
                       turnVars, SerialInv, JobInv, TypeOK, ExecTypeOK
<1>2. ASSUME State(j) \in Claimable PROVE \A v \in Workers : held[v] # j
  BY <1>2, <1>t, Holders DEF Claimable, Ready
<1>3. CASE ClaimNothing(j, w)
  BY <1>1, <1>3, QuietStep DEF ClaimNothing, NoneOpen
<1>4. ASSUME State(j) \in Claimable, UNCHANGED <<pc, held>>,
             NEW row \in Row, NEW fresh, Put(j, row, fresh), Moves(job[j], row)
      PROVE  SerialStep
  <2>1. TxPart'
    BY <1>1, <1>4, TxNone DEF NoneOpen, OpenTx, SerialInv, TxPart, OneTransaction
  <2> QED
    BY <1>1, <1>2, <1>4, <2>1, WriteStep
<1>5. CASE ClaimCancelled(j, w)
  <2>1. Cancelled(job[j]) \in Row /\ Moves(job[j], Cancelled(job[j]))
    BY <1>5, <1>t, RowOperations, ClaimMoves DEF ClaimCancelled, State
  <2> QED
    BY <1>4, <1>5, <2>1 DEF ClaimCancelled
<1>6. CASE ClaimExhausted(j, w)
  <2> DEFINE row == [job[j] EXCEPT !.state = "failed", !.delay = FALSE]
  <2>1. row \in Row
    BY <1>t DEF Row, States, Terminal
  <2>2. Moves(job[j], row)
    BY <1>6, <1>t, ClaimMoves DEF ClaimExhausted, State
  <2> QED
    BY <1>4, <1>6, <2>1, <2>2 DEF ClaimExhausted
<1>7. CASE Claim(j, w)
  <2> DEFINE row == [job[j] EXCEPT !.state = "running", !.attempts = @ + 1,
                                   !.owner = HostOf[w]]
  <2>1. /\ Put(j, row, TRUE) /\ State(j) \in Claimable /\ ~job[j].cancel
        /\ pc' = [pc EXCEPT ![w] = "work"] /\ held' = [held EXCEPT ![w] = j]
        /\ job[j].attempts < MaxAttempts
    BY <1>7 DEF Claim
  <2>a. job[j].attempts + 1 \in 0..MaxAttempts
    BY <1>t, <2>1 DEF Row
  <2>2. row \in Row /\ Owns(w, row)
    BY <1>t, <2>a DEF Row, States, Owns
  <2>3. Moves(job[j], row)
    BY <1>t, <2>1, ClaimMoves DEF State
  <2>4. /\ job' = [job EXCEPT ![j] = row] /\ job'[j] = row /\ j \notin lapsed'
        /\ \A i \in Jobs : i # j => job'[i] = job[i]
        /\ lapsed' \subseteq lapsed
    BY <1>t, <2>1 DEF Put
  <2>5. TxPart'
    BY <1>1, <1>t, <2>1, TxNone DEF NoneOpen, OpenTx, TxOps, SerialInv, TxPart, OneTransaction
  <2>6. LeasePart'
    <3> HIDE DEF row
    <3>1. held'[w] = j /\ pc'[w] = "work"
      BY <1>t, <2>1
    <3>2. \A v \in Workers : v # w => held'[v] = held[v] /\ pc'[v] = pc[v]
      BY <1>t, <2>1
    <3>3. LeaseIsKept'
      <4>1. ASSUME NEW v \in Workers, held'[v] # NoJob
            PROVE  /\ Owns(v, job'[held'[v]]) /\ held'[v] \notin lapsed'
                   /\ pc'[v] \in {"raised", "cancel"} => job'[held'[v]].cancel
        <5>1. CASE v = w
          BY <2>2, <2>4, <3>1, <5>1
        <5>2. CASE v # w
          BY <1>2, <2>1, <2>4, <3>2, <4>1, <5>2, Holders
        <5> QED
          BY <5>1, <5>2
      <4> QED
        BY <4>1 DEF LeaseIsKept, Owns
    <3>4. ExclusiveExecution'
      BY <1>2, <2>1, <3>1, <3>2 DEF SerialInv, LeasePart, ExclusiveExecution
    <3> QED
      BY <3>3, <3>4 DEF LeasePart
  <2>7. RowPart'
    BY <1>1, <2>2, <2>3, <2>4, RowWritten DEF SerialInv, JobInv
  <2>8. LifeStep
    BY <1>t, <2>2, <2>3, <2>4, LifeMoves
  <2> QED
    BY <2>5, <2>6, <2>7, <2>8 DEF SerialStep
<1> QED
  BY <1>3, <1>5, <1>6, <1>7 DEF TakeEnvelope

(* A transaction of an execution opens on the row it holds.                 *)
LEMMA OpenSerial ==
    ASSUME SerialInv, Undisturbed, NEW w \in Workers, NEW op \in TxOps, pc[w] # "idle",
           Open(w, op), op = "cancel" => pc[w] = "raised"
    PROVE  SerialStep
<1>t. /\ pc \in [Workers -> {"idle", "work", "raised"} \cup TxOps]
      /\ snap \in [Workers -> Row] /\ held[w] # NoJob
  BY DEF SerialInv, JobInv, TypeOK, ExecTypeOK
<1>1. /\ NoneOpen /\ ~Locked(held[w]) /\ pc' = [pc EXCEPT ![w] = op]
      /\ snap' = [snap EXCEPT ![w] = job[held[w]]]
      /\ UNCHANGED <<job, keyed, lapsed, held, api, rec, staged>>
  BY SerialIsAlone DEF Open, Undisturbed, rowVars, turnVars
<1>2. OpenTx' = {w}
  BY <1>1, <1>t DEF NoneOpen, OpenTx
<1>3. TxPart'
  BY <1>1, <1>2, <1>t DEF NoneOpen, SerialInv, TxPart, OneTransaction, ReadIsCurrent, Locked
<1>4. LeasePart'
  <2>1. ASSUME NEW v \in Workers, held'[v] # NoJob
        PROVE  /\ held'[v] = held[v]
               /\ Owns(v, job'[held[v]]) /\ held[v] \notin lapsed'
               /\ pc'[v] \in {"raised", "cancel"} => job'[held[v]].cancel
    BY <1>1, <1>t, <2>1, Holders DEF TxOps
  <2> QED
    BY <2>1, LeaseFrame DEF SerialInv
<1>5. RowPart'
  BY <1>1, RowsKept DEF SerialInv
<1> QED
  BY <1>1, <1>3, <1>4, <1>5, LifeStutters DEF SerialStep

(* The holder writes its row: it keeps the lease or lets the job go.        *)
LEMMA HolderWrites ==
    ASSUME SerialInv, NEW w \in Workers, held[w] # NoJob,
           NEW row \in Row, NEW fresh, Put(held[w], row, fresh), Moves(job[held[w]], row),
           ~Locked(held[w]), UNCHANGED <<staged, keyed>>, TxPart',
           \/ Release(w)
           \/ /\ UNCHANGED held /\ Owns(w, row)
              /\ \A v \in Workers : v # w => pc'[v] = pc[v]
              /\ pc'[w] \in {"raised", "cancel"} => row.cancel
    PROVE  SerialStep
<1> DEFINE j == held[w]
<1>t. /\ pc \in [Workers -> {"idle", "work", "raised"} \cup TxOps]
      /\ held \in [Workers -> Jobs \cup {NoJob}]
      /\ j \in Jobs
  BY DEF SerialInv, JobInv, TypeOK, ExecTypeOK
<1>1. \A v \in Workers : held[v] = j => v = w
  BY Holders
<1>2. \A v \in Workers : held'[v] # NoJob =>
               /\ held'[v] = held[v]
               /\ held[v] = j => Owns(v, row)
               /\ pc'[v] \in {"raised", "cancel"} =>
                      IF held[v] = j THEN row.cancel ELSE pc[v] \in {"raised", "cancel"}
  <2>1. CASE Release(w)
    BY <1>t, <1>1, <2>1 DEF Release
  <2>2. CASE ~Release(w)
    BY <1>1, <2>2
  <2> QED
    BY <2>1, <2>2
<1> QED
  BY <1>t, <1>2, WriteStep

LEMMA CommitSerial ==
    ASSUME SerialInv, NEW w \in Workers, Commit(w)
    PROVE  SerialStep
<1> DEFINE j == held[w]
           s == job[j]
           new == AfterOp(pc[w], s)
<1>t. /\ pc \in [Workers -> {"idle", "work", "raised"} \cup TxOps]
      /\ held \in [Workers -> Jobs \cup {NoJob}]
      /\ pc[w] \in TxOps /\ pc[w] # "idle" /\ j \in Jobs /\ j # NoJob /\ s \in Row
  BY ConstantsAssumption DEF Commit, TxOps, SerialInv, JobInv, TypeOK, ExecTypeOK, RowTypeOK
<1>1. /\ OpenTx = {w} /\ snap[w] = s /\ ~Locked(j) /\ api.op = "idle" /\ ~rec.on /\ rec.stale = {}
  BY <1>t DEF SerialInv, TxPart, OneTransaction, ReadIsCurrent, OpenTx
<1>2. s.state = "running" /\ Owns(w, s) /\ (pc[w] = "cancel" => s.cancel)
  BY <1>t, Holders DEF State
<1>3. new \in Row
  BY <1>t, RowOperations DEF AfterOp, TxOps
<1>4. Put(j, new, TRUE) /\ UNCHANGED <<keyed, staged, api, rec>>
  BY <1>t, <1>1, <1>3, CurrentMerge DEF Commit
<1>5. Moves(s, new)
  BY <1>t, <1>2, WorkMoves, Stays DEF AfterOp, TxOps
<1>6. \/ Release(w)
      \/ /\ pc[w] = "mark" /\ UNCHANGED held
         /\ pc' = [pc EXCEPT ![w] = IF s.cancel THEN "raised" ELSE "work"]
  BY <1>1 DEF Commit
<1>7. OpenTx' = {}
  BY <1>t, <1>1, <1>6 DEF OpenTx, Release, TxOps
<1>8. TxPart'
  BY <1>1, <1>4, <1>7, TxNone
<1>9. \/ Release(w)
      \/ /\ UNCHANGED held /\ Owns(w, new)
         /\ \A v \in Workers : v # w => pc'[v] = pc[v]
         /\ pc'[w] \in {"raised", "cancel"} => new.cancel
  <2>1. CASE pc[w] = "mark" /\ ~Release(w)
    <3>1. new = s
      BY <2>1 DEF AfterOp
    <3> QED
      BY <1>t, <1>2, <1>6, <2>1, <3>1
  <2> QED
    BY <1>6, <2>1
<1> HIDE DEF new, s
<1> QED
  BY <1>t, <1>1, <1>3, <1>4, <1>5, <1>8, <1>9, HolderWrites DEF s

LEMMA BatchSerial ==
    ASSUME SerialInv, Undisturbed, NEW w \in Workers,
           \/ BatchLost(w) \/ BatchCancelled(w) \/ YieldBatch(w) \/ LastBatch(w)
           \/ WaitQuietHours(w)
    PROVE  SerialStep
<1> DEFINE j == held[w]
<1>t. /\ pc \in [Workers -> {"idle", "work", "raised"} \cup TxOps]
      /\ held \in [Workers -> Jobs \cup {NoJob}] /\ job \in [Jobs -> Row]
  BY DEF SerialInv, JobInv, TypeOK, ExecTypeOK, RowTypeOK
<1>1. Batch(w)
  BY DEF BatchLost, BatchCancelled, YieldBatch, LastBatch, WaitQuietHours, BatchOwned
<1>2. /\ NoneOpen /\ pc[w] = "work" /\ ~Locked(j) /\ UNCHANGED <<keyed, api, rec, staged>>
  BY <1>1, SerialIsAlone DEF Batch
<1>3. j \in Jobs /\ j # NoJob /\ job[j] \in Row /\ job[j].state = "running" /\ Owns(w, job[j])
  BY <1>2, <1>t, Holders, ConstantsAssumption DEF SerialInv, JobInv, TypeOK, ExecTypeOK, State
<1>4. ASSUME OpenTx' = {} PROVE TxPart'
  BY <1>2, <1>4, TxNone DEF NoneOpen, SerialInv, TxPart, OneTransaction
<1>5. ASSUME Release(w) PROVE OpenTx' = {}
  BY <1>2, <1>5, <1>t DEF NoneOpen, OpenTx, Release, TxOps
<1>6. ASSUME NEW row \in Row, Put(j, row, TRUE), Moves(job[j], row), Release(w)
      PROVE  SerialStep
  BY <1>2, <1>3, <1>4, <1>5, <1>6, HolderWrites
<1>7. CASE BatchLost(w)
  BY <1>3, <1>7 DEF BatchLost
<1>8. CASE BatchCancelled(w)
  <2>1. /\ job[j].cancel /\ pc' = [pc EXCEPT ![w] = "raised"] /\ UNCHANGED <<job, lapsed, held>>
    BY <1>8 DEF BatchCancelled
  <2>2. TxPart'
    BY <1>2, <1>4, <1>t, <2>1 DEF NoneOpen, OpenTx, TxOps
  <2>3. LeasePart'
    BY <1>t, <2>1, LeaseFrame DEF SerialInv, LeasePart, LeaseIsKept
  <2>4. RowPart'
    BY <1>2, <2>1, RowsKept DEF SerialInv
  <2> QED
    BY <2>1, <2>2, <2>3, <2>4, LifeStutters DEF SerialStep
<1>9. CASE YieldBatch(w)
  <2>1. Put(j, Yielded(job[j]), TRUE) /\ Release(w)
    BY <1>9 DEF YieldBatch
  <2> QED
    BY <1>3, <1>6, <2>1, RowOperations, WorkMoves
<1>10. CASE WaitQuietHours(w)
  <2>1. Put(j, DeferredUntil(job[j]), TRUE) /\ Release(w)
    BY <1>10 DEF WaitQuietHours
  <2> QED
    BY <1>3, <1>6, <2>1, RowOperations, WorkMoves
<1>11. CASE LastBatch(w)
  <2>1. CASE j \in BatchJobs
    <3>1. Put(j, Completed(job[j]), TRUE) /\ Release(w)
      BY <1>11, <2>1 DEF LastBatch
    <3> QED
      BY <1>3, <1>6, <3>1, RowOperations, WorkMoves
  <2>2. CASE j \notin BatchJobs
    <3>1. Put(j, job[j], TRUE) /\ UNCHANGED <<pc, held, snap>>
      BY <1>11, <2>2 DEF LastBatch
    <3>2. TxPart'
      BY <1>2, <1>4, <3>1 DEF NoneOpen, OpenTx
    <3> QED
      BY <1>2, <1>3, <3>1, <3>2, Stays, HolderWrites
  <2> QED
    BY <2>1, <2>2
<1> QED
  BY <1>7, <1>8, <1>9, <1>10, <1>11

LEMMA ExecutionSerial ==
    ASSUME SerialInv, Undisturbed, NEW w \in Workers, Execution(w)
    PROVE  SerialStep
<1>1. ASSUME NEW j \in Jobs, TakeEnvelope(j, w) PROVE SerialStep
  BY <1>1, TakeSerial
<1>2. ASSUME NEW op \in TxOps, pc[w] # "idle", Open(w, op), op = "cancel" => pc[w] = "raised"
      PROVE  SerialStep
  BY <1>2, OpenSerial
<1>3. CASE MarkOwned(w)
  BY <1>2, <1>3 DEF MarkOwned, TxOps
<1>4. CASE MarkLost(w)
  BY <1>4, Holders DEF MarkLost, SerialInv, JobInv, TypeOK, ExecTypeOK
<1>5. CASE Return(w)
  BY <1>2, <1>5 DEF Return, TxOps
<1>6. CASE Raise(w)
  BY <1>2, <1>6 DEF Raise, TxOps
<1>7. CASE Warmup(w)
  BY <1>2, <1>7 DEF Warmup, TxOps
<1>8. CASE Abandon(w)
  BY <1>2, <1>8 DEF Abandon, TxOps
<1>9. CASE \/ BatchLost(w) \/ BatchCancelled(w) \/ YieldBatch(w) \/ LastBatch(w)
           \/ WaitQuietHours(w)
  BY <1>9, BatchSerial
<1>10. CASE Commit(w)
  BY <1>10, CommitSerial
<1> QED
  BY <1>1, <1>3, <1>4, <1>5, <1>6, <1>7, <1>8, <1>9, <1>10 DEF Execution, Finish

LEMMA NextSerial == ASSUME Undisturbed, SerialInv, [Next]_vars PROVE SerialStep
<1>1. CASE UNCHANGED vars
  <2>1. UNCHANGED <<job, lapsed, keyed, pc, held, snap, api, rec, staged>>
    BY <1>1 DEF vars, rowVars, execVars, turnVars
  <2>2. TxPart'
    BY <2>1 DEF SerialInv, TxPart, OneTransaction, ReadIsCurrent, OpenTx, Locked, State
  <2>3. LeasePart'
    BY <2>1 DEF SerialInv, LeasePart, LeaseIsKept, ExclusiveExecution, Owns
  <2>4. RowPart'
    BY <2>1, RowsKept DEF SerialInv
  <2> QED
    BY <2>1, <2>2, <2>3, <2>4, LifeStutters DEF SerialStep
<1> QED
  BY <1>1, EnqueueSerial, DispatchSerial, RecoverySerial, ApiSerial, EnvironmentSerial,
     ExecutionSerial DEF Next

LEMMA SerialInvariance == ASSUME Undisturbed PROVE Spec => []SerialInv
<1>1. Init => SerialInv
  BY InitInv, InitSerial DEF SerialInv
<1>2. SerialInv /\ [Next]_vars => SerialInv'
  BY NextSerial, InvStep DEF SerialInv, SerialStep
<1> QED
  BY <1>1, <1>2, PTL DEF Spec

-------------------------------------------------------------------------------
(* While every execution keeps its lease, no crash, duplicate envelope,     *)
(* recovery pass, retry or dead dispatcher lets two executions work on one  *)
(* job (claim and the lease, jobs.py).                                      *)
THEOREM OneExecutionPerJob == ASSUME ~Overrun, ~Overlap PROVE Spec => []ExclusiveExecution
<1>1. SerialInv => ExclusiveExecution
  BY DEF SerialInv, LeasePart
<1> QED
  BY <1>1, SerialInvariance, PTL DEF Undisturbed

(* Under the same condition the idempotency key does its work: two rows of  *)
(* one key are never both unfinished (enqueue).                             *)
THEOREM OneUnfinishedRowPerKey == ASSUME ~Overrun, ~Overlap PROVE Spec => []OneLiveJobPerKey
<1>1. SerialInv => OneLiveJobPerKey
  BY DEF SerialInv, RowPart, KeysAreHeld, OneLiveJobPerKey, Terminal
<1> QED
  BY <1>1, SerialInvariance, PTL DEF Undisturbed

(* Under the same condition DurableJobs implements JobLifecycle: whatever    *)
(* happens to executions, envelopes and messages, a success is final, a      *)
(* cancellation was asked for, and an ended job comes back only by a retry   *)
(* (the handlers of jobs.py and HelveticLens.execute_job).                   *)
THEOREM QueueImplementsLife == ASSUME ~Overrun, ~Overlap PROVE Spec => Lifecycle
<1>1. Init => Life!LifeInit
  BY DEF Init, Life!LifeInit, State, NoRow, PhaseOf, Claimable, Ready
<1>2. SerialInv /\ [Next]_vars => LifeStep
  BY NextSerial DEF SerialStep, Undisturbed
<1>3. Spec => []SerialInv
  BY SerialInvariance DEF Undisturbed
<1> QED
  BY <1>1, <1>2, <1>3, PTL DEF Spec, Lifecycle, Life!LifeSpec, LifeStep

===============================================================================
