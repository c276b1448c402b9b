--------------------------- MODULE DurableJobsProofs ---------------------------
(***************************************************************************)
(* Proofs about DurableJobs, for any number of rows, slots, hosts, envelopes *)
(* and attempts, with every fault, overrun and overlap: the type invariant   *)
(* that waiting work always has a pending outbox message, and that a         *)
(* checkpointed job never succeeds with a batch uncovered.                   *)
(***************************************************************************)
EXTENDS DurableJobs, FiniteSetTheorems, TLAPS

(* The handlers' column changes keep a row a row.                           *)
LEMMA RowOperations ==
    ASSUME NEW s \in Row
    PROVE  /\ Completed(s) \in Row /\ Cancelled(s) \in Row /\ FailedRow(s) \in Row
           /\ DeferredForModel(s) \in Row /\ DeferredUntil(s) \in Row
           /\ Yielded(s) \in Row /\ Requested(s) \in Row /\ Retried(s) \in Row
           /\ Recovered(s) \in Row
<1>1. /\ s.state \in States /\ s.attempts \in 0..MaxAttempts /\ s.cancel \in BOOLEAN
      /\ s.owner \in Hosts \cup {NoHost} /\ s.delay \in BOOLEAN
  BY DEF Row
<1>2. RefundedAttempts(s) \in 0..MaxAttempts
  BY <1>1, ConstantsAssumption DEF RefundedAttempts
<1>a. 0 \in 0..MaxAttempts
  BY ConstantsAssumption
<1>3. Completed(s) \in Row /\ Cancelled(s) \in Row
  BY <1>1 DEF Row, Completed, Cancelled, States, Claimable, Ready, Terminal
<1>4. FailedRow(s) \in Row
  BY <1>1, <1>3 DEF Row, FailedRow, Cancelled, States, Claimable, Ready, Terminal
<1>5. DeferredForModel(s) \in Row /\ DeferredUntil(s) \in Row
  BY <1>1, <1>2 DEF Row, DeferredForModel, DeferredUntil, States, Claimable, Ready, Terminal
<1>6. Yielded(s) \in Row /\ Retried(s) \in Row
  BY <1>1, <1>a DEF Row, Yielded, Retried, States, Claimable, Ready, Terminal
<1>7. Requested(s) \in Row
  BY <1>1, <1>3 DEF Row, Requested
<1>8. Recovered(s) \in Row
  BY <1>1 DEF Row, Recovered, States, Claimable, Ready, Terminal
<1> QED
  BY <1>3, <1>4, <1>5, <1>6, <1>7, <1>8

(* An UPDATE of changed columns keeps a row a row.                          *)
LEMMA MergedRow ==
    ASSUME NEW c \in Row, NEW o \in Row, NEW n \in Row
    PROVE  Merge(c, o, n) \in Row
BY DEF Row, Merge, Written

LEMMA NullRow == NoRow \in Row
BY ConstantsAssumption DEF NoRow, Row, States

(* Writing a row keeps the clocks of the table's rows within the table.     *)
LEMMA PutTypes ==
    ASSUME RowTypeOK, NEW j \in Jobs, NEW row \in Row, NEW fresh, Put(j, row, fresh)
    PROVE  job' \in [Jobs -> Row] /\ lapsed' \subseteq Jobs /\ overdue' \subseteq Jobs
BY DEF RowTypeOK, Put

LEMMA DueTypes ==
    ASSUME RowTypeOK, TurnTypeOK, NEW j \in Jobs, NEW early,
           MakeDue(j, early) \/ Postpone(j) \/ KeepDue(j)
    PROVE  due' \subseteq Jobs /\ late' \subseteq cands
BY DEF RowTypeOK, TurnTypeOK, MakeDue, Postpone, KeepDue

LEMMA OutboxTypes ==
    ASSUME RowTypeOK, NEW j \in Jobs, NEW when \in {"later", "due"}, Outbox(j, when)
    PROVE  /\ msg' \in [Jobs -> {"none", "later", "due"}]
           /\ msg'[j] # "none"
           /\ \A i \in Jobs : msg[i] # "none" => msg'[i] # "none"
BY DEF RowTypeOK, Outbox

LEMMA FreeSlotsType == FreeSlots \in 0..AiWindow
<1>1. IsFiniteSet(HandedOff)
  BY ConstantsAssumption, FS_Subset DEF HandedOff
<1>2. Cardinality(HandedOff) \in Nat
  BY <1>1, FS_CardinalityType
<1> QED
  BY <1>2, ConstantsAssumption DEF FreeSlots

-------------------------------------------------------------------------------
JobInv == TypeOK /\ ReadyHasMessage /\ DroppedIsClosed

(* A transaction that writes one row it may write, and leaves a message when *)
(* the row becomes ready, keeps the two invariants about messages.           *)
LEMMA RowWrite ==
    ASSUME JobInv, NEW j \in Jobs, NEW row \in Row, NEW fresh, Put(j, row, fresh),
           staged[j] # "discarded", UNCHANGED staged,
           \A i \in Jobs : msg[i] # "none" => msg'[i] # "none",
           row.state \in Ready => msg'[j] # "none"
    PROVE  ReadyHasMessage' /\ DroppedIsClosed'
<1>1. job' = [job EXCEPT ![j] = row]
  BY DEF Put
<1>2. \A i \in Jobs : job'[i] = IF i = j THEN row ELSE job[i]
  BY <1>1 DEF JobInv, TypeOK, RowTypeOK
<1>3. ReadyHasMessage'
  BY <1>2 DEF JobInv, ReadyHasMessage, State
<1>4. DroppedIsClosed'
  BY <1>2 DEF JobInv, DroppedIsClosed, State
<1> QED
  BY <1>3, <1>4

(* A step that writes neither rows nor stages keeps them too.                *)
LEMMA NoRowWrite ==
    ASSUME JobInv, UNCHANGED <<job, staged>>,
           \A i \in Jobs : msg[i] # "none" => msg'[i] # "none"
    PROVE  ReadyHasMessage' /\ DroppedIsClosed'
BY DEF JobInv, ReadyHasMessage, DroppedIsClosed, State

LEMMA InitInv == Init => JobInv
<1> SUFFICES ASSUME Init PROVE JobInv
  OBVIOUS
<1>a. 0 \in 0..AiWindow /\ 0 \in 0..Batches /\ Batches \in 0..Batches /\ 0 \in 0..MaxEnvelopes
  BY ConstantsAssumption
<1>1. RowTypeOK
  BY <1>a, NullRow DEF Init, RowTypeOK
<1>2. ExecTypeOK
  BY NullRow DEF Init, ExecTypeOK
<1>3. TxTypeOK
  BY NullRow, ConstantsAssumption DEF Init, TxTypeOK, IdleApi, IdleRec
<1>4. TurnTypeOK
  BY <1>a DEF Init, TurnTypeOK
<1>5. modelReady \in BOOLEAN /\ broker \in [Jobs -> 0..MaxEnvelopes]
  BY <1>a DEF Init
<1>6. ReadyHasMessage /\ DroppedIsClosed
  BY DEF Init, ReadyHasMessage, DroppedIsClosed, State, NoRow, Ready
<1> QED
  BY <1>1, <1>2, <1>3, <1>4, <1>5, <1>6 DEF JobInv, TypeOK

LEMMA EnqueueStep ==
    ASSUME JobInv, NEW j \in Jobs, Enqueue(j)
    PROVE  JobInv'
<1>1. Admitted \in Row
  BY NullRow DEF Admitted, Row, States, Claimable, Ready
<1>2. Put(j, Admitted, TRUE) /\ MakeDue(j, FALSE) /\ Outbox(j, "due") /\ UNCHANGED staged
  BY DEF Enqueue
<1>3. staged[j] # "discarded"
  BY DEF Enqueue, JobInv, DroppedIsClosed, Terminal
<1>4. /\ job' \in [Jobs -> Row] /\ lapsed' \subseteq Jobs /\ overdue' \subseteq Jobs
      /\ due' \subseteq Jobs /\ late' \subseteq cands
  BY <1>1, <1>2, PutTypes, DueTypes DEF JobInv, TypeOK
<1>5. /\ msg' \in [Jobs -> {"none", "later", "due"}]
      /\ msg'[j] # "none"
      /\ \A i \in Jobs : msg[i] # "none" => msg'[i] # "none"
  BY <1>2, OutboxTypes DEF JobInv, TypeOK
<1>6. keyed' \subseteq Jobs
  BY DEF Enqueue, JobInv, TypeOK, RowTypeOK
<1>7. TypeOK'
  BY <1>4, <1>5, <1>6
  DEF Enqueue, JobInv, TypeOK, RowTypeOK, ExecTypeOK, TxTypeOK, TurnTypeOK, execVars
<1>8. ReadyHasMessage' /\ DroppedIsClosed'
  BY <1>1, <1>2, <1>3, <1>5, RowWrite
<1> QED
  BY <1>7, <1>8 DEF JobInv

-------------------------------------------------------------------------------
(* The dispatcher.                                                          *)

LEMMA DispatchBeginStep == JobInv /\ DispatchBegin => JobInv'
<1> SUFFICES ASSUME JobInv, DispatchBegin PROVE JobInv'
  OBVIOUS
<1>1. RowTypeOK' /\ ExecTypeOK' /\ UNCHANGED <<job, msg, staged, modelReady, broker>>
  BY DEF DispatchBegin, JobInv, TypeOK, RowTypeOK, ExecTypeOK, rowVars, execVars
<1>2. TxTypeOK'
  <2>1. /\ api' = [api EXCEPT !.early = (api.op = "retry")]
        /\ rec' = [rec EXCEPT !.early = rec.on]
    BY DEF DispatchBegin
  <2>2. (api.op = "retry") \in BOOLEAN
    OBVIOUS
  <2> QED
    BY <2>1, <2>2 DEF JobInv, TypeOK, TxTypeOK
<1>3. TurnTypeOK'
  <2>1. slots' \in 0..AiWindow
    BY FreeSlotsType DEF DispatchBegin
  <2>2. heads' \subseteq Jobs /\ cands' \subseteq Jobs /\ heads' \subseteq cands'
    BY DEF DispatchBegin, AiReady, Pending
  <2>3. turn' = TRUE /\ late' \subseteq cands'
    BY DEF DispatchBegin
  <2> QED
    BY <1>1, <2>1, <2>2, <2>3 DEF JobInv, TypeOK, TurnTypeOK
<1>4. ReadyHasMessage' /\ DroppedIsClosed'
  BY <1>1, NoRowWrite
<1> QED
  BY <1>1, <1>2, <1>3, <1>4 DEF JobInv, TypeOK

(* What every way of examining a candidate leaves typed.                    *)
LEMMA ExamineTypes ==
    ASSUME JobInv, NEW j \in Jobs, Examine(j),
           staged' \in [Jobs -> {"no", "sent", "refused", "discarded", "rescheduled"}],
           slots' \in 0..AiWindow,
           broker' \in [Jobs -> 0..MaxEnvelopes]
    PROVE  TypeOK'
<1>1. RowTypeOK' /\ ExecTypeOK' /\ TxTypeOK' /\ UNCHANGED <<modelReady, turn>>
  BY DEF Examine, JobInv, TypeOK, RowTypeOK, ExecTypeOK, TxTypeOK, rowVars, execVars
<1>2. TurnTypeOK'
  BY <1>1 DEF Examine, JobInv, TypeOK, TurnTypeOK
<1> QED
  BY <1>1, <1>2 DEF JobInv, TypeOK

(* Staging anything but a drop concerns neither invariant about messages.   *)
LEMMA StageKeeps ==
    ASSUME JobInv, NEW j \in Jobs, Examine(j), NEW what, Stage(j, what),
           what = "discarded" => State(j) \in Terminal \cup {"running"}
    PROVE  ReadyHasMessage' /\ DroppedIsClosed'
<1>1. UNCHANGED <<job, msg>>
  BY DEF Examine, rowVars
<1>2. \A i \in Jobs : staged'[i] = IF i = j THEN what ELSE staged[i]
  BY DEF Stage, JobInv, TypeOK, TurnTypeOK
<1> QED
  BY <1>1, <1>2 DEF JobInv, ReadyHasMessage, DroppedIsClosed, State

LEMMA ExamineStep ==
    ASSUME JobInv, NEW j \in Jobs,
           Skip(j) \/ Discard(j) \/ Reschedule(j) \/ Send(j) \/ Refuse(j)
    PROVE  JobInv'
<1> USE DEF Offered
<1>t. /\ staged \in [Jobs -> {"no", "sent", "refused", "discarded", "rescheduled"}]
      /\ slots \in 0..AiWindow /\ broker \in [Jobs -> 0..MaxEnvelopes]
  BY DEF JobInv, TypeOK, TurnTypeOK
<1>1. CASE Skip(j)
  <2>1. Examine(j) /\ UNCHANGED <<staged, slots, broker>> /\ UNCHANGED <<job, msg>>
    BY <1>1 DEF Skip, Examine, rowVars
  <2>2. TypeOK'
    BY <2>1, <1>t, ExamineTypes
  <2> QED
    BY <2>1, <2>2, NoRowWrite DEF JobInv
<1>2. CASE Discard(j)
  <2>1. /\ Examine(j) /\ UNCHANGED <<slots, broker>> /\ Stage(j, "discarded")
        /\ State(j) \in Terminal \cup {"running"}
    BY <1>2 DEF Discard
  <2>2. TypeOK'
    BY <2>1, <1>t, ExamineTypes DEF Stage
  <2> QED
    BY <2>1, <2>2, StageKeeps DEF JobInv
<1>3. CASE Reschedule(j)
  <2>1. Examine(j) /\ UNCHANGED <<slots, broker>> /\ Stage(j, "rescheduled")
    BY <1>3 DEF Reschedule
  <2>2. TypeOK'
    BY <2>1, <1>t, ExamineTypes DEF Stage
  <2> QED
    BY <2>1, <2>2, StageKeeps DEF JobInv
<1>4. CASE Send(j)
  <2>1. Examine(j) /\ Stage(j, "sent")
    BY <1>4 DEF Send
  <2>2. slots' \in 0..AiWindow
    BY <1>4, <1>t, ConstantsAssumption DEF Send, NoSlot
  <2>3. broker' \in [Jobs -> 0..MaxEnvelopes]
    BY <1>4, <1>t, ConstantsAssumption DEF Send
  <2>4. TypeOK'
    BY <2>1, <2>2, <2>3, <1>t, ExamineTypes DEF Stage
  <2> QED
    BY <2>1, <2>4, StageKeeps DEF JobInv
<1>5. CASE Refuse(j)
  <2>1. Examine(j) /\ UNCHANGED <<slots, broker>> /\ Stage(j, "refused")
    BY <1>5 DEF Refuse
  <2>2. TypeOK'
    BY <2>1, <1>t, ExamineTypes DEF Stage
  <2> QED
    BY <2>1, <2>2, StageKeeps DEF JobInv
<1> QED
  BY <1>1, <1>2, <1>3, <1>4, <1>5

LEMMA EndTurnTypes == EndTurn => TurnTypeOK' /\ DroppedIsClosed'
<1>1. 0 \in 0..AiWindow
  BY ConstantsAssumption
<1> QED
  BY <1>1 DEF EndTurn, TurnTypeOK, DroppedIsClosed

LEMMA DispatchEndStep == JobInv /\ (DispatchCommit \/ DispatchRollback) => JobInv'
<1> SUFFICES ASSUME JobInv, DispatchCommit \/ DispatchRollback PROVE JobInv'
  OBVIOUS
<1>1. TurnTypeOK' /\ DroppedIsClosed'
  BY EndTurnTypes DEF DispatchCommit, DispatchRollback
<1>2. ExecTypeOK' /\ TxTypeOK' /\ modelReady' \in BOOLEAN /\ broker' \in [Jobs -> 0..MaxEnvelopes]
  BY DEF DispatchCommit, DispatchRollback, JobInv, TypeOK, ExecTypeOK, TxTypeOK, execVars
<1>3. CASE DispatchRollback
  <2>1. RowTypeOK' /\ ReadyHasMessage'
    BY <1>3 DEF DispatchRollback, JobInv, TypeOK, RowTypeOK, ReadyHasMessage, State, rowVars
  <2> QED
    BY <1>1, <1>2, <2>1 DEF JobInv, TypeOK
<1>4. CASE DispatchCommit
  <2>1. \A j \in Jobs : job'[j] = Handled(job[j], staged[j]) /\ msg'[j] = MessageAfter(j)
    BY <1>4 DEF DispatchCommit
  <2>2. \A j \in Jobs : Handled(job[j], staged[j]) \in Row
    BY DEF Handled, JobInv, TypeOK, RowTypeOK, Row, States, Claimable, Ready
  <2>3. \A j \in Jobs : MessageAfter(j) \in {"none", "later", "due"}
    BY DEF MessageAfter, JobInv, TypeOK, RowTypeOK
  <2>4. RowTypeOK'
    BY <1>4, <2>2, <2>3 DEF DispatchCommit, JobInv, TypeOK, RowTypeOK
  <2>5. ASSUME NEW j \in Jobs, State(j)' \in Ready PROVE msg'[j] # "none"
    <3>1. job[j] \in Row /\ staged[j] \in {"no", "sent", "refused", "discarded", "rescheduled"}
      BY DEF JobInv, TypeOK, RowTypeOK, TurnTypeOK
    <3>2. CASE staged[j] = "no"
      BY <2>1, <2>5, <3>2 DEF Handled, MessageAfter, State, JobInv, ReadyHasMessage
    <3>3. CASE staged[j] = "sent"
      BY <2>1, <2>5, <3>1, <3>3 DEF Handled, State, Ready, Row
    <3>4. CASE staged[j] = "discarded"
      BY <2>1, <2>5, <3>4 DEF Handled, State, Ready, Terminal, JobInv, DroppedIsClosed
    <3>5. CASE staged[j] \in {"refused", "rescheduled"}
      BY <2>1, <3>5 DEF MessageAfter
    <3> QED
      BY <3>1, <3>2, <3>3, <3>4, <3>5
  <2>6. ReadyHasMessage'
    BY <2>5 DEF ReadyHasMessage
  <2> QED
    BY <1>1, <1>2, <2>4, <2>6 DEF JobInv, TypeOK
<1> QED
  BY <1>3, <1>4

-------------------------------------------------------------------------------
(* Recovery.                                                                *)

LEMMA WithoutType ==
    ASSUME TxTypeOK, NEW j
    PROVE  Without(rec, j) \in [on: BOOLEAN, stale: SUBSET Jobs, early: BOOLEAN]
BY DEF TxTypeOK, Without, IdleRec

LEMMA RecoveryStep == JobInv /\ Recovery => JobInv'
<1> SUFFICES ASSUME JobInv, Recovery PROVE JobInv'
  OBVIOUS
<1>1. CASE RecoverBegin
  <2>1. TypeOK' /\ UNCHANGED <<job, staged, msg>>
    BY <1>1 DEF RecoverBegin, JobInv, TypeOK, RowTypeOK, ExecTypeOK, TxTypeOK, TurnTypeOK,
                rowVars, execVars, turnVars
  <2> QED
    BY <2>1, NoRowWrite DEF JobInv
<1>2. ASSUME NEW j \in Jobs, RecoverSkip(j) PROVE JobInv'
  <2>1. TxTypeOK'
    BY <1>2, WithoutType DEF RecoverSkip, JobInv, TypeOK, TxTypeOK
  <2>2. TypeOK' /\ UNCHANGED <<job, staged, msg>>
    BY <1>2, <2>1 DEF RecoverSkip, JobInv, TypeOK, RowTypeOK, ExecTypeOK, TurnTypeOK,
                      rowVars, execVars, turnVars
  <2> QED
    BY <2>2, NoRowWrite DEF JobInv
<1>3. ASSUME NEW j \in Jobs, Recover(j) PROVE JobInv'
  <2> DEFINE row == Recovered(job[j])
  <2>1. row \in Row
    BY RowOperations DEF JobInv, TypeOK, RowTypeOK
  <2>2. Put(j, row, FALSE) /\ staged[j] # "discarded" /\ UNCHANGED staged
    BY <1>3 DEF Recover, Locked
  <2>3. /\ job' \in [Jobs -> Row] /\ lapsed' \subseteq Jobs /\ overdue' \subseteq Jobs
    BY <2>1, <2>2, PutTypes DEF JobInv, TypeOK
  <2>4. due' \subseteq Jobs /\ late' \subseteq cands
    BY <1>3, DueTypes DEF Recover, JobInv, TypeOK
  <2>5. /\ msg' \in [Jobs -> {"none", "later", "due"}]
        /\ \A i \in Jobs : msg[i] # "none" => msg'[i] # "none"
        /\ row.state \in Ready => msg'[j] # "none"
    <3>1. CASE row.state = "failed"
      BY <1>3, <3>1 DEF Recover, JobInv, TypeOK, RowTypeOK, Ready
    <3>2. CASE row.state # "failed"
      BY <1>3, <3>2, OutboxTypes DEF Recover, JobInv, TypeOK
    <3> QED
      BY <3>1, <3>2
  <2>6. TxTypeOK'
    BY <1>3, WithoutType DEF Recover, JobInv, TypeOK, TxTypeOK
  <2>7. TypeOK'
    BY <1>3, <2>3, <2>4, <2>5, <2>6
    DEF Recover, JobInv, TypeOK, RowTypeOK, ExecTypeOK, TurnTypeOK, execVars
  <2>8. ReadyHasMessage' /\ DroppedIsClosed'
    BY <2>1, <2>2, <2>5, RowWrite
  <2> QED
    BY <2>7, <2>8 DEF JobInv
<1> QED
  BY <1>1, <1>2, <1>3 DEF Recovery

-------------------------------------------------------------------------------
(* The API.                                                                 *)

LEMMA ApiOpenStep ==
    ASSUME JobInv, NEW j \in Jobs, NEW op \in Requests, ApiOpen(op, j)
    PROVE  JobInv'
<1>1. TxTypeOK'
  <2>1. op \in ApiOps /\ op # "idle" /\ j # NoJob
    BY ConstantsAssumption DEF ApiOps
  <2>2. api' = [op |-> op, job |-> j, snap |-> job[j], early |-> FALSE] /\ UNCHANGED rec
    BY DEF ApiOpen
  <2> QED
    BY <2>1, <2>2 DEF JobInv, TypeOK, TxTypeOK, RowTypeOK
<1>2. TypeOK' /\ UNCHANGED <<job, staged, msg>>
  BY <1>1 DEF ApiOpen, JobInv, TypeOK, RowTypeOK, ExecTypeOK, TurnTypeOK,
              rowVars, execVars, turnVars
<1> QED
  BY <1>2, NoRowWrite DEF JobInv

LEMMA ApiCommitStep == JobInv /\ ApiCommit => JobInv'
<1> SUFFICES ASSUME JobInv, ApiCommit PROVE JobInv'
  OBVIOUS
<1> DEFINE j == api.job
           row == Merge(job[j], api.snap,
                        IF api.op = "cancel" THEN Requested(api.snap) ELSE Retried(api.snap))
<1>1. j \in Jobs /\ api.snap \in Row /\ job[j] \in Row
  BY DEF ApiCommit, JobInv, TypeOK, TxTypeOK, RowTypeOK
<1>2. row \in Row
  BY <1>1, RowOperations, MergedRow
<1>3. Put(j, row, FALSE) /\ staged[j] # "discarded" /\ UNCHANGED staged
  BY DEF ApiCommit, Locked
<1>4. job' \in [Jobs -> Row] /\ lapsed' \subseteq Jobs /\ overdue' \subseteq Jobs
  BY <1>1, <1>2, <1>3, PutTypes DEF JobInv, TypeOK
<1>5. due' \subseteq Jobs /\ late' \subseteq cands
  BY <1>1, DueTypes DEF ApiCommit, JobInv, TypeOK
<1>6. /\ msg' \in [Jobs -> {"none", "later", "due"}]
      /\ \A i \in Jobs : msg[i] # "none" => msg'[i] # "none"
      /\ row.state \in Ready => msg'[j] # "none"
  <2>1. CASE api.op = "cancel"
    <3>1. msg' = msg
      BY <2>1 DEF ApiCommit
    <3>2. row.state \in Ready => job[j].state \in Ready
      BY <1>1, <2>1 DEF Merge, Written, Requested, Cancelled, Row, Ready
    <3> QED
      BY <1>1, <3>1, <3>2 DEF JobInv, TypeOK, RowTypeOK, ReadyHasMessage, State
  <2>2. CASE api.op # "cancel"
    BY <1>1, <2>2, OutboxTypes DEF ApiCommit, JobInv, TypeOK
  <2> QED
    BY <2>1, <2>2
<1>7. TxTypeOK'
  <2>1. api' = IdleApi /\ UNCHANGED rec
    BY DEF ApiCommit
  <2> QED
    BY <2>1, NullRow DEF IdleApi, JobInv, TypeOK, TxTypeOK
<1>8. TypeOK'
  BY <1>4, <1>5, <1>6, <1>7
  DEF ApiCommit, JobInv, TypeOK, RowTypeOK, ExecTypeOK, TurnTypeOK, execVars
<1>9. ReadyHasMessage' /\ DroppedIsClosed'
  BY <1>1, <1>2, <1>3, <1>6, RowWrite
<1> QED
  BY <1>8, <1>9 DEF JobInv

-------------------------------------------------------------------------------
(* Executions.                                                              *)

LEMMA ReleaseTypes ==
    ASSUME ExecTypeOK, NEW w \in Workers, Release(w)
    PROVE  ExecTypeOK'
BY NullRow DEF ExecTypeOK, Release

(* What a transaction of an execution leaves typed when it writes its row.  *)
LEMMA ExecWrite ==
    ASSUME JobInv, NEW j \in Jobs, NEW row \in Row, NEW fresh, Put(j, row, fresh),
           staged[j] # "discarded",
           due' \subseteq Jobs, late' \subseteq cands,
           msg' \in [Jobs -> {"none", "later", "due"}],
           \A i \in Jobs : msg[i] # "none" => msg'[i] # "none",
           row.state \in Ready => msg'[j] # "none",
           ExecTypeOK', left' \in [Jobs -> 0..Batches],
           broker' \in [Jobs -> 0..MaxEnvelopes],
           UNCHANGED <<keyed, modelReady, api, rec, turn, slots, cands, heads, staged>>
    PROVE  JobInv'
<1>1. job' \in [Jobs -> Row] /\ lapsed' \subseteq Jobs /\ overdue' \subseteq Jobs
  BY PutTypes DEF JobInv, TypeOK
<1>2. TypeOK'
  BY <1>1 DEF JobInv, TypeOK, RowTypeOK, TxTypeOK, TurnTypeOK
<1>3. ReadyHasMessage' /\ DroppedIsClosed'
  BY RowWrite
<1> QED
  BY <1>2, <1>3 DEF JobInv

(* A step of an execution that writes no row.                               *)
LEMMA ExecQuiet ==
    ASSUME JobInv, ExecTypeOK', broker' \in [Jobs -> 0..MaxEnvelopes],
           UNCHANGED <<rowVars, modelReady, api, rec, turnVars>>
    PROVE  JobInv'
<1>1. TypeOK' /\ UNCHANGED <<job, staged, msg>>
  BY DEF JobInv, TypeOK, RowTypeOK, TxTypeOK, TurnTypeOK, rowVars, turnVars
<1> QED
  BY <1>1, NoRowWrite DEF JobInv

LEMMA TakeTypes ==
    ASSUME JobInv, NEW j \in Jobs, NEW w \in Workers, Take(j, w)
    PROVE  /\ broker' \in [Jobs -> 0..MaxEnvelopes]
           /\ staged[j] # "discarded"
           /\ held[w] = NoJob
           /\ UNCHANGED <<msg, keyed, left, modelReady, snap, api, rec, turnVars>>
<1>1. broker' = [broker EXCEPT ![j] = @ - 1] /\ broker[j] > 0
  BY DEF Take
<1>2. broker \in [Jobs -> 0..MaxEnvelopes]
  BY DEF JobInv, TypeOK
<1>3. broker[j] - 1 \in 0..MaxEnvelopes
  BY <1>1, <1>2, ConstantsAssumption
<1> QED
  BY <1>1, <1>2, <1>3 DEF Take, Locked, JobInv, TypeOK, ExecTypeOK

LEMMA ClaimStep ==
    ASSUME JobInv, NEW j \in Jobs, NEW w \in Workers, TakeEnvelope(j, w)
    PROVE  JobInv'
<1>t. /\ Take(j, w) /\ job[j] \in Row /\ due \subseteq Jobs /\ late \subseteq cands
      /\ msg \in [Jobs -> {"none", "later", "due"}]
      /\ left \in [Jobs -> 0..Batches]
  BY DEF TakeEnvelope, ClaimNothing, ClaimCancelled, ClaimExhausted, Claim,
         JobInv, TypeOK, RowTypeOK, TurnTypeOK
<1>1. CASE ClaimNothing(j, w)
  <2>1. ExecTypeOK' /\ UNCHANGED <<rowVars, modelReady, api, rec, turnVars>>
    BY <1>1, <1>t, TakeTypes DEF ClaimNothing, JobInv, TypeOK, ExecTypeOK, rowVars
  <2> QED
    BY <1>t, <2>1, TakeTypes, ExecQuiet
<1>2. ASSUME NEW row \in Row, NEW fresh, Put(j, row, fresh), row.state \notin Ready,
             due' = due \ {j}, ExecTypeOK'
      PROVE  JobInv'
  BY <1>t, <1>2, TakeTypes, ExecWrite DEF turnVars
<1>3. CASE ClaimCancelled(j, w)
  <2>1. Cancelled(job[j]) \in Row /\ Cancelled(job[j]).state \notin Ready
    BY <1>t, RowOperations DEF Cancelled, Row, Ready
  <2>2. ExecTypeOK'
    BY <1>3, <1>t, TakeTypes DEF ClaimCancelled, JobInv, TypeOK, ExecTypeOK
  <2> QED
    BY <1>3, <1>2, <2>1, <2>2 DEF ClaimCancelled
<1>4. CASE ClaimExhausted(j, w)
  <2> DEFINE row == [job[j] EXCEPT !.state = "failed", !.delay = FALSE]
  <2>1. row \in Row /\ row.state \notin Ready
    BY <1>t DEF Row, States, Terminal, Ready
  <2>2. ExecTypeOK'
    BY <1>4, <1>t, TakeTypes DEF ClaimExhausted, JobInv, TypeOK, ExecTypeOK
  <2> QED
    BY <1>4, <1>2, <2>1, <2>2 DEF ClaimExhausted
<1>5. CASE Claim(j, w)
  <2> DEFINE row == [job[j] EXCEPT !.state = "running", !.attempts = @ + 1,
                                   !.owner = HostOf[w]]
  <2>1. job[j].attempts + 1 \in 0..MaxAttempts
    BY <1>5, <1>t, ConstantsAssumption DEF Claim, Row
  <2>2. HostOf[w] \in Hosts
    BY ConstantsAssumption
  <2>3. row \in Row /\ row.state \notin Ready
    BY <1>t, <2>1, <2>2 DEF Row, States, Ready
  <2>4. ExecTypeOK'
    <3>1. pc' = [pc EXCEPT ![w] = "work"] /\ held' = [held EXCEPT ![w] = j] /\ UNCHANGED snap
      BY <1>5, <1>t, TakeTypes DEF Claim
    <3> QED
      BY <3>1, ConstantsAssumption DEF JobInv, TypeOK, ExecTypeOK
  <2> QED
    BY <1>5, <1>2, <2>3, <2>4 DEF Claim
<1> QED
  BY <1>1, <1>3, <1>4, <1>5 DEF TakeEnvelope

LEMMA OpenStep ==
    ASSUME JobInv, NEW w \in Workers, NEW op \in TxOps, pc[w] # "idle", Open(w, op)
    PROVE  JobInv'
<1>1. held[w] \in Jobs /\ job[held[w]] \in Row
  BY DEF JobInv, TypeOK, ExecTypeOK, RowTypeOK
<1>2. op # "idle"
  BY DEF TxOps
<1>3. ExecTypeOK'
  BY <1>1, <1>2 DEF Open, JobInv, TypeOK, ExecTypeOK
<1> QED
  BY <1>3, ExecQuiet DEF Open, JobInv, TypeOK

LEMMA CommitStep ==
    ASSUME JobInv, NEW w \in Workers, Commit(w)
    PROVE  JobInv'
<1> DEFINE j == held[w]
           s == snap[w]
           row == Merge(job[j], s, AfterOp(pc[w], s))
<1>1. /\ pc[w] \in TxOps /\ s \in Row /\ j \in Jobs /\ job[j] \in Row
      /\ msg \in [Jobs -> {"none", "later", "due"}]
  BY DEF Commit, JobInv, TypeOK, ExecTypeOK, RowTypeOK, TxOps
<1>2. row \in Row
  <2>1. AfterOp(pc[w], s) \in Row
    BY <1>1, RowOperations DEF AfterOp, TxOps
  <2> QED
    BY <1>1, <2>1, MergedRow
<1>3. Put(j, row, TRUE) /\ staged[j] # "discarded"
  BY DEF Commit, Locked
<1>4. due' \subseteq Jobs /\ late' \subseteq cands
  BY <1>1, DueTypes DEF Commit, JobInv, TypeOK
<1>5. /\ msg' \in [Jobs -> {"none", "later", "due"}]
      /\ \A i \in Jobs : msg[i] # "none" => msg'[i] # "none"
      /\ row.state \in Ready => msg'[j] # "none"
  <2>1. CASE Requeues(pc[w], s)
    BY <1>1, <2>1, OutboxTypes DEF Commit, JobInv, TypeOK
  <2>2. CASE ~Requeues(pc[w], s)
    <3>1. msg' = msg
      BY <2>2 DEF Commit
    <3>2. row.state \in Ready => job[j].state \in Ready
      <4>1. row.state = Written(s.state, AfterOp(pc[w], s).state, job[j].state)
        BY DEF Merge
      <4>2. CASE pc[w] = "mark"
        BY <4>1, <4>2 DEF AfterOp, Written
      <4>3. CASE pc[w] = "complete"
        BY <1>1, <4>1, <4>3 DEF AfterOp, Written, Completed, Row, Ready
      <4>4. CASE pc[w] = "cancel"
        BY <1>1, <4>1, <4>4 DEF AfterOp, Written, Cancelled, Row, Ready
      <4>5. CASE pc[w] = "fail"
        BY <1>1, <2>2, <4>1, <4>5
        DEF AfterOp, Written, FailedRow, Cancelled, Requeues, Row, Ready
      <4> QED
        BY <1>1, <2>2, <4>2, <4>3, <4>4, <4>5 DEF TxOps, Requeues
    <3> QED
      BY <1>1, <3>1, <3>2 DEF JobInv, ReadyHasMessage, State
  <2> QED
    BY <2>1, <2>2
<1>6. ExecTypeOK'
  <2>1. CASE pc[w] = "mark"
    <3>1. /\ pc' = [pc EXCEPT ![w] = IF s.cancel THEN "raised" ELSE "work"]
          /\ snap' = [snap EXCEPT ![w] = NoRow] /\ UNCHANGED held
      BY <2>1 DEF Commit
    <3> QED
      BY <2>1, <3>1, NullRow DEF JobInv, TypeOK, ExecTypeOK
  <2>2. CASE pc[w] # "mark"
    BY <2>2, ReleaseTypes DEF Commit, JobInv, TypeOK
  <2> QED
    BY <2>1, <2>2
<1>7. /\ left' \in [Jobs -> 0..Batches] /\ broker' \in [Jobs -> 0..MaxEnvelopes]
      /\ UNCHANGED <<keyed, modelReady, api, rec, turn, slots, cands, heads, staged>>
  BY DEF Commit, JobInv, TypeOK, RowTypeOK
<1> QED
  BY <1>1, <1>2, <1>3, <1>4, <1>5, <1>6, <1>7, ExecWrite

(* What a checkpoint transaction leaves alone.                              *)
LEMMA BatchTypes ==
    ASSUME JobInv, NEW w \in Workers, Batch(w)
    PROVE  /\ held[w] \in Jobs /\ job[held[w]] \in Row
           /\ staged[held[w]] # "discarded"
           /\ due \subseteq Jobs /\ late \subseteq cands
           /\ msg \in [Jobs -> {"none", "later", "due"}]
           /\ left \in [Jobs -> 0..Batches]
           /\ broker' \in [Jobs -> 0..MaxEnvelopes]
           /\ UNCHANGED <<keyed, modelReady, broker, api, rec,
                          turn, slots, cands, heads, staged>>
BY DEF Batch, Locked, JobInv, TypeOK, RowTypeOK, ExecTypeOK, TurnTypeOK

LEMMA BatchStep ==
    ASSUME JobInv, NEW w \in Workers,
           BatchLost(w) \/ BatchCancelled(w) \/ YieldBatch(w) \/ LastBatch(w) \/ WaitQuietHours(w)
    PROVE  JobInv'
<1> DEFINE j == held[w]
<1>t. /\ Batch(w) /\ j \in Jobs /\ job[j] \in Row
      /\ msg \in [Jobs -> {"none", "later", "due"}] /\ left \in [Jobs -> 0..Batches]
  <2>1. Batch(w)
    BY DEF BatchLost, BatchCancelled, YieldBatch, LastBatch, WaitQuietHours, BatchOwned
  <2> QED
    BY <2>1, BatchTypes
<1>1. CASE BatchLost(w)
  <2>1. ExecTypeOK'
    BY <1>1, ReleaseTypes DEF BatchLost, JobInv, TypeOK
  <2>2. UNCHANGED <<rowVars, modelReady, api, rec, turnVars>>
    BY <1>1, <1>t, BatchTypes DEF BatchLost, rowVars, turnVars
  <2> QED
    BY <1>t, <2>1, <2>2, BatchTypes, ExecQuiet
<1>2. CASE BatchCancelled(w)
  <2>1. j # NoJob
    BY <1>t, ConstantsAssumption
  <2>2. ExecTypeOK'
    BY <1>2, <2>1 DEF BatchCancelled, JobInv, TypeOK, ExecTypeOK
  <2>3. UNCHANGED <<rowVars, modelReady, api, rec, turnVars>>
    BY <1>2, <1>t, BatchTypes DEF BatchCancelled, rowVars, turnVars
  <2> QED
    BY <1>t, <2>2, <2>3, BatchTypes, ExecQuiet
<1>3. CASE YieldBatch(w)
  <2>1. Yielded(job[j]) \in Row
    BY <1>t, RowOperations
  <2>2. /\ Put(j, Yielded(job[j]), TRUE) /\ MakeDue(j, FALSE) /\ Outbox(j, "due") /\ Release(w)
    BY <1>3 DEF YieldBatch
  <2>3. left' \in [Jobs -> 0..Batches]
    <3>1. left' = [left EXCEPT ![j] = @ - 1] /\ left[j] > 1
      BY <1>3 DEF YieldBatch
    <3>2. left[j] - 1 \in 0..Batches
      BY <1>t, <3>1, ConstantsAssumption
    <3> QED
      BY <1>t, <3>1, <3>2
  <2>4. due' \subseteq Jobs /\ late' \subseteq cands
    BY <1>t, <2>2, DueTypes DEF JobInv, TypeOK
  <2>5. /\ msg' \in [Jobs -> {"none", "later", "due"}] /\ msg'[j] # "none"
        /\ \A i \in Jobs : msg[i] # "none" => msg'[i] # "none"
    BY <1>t, <2>2, OutboxTypes DEF JobInv, TypeOK
  <2>6. ExecTypeOK'
    BY <2>2, ReleaseTypes DEF JobInv, TypeOK
  <2> QED
    BY <1>t, <2>1, <2>2, <2>3, <2>4, <2>5, <2>6, BatchTypes, ExecWrite
<1>4. CASE LastBatch(w)
  <2>1. left' \in [Jobs -> 0..Batches] /\ UNCHANGED <<due, late, msg>>
    <3>1. 0 \in 0..Batches
      BY ConstantsAssumption
    <3> QED
      BY <1>4, <1>t, <3>1 DEF LastBatch
  <2>2. due' \subseteq Jobs /\ late' \subseteq cands
    BY <1>t, <2>1, BatchTypes
  <2>3. CASE j \in BatchJobs
    <3>1. Completed(job[j]) \in Row /\ Completed(job[j]).state \notin Ready
      BY <1>t, RowOperations DEF Completed, Row, Ready
    <3>2. Put(j, Completed(job[j]), TRUE) /\ Release(w)
      BY <1>4, <2>3 DEF LastBatch
    <3>3. ExecTypeOK'
      BY <3>2, ReleaseTypes DEF JobInv, TypeOK
    <3> QED
      BY <1>t, <2>1, <2>2, <3>1, <3>2, <3>3, BatchTypes, ExecWrite
  <2>4. CASE j \notin BatchJobs
    <3>1. Put(j, job[j], TRUE) /\ UNCHANGED <<pc, held, snap>>
      BY <1>4, <2>4 DEF LastBatch
    <3>2. job[j].state \notin Ready
      BY <1>4 DEF LastBatch, BatchOwned, Owns, Ready
    <3>3. ExecTypeOK'
      BY <3>1 DEF JobInv, TypeOK, ExecTypeOK
    <3> QED
      BY <1>t, <2>1, <2>2, <3>1, <3>2, <3>3, BatchTypes, ExecWrite
  <2> QED
    BY <2>3, <2>4
<1>5. CASE WaitQuietHours(w)
  <2>1. DeferredUntil(job[j]) \in Row
    BY <1>t, RowOperations
  <2>2. /\ Put(j, DeferredUntil(job[j]), TRUE) /\ Postpone(j) /\ Release(w)
        /\ msg' = [msg EXCEPT ![j] = "later"] /\ UNCHANGED left
    BY <1>5 DEF WaitQuietHours
  <2>3. due' \subseteq Jobs /\ late' \subseteq cands
    BY <1>t, <2>2, DueTypes DEF JobInv, TypeOK
  <2>4. ExecTypeOK'
    BY <2>2, ReleaseTypes DEF JobInv, TypeOK
  <2>5. /\ msg' \in [Jobs -> {"none", "later", "due"}] /\ msg'[j] # "none"
        /\ \A i \in Jobs : msg[i] # "none" => msg'[i] # "none"
    BY <1>t, <2>2
  <2> QED
    BY <1>t, <2>1, <2>2, <2>3, <2>4, <2>5, BatchTypes, ExecWrite
<1> QED
  BY <1>1, <1>2, <1>3, <1>4, <1>5

LEMMA ExecutionStep ==
    ASSUME JobInv, NEW w \in Workers, Execution(w)
    PROVE  JobInv'
<1>1. CASE \E j \in Jobs : TakeEnvelope(j, w)
  BY <1>1, ClaimStep
<1>2. ASSUME NEW op \in TxOps, pc[w] # "idle", Open(w, op) PROVE JobInv'
  BY <1>2, OpenStep
<1>3. CASE MarkOwned(w) \/ Return(w) \/ Raise(w) \/ Warmup(w) \/ Abandon(w)
  BY <1>2, <1>3 DEF MarkOwned, Return, Raise, Warmup, Abandon, TxOps
<1>4. CASE MarkLost(w)
  <2>1. held[w] # NoJob
    BY <1>4 DEF MarkLost, JobInv, TypeOK, ExecTypeOK
  <2>2. ExecTypeOK' /\ broker' \in [Jobs -> 0..MaxEnvelopes]
    BY <1>4, <2>1 DEF MarkLost, JobInv, TypeOK, ExecTypeOK
  <2> QED
    BY <1>4, <2>2, ExecQuiet DEF MarkLost
<1>5. CASE Commit(w)
  BY <1>5, CommitStep
<1>6. CASE BatchLost(w) \/ BatchCancelled(w) \/ YieldBatch(w) \/ LastBatch(w) \/ WaitQuietHours(w)
  BY <1>6, BatchStep
<1> QED
  BY <1>1, <1>3, <1>4, <1>5, <1>6 DEF Execution, Finish

-------------------------------------------------------------------------------
(* The environment.                                                         *)

LEMMA EnvironmentStep == JobInv /\ Environment => JobInv'
<1> SUFFICES ASSUME JobInv, Environment PROVE JobInv'
  OBVIOUS
<1>1. CASE ModelBecomesReady
  <2>1. TypeOK' /\ UNCHANGED <<job, staged, msg>>
    BY <1>1 DEF ModelBecomesReady, JobInv, TypeOK, RowTypeOK, ExecTypeOK, TxTypeOK,
                TurnTypeOK, rowVars, execVars, turnVars
  <2> QED
    BY <2>1, NoRowWrite DEF JobInv
<1>2. ASSUME NEW j \in Jobs, Time(j) PROVE JobInv'
  <2>1. /\ due' \subseteq Jobs /\ lapsed' \subseteq Jobs /\ overdue' \subseteq Jobs
        /\ msg' \in [Jobs -> {"none", "later", "due"}]
        /\ \A i \in Jobs : msg[i] # "none" => msg'[i] # "none"
        /\ UNCHANGED <<job, keyed, left, modelReady, broker, execVars, api, rec, turnVars>>
    BY <1>2 DEF Time, JobBecomesDue, MessageBecomesDue, LeaseLapses, HandoffAges,
                JobInv, TypeOK, RowTypeOK
  <2>2. TypeOK'
    BY <2>1 DEF JobInv, TypeOK, RowTypeOK, ExecTypeOK, TxTypeOK, TurnTypeOK,
                execVars, turnVars
  <2> QED
    BY <2>1, <2>2, NoRowWrite DEF JobInv, turnVars
<1>3. ASSUME NEW j \in Jobs, LoseEnvelopes(j) PROVE JobInv'
  <2>1. broker' \in [Jobs -> 0..MaxEnvelopes]
    <3>1. 0 \in 0..MaxEnvelopes
      BY ConstantsAssumption
    <3> QED
      BY <1>3, <3>1 DEF LoseEnvelopes, JobInv, TypeOK
  <2>2. ExecTypeOK'
    BY <1>3 DEF LoseEnvelopes, JobInv, TypeOK, ExecTypeOK, execVars
  <2> QED
    BY <1>3, <2>1, <2>2, ExecQuiet DEF LoseEnvelopes
<1>4. ASSUME NEW w \in Workers, Crash(w) \/ Redeliver(w) PROVE JobInv'
  <2>1. /\ broker' = [broker EXCEPT ![held[w]] = @ + 1] /\ broker[held[w]] < MaxEnvelopes
        /\ pc[w] # "idle" /\ UNCHANGED <<rowVars, modelReady, api, rec, turnVars>>
    BY <1>4 DEF Crash, Redeliver
  <2>2. held[w] \in Jobs /\ broker \in [Jobs -> 0..MaxEnvelopes]
    BY <2>1 DEF JobInv, TypeOK, ExecTypeOK
  <2>3. broker' \in [Jobs -> 0..MaxEnvelopes]
    <3>1. broker[held[w]] + 1 \in 0..MaxEnvelopes
      BY <2>1, <2>2, ConstantsAssumption
    <3> QED
      BY <2>1, <2>2, <3>1
  <2>4. ExecTypeOK'
    BY <1>4, ReleaseTypes DEF Crash, Redeliver, JobInv, TypeOK, ExecTypeOK, execVars
  <2> QED
    BY <2>1, <2>3, <2>4, ExecQuiet
<1> QED
  BY <1>1, <1>2, <1>3, <1>4 DEF Environment

-------------------------------------------------------------------------------
LEMMA InvStep == JobInv /\ [Next]_vars => JobInv'
<1> SUFFICES ASSUME JobInv, [Next]_vars PROVE JobInv'
  OBVIOUS
<1>1. CASE \E j \in Jobs : Enqueue(j)
  BY <1>1, EnqueueStep
<1>2. CASE Dispatcher
  BY <1>2, DispatchBeginStep, DispatchEndStep, ExamineStep DEF Dispatcher
<1>3. CASE Recovery
  BY <1>3, RecoveryStep
<1>4. CASE Api
  BY <1>4, ApiOpenStep, ApiCommitStep DEF Api
<1>5. CASE Environment
  BY <1>5, EnvironmentStep
<1>6. CASE \E w \in Workers : Execution(w)
  BY <1>6, ExecutionStep
<1>7. CASE UNCHANGED vars
  BY <1>7 DEF vars, rowVars, execVars, turnVars, JobInv, TypeOK, RowTypeOK, ExecTypeOK,
              TxTypeOK, TurnTypeOK, ReadyHasMessage, DroppedIsClosed, State
<1> QED
  BY <1>1, <1>2, <1>3, <1>4, <1>5, <1>6, <1>7 DEF Next

LEMMA Invariance == Spec => []JobInv
BY InitInv, InvStep, PTL DEF Spec

(* Every variable keeps its type; in particular no lost update, refund or    *)
(* stale execution takes a job's attempts below zero or above max_attempts   *)
(* (claim, defer_for_model, fail, reconcile, retry in jobs.py).              *)
THEOREM TypeCorrect == Spec => []TypeOK
<1>1. JobInv => TypeOK
  BY DEF JobInv
<1> QED
  BY <1>1, Invariance, PTL

(* Work that waits is never stranded without a pending outbox message, under *)
(* every fault, overrun and overlapping transaction (_enqueue_outbox and the *)
(* handlers of jobs.py that make a row ready).                               *)
THEOREM WorkIsNeverStranded == Spec => []ReadyHasMessage
<1>1. JobInv => ReadyHasMessage
  BY DEF JobInv
<1> QED
  BY <1>1, Invariance, PTL

(* What a dispatcher turn drops, nobody revives before the turn commits      *)
(* (the row lock of dispatch).                                               *)
THEOREM DroppedStaysClosed == Spec => []DroppedIsClosed
<1>1. JobInv => DroppedIsClosed
  BY DEF JobInv
<1> QED
  BY <1>1, Invariance, PTL

-------------------------------------------------------------------------------
(* Checkpoints.  SucceededIsComplete is not inductive: an execution that has *)
(* read its row and is about to complete it must already be covered.         *)
Covered(j) == /\ j \notin BatchJobs
              /\ j \in DigestJobs => left[j] = 0

CompletingIsCovered == \A w \in Workers : pc[w] = "complete" => Covered(held[w])

CheckpointInv == SucceededIsComplete /\ CompletingIsCovered

(* Only the completion handlers make a row succeed.                         *)
LEMMA OthersDoNotSucceed ==
    ASSUME NEW s \in Row
    PROVE  /\ FailedRow(s).state = "succeeded" => s.state = "succeeded"
           /\ DeferredForModel(s).state # "succeeded" /\ Cancelled(s).state # "succeeded"
           /\ DeferredUntil(s).state # "succeeded" /\ Yielded(s).state # "succeeded"
           /\ Requested(s).state = "succeeded" => s.state = "succeeded"
           /\ Retried(s).state = "succeeded" => s.state = "succeeded"
           /\ Recovered(s).state # "succeeded"
BY DEF Row, FailedRow, DeferredForModel, Cancelled, DeferredUntil, Yielded, Requested,
       Retried, Recovered

(* A step that makes no row succeed, reopens no checkpoint and starts no     *)
(* completion keeps the invariant.                                           *)
LEMMA CheckpointFrame ==
    ASSUME CheckpointInv,
           \A j \in Jobs : State(j)' = "succeeded" => State(j) = "succeeded",
           \A j \in Jobs : left[j] = 0 => left'[j] = 0,
           \A w \in Workers : held[w] \in Jobs \cup {NoJob},
           \A w \in Workers : pc'[w] = "complete" => pc[w] = "complete" /\ held'[w] = held[w]
    PROVE  CheckpointInv'
<1>1. SucceededIsComplete'
  BY ConstantsAssumption DEF CheckpointInv, SucceededIsComplete
<1>2. CompletingIsCovered'
  BY ConstantsAssumption DEF CheckpointInv, CompletingIsCovered, Covered
<1> QED
  BY <1>1, <1>2 DEF CheckpointInv

(* Writing a row that did not just succeed.                                 *)
LEMMA PutKeeps ==
    ASSUME TypeOK, NEW j \in Jobs, NEW row, NEW fresh, Put(j, row, fresh),
           row.state = "succeeded" => State(j) = "succeeded"
    PROVE  \A i \in Jobs : State(i)' = "succeeded" => State(i) = "succeeded"
BY DEF TypeOK, RowTypeOK, Put, State

LEMMA CheckpointInit == Init => CheckpointInv
BY ConstantsAssumption
DEF Init, CheckpointInv, SucceededIsComplete, CompletingIsCovered, State, NoRow

(* The handlers outside executions.                                         *)
LEMMA CheckpointQueue ==
    ASSUME JobInv, CheckpointInv,
           (\E j \in Jobs : Enqueue(j)) \/ Dispatcher \/ Recovery \/ Api \/ Environment
    PROVE  CheckpointInv'
<1> USE DEF JobInv
<1>t. \A w \in Workers : held[w] \in Jobs \cup {NoJob}
  BY DEF TypeOK, ExecTypeOK
<1>1. ASSUME NEW j \in Jobs, Enqueue(j) PROVE CheckpointInv'
  <2>1. Put(j, Admitted, TRUE) /\ Admitted.state # "succeeded" /\ UNCHANGED <<left, pc, held>>
    BY <1>1 DEF Enqueue, execVars, Admitted, NoRow
  <2> QED
    BY <2>1, <1>t, PutKeeps, CheckpointFrame
<1>2. CASE Dispatcher
  <2>1. UNCHANGED <<left, pc, held>>
    BY <1>2 DEF Dispatcher, DispatchBegin, DispatchCommit, DispatchRollback, Skip, Discard,
                Reschedule, Send, Refuse, Offered, Examine, rowVars, execVars
  <2>2. \A j \in Jobs : State(j)' = "succeeded" => State(j) = "succeeded"
    <3>1. CASE DispatchCommit
      BY <3>1 DEF DispatchCommit, Handled, State, TypeOK, RowTypeOK, Row
    <3>2. CASE ~DispatchCommit
      BY <1>2, <3>2 DEF Dispatcher, DispatchBegin, DispatchRollback, Skip, Discard,
                  Reschedule, Send, Refuse, Offered, Examine, rowVars, State
    <3> QED
      BY <3>1, <3>2
  <2> QED
    BY <2>1, <2>2, <1>t, CheckpointFrame
<1>3. ASSUME NEW j \in Jobs, Recover(j) PROVE CheckpointInv'
  <2>1. Put(j, Recovered(job[j]), FALSE) /\ UNCHANGED <<left, pc, held>>
    BY <1>3 DEF Recover, execVars
  <2>2. job[j] \in Row
    BY DEF TypeOK, RowTypeOK
  <2> QED
    BY <2>1, <2>2, <1>t, OthersDoNotSucceed, PutKeeps, CheckpointFrame
<1>4. CASE RecoverBegin \/ \E j \in Jobs : RecoverSkip(j)
  <2>1. UNCHANGED <<job, left, pc, held>>
    BY <1>4 DEF RecoverBegin, RecoverSkip, rowVars, execVars
  <2> QED
    BY <2>1, <1>t, CheckpointFrame DEF State
<1>5. CASE ApiCommit
  <2> DEFINE j == api.job
             row == Merge(job[j], api.snap,
                          IF api.op = "cancel" THEN Requested(api.snap) ELSE Retried(api.snap))
  <2>1. j \in Jobs /\ api.snap \in Row
    BY <1>5 DEF ApiCommit, TypeOK, TxTypeOK
  <2>2. Put(j, row, FALSE) /\ UNCHANGED <<left, pc, held>>
    BY <1>5 DEF ApiCommit, execVars
  <2>3. row.state = "succeeded" => State(j) = "succeeded"
    BY <2>1, OthersDoNotSucceed DEF Merge, Written, State
  <2> QED
    BY <2>1, <2>2, <2>3, <1>t, PutKeeps, CheckpointFrame
<1>6. CASE \E j \in Jobs, op \in Requests : ApiOpen(op, j)
  <2>1. UNCHANGED <<job, left, pc, held>>
    BY <1>6 DEF ApiOpen, rowVars, execVars
  <2> QED
    BY <2>1, <1>t, CheckpointFrame DEF State
<1>7. CASE ModelBecomesReady \/ \E j \in Jobs : Time(j) \/ LoseEnvelopes(j)
  <2>1. UNCHANGED <<job, left, pc, held>>
    BY <1>7 DEF ModelBecomesReady, Time, JobBecomesDue, MessageBecomesDue, LeaseLapses,
                HandoffAges, LoseEnvelopes, rowVars, execVars
  <2> QED
    BY <2>1, <1>t, CheckpointFrame DEF State
<1>8. ASSUME NEW w \in Workers, Crash(w) \/ Redeliver(w) PROVE CheckpointInv'
  <2>1. UNCHANGED <<job, left>>
    BY <1>8 DEF Crash, Redeliver, rowVars
  <2>2. \A v \in Workers : pc'[v] = "complete" => pc[v] = "complete" /\ held'[v] = held[v]
    BY <1>8 DEF Crash, Redeliver, Release, execVars, TypeOK, ExecTypeOK
  <2> QED
    BY <2>1, <2>2, <1>t, CheckpointFrame DEF State
<1> QED
  BY <1>1, <1>2, <1>3, <1>4, <1>5, <1>6, <1>7, <1>8 DEF Recovery, Api, Environment

LEMMA CheckpointExecution ==
    ASSUME JobInv, CheckpointInv, NEW w \in Workers, Execution(w)
    PROVE  CheckpointInv'
<1> USE DEF JobInv
<1> DEFINE j == held[w]
           s == snap[w]
<1>t. /\ \A v \in Workers : held[v] \in Jobs \cup {NoJob}
      /\ pc \in [Workers -> {"idle", "work", "raised"} \cup TxOps]
      /\ held \in [Workers -> Jobs \cup {NoJob}]
      /\ job \in [Jobs -> Row] /\ left \in [Jobs -> 0..Batches]
      /\ s \in Row /\ (pc[w] # "idle" => j \in Jobs)
  BY DEF TypeOK, ExecTypeOK, RowTypeOK
<1>f. ASSUME \A i \in Jobs : State(i)' = "succeeded" => State(i) = "succeeded",
             \A i \in Jobs : left[i] = 0 => left'[i] = 0,
             \A v \in Workers : pc'[v] = "complete" => pc[v] = "complete" /\ held'[v] = held[v]
      PROVE  CheckpointInv'
  BY <1>t, <1>f, CheckpointFrame
<1>1. ASSUME NEW i \in Jobs, TakeEnvelope(i, w) PROVE CheckpointInv'
  <2>1. /\ UNCHANGED left
        /\ \A v \in Workers : pc'[v] = "complete" => pc[v] = "complete" /\ held'[v] = held[v]
    BY <1>1, <1>t DEF TakeEnvelope, ClaimNothing, ClaimCancelled, ClaimExhausted, Claim, Take
  <2>2. \A k \in Jobs : State(k)' = "succeeded" => State(k) = "succeeded"
    <3>1. CASE ClaimNothing(i, w)
      BY <3>1 DEF ClaimNothing, State
    <3>2. CASE ClaimCancelled(i, w)
      BY <3>2, <1>t, OthersDoNotSucceed, PutKeeps DEF ClaimCancelled
    <3>3. CASE ClaimExhausted(i, w)
      <4>1. [job[i] EXCEPT !.state = "failed", !.delay = FALSE].state # "succeeded"
        BY <1>t DEF Row
      <4> QED
        BY <3>3, <4>1, PutKeeps DEF ClaimExhausted
    <3>4. CASE Claim(i, w)
      <4>1. [job[i] EXCEPT !.state = "running", !.attempts = @ + 1,
                           !.owner = HostOf[w]].state # "succeeded"
        BY <1>t DEF Row
      <4> QED
        BY <3>4, <4>1, PutKeeps DEF Claim
    <3> QED
      BY <1>1, <3>1, <3>2, <3>3, <3>4 DEF TakeEnvelope
  <2> QED
    BY <2>1, <2>2, <1>f
<1>2. CASE MarkOwned(w) \/ Raise(w) \/ Warmup(w) \/ Abandon(w) \/ MarkLost(w)
  <2>1. UNCHANGED <<job, left>>
    BY <1>2 DEF MarkOwned, Raise, Warmup, Abandon, MarkLost, Open, rowVars
  <2>2. \A v \in Workers : pc'[v] = "complete" => pc[v] = "complete" /\ held'[v] = held[v]
    BY <1>2, <1>t DEF MarkOwned, Raise, Warmup, Abandon, MarkLost, Open
  <2> QED
    BY <2>1, <2>2, <1>f DEF State
<1>3. CASE Return(w)
  <2>1. Covered(j) /\ UNCHANGED <<job, left, held>> /\ pc' = [pc EXCEPT ![w] = "complete"]
    BY <1>3 DEF Return, Open, Covered, rowVars
  <2> QED
    BY <2>1, <1>t DEF CheckpointInv, SucceededIsComplete, CompletingIsCovered, Covered, State
<1>4. CASE Commit(w)
  <2> DEFINE row == Merge(job[j], s, AfterOp(pc[w], s))
  <2>1. /\ Put(j, row, TRUE) /\ UNCHANGED left /\ j \in Jobs /\ pc[w] \in TxOps
        /\ \A v \in Workers : pc'[v] = "complete" => pc[v] = "complete" /\ held'[v] = held[v]
    BY <1>4, <1>t DEF Commit, Release, TxOps
  <2>2. CASE pc[w] = "complete"
    <3>1. Covered(j)
      BY <2>2 DEF CheckpointInv, CompletingIsCovered
    <3>2. \A i \in Jobs : i # j => State(i)' = State(i)
      BY <2>1, <1>t DEF Put, State
    <3>3. SucceededIsComplete'
      BY <2>1, <3>1, <3>2, ConstantsAssumption DEF CheckpointInv, SucceededIsComplete, Covered
    <3>4. CompletingIsCovered'
      BY <2>1 DEF CheckpointInv, CompletingIsCovered, Covered
    <3> QED
      BY <3>3, <3>4 DEF CheckpointInv
  <2>3. CASE pc[w] # "complete"
    <3>1. AfterOp(pc[w], s).state = "succeeded" => s.state = "succeeded"
      BY <2>1, <2>3, <1>t, OthersDoNotSucceed DEF AfterOp, TxOps
    <3>2. row.state = "succeeded" => State(j) = "succeeded"
      BY <3>1 DEF Merge, Written, State
    <3> QED
      BY <2>1, <3>2, <1>f, PutKeeps
  <2> QED
    BY <2>2, <2>3
<1>5. CASE BatchLost(w) \/ BatchCancelled(w)
  <2>1. /\ UNCHANGED <<job, left>>
        /\ \A v \in Workers : pc'[v] = "complete" => pc[v] = "complete" /\ held'[v] = held[v]
    BY <1>5, <1>t DEF BatchLost, BatchCancelled, Release
  <2> QED
    BY <2>1, <1>f DEF State
<1>6. CASE YieldBatch(w)
  <2>1. /\ Put(j, Yielded(job[j]), TRUE) /\ left' = [left EXCEPT ![j] = @ - 1] /\ left[j] > 1
        /\ Release(w) /\ j \in Jobs
    BY <1>6, <1>t DEF YieldBatch, BatchOwned, Batch
  <2>2. \A v \in Workers : pc'[v] = "complete" => pc[v] = "complete" /\ held'[v] = held[v]
    BY <2>1, <1>t DEF Release
  <2>3. \A i \in Jobs : left[i] = 0 => left'[i] = 0
    BY <2>1, <1>t
  <2> QED
    BY <2>1, <2>2, <2>3, <1>t, <1>f, OthersDoNotSucceed, PutKeeps
<1>7. CASE LastBatch(w)
  <2>1. /\ left' = [left EXCEPT ![j] = 0] /\ j \in Jobs /\ pc[w] = "work"
        /\ State(j) = "running"
    BY <1>7, <1>t DEF LastBatch, BatchOwned, Batch, Owns, State
  <2>2. \A v \in Workers : pc'[v] = "complete" => pc[v] = "complete" /\ held'[v] = held[v]
    BY <1>7, <1>t DEF LastBatch, Release
  <2>3. \A i \in Jobs : i # j => State(i)' = State(i)
    BY <1>7, <1>t, <2>1 DEF LastBatch, Put, State
  <2>4. left'[j] = 0 /\ \A i \in Jobs : left[i] = 0 => left'[i] = 0
    BY <2>1, <1>t
  <2>5. SucceededIsComplete'
    BY <2>3, <2>4, ConstantsAssumption DEF CheckpointInv, SucceededIsComplete
  <2>6. CompletingIsCovered'
    BY <2>2, <2>4, <1>t, ConstantsAssumption DEF CheckpointInv, CompletingIsCovered, Covered
  <2> QED
    BY <2>5, <2>6 DEF CheckpointInv
<1>8. CASE WaitQuietHours(w)
  <2>1. Put(j, DeferredUntil(job[j]), TRUE) /\ UNCHANGED left /\ Release(w) /\ j \in Jobs
    BY <1>8, <1>t DEF WaitQuietHours, BatchOwned, Batch
  <2>2. \A v \in Workers : pc'[v] = "complete" => pc[v] = "complete" /\ held'[v] = held[v]
    BY <2>1, <1>t DEF Release
  <2> QED
    BY <2>1, <2>2, <1>t, <1>f, OthersDoNotSucceed, PutKeeps
<1> QED
  BY <1>1, <1>2, <1>3, <1>4, <1>5, <1>6, <1>7, <1>8 DEF Execution, Finish

(* A checkpointed job never succeeds with a batch uncovered, whatever stale  *)
(* execution, lost update or retry runs next to its batches (complete,       *)
(* yield and the checkpoint transactions of execute_job).                    *)
THEOREM SuccessIsComplete == Spec => []SucceededIsComplete
<1>1. JobInv /\ CheckpointInv /\ [Next]_vars => CheckpointInv'
  <2> SUFFICES ASSUME JobInv, CheckpointInv, [Next]_vars PROVE CheckpointInv'
    OBVIOUS
  <2>1. CASE UNCHANGED vars
    BY <2>1 DEF vars, rowVars, execVars, CheckpointInv, SucceededIsComplete,
                CompletingIsCovered, Covered, State
  <2> QED
    BY <2>1, CheckpointQueue, CheckpointExecution DEF Next
<1>2. CheckpointInv => SucceededIsComplete
  BY DEF CheckpointInv
<1> QED
  BY <1>1, <1>2, CheckpointInit, Invariance, PTL DEF Spec

===============================================================================
