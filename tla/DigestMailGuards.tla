--------------------------- MODULE DigestMailGuards ---------------------------
(***************************************************************************)
(* Proofs about what a message may leave under (digests.deliver): the lease *)
(* of its job, and the recipient's subscription; and about what a delivery  *)
(* may be closed over: no alert in silence.  All follow from the row locks  *)
(* that the delivery transaction holds from its checks to its commit.       *)
(***************************************************************************)
EXTENDS DigestDeliveryProofs

(* A delivery that is not there has no job and no slot.                      *)
Booked ==
    /\ \A d \in Deliveries : delivery[d].status = "absent" => job[d] = NoJob
    /\ \A w \in Workers : pc[w] # "idle" => delivery[held[w]].status # "absent"

(* What the delivery transaction of w has read of its job.                   *)
Leased(w) == /\ job[held[w]].state = "running" /\ ~job[held[w]].cancel
             /\ job[held[w]].owner = HostOf[w]
LeaseHolds == \A w \in Workers : pc[w] = "sending" => Leased(w)

LeaseInv == MailInv /\ Booked /\ LeaseHolds

(* A complete selection of a subscriber covers every page, or its delivery   *)
(* was mailed before.                                                        *)
Whole(d, c) == (c.complete /\ c.print \in Prints /\ c.print.enabled)
                  => c.page = Pages \/ delivery[d].status = "succeeded"
WholeSelections ==
    /\ \A d \in Deliveries : Whole(d, check[d])
    /\ \A w \in Workers : pc[w] # "idle" => Whole(held[w], sel[w])
    /\ \A w \in Workers : pc[w] \in {"idle", "prepare"} => ~sel[w].complete

(* What the delivery transaction of w has read of the recipient.             *)
Wanted(w) == /\ pref.enabled /\ member
             /\ sel[w].complete /\ sel[w].page = Pages
             /\ sel[w].print.filter = pref.filter
WantHolds == \A w \in Workers : pc[w] = "sending" => Wanted(w)

WantInv == MailInv /\ WholeSelections /\ WantHolds

-------------------------------------------------------------------------------
(* While a slot sends, it holds the lock on its job, so nobody else does and  *)
(* no delivery transaction of another slot is open.                          *)
LEMMA SenderAlone ==
    ASSUME MailInv, NEW w \in Workers, pc[w] = "sending"
    PROVE  /\ lock = w /\ lock # NoWorker /\ ~RowFree(held[w]) /\ held[w] \in Deliveries
           /\ \A v \in Workers : InSend(v) => v = w
<1>1. lock = w /\ \A v \in Workers : InSend(v) => lock = v
  BY DEF MailInv, SendHolds, InSend
<1>2. held[w] \in Deliveries
  BY DEF MailInv, TypeOK, SlotTypeOK
<1> QED
  BY <1>1, <1>2, DigestAssumption DEF RowFree

(* An actor other than a slot that changes a job.                            *)
LEMMA JobOutside ==
    ASSUME LeaseInv, Recipient \/ Api \/ Beat \/ Detect \/ Tick \/ UNCHANGED vars
    PROVE  /\ UNCHANGED slotVars
           /\ \A d \in Deliveries : delivery[d].status # "absent" => delivery'[d].status # "absent"
           /\ \A d \in Deliveries : job'[d] # job[d] => delivery'[d].status # "absent"
           /\ \A w \in Workers : pc[w] = "sending" /\ Leased(w) => Leased(w)'
<1>0. TypeOK /\ RowTypeOK /\ SlotTypeOK
  BY DEF LeaseInv, MailInv, TypeOK
<1>1. UNCHANGED slotVars
  BY DEF Recipient, Subscribe, Unsubscribe, LoseAccess, Api, SendNow, CancelJob, RetryJob,
         Beat, EnqueueDue, Lapse, Wake, ClaimCancelled, Detect, Tick, vars
<1>a. \A d \in Deliveries : job[d].state # "absent" \/ job[d].quiet => delivery[d].status # "absent"
  BY DEF LeaseInv, Booked, NoJob, Waiting
<1>b. \A w \in Workers : pc[w] = "sending" =>
         lock = w /\ ~RowFree(held[w]) /\ held[w] \in Deliveries /\ delivery[held[w]].status # "absent"
  BY SenderAlone DEF LeaseInv, Booked
<1>c. ASSUME UNCHANGED <<delivery, job>>
      PROVE  /\ \A d \in Deliveries : delivery[d].status # "absent" => delivery'[d].status # "absent"
             /\ \A d \in Deliveries : job'[d] # job[d] => delivery'[d].status # "absent"
             /\ \A w \in Workers : pc[w] = "sending" /\ Leased(w) => Leased(w)'
  BY <1>c, <1>1 DEF Leased, slotVars
<1>d. ASSUME NEW d \in Deliveries, NEW row, job' = [job EXCEPT ![d] = row],
             RowFree(d) \/ delivery[d].status = "absent"
      PROVE  /\ \A e \in Deliveries : job'[e] # job[e] => e = d
             /\ \A w \in Workers : pc[w] = "sending" /\ Leased(w) => Leased(w)'
  BY <1>d, <1>b, <1>1, <1>0 DEF Leased, slotVars, RowTypeOK
<1>e. ASSUME NEW d \in Deliveries, NEW end, Create(d, end)
      PROVE  /\ \A e \in Deliveries : delivery[e].status # "absent" => delivery'[e].status # "absent"
             /\ \A e \in Deliveries : job'[e] # job[e] => delivery'[e].status # "absent"
             /\ \A w \in Workers : pc[w] = "sending" /\ Leased(w) => Leased(w)'
  <2>1. delivery'[d].status # "absent" /\ \A e \in Deliveries \ {d} : delivery'[e] = delivery[e]
    BY <1>e, <1>0 DEF Create, RowTypeOK
  <2>2. delivery[d].status = "absent" /\ job' = [job EXCEPT ![d] = Waiting(FALSE)]
    BY <1>e DEF Create
  <2> QED
    BY <2>1, <2>2, <1>d
<1>2. CASE Recipient \/ Detect \/ Tick \/ UNCHANGED vars
  BY <1>1, <1>2, <1>c DEF Recipient, Subscribe, Unsubscribe, LoseAccess, Detect, Tick, vars, rowVars
<1>3. CASE EnqueueDue
  <2>1. \A w \in Workers : pc[w] # "sending"
    BY <1>3, <1>b, DigestAssumption DEF EnqueueDue, RecipientFree
  <2>2. CASE \E d \in Deliveries : Create(d, pref.next)
    BY <2>2, <1>1, <1>e
  <2>3. ASSUME NEW d \in Deliveries, Requeue(d) PROVE \A e \in Deliveries : job'[e] # job[e] => delivery[e].status # "absent"
    BY <2>3, <1>a, <1>0 DEF Requeue, RowTypeOK
  <2>4. ASSUME NEW d \in Deliveries, Requeue(d) PROVE UNCHANGED delivery
    BY <2>4 DEF Requeue
  <2> QED
    BY <1>1, <1>3, <2>1, <2>2, <2>3, <2>4 DEF EnqueueDue, Ending
<1>4. ASSUME NEW d \in Deliveries, SendNow(d) \/ CancelJob(d) \/ RetryJob(d) \/ Lapse(d) \/ ClaimCancelled(d) \/ Wake(d)
      PROVE  /\ \A e \in Deliveries : delivery[e].status # "absent" => delivery'[e].status # "absent"
             /\ \A e \in Deliveries : job'[e] # job[e] => delivery'[e].status # "absent"
             /\ \A w \in Workers : pc[w] = "sending" /\ Leased(w) => Leased(w)'
  <2>1. CASE SendNow(d)
    BY <2>1, <1>e DEF SendNow
  <2>2. CASE CancelJob(d) \/ RetryJob(d) \/ Lapse(d) \/ ClaimCancelled(d)
    <3>1. /\ RowFree(d) /\ job[d].state # "absent" /\ UNCHANGED delivery
          /\ \E row : job' = [job EXCEPT ![d] = row]
      BY <2>2 DEF CancelJob, RetryJob, Lapse, ClaimCancelled
    <3> QED
      BY <3>1, <1>a, <1>d
  <2>3. CASE Wake(d)
    <3>1. \A e \in Deliveries : job'[e].state = job[e].state /\ job'[e].owner = job[e].owner /\ job'[e].cancel = job[e].cancel
      BY <2>3, <1>0 DEF Wake, RowTypeOK, JobRow
    <3>2. \A e \in Deliveries : job'[e] # job[e] => e = d
      BY <2>3, <1>0 DEF Wake, RowTypeOK
    <3>3. UNCHANGED delivery /\ job[d].quiet
      BY <2>3 DEF Wake
    <3> QED
      BY <3>1, <3>2, <3>3, <1>1, <1>a, <1>b DEF Leased, slotVars
  <2> QED
    BY <1>4, <2>1, <2>2, <2>3
<1> QED
  BY <1>1, <1>2, <1>3, <1>4 DEF Api, Beat

(* An execution that changes a job.  (Select is the only way to send.)       *)
LEMMA JobOfExecution ==
    ASSUME LeaseInv, NEW w \in Workers, Execution(w)
    PROVE  /\ OthersStay(w)
           /\ \A d \in Deliveries : delivery[d].status # "absent" => delivery'[d].status # "absent"
           /\ pc'[w] # "idle" => delivery'[held'[w]].status # "absent"
           /\ \A d \in Deliveries : job'[d] # job[d] => delivery'[d].status # "absent"
           /\ \A v \in Workers \ {w} : pc[v] = "sending" /\ Leased(v) => Leased(v)'
           /\ pc'[w] = "sending" => Leased(w)'
<1> USE DEF Labels
<1>0. TypeOK /\ RowTypeOK /\ SlotTypeOK
  BY DEF LeaseInv, MailInv, TypeOK
<1>a. \A d \in Deliveries : job[d].state # "absent" => delivery[d].status # "absent"
  BY DEF LeaseInv, Booked, NoJob, Waiting
<1>b. \A v \in Workers : pc[v] # "idle" => held[v] \in Deliveries /\ delivery[held[v]].status # "absent"
  BY <1>0 DEF LeaseInv, Booked, SlotTypeOK
<1>c. \A v \in Workers \ {w} : pc[v] = "sending" =>
         lock = v /\ lock # NoWorker /\ ~RowFree(held[v]) /\ ~InSend(w) /\ held[v] \in Deliveries
  BY SenderAlone DEF LeaseInv
<1>1. ASSUME NEW d \in Deliveries, NEW row, job' = [job EXCEPT ![d] = row], OthersStay(w),
             \A v \in Workers \ {w} : pc[v] = "sending" => held[v] # d
      PROVE  /\ \A e \in Deliveries : job'[e] # job[e] => e = d
             /\ \A v \in Workers \ {w} : pc[v] = "sending" /\ Leased(v) => Leased(v)'
  BY <1>1, <1>0, <1>c DEF Leased, OthersStay, RowTypeOK
<1>d. ASSUME UNCHANGED job, OthersStay(w)
      PROVE  \A v \in Workers \ {w} : pc[v] = "sending" /\ Leased(v) => Leased(v)'
  BY <1>d DEF Leased, OthersStay
<1>2. CASE \E d \in Deliveries : Claim(w, d)
  <2> PICK d \in Deliveries : Claim(w, d)
    BY <1>2
  <2>1. /\ RowFree(d) /\ job[d].state # "absent" /\ UNCHANGED delivery
        /\ \E row : job' = [job EXCEPT ![d] = row]
        /\ pc'[w] = "prepare" /\ held'[w] = d /\ OthersStay(w)
    BY <1>0 DEF Claim, At, OthersStay, SlotTypeOK
  <2> QED
    BY <2>1, <1>a, <1>c, <1>1
<1>3. CASE Complete(w) \/ Abandon(w) \/ Fail(w) \/ \E r \in Runtimes : Prepare(w, r) /\ Leave(w)
  <2>1. /\ RowFree(held[w]) /\ held[w] \in Deliveries /\ UNCHANGED delivery /\ delivery[held[w]].status # "absent"
        /\ \E row : job' = [job EXCEPT ![held[w]] = row]
    <3>1. CASE Complete(w) \/ Abandon(w) \/ Fail(w)
      BY <3>1, <1>b DEF Complete, Abandon, Fail, EndStep
    <3>2. ASSUME NEW r \in Runtimes, Prepare(w, r), Leave(w) PROVE job' = [job EXCEPT ![held[w]] = Waiting(FALSE)]
      BY <3>2, <1>0 DEF Prepare, Leave, At, SlotTypeOK
    <3>3. ASSUME NEW r \in Runtimes, Prepare(w, r)
          PROVE  RowFree(held[w]) /\ pc[w] # "idle" /\ UNCHANGED delivery
      BY <3>3 DEF Prepare, PrepareOwned, PrepareStep
    <3> QED
      BY <1>3, <3>1, <3>2, <3>3, <1>b
  <2>2. Leave(w)
    BY <1>3 DEF Complete, Abandon, Fail
  <2>3. OthersStay(w) /\ pc'[w] = "idle"
    BY <2>2, <1>0, SlotMoved
  <2> QED
    BY <2>1, <2>3, <1>c, <1>1
<1>4. CASE \/ PrepareLost(w) \/ PrepareCancelled(w) \/ Mark(w) \/ Crash(w)
           \/ DeliverLost(w) \/ DeliverCancelled(w) \/ FindSent(w) \/ FindDisabled(w)
           \/ HandOver(w) \/ CommitSent(w) \/ CommitUnsent(w) \/ SendFails(w)
           \/ \E r \in Runtimes : PrepareFails(w, r) \/ DeliverFails(w, r) \/ (Prepare(w, r) /\ ~Leave(w))
           \/ \E r \in Runtimes, others \in BOOLEAN : Select(w, r, others) /\ Turn(w, "delivered")
  <2>1. /\ pc[w] # "idle" /\ UNCHANGED job
        /\ \/ Leave(w)
           \/ \E label \in Labels \ {"sending"} : Turn(w, label) \/ (At(w, label) /\ UNCHANGED held)
    BY <1>4 DEF PrepareLost, PrepareCancelled, PrepareFails, Prepare, PrepareOwned, PrepareStep,
                Mark, Crash, DeliverLost, DeliverCancelled, FindSent, FindDisabled, HandOver, CommitSent,
                CommitUnsent, SendFails, DeliverFails, Select, Deliverable, DeliverOwned, DeliverStep, rowVars
  <2>2. OthersStay(w) /\ pc'[w] # "sending" /\ (pc'[w] # "idle" => held'[w] = held[w])
    BY <2>1, <1>0, SlotMoved
  <2>3. UNCHANGED delivery \/ \E status \in {"skipped", "succeeded", "failed"} : Close(held[w], status)
    BY <1>4 DEF PrepareLost, PrepareCancelled, PrepareFails, Prepare, Mark, Crash, DeliverLost,
                DeliverCancelled, FindSent, FindDisabled, HandOver, CommitSent,
                CommitUnsent, SendFails, DeliverFails, Select, rowVars
  <2>4. \A d \in Deliveries : delivery[d].status # "absent" => delivery'[d].status # "absent"
    BY <2>1, <2>3, <1>0, <1>b, ClosedDelivery
  <2> QED
    BY <2>1, <2>2, <2>4, <1>b, <1>d
<1>5. CASE DeferQuiet(w)
  <2>1. /\ held[w] \in Deliveries /\ delivery[held[w]].status # "absent"
        /\ Close(held[w], "queued") /\ Leave(w)
        /\ job' = [job EXCEPT ![held[w]] = Waiting(TRUE)]
        /\ \A v \in Workers \ {w} : pc[v] # "sending"
    BY <1>5, <1>b, <1>c DEF DeferQuiet, Deliverable, DeliverOwned, DeliverStep, InSend
  <2>2. OthersStay(w) /\ pc'[w] = "idle"
    BY <2>1, <1>0, SlotMoved
  <2>3. \A d \in Deliveries : delivery[d].status # "absent" => delivery'[d].status # "absent"
    BY <2>1, <1>0, ClosedDelivery
  <2> QED
    BY <2>1, <2>2, <2>3, <1>1
<1>6. CASE \E r \in Runtimes, others \in BOOLEAN : Select(w, r, others) /\ At(w, "sending") /\ UNCHANGED <<delivery, held>>
  <2>1. /\ UNCHANGED <<job, delivery, held>> /\ At(w, "sending") /\ pc[w] = "deliver"
        /\ ~Lost(w) /\ ~job[held[w]].cancel
    BY <1>6 DEF Select, Deliverable, DeliverOwned, DeliverStep
  <2>2. OthersStay(w) /\ pc'[w] = "sending" /\ held'[w] = held[w]
    BY <2>1, <1>0, SlotMoved
  <2> QED
    BY <2>1, <2>2, <1>b, <1>d DEF Lost, Leased
<1> QED
  BY <1>2, <1>3, <1>4, <1>5, <1>6 DEF Execution, Preparing, Delivering, Closing, Select

LEMMA LeaseStep ==
    ASSUME LeaseInv, [Next]_vars
    PROVE  LeaseInv'
<1>0. RowTypeOK
  BY DEF LeaseInv, MailInv, TypeOK
<1>1. MailInv'
  BY MailStep DEF LeaseInv
<1>2. CASE Recipient \/ Api \/ Beat \/ Detect \/ Tick \/ UNCHANGED vars
  BY <1>1, <1>2, <1>0, JobOutside DEF LeaseInv, Booked, LeaseHolds, slotVars, MailInv, TypeOK, SlotTypeOK
<1>3. ASSUME NEW w \in Workers, Execution(w) PROVE LeaseInv'
  <2>1. Booked'
    BY <1>3, <1>1, JobOfExecution DEF LeaseInv, Booked, OthersStay, MailInv, TypeOK, SlotTypeOK
  <2>2. LeaseHolds'
    BY <1>3, JobOfExecution DEF LeaseInv, LeaseHolds, OthersStay
  <2> QED
    BY <1>1, <2>1, <2>2 DEF LeaseInv
<1> QED
  BY <1>2, <1>3 DEF Next

(* A message leaves only while its job is running, owned by the host that    *)
(* sends and not to be cancelled, whoever recovers, cancels or retries it at *)
(* that moment: they wait for the row lock (digests.deliver).                *)
THEOREM MailLeavesUnderLease == Spec => MailUnderLease
<1>1. Init => LeaseInv
  <2> SUFFICES ASSUME Init PROVE LeaseInv
    OBVIOUS
  <2>1. MailInv
    BY InitMail
  <2> QED
    BY <2>1 DEF Init, LeaseInv, Booked, LeaseHolds
<1>2. LeaseInv /\ [Next]_vars => LeaseInv'
  BY LeaseStep
<1>3. ASSUME LeaseInv, [Next]_vars
      PROVE  \A d \in Deliveries : mails'[d] # mails[d] =>
                /\ job[d].state = "running" /\ ~job[d].cancel
                /\ \E w \in Workers : held[w] = d /\ pc[w] = "sending" /\ HostOf[w] = job[d].owner
  <2> TAKE d \in Deliveries
  <2> HAVE mails'[d] # mails[d]
  <2>1. PICK w \in Workers : pc[w] = "sending" /\ held[w] = d
    BY <1>3, Sender DEF LeaseInv
  <2> QED
    BY <2>1, <1>3 DEF LeaseInv, LeaseHolds, Leased
<1> QED
  BY <1>1, <1>2, <1>3, PTL DEF Spec, MailUnderLease

-------------------------------------------------------------------------------
(* Selections.  What was mailed stays mailed, so a selection that is whole   *)
(* for its delivery stays whole.                                             *)
SuccessStays == \A d \in Deliveries :
                  delivery[d].status = "succeeded" => delivery'[d].status = "succeeded"
SelStays(w) == \A v \in Workers \ {w} : sel'[v] = sel[v]
SameRecipient == /\ pref'.enabled = pref.enabled /\ pref'.filter = pref.filter
                 /\ member' = member

LEMMA NothingSelected == NoSelection \in Selection /\ ~NoSelection.complete
BY EmptySelection DEF NoSelection

LEMMA ScannedIsWhole ==
    ASSUME TypeOK, NEW d \in Deliveries, NEW r \in Runtimes, Whole(d, check[d])
    PROVE  Whole(d, Scanned(d, Resumed(check[d], r), r))
<1> DEFINE b == Resumed(check[d], r)
<1>0. check[d] \in Selection /\ pref.enabled \in BOOLEAN /\ Pages \in Nat
  BY DigestAssumption DEF TypeOK, RowTypeOK, RecipientTypeOK
<1>1. b \in [page: 0..Pages, found: BOOLEAN, print: Prints \cup {NoPrint}, complete: BOOLEAN]
  <2>1. CurrentPrint(r) \in Prints
    BY DEF CurrentPrint, Prints, TypeOK, RecipientTypeOK
  <2> QED
    BY <2>1, <1>0, NothingSelected DEF Resumed, Selection, Checkpoint
<1>2. Whole(d, b) /\ b.print.enabled = pref.enabled
  BY <1>0, NothingSelected DEF Whole, Resumed, CurrentPrint, NoSelection, Selection, Checkpoint
<1> HIDE DEF b
<1>3. CASE b.complete
  BY <1>1, <1>2, <1>3 DEF Scanned, Whole, b
<1>4. CASE delivery[d].status = "succeeded"
  BY <1>4 DEF Whole
<1>5. CASE ~pref.enabled
  BY <1>1, <1>2, <1>5 DEF Scanned, Whole, b
<1>6. CASE ~(b.complete \/ delivery[d].status = "succeeded" \/ ~pref.enabled)
  BY <1>1, <1>6 DEF Scanned, Whole, b
<1> QED
  BY <1>3, <1>4, <1>5, <1>6

(* Slots move, and selections with them.                                     *)
LEMMA SelectionMoved ==
    ASSUME TypeOK, NEW w \in Workers
    PROVE  /\ Leave(w) => SelStays(w) /\ sel'[w] = NoSelection
           /\ \A label : Turn(w, label) => SelStays(w) /\ sel'[w] = NoSelection
BY DEF TypeOK, SlotTypeOK, Leave, Turn, SelStays

(* The actors other than slots: while a message is about to leave, the       *)
(* recipient is locked.                                                      *)
LEMMA RecipientOutside ==
    ASSUME WantInv, Recipient \/ Api \/ Beat \/ Detect \/ Tick \/ UNCHANGED vars
    PROVE  /\ UNCHANGED slotVars /\ SuccessStays
           /\ \A d \in Deliveries : check'[d] = check[d] \/ check'[d] = NoSelection
           /\ (\E w \in Workers : pc[w] = "sending") => SameRecipient
<1>0. RowTypeOK
  BY DEF WantInv, MailInv, TypeOK
<1>1. (\E w \in Workers : pc[w] = "sending") => ~RecipientFree
  BY SenderAlone DEF WantInv, RecipientFree
<1>2. ASSUME NEW d \in Deliveries, NEW end, Create(d, end) PROVE SuccessStays
  BY <1>2, <1>0 DEF Create, SuccessStays, RowTypeOK
<1>3. CASE (\E f \in Filters : Subscribe(f)) \/ Unsubscribe \/ LoseAccess
  BY <1>1, <1>3 DEF Subscribe, Unsubscribe, LoseAccess, SuccessStays
<1>4. CASE EnqueueDue
  <2>1. UNCHANGED slotVars /\ ~(\E w \in Workers : pc[w] = "sending")
    BY <1>1, <1>4 DEF EnqueueDue
  <2>2. SuccessStays
    BY <1>2, <1>4 DEF EnqueueDue, Requeue, SuccessStays
  <2>3. \A d \in Deliveries : check'[d] = check[d] \/ check'[d] = NoSelection
    BY <1>4, <1>0 DEF EnqueueDue, Requeue, RowTypeOK
  <2> QED
    BY <2>1, <2>2, <2>3
<1>5. ASSUME NEW d \in Deliveries, SendNow(d)
      PROVE  UNCHANGED <<slotVars, check, pref, member>> /\ SuccessStays
  BY <1>2, <1>5 DEF SendNow
<1>6. CASE Detect \/ Tick \/ UNCHANGED vars
            \/ \E d \in Deliveries : CancelJob(d) \/ RetryJob(d) \/ Lapse(d) \/ Wake(d) \/ ClaimCancelled(d)
  BY <1>6 DEF Detect, Tick, vars, rowVars, CancelJob, RetryJob, Lapse, Wake, ClaimCancelled,
              SuccessStays, SameRecipient
<1> QED
  BY <1>3, <1>4, <1>5, <1>6 DEF Recipient, Api, Beat, SameRecipient

(* An execution: it selects under the locks, and only a selection of the     *)
(* preference in force.                                                      *)
SelectionKept(w) ==
    /\ OthersStay(w) /\ SelStays(w) /\ SuccessStays
    /\ \A d \in Deliveries : Whole(d, check[d]) => Whole(d, check'[d])
    /\ pc'[w] # "idle" => Whole(held'[w], sel'[w])
    /\ pc'[w] \in {"idle", "prepare"} => ~sel'[w].complete
    /\ (\E v \in Workers \ {w} : pc[v] = "sending") => SameRecipient
    /\ pc'[w] = "sending" => Wanted(w)'

LEMMA SelectionOfExecution ==
    ASSUME WantInv, NEW w \in Workers, Execution(w)
    PROVE  SelectionKept(w)
<1> USE DEF Labels, SelectionKept
<1>0. TypeOK /\ RowTypeOK /\ SlotTypeOK /\ NoSelection \in Selection /\ ~NoSelection.complete
  BY NothingSelected DEF WantInv, MailInv, TypeOK
<1>a. pc[w] # "idle" => /\ held[w] \in Deliveries /\ Whole(held[w], sel[w])
                        /\ (pc[w] \in {"idle", "prepare"} => ~sel[w].complete)
  BY <1>0 DEF WantInv, WholeSelections, SlotTypeOK
<1>b. (\E v \in Workers \ {w} : pc[v] = "sending") => lock # NoWorker /\ lock # w /\ ~InSend(w)
  BY SenderAlone DEF WantInv
<1>c. InSend(w) => delivery[held[w]].status # "succeeded"
  BY DEF WantInv, MailInv, SendHolds
<1>2. CASE \E d \in Deliveries : Claim(w, d)
  <2> PICK d \in Deliveries : Claim(w, d)
    BY <1>2
  <2>1. /\ pc[w] = "idle" /\ pc'[w] = "prepare" /\ OthersStay(w) /\ ~sel'[w].complete
        /\ UNCHANGED <<sel, check, delivery, pref, member>>
    BY <1>0 DEF Claim, At, OthersStay, SlotTypeOK, WantInv, WholeSelections
  <2> QED
    BY <2>1 DEF SelStays, SuccessStays, SameRecipient, Whole
(* Steps that drop the selection.                                            *)
<1>3. CASE Leave(w) \/ \E label \in Labels \ {"idle", "prepare", "sending"} : Turn(w, label)
  <2>1. /\ OthersStay(w) /\ SelStays(w) /\ sel'[w] = NoSelection /\ pc'[w] \notin {"prepare", "sending"}
    BY <1>3, <1>0, SlotMoved, SelectionMoved
  <2>2. ~sel'[w].complete /\ Whole(held'[w], sel'[w])
    BY <2>1, <1>0 DEF Whole
  <2>3. /\ SuccessStays
        /\ (\E v \in Workers \ {w} : pc[v] = "sending") => SameRecipient
        /\ \A d \in Deliveries : Whole(d, check[d]) => Whole(d, check'[d])
    <3>1. CASE \E r \in Runtimes : Prepare(w, r)
      <4> PICK r \in Runtimes : Prepare(w, r)
        BY <3>1
      <4>1. /\ held[w] \in Deliveries /\ UNCHANGED <<pref, member, delivery>>
            /\ check' = [check EXCEPT ![held[w]] = Scanned(held[w], Resumed(check[held[w]], r), r)]
        BY <1>a DEF Prepare, PrepareOwned, PrepareStep
      <4>2. ASSUME NEW d \in Deliveries, Whole(d, check[d]) PROVE Whole(d, check'[d])
        BY <4>1, <4>2, <1>0, ScannedIsWhole DEF RowTypeOK
      <4> QED
        BY <4>1, <4>2 DEF SuccessStays, SameRecipient
    <3>2. CASE ~(\E r \in Runtimes : Prepare(w, r))
      <4>0. ~(\E d \in Deliveries : Claim(w, d))
        BY <2>1, <1>0 DEF Claim, At, SlotTypeOK
      <4>1. UNCHANGED check /\ pc[w] # "idle"
        BY <3>2, <4>0 DEF Execution, Preparing, PrepareLost, PrepareCancelled, PrepareStep, PrepareOwned,
              PrepareFails, Mark, Delivering, DeliverLost, DeliverCancelled, FindSent, FindDisabled, DeferQuiet,
              HandOver, CommitSent, CommitUnsent, SendFails, DeliverFails, Select, Deliverable, DeliverOwned,
              DeliverStep, Closing, Complete, Abandon, Fail, EndStep, Crash, rowVars
      <4>2. UNCHANGED delivery \/ (Close(held[w], "succeeded"))
            \/ (delivery[held[w]].status # "succeeded" /\ \E status : Close(held[w], status))
        BY <3>2, <4>1, <1>c DEF Execution, Claim, Preparing, PrepareLost, PrepareCancelled,
              PrepareFails, Mark, Delivering, DeliverLost, DeliverCancelled, FindSent, FindDisabled, DeferQuiet,
              HandOver, CommitSent, CommitUnsent, SendFails, DeliverFails, Select, Deliverable, AlreadySent,
              Closing, Complete, Abandon, Fail, Crash, rowVars, InSend
      <4>3. SuccessStays
        BY <4>1, <4>2, <1>0, <1>a, ClosedDelivery DEF SuccessStays
      <4>4. SameRecipient
        <5>1. UNCHANGED <<pref, member>> \/ (RaiseMark(held[w]) /\ UNCHANGED member)
          BY <3>2, <4>1 DEF Execution, Claim, Preparing, PrepareLost, PrepareCancelled,
                PrepareFails, Mark, Delivering, DeliverLost, DeliverCancelled, FindSent, FindDisabled, DeferQuiet,
                HandOver, CommitSent, CommitUnsent, SendFails, DeliverFails, Select,
                Closing, Complete, Abandon, Fail, Crash, rowVars
        <5> QED
          BY <5>1, <1>0 DEF SameRecipient, RaiseMark, TypeOK, RecipientTypeOK
      <4> QED
        BY <4>1, <4>3, <4>4 DEF SuccessStays, Whole
    <3> QED
      BY <3>1, <3>2
  <2> QED
    BY <2>1, <2>2, <2>3
(* Steps that keep or take one.                                              *)
<1>4. CASE PrepareCancelled(w) \/ HandOver(w) \/ (Mark(w) /\ UNCHANGED sel)
           \/ \E r \in Runtimes : PrepareFails(w, r)
  <2>1. /\ pc[w] # "idle" /\ UNCHANGED <<sel, check, delivery, pref, member, held>>
        /\ \E label \in Labels \ {"idle", "prepare", "sending"} : At(w, label)
    BY <1>4, <1>0 DEF PrepareCancelled, PrepareFails, PrepareOwned, PrepareStep, HandOver, Mark, rowVars, At, Turn, SlotTypeOK
  <2>2. OthersStay(w) /\ pc'[w] \notin {"idle", "prepare", "sending"}
    BY <2>1, <1>0, SlotMoved
  <2> QED
    BY <2>1, <2>2, <1>a DEF SelStays, SuccessStays, SameRecipient, Whole
<1>5. ASSUME NEW r \in Runtimes, Prepare(w, r), At(w, "prepared"), UNCHANGED held,
             sel' = [sel EXCEPT ![w] = Scanned(held[w], Resumed(check[held[w]], r), r)]
      PROVE  /\ OthersStay(w) /\ SelStays(w) /\ SuccessStays /\ SameRecipient
             /\ pc'[w] = "prepared" /\ held'[w] = held[w]
             /\ \A d \in Deliveries : Whole(d, check[d]) => Whole(d, check'[d])
             /\ Whole(held'[w], sel'[w])
  <2>1. /\ held[w] \in Deliveries /\ UNCHANGED <<pref, member, delivery>>
        /\ check' = [check EXCEPT ![held[w]] = Scanned(held[w], Resumed(check[held[w]], r), r)]
    BY <1>5, <1>a DEF Prepare, PrepareOwned, PrepareStep
  <2>2. OthersStay(w) /\ pc'[w] = "prepared" /\ held'[w] = held[w]
    BY <1>5, <1>0, SlotMoved
  <2>3. Whole(held[w], Scanned(held[w], Resumed(check[held[w]], r), r))
    BY <2>1, <1>0, ScannedIsWhole DEF WantInv, WholeSelections
  <2>4. \A d \in Deliveries : Whole(d, check[d]) => Whole(d, check'[d])
    BY <2>1, <2>3, <1>0 DEF RowTypeOK
  <2>5. Whole(held'[w], sel'[w])
    BY <1>5, <2>2, <2>3, <1>0 DEF SlotTypeOK
  <2> QED
    BY <1>5, <2>1, <2>2, <2>4, <2>5, <1>0 DEF SelStays, SuccessStays, SameRecipient, SlotTypeOK
<1>6. ASSUME NEW r \in Runtimes, NEW others \in BOOLEAN, Select(w, r, others), At(w, "sending"),
             sel' = [sel EXCEPT ![w].found = Selected(w, r)], UNCHANGED <<delivery, pref, held>>
      PROVE  /\ OthersStay(w) /\ SelStays(w) /\ SuccessStays /\ SameRecipient
             /\ pc'[w] = "sending" /\ held'[w] = held[w] /\ UNCHANGED <<check, delivery>>
             /\ Whole(held'[w], sel'[w]) /\ Wanted(w)'
  <2>1. /\ pc[w] = "deliver" /\ UNCHANGED <<check, member>> /\ pref.enabled /\ member
        /\ sel[w].complete /\ sel[w].print = CurrentPrint(r)
        /\ delivery[held[w]].status # "succeeded"
    BY <1>6 DEF Select, Deliverable, DeliverOwned, DeliverStep, AlreadySent, Current
  <2>2. OthersStay(w) /\ pc'[w] = "sending" /\ held'[w] = held[w]
    BY <1>6, <1>0, SlotMoved
  <2>3. /\ sel'[w].complete = sel[w].complete /\ sel'[w].page = sel[w].page
        /\ sel'[w].print = sel[w].print /\ SelStays(w)
    BY <1>6, <1>0 DEF SlotTypeOK, SelStays, Selection, Checkpoint
  <2>4. CurrentPrint(r) \in Prints /\ CurrentPrint(r).enabled = pref.enabled
        /\ CurrentPrint(r).filter = pref.filter
    BY <1>0 DEF CurrentPrint, Prints, TypeOK, RecipientTypeOK
  <2>5. sel[w].page = Pages
    BY <2>1, <2>4, <1>a DEF Whole
  <2> QED
    BY <1>6, <2>1, <2>2, <2>3, <2>4, <2>5 DEF SuccessStays, SameRecipient, Whole, Wanted
<1>7. CASE \E r \in Runtimes : Prepare(w, r)
  <2> PICK r \in Runtimes : Prepare(w, r)
    BY <1>7
  <2> QED
    BY <1>3, <1>5, <1>0 DEF Prepare
<1>8. CASE \E r \in Runtimes, others \in BOOLEAN : Select(w, r, others)
  <2> PICK r \in Runtimes, others \in BOOLEAN : Select(w, r, others)
    BY <1>8
  <2>1. CASE Turn(w, "delivered")
    BY <2>1, <1>3
  <2>2. CASE ~Turn(w, "delivered")
    BY <2>2, <1>6 DEF Select, Whole
  <2> QED
    BY <2>1, <2>2
<1>9. CASE Mark(w) \/ Crash(w) \/ PrepareLost(w) \/ Complete(w) \/ Abandon(w) \/ Fail(w)
           \/ DeliverLost(w) \/ DeliverCancelled(w) \/ FindSent(w) \/ FindDisabled(w) \/ DeferQuiet(w)
           \/ CommitSent(w) \/ CommitUnsent(w) \/ SendFails(w) \/ \E r \in Runtimes : DeliverFails(w, r)
  <2>1. \/ Leave(w) \/ Turn(w, "abandon") \/ Turn(w, "delivered") \/ Turn(w, "raise")
        \/ Mark(w) /\ UNCHANGED sel
    BY <1>9 DEF Mark, Crash, PrepareLost, Complete, Abandon, Fail, DeliverLost, DeliverCancelled,
        FindSent, FindDisabled, DeferQuiet, CommitSent, CommitUnsent, SendFails, DeliverFails
  <2> QED
    BY <2>1, <1>3, <1>4
<1>10. CASE \E d \in Deliveries : Claim(w, d)
  BY <1>10, <1>2
<1> HIDE DEF SelectionKept
<1>11. CASE Preparing(w)
  <2>1. CASE PrepareLost(w) \/ PrepareCancelled(w)
    BY <2>1, <1>4, <1>9
  <2>2. ASSUME NEW r \in Runtimes, PrepareFails(w, r) PROVE SelectionKept(w)
    BY <2>2, <1>4
  <2>3. ASSUME NEW r \in Runtimes, Prepare(w, r) PROVE SelectionKept(w)
    BY <2>3, <1>7
  <2> QED
    BY <1>11, <2>1, <2>2, <2>3 DEF Preparing
<1>12. CASE Delivering(w)
  <2>1. CASE \/ DeliverLost(w) \/ DeliverCancelled(w) \/ FindSent(w) \/ FindDisabled(w)
             \/ DeferQuiet(w) \/ HandOver(w) \/ CommitSent(w) \/ CommitUnsent(w) \/ SendFails(w)
    BY <2>1, <1>4, <1>9
  <2>2. ASSUME NEW r \in Runtimes, DeliverFails(w, r) PROVE SelectionKept(w)
    BY <2>2, <1>9
  <2>3. ASSUME NEW r \in Runtimes, NEW others \in BOOLEAN, Select(w, r, others) PROVE SelectionKept(w)
    BY <2>3, <1>8
  <2> QED
    BY <1>12, <2>1, <2>2, <2>3 DEF Delivering
<1>13. CASE Closing(w) \/ Mark(w)
  BY <1>13, <1>9 DEF Closing
<1> QED
  BY <1>10, <1>11, <1>12, <1>13 DEF Execution

LEMMA WantStep ==
    ASSUME WantInv, [Next]_vars
    PROVE  WantInv'
<1>0. MailInv' /\ RowTypeOK /\ SlotTypeOK /\ ~NoSelection.complete
  BY MailStep, NothingSelected DEF WantInv, MailInv, TypeOK
<1>1. CASE Recipient \/ Api \/ Beat \/ Detect \/ Tick \/ UNCHANGED vars
  <2>1. /\ UNCHANGED <<pc, held, sel>> /\ SuccessStays
        /\ \A d \in Deliveries : check'[d] = check[d] \/ check'[d] = NoSelection
        /\ (\E w \in Workers : pc[w] = "sending") => SameRecipient
    BY <1>1, RecipientOutside DEF slotVars
  <2>2. WholeSelections'
    BY <2>1, <1>0 DEF WantInv, WholeSelections, Whole, SuccessStays, SlotTypeOK
  <2>3. WantHolds'
    BY <2>1 DEF WantInv, WantHolds, Wanted, SameRecipient
  <2> QED
    BY <2>2, <2>3, <1>0 DEF WantInv
<1>2. ASSUME NEW w \in Workers, Execution(w) PROVE WantInv'
  <2>1. /\ OthersStay(w) /\ SelStays(w) /\ SuccessStays
        /\ \A d \in Deliveries : Whole(d, check'[d])
        /\ pc'[w] # "idle" => Whole(held'[w], sel'[w])
        /\ pc'[w] \in {"idle", "prepare"} => ~sel'[w].complete
    BY <1>2, SelectionOfExecution DEF SelectionKept, WantInv, WholeSelections
  <2>2. held' \in [Workers -> Deliveries \cup {0}] /\ \A v \in Workers : pc'[v] # "idle" => held'[v] \in Deliveries
    BY <1>0 DEF MailInv, TypeOK, SlotTypeOK
  <2>3. WholeSelections'
    BY <2>1, <2>2 DEF WantInv, WholeSelections, Whole, SuccessStays, OthersStay, SelStays
  <2>4. WantHolds'
    BY <1>2, SelectionOfExecution DEF SelectionKept, WantInv, WantHolds, Wanted, OthersStay, SelStays, SameRecipient
  <2> QED
    BY <2>3, <2>4, <1>0 DEF WantInv
<1> QED
  BY <1>1, <1>2 DEF Next

(* A message leaves only to a member who is subscribed, from a selection of  *)
(* the whole period under the filter now in force, however often preparation *)
(* was interrupted, repeated or overtaken by a changed preference            *)
(* (digests.prepare_batch, deliver).                                         *)
THEOREM MailReachesSubscriber == Spec => MailToSubscriber
<1>1. Init => WantInv
  <2> SUFFICES ASSUME Init PROVE WantInv
    OBVIOUS
  <2>1. MailInv /\ ~NoSelection.complete
    BY InitMail, NothingSelected
  <2> QED
    BY <2>1 DEF Init, WantInv, WholeSelections, Whole, WantHolds
<1>2. WantInv /\ [Next]_vars => WantInv'
  BY WantStep
<1>3. ASSUME WantInv, [Next]_vars
      PROVE  \A d \in Deliveries : mails'[d] # mails[d] =>
                /\ pref.enabled /\ member
                /\ \E w \in Workers : /\ held[w] = d /\ pc[w] = "sending"
                                     /\ sel[w].complete /\ sel[w].page = Pages
                                     /\ sel[w].print.filter = pref.filter
  <2> TAKE d \in Deliveries
  <2> HAVE mails'[d] # mails[d]
  <2>1. PICK w \in Workers : pc[w] = "sending" /\ held[w] = d
    BY <1>3, Sender DEF WantInv
  <2> QED
    BY <2>1, <1>3 DEF WantInv, WantHolds, Wanted
<1> QED
  BY <1>1, <1>2, <1>3, PTL DEF Spec, MailToSubscriber

-------------------------------------------------------------------------------
(* The alert.  A period ends before it is created and the alert is detected  *)
(* now, so a delivery holds it from its creation or never.                   *)
PeriodsPast ==
    \A d \in Deliveries :
      IF delivery[d].status = "absent" THEN delivery[d] = NoDelivery /\ check[d] = NoSelection
      ELSE NoTime < delivery[d].from /\ delivery[d].until <= now

(* A selection that has read the page of the alert holds it, if the          *)
(* preference and the runtime it was made under show it.                     *)
Reveals(p) == p.filter \notin Hiding /\ ~(p.runtime = "offline" /\ p.filter \in SeverityOnly)
Faithful(d, c) ==
    Covers(d) /\ c.print \in Prints /\ Reveals(c.print) /\ AlertPage <= c.page => c.found
FaithfulSelections ==
    /\ \A d \in Deliveries : Faithful(d, check[d])
    /\ \A w \in Workers : IF pc[w] = "idle" THEN sel[w] = NoSelection ELSE Faithful(held[w], sel[w])

(* A message about to leave names an alert that is not excluded, and one     *)
(* that left has told it.                                                    *)
Names(w) == Covers(held[w]) /\ pref.filter \notin Hiding => sel[w].found
MessagesNameAlert ==
    \A w \in Workers : /\ InSend(w) => Names(w)
                       /\ pc[w] = "sent" /\ sel[w].found => alert.told

Answered == alert.told \/ alert.declined
ClosedIsAnswered == \A d \in Deliveries : Closed(d) /\ Covers(d) => Answered

AlertInv == /\ LeaseInv /\ WantInv
            /\ PeriodsPast /\ FaithfulSelections /\ MessagesNameAlert /\ ClosedIsAnswered

(* What is told or declined stays so, and a row keeps its period.            *)
AnsweredStays == (alert.told => alert'.told) /\ (alert.declined => alert'.declined)
SameSpan(d) == delivery'[d].from = delivery[d].from /\ delivery'[d].until = delivery[d].until

LEMMA NoSelectionIsFaithful ==
    ASSUME NEW d
    PROVE  Faithful(d, NoSelection) /\ NoSelection.page = 0 /\ ~NoSelection.found
BY DigestAssumption DEF Faithful, NoSelection

(* A new delivery: its period is over, its row is queued.                    *)
LEMMA CreatedPeriod ==
    ASSUME TypeOK, NEW d \in Deliveries, NEW end \in 0..MaxTime, end <= now, Create(d, end)
    PROVE  /\ delivery[d].status = "absent" /\ delivery'[d].status = "queued"
           /\ NoTime < delivery'[d].from /\ delivery'[d].until <= now
           /\ \A e \in Deliveries \ {d} : delivery'[e] = delivery[e]
<1>0. RowTypeOK /\ RecipientTypeOK /\ Interval \in Nat \ {0}
  BY DigestAssumption DEF TypeOK
<1>1. NoTime < PeriodStart(end)
  BY <1>0, DigestAssumption DEF PeriodStart, NoTime, RecipientTypeOK, Times
<1>2. delivery'[d] = [status |-> "queued", from |-> PeriodStart(end), until |-> end]
  BY <1>0 DEF Create, RowTypeOK
<1> QED
  BY <1>0, <1>1, <1>2 DEF Create, RowTypeOK

(* The actors other than slots.                                              *)
LEMMA RowsOutside ==
    ASSUME AlertInv, Recipient \/ Api \/ Beat \/ Detect \/ Tick \/ UNCHANGED vars
    PROVE  /\ UNCHANGED slotVars /\ AnsweredStays
           /\ now <= now' /\ now \in Int /\ now' \in Int
           /\ (\E w \in Workers : InSend(w)) => pref'.filter = pref.filter
           /\ \A d \in Deliveries : check'[d] = check[d] \/ check'[d] = NoSelection
           /\ \A d \in Deliveries :
                \/ delivery'[d] = delivery[d]
                \/ /\ delivery[d].status = "absent" /\ delivery'[d].status = "queued"
                   /\ NoTime < delivery'[d].from /\ delivery'[d].until <= now
           /\ alert' = alert \/ (alert.at = NoTime /\ alert'.at = now /\ delivery' = delivery)
<1>0. TypeOK /\ RowTypeOK /\ RecipientTypeOK /\ MailTypeOK /\ now \in 0..MaxTime /\ MaxTime \in Nat
  BY DigestAssumption DEF AlertInv, LeaseInv, MailInv, TypeOK, RecipientTypeOK
<1>1. (\E w \in Workers : InSend(w)) => ~RecipientFree
  BY DigestAssumption DEF AlertInv, LeaseInv, MailInv, SendHolds, RecipientFree
<1>2. CASE (\E f \in Filters : Subscribe(f)) \/ Unsubscribe \/ LoseAccess
  <2>1. /\ UNCHANGED <<now, delivery, check, slotVars, alert>>
        /\ ~(\E w \in Workers : InSend(w))
    BY <1>1, <1>2 DEF Subscribe, Unsubscribe, LoseAccess
  <2> QED
    BY <1>0, <2>1 DEF AnsweredStays
<1>3. CASE EnqueueDue
  <2>1. /\ UNCHANGED <<now, slotVars, alert>> /\ pref.next \in 0..MaxTime /\ pref.next <= now
        /\ ~(\E w \in Workers : InSend(w))
    BY <1>0, <1>1, <1>3 DEF EnqueueDue, RecipientTypeOK
  <2>2. CASE (\E d \in Deliveries : Create(d, pref.next)) /\ UNCHANGED check
    BY <1>0, <2>1, <2>2, CreatedPeriod DEF AnsweredStays
  <2>3. CASE \E d \in Deliveries : Requeue(d)
    <3>1. delivery' = delivery /\ \A d \in Deliveries : check'[d] = check[d] \/ check'[d] = NoSelection
      BY <1>0, <2>3 DEF Requeue, RowTypeOK
    <3> QED
      BY <1>0, <2>1, <3>1 DEF AnsweredStays
  <2> QED
    BY <1>3, <2>2, <2>3 DEF EnqueueDue, Ending
<1>4. ASSUME NEW d \in Deliveries, SendNow(d)
      PROVE  /\ UNCHANGED <<now, slotVars, alert, pref, check>>
             /\ Create(d, now)
  BY <1>4 DEF SendNow
<1>5. CASE \E d \in Deliveries : SendNow(d)
  <2> PICK d \in Deliveries : SendNow(d)
    BY <1>5
  <2>1. /\ delivery[d].status = "absent" /\ delivery'[d].status = "queued"
        /\ NoTime < delivery'[d].from /\ delivery'[d].until <= now
        /\ \A e \in Deliveries \ {d} : delivery'[e] = delivery[e]
    BY <1>0, <1>4, CreatedPeriod
  <2> QED
    BY <1>0, <1>4, <2>1 DEF AnsweredStays
<1>6. CASE \/ \E d \in Deliveries : CancelJob(d) \/ RetryJob(d) \/ Lapse(d) \/ Wake(d) \/ ClaimCancelled(d)
           \/ Tick \/ UNCHANGED vars
  <2>1. UNCHANGED <<delivery, check, pref, slotVars, alert>> /\ now' \in {now, now + 1}
    BY <1>6 DEF CancelJob, RetryJob, Lapse, Wake, ClaimCancelled, Tick, vars, rowVars
  <2> QED
    BY <1>0, <2>1 DEF AnsweredStays
<1>7. CASE Detect
  BY <1>0, <1>7 DEF Detect, rowVars, MailTypeOK, AnsweredStays
<1> QED
  BY <1>2, <1>3, <1>5, <1>6, <1>7 DEF Recipient, Api, Beat

LEMMA AlertOutside ==
    ASSUME AlertInv, Recipient \/ Api \/ Beat \/ Detect \/ Tick \/ UNCHANGED vars
    PROVE  PeriodsPast' /\ FaithfulSelections' /\ MessagesNameAlert' /\ ClosedIsAnswered'
<1>0. RowTypeOK /\ MailTypeOK /\ NoTime \in Int /\ Times \subseteq Int
      /\ \A w \in Workers : pc[w] # "idle" => held[w] \in Deliveries /\ delivery[held[w]].status # "absent"
  BY TimeFacts DEF AlertInv, LeaseInv, MailInv, TypeOK, SlotTypeOK, Booked
<1>1. /\ UNCHANGED <<pc, held, sel>> /\ AnsweredStays
      /\ now <= now' /\ now \in Int /\ now' \in Int
      /\ (\E w \in Workers : InSend(w)) => pref'.filter = pref.filter
      /\ \A d \in Deliveries : check'[d] = check[d] \/ check'[d] = NoSelection
  BY RowsOutside DEF slotVars
<1>2. /\ \A d \in Deliveries :
           \/ delivery'[d] = delivery[d]
           \/ /\ delivery[d].status = "absent" /\ delivery'[d].status = "queued"
              /\ NoTime < delivery'[d].from /\ delivery'[d].until <= now
      /\ alert' = alert \/ (alert.at = NoTime /\ alert'.at = now /\ delivery' = delivery)
  BY RowsOutside
<1>3. /\ \A d \in Deliveries : delivery[d] \in [status: {"absent", "queued", "succeeded", "failed", "skipped"},
                                   from: {NoTime} \cup Times, until: {NoTime} \cup Times]
      /\ \A d \in Deliveries : delivery[d].until \in Int /\ delivery[d].from \in Int
  BY <1>0 DEF RowTypeOK
(* Nothing that was there comes to hold the alert.                           *)
<1>4. ASSUME NEW d \in Deliveries, delivery[d].status # "absent", Covers(d)' PROVE Covers(d)
  <2>1. delivery'[d] = delivery[d] /\ delivery[d].until <= now
    BY <1>2, <1>4 DEF AlertInv, PeriodsPast
  <2> QED
    BY <2>1, <1>1, <1>2, <1>3, <1>4 DEF Covers
<1>5. PeriodsPast'
  <2> SUFFICES ASSUME NEW d \in Deliveries
               PROVE  IF delivery'[d].status = "absent" THEN delivery'[d] = NoDelivery /\ check'[d] = NoSelection
                      ELSE NoTime < delivery'[d].from /\ delivery'[d].until <= now'
    BY DEF PeriodsPast, NoDelivery, NoSelection, NoTime
  <2>1. CASE delivery'[d] = delivery[d]
    <3>1. delivery[d].until <= now => delivery[d].until <= now'
      BY <1>1, <1>3
    <3> QED
      BY <2>1, <3>1, <1>1 DEF AlertInv, PeriodsPast
  <2>2. CASE delivery'[d] # delivery[d]
    <3>1. delivery'[d].status = "queued" /\ NoTime < delivery'[d].from /\ delivery'[d].until <= now
      BY <1>2, <2>2
    <3>2. delivery'[d].until \in Int
      BY MailStep, <1>0 DEF AlertInv, LeaseInv, MailInv, TypeOK, RowTypeOK, Next
    <3> QED
      BY <3>1, <3>2, <1>1
  <2> QED
    BY <2>1, <2>2
<1>6. FaithfulSelections'
  <2>1. ASSUME NEW d \in Deliveries PROVE Faithful(d, check[d])' 
    <3>1. CASE check'[d] = NoSelection
      BY <3>1, DigestAssumption DEF Faithful, NoSelection
    <3>2. CASE check'[d] = check[d] /\ delivery[d].status # "absent"
      BY <3>2, <1>4 DEF AlertInv, FaithfulSelections, Faithful, Reveals
    <3>3. delivery[d].status = "absent" => check[d] = NoSelection
      BY DEF AlertInv, PeriodsPast
    <3> QED
      BY <3>1, <3>2, <3>3, <1>1
  <2>2. ASSUME NEW w \in Workers, pc[w] # "idle" PROVE Faithful(held[w], sel[w])'
    BY <2>2, <1>0, <1>1, <1>4 DEF AlertInv, FaithfulSelections, Faithful, Reveals
  <2> QED
    BY <1>1, <2>1, <2>2 DEF AlertInv, FaithfulSelections
<1>7. MessagesNameAlert'
  <2>1. ASSUME NEW w \in Workers, InSend(w) PROVE Names(w)'
    BY <2>1, <1>0, <1>1, <1>4 DEF AlertInv, MessagesNameAlert, Names, InSend
  <2> QED
    BY <1>1, <2>1 DEF AlertInv, MessagesNameAlert, InSend, AnsweredStays
<1>8. ClosedIsAnswered'
  <2> SUFFICES ASSUME NEW d \in Deliveries, Closed(d)', Covers(d)' PROVE Answered'
    BY DEF ClosedIsAnswered
  <2>1. delivery'[d] = delivery[d] /\ delivery[d].status # "absent" /\ Closed(d)
    BY <1>2 DEF Closed
  <2> QED
    BY <2>1, <1>1, <1>4 DEF AlertInv, ClosedIsAnswered, Answered, AnsweredStays
<1> QED
  BY <1>5, <1>6, <1>7, <1>8

(* What the step of an execution leaves.                                     *)
Answers(w) ==
    /\ OthersStay(w) /\ SelStays(w) /\ AnsweredStays
    /\ now' = now /\ alert'.at = alert.at /\ pref'.filter = pref.filter
    /\ \A d \in Deliveries :
         \/ delivery'[d] = delivery[d]
         \/ /\ d = held[w] /\ pc[w] # "idle" /\ SameSpan(d) /\ delivery'[d].status # "absent"
            /\ Closed(d)' /\ Covers(d) => Answered'
    /\ \A d \in Deliveries :
         \/ check'[d] = check[d]
         \/ d = held[w] /\ pc[w] # "idle" /\ Faithful(d, check'[d])
    /\ IF pc'[w] = "idle" THEN sel'[w] = NoSelection ELSE Faithful(held'[w], sel'[w])
    /\ InSend(w)' /\ Covers(held'[w]) /\ pref.filter \notin Hiding => sel'[w].found
    /\ pc'[w] = "sent" /\ sel'[w].found => alert'.told

LEMMA AnswersSuffice ==
    ASSUME AlertInv, NEW w \in Workers, Answers(w), TypeOK'
    PROVE  PeriodsPast' /\ FaithfulSelections' /\ MessagesNameAlert' /\ ClosedIsAnswered'
<1>0. /\ \A v \in Workers : pc[v] # "idle" => held[v] \in Deliveries /\ delivery[held[v]].status # "absent"
      /\ \A v \in Workers : pc'[v] # "idle" => held'[v] \in Deliveries
  BY DEF AlertInv, LeaseInv, MailInv, TypeOK, SlotTypeOK, Booked
<1>1. \A d \in Deliveries : delivery'[d] # delivery[d] => delivery[d].status # "absent" /\ delivery'[d].status # "absent"
  BY <1>0 DEF Answers
<1>2. \A d \in Deliveries : SameSpan(d) /\ (Covers(d)' <=> Covers(d))
  BY DEF Answers, SameSpan, Covers
<1>3. PeriodsPast'
  <2> SUFFICES ASSUME NEW d \in Deliveries
               PROVE  IF delivery'[d].status = "absent" THEN delivery'[d] = NoDelivery /\ check'[d] = NoSelection
                      ELSE NoTime < delivery'[d].from /\ delivery'[d].until <= now'
    BY DEF PeriodsPast, NoDelivery, NoSelection, NoTime
  <2>1. CASE delivery[d].status = "absent"
    <3>1. delivery'[d] = delivery[d] /\ check'[d] = check[d]
      BY <2>1, <1>0, <1>1 DEF Answers
    <3> QED
      BY <2>1, <3>1 DEF AlertInv, PeriodsPast
  <2>2. CASE delivery[d].status # "absent"
    BY <2>2, <1>1, <1>2 DEF AlertInv, PeriodsPast, Answers, SameSpan
  <2> QED
    BY <2>1, <2>2
<1>4. FaithfulSelections'
  <2>1. ASSUME NEW d \in Deliveries PROVE Faithful(d, check[d])'
    BY <1>2 DEF Answers, AlertInv, FaithfulSelections, Faithful, Reveals
  <2>2. ASSUME NEW v \in Workers, v # w
        PROVE  IF pc'[v] = "idle" THEN sel'[v] = NoSelection ELSE Faithful(held[v], sel[v])'
    BY <2>2, <1>0, <1>2 DEF Answers, OthersStay, SelStays, AlertInv, FaithfulSelections, Faithful, Reveals
  <2>3. IF pc'[w] = "idle" THEN sel'[w] = NoSelection ELSE Faithful(held[w], sel[w])'
    BY <1>0, <1>2 DEF Answers, Faithful, Reveals
  <2> QED
    BY <2>1, <2>2, <2>3 DEF FaithfulSelections, NoSelection
<1>5. MessagesNameAlert'
  <2>1. ASSUME NEW v \in Workers, InSend(v)' PROVE Names(v)'
    BY <2>1, <1>0, <1>2 DEF Answers, OthersStay, SelStays, AlertInv, MessagesNameAlert, Names, InSend
  <2>2. ASSUME NEW v \in Workers, pc'[v] = "sent", sel'[v].found PROVE alert'.told
    BY <2>2 DEF Answers, OthersStay, SelStays, AnsweredStays, AlertInv, MessagesNameAlert
  <2> QED
    BY <2>1, <2>2 DEF MessagesNameAlert
<1>6. ClosedIsAnswered'
  BY <1>2 DEF Answers, AnsweredStays, AlertInv, ClosedIsAnswered, Answered, Closed
<1> QED
  BY <1>3, <1>4, <1>5, <1>6

(* A page read under the preference and runtime of the selection keeps it    *)
(* faithful.                                                                 *)
LEMMA ScannedIsFaithful ==
    ASSUME TypeOK, NEW d \in Deliveries, NEW r \in Runtimes, Faithful(d, check[d])
    PROVE  Faithful(d, Scanned(d, Resumed(check[d], r), r))
<1> DEFINE b == Resumed(check[d], r)
<1>0. check[d] \in Selection /\ Pages \in Nat \ {0} /\ AlertPage \in 1..Pages
  BY DigestAssumption DEF TypeOK, RowTypeOK
<1>1. b \in [page: 0..Pages, found: BOOLEAN, print: Prints \cup {NoPrint}, complete: BOOLEAN]
  <2>1. CurrentPrint(r) \in Prints
    BY DEF CurrentPrint, Prints, TypeOK, RecipientTypeOK
  <2> QED
    BY <2>1, <1>0, NothingSelected DEF Resumed, Selection, Checkpoint
<1>2. b.print.filter = pref.filter /\ b.print.runtime = r
  BY <1>0, NothingSelected DEF Resumed, CurrentPrint, NoSelection, Selection, Checkpoint
<1>3. Faithful(d, b)
  BY <1>0 DEF Faithful, Resumed, NoSelection
<1> HIDE DEF b
<1>4. Covers(d) /\ Reveals(b.print) => Shown(d, r)
  BY <1>2 DEF Reveals, Shown
<1>5. CASE b.complete \/ delivery[d].status = "succeeded" \/ ~pref.enabled
  BY <1>1, <1>3, <1>5 DEF Scanned, Faithful, b
<1>6. CASE ~(b.complete \/ delivery[d].status = "succeeded" \/ ~pref.enabled)
  <2> DEFINE f == b.found \/ (b.page + 1 = AlertPage /\ Shown(d, r))
  <2>1. Scanned(d, b, r) = [b EXCEPT !.page = b.page + 1, !.found = f, !.complete = (b.page + 1 = Pages)]
    BY <1>6 DEF Scanned
  <2>2. Covers(d) /\ b.print \in Prints /\ Reveals(b.print) /\ AlertPage <= b.page + 1 => f
    BY <1>0, <1>1, <1>3, <1>4 DEF Faithful
  <2> HIDE DEF f
  <2>3. /\ Scanned(d, b, r).page = b.page + 1 /\ Scanned(d, b, r).found = f
        /\ Scanned(d, b, r).print = b.print
    BY <1>1, <2>1
  <2> QED
    BY <2>2, <2>3 DEF Faithful, b
<1> QED
  BY <1>5, <1>6

(* Steps that write neither the delivery nor its checkpoint.                 *)
LEMMA QuietAnswers ==
    ASSUME AlertInv, NEW w \in Workers, UNCHANGED <<now, pref, delivery, check, alert>>,
           OthersStay(w), SelStays(w), ~InSend(w)',
           \/ sel'[w] = NoSelection
           \/ sel'[w] = sel[w] /\ held'[w] = held[w] /\ pc[w] # "idle" /\ pc'[w] # "idle"
    PROVE  Answers(w)
<1>1. IF pc'[w] = "idle" THEN sel'[w] = NoSelection ELSE Faithful(held'[w], sel'[w])
  BY NoSelectionIsFaithful DEF AlertInv, FaithfulSelections
<1> QED
  BY <1>1 DEF Answers, AnsweredStays, InSend

(* Steps that end with the delivery closed, deferred or failed.              *)
LEMMA ClosingAnswers ==
    ASSUME AlertInv, NEW w \in Workers, pc[w] # "idle",
           NEW status \in {"queued", "failed", "skipped", "succeeded"}, Close(held[w], status),
           UNCHANGED <<now, check>>, pref'.filter = pref.filter, alert'.at = alert.at, AnsweredStays,
           Leave(w) \/ Turn(w, "delivered") \/ Turn(w, "raise"),
           status \in {"skipped", "succeeded"} /\ Covers(held[w]) => Answered'
    PROVE  Answers(w)
<1>0. TypeOK /\ RowTypeOK /\ held[w] \in Deliveries
  BY DEF AlertInv, LeaseInv, MailInv, TypeOK, SlotTypeOK
<1>1. OthersStay(w) /\ SelStays(w) /\ sel'[w] = NoSelection /\ ~InSend(w)' /\ pc'[w] # "sent"
  BY <1>0, SlotMoved, SelectionMoved DEF InSend, Labels
<1>2. /\ SameSpan(held[w]) /\ delivery'[held[w]].status = status
      /\ \A d \in Deliveries \ {held[w]} : delivery'[d] = delivery[d]
  BY <1>0 DEF Close, RowTypeOK, SameSpan
<1>3. \A d \in Deliveries :
         \/ delivery'[d] = delivery[d]
         \/ /\ d = held[w] /\ pc[w] # "idle" /\ SameSpan(d) /\ delivery'[d].status # "absent"
            /\ Closed(d)' /\ Covers(d) => Answered'
  BY <1>2 DEF Closed
<1> QED
  BY <1>1, <1>3, NoSelectionIsFaithful DEF Answers

LEMMA Declined ==
    ASSUME MailTypeOK, NEW d \in Deliveries, Decline(d)
    PROVE  /\ AnsweredStays /\ alert'.at = alert.at
           /\ Covers(d) /\ (~pref.enabled \/ pref.filter \in Hiding) => Answered'
BY DEF MailTypeOK, Decline, AnsweredStays, Answered

LEMMA MarkRaised ==
    ASSUME RecipientTypeOK, NEW d, RaiseMark(d)
    PROVE  pref'.filter = pref.filter
BY DEF RecipientTypeOK, RaiseMark

LEMMA ExecutionAnswers ==
    ASSUME AlertInv, NEW w \in Workers, Execution(w)
    PROVE  Answers(w)
<1> USE DEF Labels
<1>0. /\ TypeOK /\ RowTypeOK /\ SlotTypeOK /\ MailTypeOK /\ RecipientTypeOK
      /\ OthersStay(w) /\ SelStays(w)
  BY SelectionOfExecution DEF SelectionKept, AlertInv, WantInv, MailInv, TypeOK
<1>a. pc[w] # "idle" => /\ held[w] \in Deliveries /\ Faithful(held[w], sel[w])
                        /\ delivery[held[w]].status # "absent"
  BY <1>0 DEF SlotTypeOK, AlertInv, FaithfulSelections, LeaseInv, Booked
<1>1. CASE \E d \in Deliveries : Claim(w, d)
  <2> PICK d \in Deliveries : Claim(w, d)
    BY <1>1
  <2>1. /\ UNCHANGED <<now, pref, delivery, check, alert, sel>> /\ pc[w] = "idle" /\ pc'[w] = "prepare"
    BY <1>0 DEF Claim, At, SlotTypeOK
  <2>2. sel'[w] = NoSelection
    BY <2>1 DEF AlertInv, FaithfulSelections
  <2> QED
    BY <2>1, <2>2, <1>0, QuietAnswers DEF InSend
<1>2. CASE \/ PrepareLost(w) \/ PrepareCancelled(w) \/ Mark(w) \/ DeliverLost(w) \/ DeliverCancelled(w)
           \/ FindSent(w) \/ Complete(w) \/ Abandon(w) \/ Fail(w) \/ Crash(w)
           \/ \E r \in Runtimes : PrepareFails(w, r) \/ DeliverFails(w, r)
  <2>1. /\ UNCHANGED <<now, pref, delivery, check, alert>> /\ pc[w] # "idle"
        /\ \/ Leave(w)
           \/ \E label \in Labels \ {"idle", "sending", "sent"} :
                Turn(w, label) \/ (At(w, label) /\ UNCHANGED <<held, sel>>)
    BY <1>2 DEF PrepareLost, PrepareCancelled, PrepareFails, PrepareOwned, PrepareStep, Mark,
                DeliverLost, DeliverCancelled, FindSent, DeliverFails, Deliverable, DeliverOwned, DeliverStep,
                Complete, Abandon, Fail, EndStep, Crash, rowVars
  <2>2. CASE Leave(w) \/ \E label \in Labels \ {"idle", "sending", "sent"} : Turn(w, label)
    <3>1. sel'[w] = NoSelection /\ ~InSend(w)'
      BY <2>2, <1>0, SlotMoved, SelectionMoved DEF InSend
    <3> QED
      BY <2>1, <3>1, <1>0, QuietAnswers
  <2>3. CASE \E label \in Labels \ {"idle", "sending", "sent"} : At(w, label) /\ UNCHANGED <<held, sel>>
    <3>1. ~InSend(w)' /\ pc'[w] # "idle"
      BY <2>3, <1>0, SlotMoved DEF InSend
    <3> QED
      BY <2>1, <2>3, <3>1, <1>0, QuietAnswers
  <2> QED
    BY <2>1, <2>2, <2>3
<1>3. ASSUME NEW r \in Runtimes, Prepare(w, r) PROVE Answers(w)
  <2> DEFINE c == Scanned(held[w], Resumed(check[held[w]], r), r)
  <2>1. /\ UNCHANGED <<now, pref, delivery, alert>> /\ pc[w] = "prepare" /\ check' = [check EXCEPT ![held[w]] = c]
        /\ Leave(w) \/ (At(w, "prepared") /\ sel' = [sel EXCEPT ![w] = c] /\ UNCHANGED held)
    BY <1>3 DEF Prepare, PrepareOwned, PrepareStep
  <2>2. Faithful(held[w], c)
    BY <1>a, <2>1, <1>0, ScannedIsFaithful DEF AlertInv, FaithfulSelections
  <2> HIDE DEF c
  <2>3. \A d \in Deliveries :
           check'[d] = check[d] \/ (d = held[w] /\ pc[w] # "idle" /\ Faithful(d, check'[d]))
    BY <1>0, <1>a, <2>1, <2>2 DEF RowTypeOK
  <2>4. ~InSend(w)' /\ IF pc'[w] = "idle" THEN sel'[w] = NoSelection ELSE Faithful(held'[w], sel'[w])
    <3>1. CASE Leave(w)
      BY <3>1, <1>0, SlotMoved, SelectionMoved DEF InSend
    <3>2. CASE At(w, "prepared") /\ sel' = [sel EXCEPT ![w] = c] /\ UNCHANGED held
      <4>1. pc'[w] = "prepared" /\ held'[w] = held[w]
        BY <3>2, <1>0, SlotMoved
      <4>2. sel'[w] = c
        BY <3>2, <1>0 DEF SlotTypeOK
      <4> QED
        BY <4>1, <4>2, <2>2 DEF InSend
    <3> QED
      BY <2>1, <3>1, <3>2
  <2> QED
    BY <2>1, <2>3, <2>4, <1>0 DEF Answers, AnsweredStays, InSend
<1>4. CASE FindDisabled(w)
  <2>1. /\ pc[w] # "idle" /\ ~pref.enabled /\ UNCHANGED <<now, pref, check>>
        /\ Close(held[w], "skipped") /\ Decline(held[w]) /\ Turn(w, "delivered")
    BY <1>4 DEF FindDisabled, Deliverable, DeliverOwned, DeliverStep
  <2>2. AnsweredStays /\ alert'.at = alert.at /\ (Covers(held[w]) => Answered')
    BY <2>1, <1>0, <1>a, Declined
  <2> QED
    BY <2>1, <2>2, ClosingAnswers
<1>5. CASE DeferQuiet(w)
  <2>1. /\ pc[w] # "idle" /\ UNCHANGED <<now, pref, check, alert>>
        /\ Close(held[w], "queued") /\ Leave(w)
    BY <1>5 DEF DeferQuiet, Deliverable, DeliverOwned, DeliverStep
  <2> QED
    BY <2>1, ClosingAnswers DEF AnsweredStays
<1>6. CASE SendFails(w)
  <2>1. /\ pc[w] # "idle" /\ UNCHANGED <<now, pref, check>>
        /\ Close(held[w], "failed") /\ Turn(w, "raise")
        /\ alert' = alert \/ alert' = [alert EXCEPT !.told = @ \/ sel[w].found]
    BY <1>6 DEF SendFails, Accept
  <2>2. AnsweredStays /\ alert'.at = alert.at
    BY <2>1, <1>0 DEF AnsweredStays, MailTypeOK
  <2> QED
    BY <2>1, <2>2, ClosingAnswers
(* A message in hand names the alert, or the filter excludes it.             *)
<1>b. InSend(w) /\ Covers(held[w]) /\ ~sel[w].found => pref.filter \in Hiding
  BY DEF AlertInv, MessagesNameAlert, Names
<1>7. CASE HandOver(w)
  <2>1. /\ pc[w] = "sending" /\ UNCHANGED <<now, pref, delivery, check, held, sel>> /\ At(w, "sent")
        /\ alert' = [alert EXCEPT !.told = @ \/ sel[w].found]
    BY <1>7 DEF HandOver, Accept, rowVars
  <2>2. pc'[w] = "sent"
    BY <2>1, <1>0, SlotMoved
  <2>3. AnsweredStays /\ alert'.at = alert.at /\ (sel[w].found => alert'.told)
    BY <2>1, <1>0 DEF AnsweredStays, MailTypeOK
  <2> QED
    BY <2>1, <2>2, <2>3, <1>0, <1>a, <1>b DEF Answers, InSend
<1>8. CASE CommitSent(w)
  <2>1. /\ pc[w] = "sent" /\ UNCHANGED <<now, check>> /\ RaiseMark(held[w])
        /\ Close(held[w], "succeeded") /\ Decline(held[w]) /\ Turn(w, "delivered")
    BY <1>8 DEF CommitSent
  <2>2. AnsweredStays /\ alert'.at = alert.at /\ pref'.filter = pref.filter
    BY <2>1, <1>0, <1>a, Declined, MarkRaised
  <2>3. Covers(held[w]) => Answered'
    <3>1. CASE sel[w].found
      BY <2>1, <2>2, <3>1 DEF AlertInv, MessagesNameAlert, AnsweredStays, Answered
    <3>2. CASE ~sel[w].found
      BY <2>1, <3>2, <1>0, <1>a, <1>b, Declined DEF InSend
    <3> QED
      BY <3>1, <3>2
  <2> QED
    BY <2>1, <2>2, <2>3, ClosingAnswers
<1>9. CASE CommitUnsent(w)
  <2>1. /\ pc[w] = "sending" /\ UNCHANGED <<now, check>> /\ RaiseMark(held[w])
        /\ Close(held[w], "skipped") /\ Turn(w, "delivered")
        /\ IF sel[w].found THEN alert' = [alert EXCEPT !.told = TRUE] ELSE Decline(held[w])
    BY <1>9 DEF CommitUnsent
  <2>2. AnsweredStays /\ alert'.at = alert.at /\ (Covers(held[w]) => Answered')
    <3>1. CASE sel[w].found
      BY <2>1, <3>1, <1>0 DEF AnsweredStays, Answered, MailTypeOK
    <3>2. CASE ~sel[w].found
      BY <2>1, <3>2, <1>0, <1>a, <1>b, Declined DEF InSend
    <3> QED
      BY <3>1, <3>2
  <2>3. pref'.filter = pref.filter
    BY <2>1, <1>0, MarkRaised
  <2> QED
    BY <2>1, <2>2, <2>3, ClosingAnswers
<1>10. ASSUME NEW r \in Runtimes, NEW others \in BOOLEAN, Select(w, r, others) PROVE Answers(w)
  <2>1. /\ pc[w] = "deliver" /\ pref.enabled /\ UNCHANGED <<now, check>> /\ delivery[held[w]].status # "succeeded"
        /\ ~FilterDeferred(r) /\ sel[w].complete /\ sel[w].print = CurrentPrint(r)
    BY <1>10 DEF Select, Deliverable, DeliverOwned, DeliverStep, AlreadySent, Current
  <2>2. /\ CurrentPrint(r) \in Prints /\ CurrentPrint(r).enabled = pref.enabled
        /\ CurrentPrint(r).filter = pref.filter /\ CurrentPrint(r).runtime = r
    BY <1>0 DEF CurrentPrint, Prints, RecipientTypeOK
(* The selection covers every page, the one with the alert among them.       *)
  <2>3. AlertPage <= sel[w].page
    <3>1. Whole(held[w], sel[w])
      BY <2>1 DEF AlertInv, WantInv, WholeSelections
    <3>2. sel[w].page = Pages
      BY <2>1, <2>2, <3>1 DEF Whole
    <3> QED
      BY <3>2, DigestAssumption
  <2>4. Covers(held[w]) /\ pref.filter \notin Hiding => Selected(w, r)
    BY <1>a, <2>1, <2>2, <2>3 DEF Faithful, Reveals, FilterDeferred, Selected, Shown
  <2>5. CASE Close(held[w], "skipped") /\ RaiseMark(held[w]) /\ Decline(held[w]) /\ Turn(w, "delivered") /\ ~Selected(w, r)
    <3>1. AnsweredStays /\ alert'.at = alert.at /\ pref'.filter = pref.filter
      BY <2>1, <2>5, <1>0, <1>a, Declined, MarkRaised
    <3>2. Covers(held[w]) => Answered'
      BY <2>1, <2>4, <2>5, <1>0, <1>a, Declined
    <3> QED
      BY <2>1, <2>5, <3>1, <3>2, ClosingAnswers
  <2>6. CASE /\ At(w, "sending") /\ UNCHANGED <<delivery, pref, held, alert>>
             /\ sel' = [sel EXCEPT ![w].found = Selected(w, r)]
    <3>1. pc'[w] = "sending" /\ held'[w] = held[w]
      BY <2>6, <1>0, SlotMoved
    <3> DEFINE f == Selected(w, r)
    <3>2. Covers(held[w]) /\ pref.filter \notin Hiding => f
      BY <2>4
    <3>3. sel' = [sel EXCEPT ![w].found = f]
      BY <2>6
    <3> HIDE DEF f
    <3>4. sel'[w].found = f /\ sel'[w].print = sel[w].print /\ sel'[w].page = sel[w].page
      BY <3>3, <1>0 DEF SlotTypeOK, Selection, Checkpoint
    <3>5. Faithful(held'[w], sel'[w])
      BY <2>1, <2>2, <3>1, <3>2, <3>4 DEF Faithful, Reveals
    <3> QED
      BY <2>1, <2>6, <3>1, <3>2, <3>4, <3>5, <1>0 DEF Answers, AnsweredStays
  <2> QED
    BY <1>10, <2>5, <2>6 DEF Select
<1> QED
  BY <1>1, <1>2, <1>3, <1>4, <1>5, <1>6, <1>7, <1>8, <1>9, <1>10
     DEF Execution, Preparing, Delivering, Closing

LEMMA AlertStep ==
    ASSUME AlertInv, [Next]_vars
    PROVE  AlertInv'
<1>1. LeaseInv' /\ WantInv' /\ TypeOK'
  BY LeaseStep, WantStep DEF AlertInv, WantInv, MailInv
<1>2. CASE Recipient \/ Api \/ Beat \/ Detect \/ Tick \/ UNCHANGED vars
  BY <1>1, <1>2, AlertOutside DEF AlertInv
<1>3. ASSUME NEW w \in Workers, Execution(w) PROVE AlertInv'
  BY <1>1, <1>3, ExecutionAnswers, AnswersSuffice DEF AlertInv
<1> QED
  BY <1>2, <1>3 DEF Next

(* A closed delivery whose period holds the alert has told it, or the        *)
(* recipient had excluded it by then: no preparation that was interrupted,   *)
(* restarted or taken over, no missing model and no changed filter consumes  *)
(* a period in silence (digests.delivery_runtime, prepare_batch, deliver).   *)
THEOREM NoPeriodIsSilent == Spec => []NoAlertSkipped
<1>1. Init => AlertInv
  <2> SUFFICES ASSUME Init PROVE AlertInv
    OBVIOUS
  <2>1. MailInv /\ ~NoSelection.complete
    BY InitMail, NothingSelected
  <2>2. LeaseInv
    BY <2>1 DEF Init, LeaseInv, Booked, LeaseHolds
  <2>3. WantInv
    BY <2>1 DEF Init, WantInv, WholeSelections, Whole, WantHolds
  <2>4. PeriodsPast /\ ClosedIsAnswered
    BY DEF Init, PeriodsPast, ClosedIsAnswered, Closed, NoDelivery
  <2>5. FaithfulSelections /\ MessagesNameAlert
    BY NoSelectionIsFaithful DEF Init, FaithfulSelections, MessagesNameAlert, InSend
  <2> QED
    BY <2>2, <2>3, <2>4, <2>5 DEF AlertInv
<1>2. AlertInv /\ [Next]_vars => AlertInv'
  BY AlertStep
<1>3. AlertInv => NoAlertSkipped
  BY DEF AlertInv, ClosedIsAnswered, Answered, NoAlertSkipped
<1> QED
  BY <1>1, <1>2, <1>3, PTL DEF Spec
===============================================================================
