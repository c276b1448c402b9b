------------------------- MODULE DigestDeliveryProofs -------------------------
(***************************************************************************)
(* Proofs about DigestDelivery, for any number of deliveries, slots, hosts, *)
(* filters and pages, with every fault and with leases overrun: types, that *)
(* a delivery is mailed once, and that the watermark never rewinds.         *)
(***************************************************************************)
EXTENDS DigestDelivery, TLAPS

LEMMA TimeFacts ==
    /\ 0 \in Times /\ NoTime \in Int /\ Times \subseteq Int
    /\ 0..MaxTime \subseteq Times
    /\ \A t \in 0..MaxTime : t - Interval \in Times
    /\ \A t \in Times : t >= NoTime
BY DigestAssumption DEF Times, NoTime

(* The watermark goes up, and to the end of a period.                        *)
LEMMA RaisedMark ==
    ASSUME NEW mark \in {NoTime} \cup Times, NEW end \in {NoTime} \cup Times
    PROVE  Raised(mark, end) \in {NoTime} \cup Times /\ Raised(mark, end) >= mark
BY TimeFacts DEF Raised

-------------------------------------------------------------------------------
(* Type correctness, part by part.                                           *)

LEMMA RecipientTypes ==
    ASSUME TypeOK, [Next]_vars
    PROVE  RecipientTypeOK'
<1> USE DEF RecipientTypeOK
<1>0. /\ MaxTime \in Nat /\ Interval \in Nat \ {0} /\ now \in 0..MaxTime
      /\ RecipientTypeOK /\ RowTypeOK /\ SlotTypeOK
  BY DigestAssumption DEF TypeOK
<1>1. CASE UNCHANGED <<now, pref, member>>
  BY <1>1, <1>0
<1>2. ASSUME NEW d \in Deliveries, RaiseMark(d), UNCHANGED <<now, member>> PROVE RecipientTypeOK'
  <2>1. Raised(pref.mark, delivery[d].until) \in {NoTime} \cup Times
    BY <1>0, RaisedMark DEF RowTypeOK
  <2> QED
    BY <2>1, <1>2, <1>0 DEF RaiseMark
<1>3. CASE Recipient
  <2>1. now + Interval \in 0..(MaxTime + Interval)
    BY <1>0
  <2>2. ASSUME NEW f \in Filters, Subscribe(f) PROVE RecipientTypeOK'
    BY <2>1, <2>2, <1>0 DEF Subscribe
  <2>3. CASE Unsubscribe \/ LoseAccess
    BY <2>3, <1>0 DEF Unsubscribe, LoseAccess
  <2> QED
    BY <1>3, <2>2, <2>3 DEF Recipient
<1>4. CASE Api
  BY <1>4, <1>1 DEF Api, SendNow, CancelJob, RetryJob
<1>5. CASE EnqueueDue
  <2>1. pref.next \in 0..MaxTime /\ pref.next + Interval \in 0..(MaxTime + Interval)
    BY <1>5, <1>0 DEF EnqueueDue
  <2> QED
    BY <2>1, <1>5, <1>0 DEF EnqueueDue
<1>6. ASSUME NEW d \in Deliveries, Lapse(d) \/ Wake(d) \/ ClaimCancelled(d) PROVE RecipientTypeOK'
  BY <1>6, <1>1 DEF Lapse, Wake, ClaimCancelled
<1>7. ASSUME NEW w \in Workers, Execution(w) PROVE RecipientTypeOK'
  <2>1. CASE \E d \in Deliveries : Claim(w, d)
    BY <2>1, <1>1 DEF Claim
  <2>2. CASE Preparing(w) \/ Mark(w)
    BY <2>2, <1>1 DEF Preparing, PrepareLost, PrepareCancelled, PrepareFails, Prepare, Mark, rowVars
  <2>3. CASE Closing(w)
    BY <2>3, <1>1 DEF Closing, Complete, Abandon, Fail, Crash, rowVars
  <2>4. CASE DeliverLost(w) \/ DeliverCancelled(w) \/ FindSent(w) \/ FindDisabled(w)
             \/ DeferQuiet(w) \/ HandOver(w) \/ SendFails(w) \/ \E r \in Runtimes : DeliverFails(w, r)
    BY <2>4, <1>1 DEF DeliverLost, DeliverCancelled, FindSent, FindDisabled, DeferQuiet, HandOver,
                      SendFails, DeliverFails, rowVars
  <2>5. CASE CommitSent(w) \/ CommitUnsent(w)
    BY <2>5, <1>2, <1>0 DEF CommitSent, CommitUnsent, SlotTypeOK
  <2>6. ASSUME NEW r \in Runtimes, NEW others \in BOOLEAN, Select(w, r, others)
        PROVE  RecipientTypeOK'
    <3>1. held[w] \in Deliveries
      BY <2>6, <1>0 DEF Select, Deliverable, DeliverOwned, DeliverStep, SlotTypeOK
    <3> QED
      BY <3>1, <2>6, <1>1, <1>2 DEF Select
  <2> QED
    BY <1>7, <2>1, <2>2, <2>3, <2>4, <2>5, <2>6 DEF Execution, Delivering
<1>8. CASE Detect \/ Tick
  BY <1>8, <1>0 DEF Detect, Tick, rowVars
<1>9. CASE UNCHANGED vars
  BY <1>9, <1>1 DEF vars, rowVars
<1> QED
  BY <1>3, <1>4, <1>5, <1>6, <1>7, <1>8, <1>9 DEF Next, Beat

(* The updates of a job's row keep it a row.                                 *)
LEMMA JobRows ==
    /\ \A q \in BOOLEAN : Waiting(q) \in JobRow
    /\ \A r \in JobRow :
         /\ \A s \in {"waiting", "running", "succeeded", "failed", "cancelled"}, h \in Hosts \cup {NoHost} :
              /\ [r EXCEPT !.state = s, !.owner = h] \in JobRow
              /\ [r EXCEPT !.state = s, !.owner = h, !.cancel = TRUE] \in JobRow
              /\ [r EXCEPT !.state = s, !.owner = h, !.quiet = FALSE] \in JobRow
         /\ [r EXCEPT !.cancel = TRUE] \in JobRow /\ [r EXCEPT !.quiet = FALSE] \in JobRow
         /\ [r EXCEPT !.cancel = TRUE, !.state = "cancelled"] \in JobRow
BY ZenonT(60) DEF Waiting, JobRow

LEMMA EmptySelection == NoSelection \in Checkpoint /\ NoSelection \in Selection
BY DigestAssumption DEF NoSelection, Selection, Checkpoint

(* A saved selection restarts or goes on by one page.                        *)
LEMMA ScannedSelection ==
    ASSUME NEW d, NEW c \in Selection, NEW r \in Runtimes, RecipientTypeOK
    PROVE  Scanned(d, Resumed(c, r), r) \in Selection
<1>1. Pages \in Nat \ {0}
  BY DigestAssumption
<1>2. NoSelection \in Checkpoint /\ NoSelection \in Selection
  BY EmptySelection
<1>3. CurrentPrint(r) \in Prints
  BY DEF CurrentPrint, Prints, RecipientTypeOK
<1>4. Resumed(c, r) \in Selection
  <2>1. [NoSelection EXCEPT !.print = CurrentPrint(r)] \in Checkpoint
    BY <1>2, <1>3 DEF Checkpoint
  <2>2. [NoSelection EXCEPT !.print = CurrentPrint(r)].page < Pages
    BY <1>1 DEF NoSelection
  <2> QED
    BY <2>1, <2>2 DEF Resumed, Selection
<1>5. ASSUME NEW s \in Selection PROVE Scanned(d, s, r) \in Selection
  <2>0. s \in Checkpoint /\ (s.complete \/ s.page < Pages)
    BY DEF Selection
  <2>1. CASE s.complete \/ delivery[d].status = "succeeded" \/ ~pref.enabled
    <3>1. [s EXCEPT !.complete = TRUE] \in Checkpoint /\ [s EXCEPT !.complete = TRUE].complete
      BY <2>0 DEF Checkpoint
    <3> QED
      BY <2>1, <3>1 DEF Scanned, Selection
  <2>2. CASE ~(s.complete \/ delivery[d].status = "succeeded" \/ ~pref.enabled)
    <3> DEFINE f == s.found \/ (s.page + 1 = AlertPage /\ Shown(d, r))
               n == [s EXCEPT !.page = s.page + 1, !.found = f, !.complete = (s.page + 1 = Pages)]
    <3>1. s.page + 1 \in 0..Pages /\ (s.page + 1 = Pages \/ s.page + 1 < Pages)
      BY <2>0, <2>2, <1>1 DEF Checkpoint
    <3>2. f \in BOOLEAN
      BY <2>0 DEF Checkpoint
    <3>3. Scanned(d, s, r) = n
      BY <2>2 DEF Scanned
    <3> HIDE DEF f
    <3>4. n \in Checkpoint
      BY <2>0, <3>1, <3>2 DEF Checkpoint
    <3>5. n.page = s.page + 1 /\ n.complete = (s.page + 1 = Pages)
      BY <2>0 DEF Checkpoint
    <3> QED
      BY <3>1, <3>3, <3>4, <3>5 DEF Selection
  <2> QED
    BY <2>1, <2>2
<1> QED
  BY <1>4, <1>5

LEMMA RowTypes ==
    ASSUME TypeOK, [Next]_vars
    PROVE  RowTypeOK'
<1> USE DEF RowTypeOK
<1>0. /\ MaxTime \in Nat /\ Interval \in Nat \ {0} /\ now \in 0..MaxTime
      /\ RecipientTypeOK /\ RowTypeOK /\ SlotTypeOK /\ HostOf \in [Workers -> Hosts]
  BY DigestAssumption DEF TypeOK, RecipientTypeOK
<1>1. CASE UNCHANGED <<delivery, job, check>>
  BY <1>1, <1>0
<1>2. ASSUME NEW d \in Deliveries, NEW s \in {"queued", "succeeded", "failed", "skipped"}, Close(d, s),
             UNCHANGED <<job, check>> PROVE RowTypeOK'
  BY <1>2, <1>0 DEF Close
<1>3. ASSUME NEW d \in Deliveries, NEW end \in 0..MaxTime, Create(d, end), UNCHANGED check
      PROVE  RowTypeOK'
  <2>1. PeriodStart(end) \in {NoTime} \cup Times /\ end \in Times
    BY <1>0, TimeFacts DEF PeriodStart, RecipientTypeOK
  <2> QED
    BY <1>3, <2>1, <1>0, JobRows DEF Create
<1>4. CASE Recipient
  BY <1>4, <1>1 DEF Recipient, Subscribe, Unsubscribe, LoseAccess
<1>5. CASE Api
  <2>1. ASSUME NEW d \in Deliveries, SendNow(d) PROVE RowTypeOK'
    BY <2>1, <1>3, <1>0 DEF SendNow
  <2>2. ASSUME NEW d \in Deliveries, CancelJob(d) PROVE RowTypeOK'
    BY <2>2, <1>0, JobRows DEF CancelJob
  <2>3. ASSUME NEW d \in Deliveries, RetryJob(d) PROVE RowTypeOK'
    BY <2>3, <1>0, JobRows DEF RetryJob
  <2> QED
    BY <1>5, <2>1, <2>2, <2>3 DEF Api
<1>6. CASE EnqueueDue
  <2>1. pref.next \in 0..MaxTime
    BY <1>6, <1>0 DEF EnqueueDue, RecipientTypeOK
  <2>2. CASE (\E d \in Deliveries : Create(d, pref.next)) /\ UNCHANGED check
    BY <2>1, <2>2, <1>3
  <2>3. ASSUME NEW d \in Deliveries, Requeue(d) PROVE RowTypeOK'
    BY <2>3, <1>0, EmptySelection, JobRows DEF Requeue
  <2> QED
    BY <1>6, <2>2, <2>3 DEF EnqueueDue, Ending
<1>7. ASSUME NEW d \in Deliveries, Lapse(d) \/ Wake(d) \/ ClaimCancelled(d) PROVE RowTypeOK'
  <2>1. job[d] \in JobRow
    BY <1>0
  <2>2. CASE Lapse(d)
    <3>1. PICK after \in {"waiting", "failed"} :
             job' = [job EXCEPT ![d] = [job[d] EXCEPT !.state = after, !.owner = NoHost]]
      BY <2>2 DEF Lapse
    <3>2. [job[d] EXCEPT !.state = after, !.owner = NoHost] \in JobRow
      BY <2>1 DEF JobRow
    <3> QED
      BY <3>1, <3>2, <2>2, <1>0 DEF Lapse, RowTypeOK
  <2>3. CASE Wake(d)
    BY <2>1, <2>3, <1>0, JobRows DEF Wake
  <2>4. CASE ClaimCancelled(d)
    BY <2>1, <2>4, <1>0, JobRows DEF ClaimCancelled
  <2> QED
    BY <1>7, <2>2, <2>3, <2>4
<1>8. ASSUME NEW w \in Workers, Execution(w) PROVE RowTypeOK'
  <2>0. HostOf[w] \in Hosts
    BY <1>0
  <2>1. ASSUME NEW d \in Deliveries, Claim(w, d) PROVE RowTypeOK'
    BY <2>0, <2>1, <1>0, JobRows DEF Claim
  <2>2. CASE PrepareLost(w) \/ PrepareCancelled(w) \/ (\E r \in Runtimes : PrepareFails(w, r)) \/ Mark(w)
    BY <2>2, <1>1 DEF PrepareLost, PrepareCancelled, PrepareFails, Mark, rowVars
  <2>3. ASSUME NEW r \in Runtimes, Prepare(w, r) PROVE RowTypeOK'
    <3>1. held[w] \in Deliveries
      BY <2>3, <1>0 DEF Prepare, PrepareOwned, PrepareStep, SlotTypeOK
    <3>2. Scanned(held[w], Resumed(check[held[w]], r), r) \in Selection
      BY <3>1, <1>0, ScannedSelection
    <3> QED
      BY <2>3, <3>2, <1>0, JobRows DEF Prepare
  <2>4. CASE Complete(w) \/ Abandon(w) \/ Fail(w)
    <3>1. held[w] \in Deliveries /\ job[held[w]] \in JobRow
      BY <2>4, <1>0 DEF Complete, Abandon, Fail, EndStep, SlotTypeOK
    <3>2. CASE Complete(w)
      BY <3>1, <3>2, <1>0, JobRows DEF Complete
    <3>3. CASE Abandon(w)
      BY <3>1, <3>3, <1>0, JobRows DEF Abandon
    <3>4. CASE Fail(w)
      <4>1. PICK after \in {"cancelled", "waiting", "failed"} :
               job' = [job EXCEPT ![held[w]] =
                         [job[held[w]] EXCEPT !.state = after, !.owner = NoHost, !.quiet = FALSE]]
        BY <3>4 DEF Fail
      <4>2. [job[held[w]] EXCEPT !.state = after, !.owner = NoHost, !.quiet = FALSE] \in JobRow
        BY <3>1 DEF JobRow
      <4> QED
        BY <4>1, <4>2, <3>4, <1>0 DEF Fail, RowTypeOK
    <3> QED
      BY <2>4, <3>2, <3>3, <3>4
  <2>5. CASE Crash(w)
    BY <2>5, <1>1 DEF Crash, rowVars
  <2>6. CASE DeliverLost(w) \/ DeliverCancelled(w) \/ FindSent(w) \/ HandOver(w)
             \/ \E r \in Runtimes : DeliverFails(w, r)
    BY <2>6, <1>1 DEF DeliverLost, DeliverCancelled, FindSent, HandOver, DeliverFails, rowVars
  <2>7. CASE FindDisabled(w) \/ CommitSent(w) \/ CommitUnsent(w) \/ SendFails(w)
    <3>1. held[w] \in Deliveries
      BY <2>7, <1>0 DEF FindDisabled, Deliverable, DeliverOwned, DeliverStep, CommitSent, CommitUnsent,
                        SendFails, SlotTypeOK
    <3> QED
      BY <2>7, <3>1, <1>2 DEF FindDisabled, CommitSent, CommitUnsent, SendFails
  <2>8. CASE DeferQuiet(w)
    BY <2>8, <1>0, JobRows DEF DeferQuiet, Close
  <2>9. ASSUME NEW r \in Runtimes, NEW others \in BOOLEAN, Select(w, r, others) PROVE RowTypeOK'
    <3>1. held[w] \in Deliveries
      BY <2>9, <1>0 DEF Select, Deliverable, DeliverOwned, DeliverStep, SlotTypeOK
    <3> QED
      BY <3>1, <2>9, <1>1, <1>2 DEF Select
  <2> QED
    BY <1>8, <2>1, <2>2, <2>3, <2>4, <2>5, <2>6, <2>7, <2>8, <2>9
       DEF Execution, Preparing, Delivering, Closing
<1>9. CASE Detect \/ Tick
  BY <1>9, <1>1 DEF Detect, Tick, rowVars
<1>10. CASE UNCHANGED vars
  BY <1>10, <1>1 DEF vars, rowVars
<1> QED
  BY <1>4, <1>5, <1>6, <1>7, <1>8, <1>9, <1>10 DEF Next, Beat

Labels == {"idle", "prepare", "prepared", "deliver", "sending", "sent",
           "delivered", "finish", "raise", "abandon"}

(* A slot that goes on, or leaves, keeps the slots typed.                    *)
LEMMA SlotMoves ==
    ASSUME SlotTypeOK, NEW w \in Workers, lock' \in Workers \cup {NoWorker}
    PROVE  /\ Leave(w) => SlotTypeOK'
           /\ \A label \in Labels : pc[w] # "idle" /\ Turn(w, label) => SlotTypeOK'
           /\ \A label \in Labels : pc[w] # "idle" /\ At(w, label) /\ UNCHANGED <<held, sel>> => SlotTypeOK'
<1> USE DEF SlotTypeOK, Labels
<1>1. NoSelection \in Selection
  BY EmptySelection
<1>2. ASSUME Leave(w) PROVE SlotTypeOK'
  BY <1>1, <1>2 DEF Leave, At
<1>3. ASSUME NEW label \in Labels, pc[w] # "idle", Turn(w, label) PROVE SlotTypeOK'
  BY <1>1, <1>3 DEF Turn, At
<1>4. ASSUME NEW label \in Labels, pc[w] # "idle", At(w, label), UNCHANGED <<held, sel>> PROVE SlotTypeOK'
  BY <1>4 DEF At
<1> QED
  BY <1>2, <1>3, <1>4

LEMMA SlotTypes ==
    ASSUME TypeOK, [Next]_vars
    PROVE  SlotTypeOK'
<1>0. RecipientTypeOK /\ RowTypeOK /\ SlotTypeOK /\ lock \in Workers \cup {NoWorker}
  BY DEF TypeOK, SlotTypeOK
<1>1. CASE UNCHANGED slotVars
  BY <1>1, <1>0 DEF SlotTypeOK, slotVars
<1>2. CASE Recipient \/ Api \/ Beat \/ Detect \/ Tick \/ UNCHANGED vars
  BY <1>2, <1>1 DEF Recipient, Subscribe, Unsubscribe, LoseAccess, Api, SendNow, CancelJob, RetryJob,
                    Beat, EnqueueDue, Lapse, Wake, ClaimCancelled, Detect, Tick, vars
<1>3. ASSUME NEW w \in Workers, Execution(w) PROVE SlotTypeOK'
  <2> USE SlotMoves, <1>0 DEF Labels
  <2>1. ASSUME NEW d \in Deliveries, Claim(w, d) PROVE SlotTypeOK'
    BY <2>1 DEF Claim, At, SlotTypeOK
  <2>2. CASE PrepareLost(w) \/ DeliverLost(w) \/ Complete(w) \/ Abandon(w) \/ Fail(w) \/ Crash(w) \/ DeferQuiet(w)
    BY <2>2 DEF PrepareLost, DeliverLost, Complete, Abandon, Fail, Crash, DeferQuiet
  <2>3. CASE PrepareCancelled(w) \/ Mark(w) \/ (\E r \in Runtimes : PrepareFails(w, r)) \/ HandOver(w)
    BY <2>3 DEF PrepareCancelled, PrepareStep, Mark, PrepareFails, PrepareOwned, HandOver
  <2>4. CASE DeliverCancelled(w) \/ FindSent(w) \/ FindDisabled(w) \/ CommitSent(w) \/ CommitUnsent(w)
             \/ SendFails(w) \/ \E r \in Runtimes : DeliverFails(w, r)
    BY <2>4 DEF DeliverCancelled, FindSent, FindDisabled, CommitSent, CommitUnsent, SendFails, DeliverFails,
                Deliverable, DeliverOwned, DeliverStep
  <2>5. ASSUME NEW r \in Runtimes, Prepare(w, r) PROVE SlotTypeOK'
    <3>1. pc[w] = "prepare" /\ held[w] \in Deliveries
      BY <2>5 DEF Prepare, PrepareOwned, PrepareStep, SlotTypeOK
    <3> DEFINE c == Scanned(held[w], Resumed(check[held[w]], r), r)
    <3>2. c \in Selection
      BY <3>1, ScannedSelection DEF RowTypeOK
    <3>3. lock' = lock /\ (Leave(w) \/ (At(w, "prepared") /\ sel' = [sel EXCEPT ![w] = c] /\ held' = held))
      BY <2>5 DEF Prepare
    <3> HIDE DEF c
    <3>4. CASE Leave(w)
      BY <3>3, <3>4
    <3>5. CASE At(w, "prepared") /\ sel' = [sel EXCEPT ![w] = c] /\ held' = held
      BY <3>1, <3>2, <3>3, <3>5 DEF At, SlotTypeOK
    <3> QED
      BY <3>3, <3>4, <3>5
  <2>6. ASSUME NEW r \in Runtimes, NEW others \in BOOLEAN, Select(w, r, others) PROVE SlotTypeOK'
    <3>1. pc[w] = "deliver"
      BY <2>6 DEF Select, Deliverable, DeliverOwned, DeliverStep
    <3>2. Selected(w, r) \in BOOLEAN
      <4>1. sel[w].found \in BOOLEAN
        BY DEF SlotTypeOK, Selection, Checkpoint
      <4> QED
        BY <4>1 DEF Selected, Shown
    <3>3. CASE /\ sel' = [sel EXCEPT ![w].found = Selected(w, r)]
               /\ lock' = w /\ At(w, "sending") /\ held' = held
      <4> DEFINE f == Selected(w, r)
      <4>1. sel[w] \in Selection /\ f \in BOOLEAN
        BY <3>2 DEF SlotTypeOK
      <4> HIDE DEF f
      <4>2. [sel[w] EXCEPT !.found = f] \in Selection
        BY <4>1 DEF Selection, Checkpoint
      <4> QED
        BY <3>1, <3>3, <4>2 DEF At, SlotTypeOK, f
    <3>4. CASE Turn(w, "delivered") /\ lock' = lock
      BY <3>1, <3>4
    <3> QED
      BY <2>6, <3>3, <3>4 DEF Select
  <2> QED
    BY <1>3, <2>1, <2>2, <2>3, <2>4, <2>5, <2>6 DEF Execution, Preparing, Delivering, Closing
<1> QED
  BY <1>2, <1>3 DEF Next

LEMMA MailTypes ==
    ASSUME TypeOK, [Next]_vars
    PROVE  MailTypeOK'
<1> USE DEF MailTypeOK
<1>0. RecipientTypeOK /\ RowTypeOK /\ SlotTypeOK /\ MailTypeOK /\ MaxMails \in Nat
  BY DigestAssumption DEF TypeOK
<1>1. CASE UNCHANGED <<mails, unclear, alert>>
  BY <1>1, <1>0
<1>2. CASE Recipient \/ Api \/ Beat \/ Tick \/ UNCHANGED vars
  BY <1>2, <1>1 DEF Recipient, Subscribe, Unsubscribe, LoseAccess, Api, SendNow, CancelJob, RetryJob,
                    Beat, EnqueueDue, Lapse, Wake, ClaimCancelled, Tick, vars
<1>3. CASE Detect
  BY <1>0, <1>3, TimeFacts DEF Detect, RecipientTypeOK
<1>4. ASSUME NEW w \in Workers, Execution(w) PROVE MailTypeOK'
  <2>0. ASSUME pc[w] # "idle" PROVE held[w] \in Deliveries
    BY <2>0, <1>0 DEF SlotTypeOK
  <2>1. CASE (\E d \in Deliveries : Claim(w, d)) \/ Preparing(w) \/ Mark(w) \/ Complete(w) \/ Abandon(w) \/ Fail(w)
    BY <2>1, <1>1 DEF Claim, Preparing, PrepareLost, PrepareCancelled, PrepareFails, Prepare, Mark,
                      Complete, Abandon, Fail
  <2>2. CASE DeliverLost(w) \/ DeliverCancelled(w) \/ FindSent(w) \/ DeferQuiet(w)
             \/ \E r \in Runtimes : DeliverFails(w, r)
    BY <2>2, <1>1 DEF DeliverLost, DeliverCancelled, FindSent, DeferQuiet, DeliverFails
  <2>3. ASSUME NEW d \in Deliveries, Decline(d) PROVE alert' \in [at: {NoTime} \cup Times, told: BOOLEAN, declined: BOOLEAN]
    BY <2>3, <1>0 DEF Decline
  <2>4. CASE FindDisabled(w) \/ CommitSent(w)
    BY <2>0, <2>3, <2>4, <1>0 DEF FindDisabled, CommitSent, Deliverable, DeliverOwned, DeliverStep
  <2>5. ASSUME NEW r \in Runtimes, NEW others \in BOOLEAN, Select(w, r, others) PROVE MailTypeOK'
    BY <2>0, <2>3, <2>5, <1>0 DEF Select, Deliverable, DeliverOwned, DeliverStep
  <2>6. ASSUME Accept(w), pc[w] # "idle"
        PROVE  /\ mails' \in [Deliveries -> 0..MaxMails]
               /\ alert' \in [at: {NoTime} \cup Times, told: BOOLEAN, declined: BOOLEAN]
    <3>1. sel[w].found \in BOOLEAN
      BY <1>0 DEF SlotTypeOK, Selection, Checkpoint
    <3> QED
      BY <3>1, <2>0, <2>6, <1>0 DEF Accept
  <2>7. CASE HandOver(w)
    BY <2>6, <2>7, <1>0 DEF HandOver
  <2>8. CASE SendFails(w)
    BY <2>0, <2>6, <2>8, <1>0 DEF SendFails
  <2>9. CASE Crash(w)
    BY <2>0, <2>9, <1>0 DEF Crash
  <2>10. CASE CommitUnsent(w)
    BY <2>0, <2>3, <2>10, <1>0 DEF CommitUnsent
  <2> QED
    BY <1>4, <2>1, <2>2, <2>4, <2>5, <2>7, <2>8, <2>9, <2>10 DEF Execution, Delivering, Closing
<1> QED
  BY <1>2, <1>3, <1>4 DEF Next

LEMMA InitTypes ==
    ASSUME Init
    PROVE  TypeOK
<1>1. NoJob \in JobRow
  BY DEF NoJob, Waiting, JobRow
<1>0. 0 \in 0..MaxTime /\ 0 \in 0..MaxMails
  BY DigestAssumption
<1>2. RecipientTypeOK
  BY <1>0 DEF Init, RecipientTypeOK
<1>3. RowTypeOK
  BY <1>1, EmptySelection DEF Init, RowTypeOK, NoDelivery
<1>4. SlotTypeOK
  BY EmptySelection DEF Init, SlotTypeOK
<1>5. MailTypeOK
  BY <1>0 DEF Init, MailTypeOK
<1> QED
  BY <1>2, <1>3, <1>4, <1>5 DEF TypeOK

(* Every state is typed and within its bounds: a selection never runs out of *)
(* pages (prepare_batch), and no slot works on a row that is not there.      *)
THEOREM DigestTypes == Spec => []TypeOK
<1>1. Init => TypeOK
  BY InitTypes
<1>2. TypeOK /\ [Next]_vars => TypeOK'
  BY RecipientTypes, RowTypes, SlotTypes, MailTypes DEF TypeOK
<1> QED
  BY <1>1, <1>2, PTL DEF Spec

(* An older delivery that comes late never rewinds last_sent_at              *)
(* (digests.deliver: max of the stored and the delivered end).               *)
THEOREM WatermarkNeverRewinds == Spec => MarkNeverRewinds
<1>1. ASSUME TypeOK, [Next]_vars PROVE pref'.mark >= pref.mark
  <2>0. /\ RowTypeOK /\ SlotTypeOK /\ RecipientTypeOK
        /\ pref.mark \in {NoTime} \cup Times /\ pref.mark \in Int
    BY <1>1, TimeFacts DEF TypeOK, RecipientTypeOK
  <2>1. CASE pref' = pref
    BY <2>0, <2>1
  <2>2. CASE pref' # pref
    <3>1. ASSUME NEW d \in Deliveries, RaiseMark(d) PROVE pref'.mark >= pref.mark
      <4>1. Raised(pref.mark, delivery[d].until) >= pref.mark
        BY <2>0, RaisedMark DEF RowTypeOK
      <4> QED
        BY <3>1, <4>1, <2>0 DEF RaiseMark, RecipientTypeOK
    <3>2. ASSUME NEW w \in Workers, Execution(w) PROVE pref'.mark >= pref.mark
      <4>1. PICK r \in Runtimes, others \in BOOLEAN : CommitSent(w) \/ CommitUnsent(w) \/ Select(w, r, others)
        BY <2>2, <3>2 DEF Execution, Claim, Preparing, PrepareLost, PrepareCancelled, PrepareFails, Prepare,
              Mark, Closing, Complete, Abandon, Fail, Crash, Delivering, DeliverLost, DeliverCancelled,
              FindSent, FindDisabled, DeferQuiet, HandOver, SendFails, DeliverFails, rowVars, Runtimes
      <4>2. held[w] \in Deliveries /\ RaiseMark(held[w])
        BY <4>1, <2>0, <2>2 DEF CommitSent, CommitUnsent, Select, Deliverable, DeliverOwned, DeliverStep, SlotTypeOK
      <4> QED
        BY <4>2, <3>1
    <3>3. CASE Recipient \/ EnqueueDue
      <4>1. CASE \E f \in Filters : Subscribe(f)
        BY <4>1, <2>0 DEF Subscribe, RecipientTypeOK
      <4>2. CASE Unsubscribe
        BY <4>2, <2>0 DEF Unsubscribe, RecipientTypeOK
      <4>3. CASE EnqueueDue
        BY <4>3, <2>0 DEF EnqueueDue, RecipientTypeOK
      <4> QED
        BY <3>3, <2>2, <4>1, <4>2, <4>3 DEF Recipient, LoseAccess
    <3> QED
      BY <1>1, <2>2, <3>2, <3>3 DEF Next, Beat, Api, SendNow, CancelJob, RetryJob, Lapse, Wake, ClaimCancelled,
            Detect, Tick, vars, rowVars
  <2> QED
    BY <2>1, <2>2
<1> QED
  BY <1>1, DigestTypes, PTL DEF Spec, MarkNeverRewinds

-------------------------------------------------------------------------------
(* A delivery is mailed once.  The invariant: a transaction that is about to *)
(* send or has sent holds the lock on a delivery that nobody has marked sent *)
(* yet, and a message the delivery does not show is either in that           *)
(* transaction or was lost to the database.                                  *)

InSend(w) == pc[w] \in {"sending", "sent"}
SendHolds == \A w \in Workers : InSend(w) => lock = w /\ delivery[held[w]].status # "succeeded"
Pending(d) == \E w \in Workers : pc[w] = "sent" /\ held[w] = d
Accounted ==
    \A d \in Deliveries :
      /\ mails[d] <= 1 + unclear[d]
      /\ delivery[d].status # "succeeded" /\ ~Pending(d) => mails[d] <= unclear[d]
MailInv == TypeOK /\ SendHolds /\ Accounted

KeepsSuccess == \A d \in Deliveries :
                  delivery'[d].status = "succeeded" <=> delivery[d].status = "succeeded"
OthersStay(w) == \A v \in Workers \ {w} : pc'[v] = pc[v] /\ held'[v] = held[v]
Unlocks(w) == lock' = lock \/ (lock = w /\ lock' = NoWorker)

LEMMA SlotMoved ==
    ASSUME TypeOK, NEW w \in Workers
    PROVE  /\ Leave(w) => OthersStay(w) /\ pc'[w] = "idle"
           /\ \A label \in Labels :
                /\ Turn(w, label) => OthersStay(w) /\ pc'[w] = label /\ held'[w] = held[w]
                /\ At(w, label) /\ UNCHANGED held => OthersStay(w) /\ pc'[w] = label /\ held'[w] = held[w]
BY DEF TypeOK, SlotTypeOK, Leave, Turn, At, OthersStay

LEMMA ClosedDelivery ==
    ASSUME TypeOK, NEW d \in Deliveries, NEW status, Close(d, status)
    PROVE  /\ delivery'[d].status = status
           /\ \A e \in Deliveries \ {d} : delivery'[e].status = delivery[e].status
BY DEF TypeOK, RowTypeOK, Close

(* A step that sends nothing, of a slot that had not sent.                   *)
LEMMA QuietStep ==
    ASSUME MailInv, TypeOK', NEW w \in Workers, OthersStay(w), Unlocks(w), KeepsSuccess,
           UNCHANGED <<mails, unclear>>, pc[w] # "sent",
           ~InSend(w)' \/ (pc'[w] = pc[w] /\ held'[w] = held[w] /\ lock' = lock)
    PROVE  SendHolds' /\ Accounted'
<1>0. /\ \A v \in Workers : pc[v] # "idle" => held[v] \in Deliveries
      /\ \A v \in Workers : InSend(v) => held[v] \in Deliveries
  BY DEF MailInv, TypeOK, SlotTypeOK, InSend
<1>1. SendHolds'
  <2> SUFFICES ASSUME NEW v \in Workers, InSend(v)'
               PROVE  lock' = v /\ delivery'[held'[v]].status # "succeeded"
    BY DEF SendHolds
  <2>1. InSend(v) /\ held'[v] = held[v] /\ (v # w \/ lock' = lock)
    BY DEF InSend, OthersStay
  <2>2. lock = v /\ delivery[held[v]].status # "succeeded" /\ held[v] \in Deliveries
    BY <2>1, <1>0 DEF MailInv, SendHolds
  <2> QED
    BY <2>1, <2>2 DEF Unlocks, KeepsSuccess
<1>2. ASSUME NEW d \in Deliveries, Pending(d) PROVE Pending(d)'
  BY <1>2 DEF Pending, OthersStay
<1>3. Accounted'
  BY <1>2 DEF MailInv, Accounted, KeepsSuccess
<1> QED
  BY <1>1, <1>3

LEMMA MailStep ==
    ASSUME MailInv, [Next]_vars
    PROVE  MailInv'
<1>0. TypeOK /\ TypeOK' /\ SlotTypeOK /\ RowTypeOK
  BY RecipientTypes, RowTypes, SlotTypes, MailTypes DEF MailInv, TypeOK
<1>a. /\ \A v \in Workers : pc[v] # "idle" => held[v] \in Deliveries
      /\ \A v \in Workers : InSend(v) => lock = v /\ v # NoWorker /\ held[v] \in Deliveries
                                          /\ delivery[held[v]].status # "succeeded"
  BY <1>0, DigestAssumption DEF SlotTypeOK, InSend, MailInv, SendHolds
<1>b. \A d \in Deliveries : mails[d] \in Int /\ unclear[d] \in Int
  BY <1>0, DigestAssumption DEF TypeOK, MailTypeOK
<1>1. CASE UNCHANGED <<slotVars, mails, unclear>> /\ KeepsSuccess
  <2>1. SendHolds'
    BY <1>1, <1>a DEF SendHolds, InSend, KeepsSuccess, slotVars
  <2>2. Accounted'
    BY <1>1 DEF MailInv, Accounted, Pending, KeepsSuccess, slotVars
  <2> QED
    BY <2>1, <2>2, <1>0 DEF MailInv
<1>2. ASSUME NEW d \in Deliveries, NEW end, Create(d, end) PROVE KeepsSuccess
  BY <1>2, <1>0 DEF Create, RowTypeOK, KeepsSuccess
<1>3. CASE Recipient \/ Api \/ Beat \/ Detect \/ Tick \/ UNCHANGED vars
  <2>1. UNCHANGED <<slotVars, mails, unclear>>
    BY <1>3 DEF Recipient, Subscribe, Unsubscribe, LoseAccess, Api, SendNow, CancelJob, RetryJob,
                Beat, EnqueueDue, Lapse, Wake, ClaimCancelled, Detect, Tick, vars
  <2>2. delivery' = delivery \/ \E d \in Deliveries : Create(d, now) \/ Create(d, pref.next)
    BY <1>3 DEF Recipient, Subscribe, Unsubscribe, LoseAccess, Api, SendNow, CancelJob, RetryJob,
                Beat, EnqueueDue, Requeue, Lapse, Wake, ClaimCancelled, Detect, Tick, vars, rowVars
  <2>3. KeepsSuccess
    BY <2>2, <1>2 DEF KeepsSuccess
  <2> QED
    BY <2>1, <2>3, <1>1
<1>4. ASSUME NEW w \in Workers, Execution(w) PROVE MailInv'
  <2> USE DEF Labels
  <2>1. ASSUME NEW d \in Deliveries, Claim(w, d) PROVE MailInv'
    <3>1. OthersStay(w) /\ pc'[w] = "prepare"
      BY <2>1, <1>0 DEF Claim, At, OthersStay, SlotTypeOK
    <3> QED
      BY <3>1, <2>1, <1>0, QuietStep DEF Claim, Unlocks, KeepsSuccess, InSend, MailInv
  <2>2. CASE Preparing(w) \/ Mark(w) \/ Complete(w) \/ Abandon(w) \/ Fail(w)
             \/ DeliverLost(w) \/ DeliverCancelled(w) \/ FindSent(w) \/ \E r \in Runtimes : DeliverFails(w, r)
    <3>1. /\ UNCHANGED <<delivery, lock, mails, unclear>> /\ pc[w] # "sent"
          /\ \/ Leave(w)
             \/ \E label \in Labels \ {"sending", "sent"} : Turn(w, label) \/ (At(w, label) /\ UNCHANGED held)
      BY <2>2 DEF Preparing, PrepareLost, PrepareCancelled, PrepareFails, Prepare, PrepareOwned, PrepareStep,
                  Mark, Complete, Abandon, Fail, EndStep, DeliverLost, DeliverCancelled, FindSent, DeliverFails,
                  Deliverable, DeliverOwned, DeliverStep, rowVars
    <3>2. OthersStay(w) /\ ~InSend(w)'
      BY <3>1, <1>0, SlotMoved DEF InSend
    <3> QED
      BY <3>1, <3>2, <1>0, QuietStep DEF Unlocks, KeepsSuccess, MailInv
  <2>3. CASE FindDisabled(w) \/ DeferQuiet(w) \/ CommitUnsent(w)
             \/ \E r \in Runtimes, others \in BOOLEAN : Select(w, r, others) /\ Turn(w, "delivered")
    <3>1. /\ UNCHANGED <<mails, unclear>> /\ pc[w] \in {"deliver", "sending"}
          /\ Leave(w) \/ Turn(w, "delivered")
      BY <2>3 DEF FindDisabled, DeferQuiet, CommitUnsent, Select, Deliverable, DeliverOwned, DeliverStep
    <3>2. OthersStay(w) /\ ~InSend(w)'
      BY <3>1, <1>0, SlotMoved DEF InSend
    <3>5. delivery[held[w]].status # "succeeded"
      BY <2>3, <1>a DEF FindDisabled, DeferQuiet, CommitUnsent, Select, Deliverable, AlreadySent, InSend
    <3>6. Unlocks(w)
      <4>1. CASE FindDisabled(w) \/ DeferQuiet(w) \/ CommitUnsent(w)
        BY <4>1, <1>a DEF FindDisabled, DeferQuiet, CommitUnsent, InSend, Unlocks
      <4>2. CASE \E r \in Runtimes, others \in BOOLEAN : Select(w, r, others) /\ Turn(w, "delivered")
        BY <4>2, <3>2, <1>0, SlotMoved DEF Select, Unlocks, InSend
      <4> QED
        BY <2>3, <4>1, <4>2
    <3>3. delivery' = delivery \/ \E s \in {"queued", "skipped"} : Close(held[w], s)
      BY <2>3 DEF FindDisabled, DeferQuiet, CommitUnsent, Select
    <3>4. KeepsSuccess
      BY <3>1, <3>3, <3>5, <1>0, <1>a, ClosedDelivery DEF KeepsSuccess
    <3> QED
      BY <3>1, <3>2, <3>4, <3>6, <1>0, QuietStep DEF MailInv
  <2>4. ASSUME NEW r \in Runtimes, NEW others \in BOOLEAN, Select(w, r, others), At(w, "sending"),
               lock' = w, UNCHANGED <<delivery, held>>
        PROVE  MailInv'
    <3>1. /\ pc[w] = "deliver" /\ lock = NoWorker /\ delivery[held[w]].status # "succeeded"
          /\ UNCHANGED <<mails, unclear>>
      BY <2>4 DEF Select, Deliverable, DeliverOwned, DeliverStep, AlreadySent
    <3>2. OthersStay(w) /\ pc'[w] = "sending" /\ \A v \in Workers : ~InSend(v)
      BY <3>1, <2>4, <1>0, <1>a, SlotMoved
    <3>3. SendHolds'
      BY <3>1, <3>2, <2>4 DEF SendHolds, InSend, OthersStay
    <3>4. \A d \in Deliveries : Pending(d)' = Pending(d)
      BY <3>1, <3>2, <2>4 DEF Pending, OthersStay
    <3> QED
      BY <3>1, <3>3, <3>4, <2>4, <1>0 DEF MailInv, Accounted
  <2>5. ASSUME pc[w] = "sending"
        PROVE  /\ held[w] \in Deliveries /\ lock = w /\ \A v \in Workers \ {w} : ~InSend(v)
               /\ mails[held[w]] <= unclear[held[w]]
    <3>1. held[w] \in Deliveries /\ lock = w /\ delivery[held[w]].status # "succeeded"
          /\ \A v \in Workers \ {w} : ~InSend(v)
      BY <2>5, <1>a DEF InSend
    <3>2. ~Pending(held[w])
      BY <2>5, <3>1 DEF Pending, InSend
    <3> QED
      BY <3>1, <3>2 DEF MailInv, Accounted
  <2>6. CASE HandOver(w)
    <3>1. /\ pc[w] = "sending" /\ pc'[w] = "sent" /\ held'[w] = held[w] /\ OthersStay(w)
          /\ UNCHANGED <<delivery, held, lock, unclear>>
      BY <2>6, <1>0, SlotMoved DEF HandOver, rowVars
    <3>2. \A d \in Deliveries : mails'[d] = IF d = held[w] THEN mails[d] + 1 ELSE mails[d]
      BY <2>6, <1>0 DEF HandOver, Accept, TypeOK, MailTypeOK
    <3>3. SendHolds'
      BY <3>1, <2>5, <1>a DEF SendHolds, InSend, OthersStay
    <3>4. Pending(held[w])' /\ \A d \in Deliveries \ {held[w]} : Pending(d)' = Pending(d)
      BY <3>1 DEF Pending, OthersStay
    <3>5. Accounted'
      BY <3>1, <3>2, <3>4, <2>5, <1>b DEF MailInv, Accounted
    <3> QED
      BY <3>3, <3>5, <1>0 DEF MailInv
  <2>7. ASSUME pc[w] \in {"sending", "sent"}, lock' # w, OthersStay(w), ~InSend(w)' PROVE SendHolds'
    BY <2>7, <1>a DEF SendHolds, InSend, OthersStay
  <2>8. CASE CommitSent(w)
    <3>1. /\ pc[w] = "sent" /\ lock' # w /\ UNCHANGED <<mails, unclear>> /\ Close(held[w], "succeeded")
          /\ OthersStay(w) /\ ~InSend(w)' /\ held[w] \in Deliveries
      BY <2>8, <1>0, <1>a, SlotMoved, DigestAssumption DEF CommitSent, InSend
    <3>2. \A d \in Deliveries \ {held[w]} : Pending(d) => Pending(d)'
      BY <3>1 DEF Pending, OthersStay
    <3>3. Accounted'
      BY <3>1, <3>2, <1>0, ClosedDelivery DEF MailInv, Accounted
    <3> QED
      BY <2>7, <3>1, <3>3, <1>0 DEF MailInv
  <2>9. CASE SendFails(w)
    <3>1. /\ pc[w] = "sending" /\ lock' # w /\ Close(held[w], "failed")
          /\ OthersStay(w) /\ ~InSend(w)'
      BY <2>9, <1>0, SlotMoved, DigestAssumption DEF SendFails, InSend
    <3>2. \/ UNCHANGED <<mails, unclear>>
          \/ \A d \in Deliveries :
                /\ mails'[d] = IF d = held[w] THEN mails[d] + 1 ELSE mails[d]
                /\ unclear'[d] = IF d = held[w] THEN unclear[d] + 1 ELSE unclear[d]
      BY <2>9, <1>0 DEF SendFails, Accept, TypeOK, MailTypeOK
    <3>3. \A d \in Deliveries \ {held[w]} : Pending(d) => Pending(d)'
      BY <3>1 DEF Pending, OthersStay
    <3>4. Accounted'
      BY <3>1, <3>2, <3>3, <2>5, <1>0, <1>b, ClosedDelivery DEF MailInv, Accounted
    <3> QED
      BY <2>7, <3>1, <3>4, <1>0 DEF MailInv
  <2>10. CASE Crash(w)
    <3>1. /\ pc[w] # "idle" /\ Unlocks(w) /\ UNCHANGED <<delivery, mails>> /\ OthersStay(w) /\ ~InSend(w)'
      BY <2>10, <1>0, SlotMoved DEF Crash, Unlocks, InSend, rowVars
    <3>2. CASE pc[w] # "sent"
      BY <3>1, <3>2, <2>10, <1>0, QuietStep DEF Crash, KeepsSuccess, MailInv
    <3>3. CASE pc[w] = "sent"
      <4>1. \A d \in Deliveries : unclear'[d] = IF d = held[w] THEN unclear[d] + 1 ELSE unclear[d]
        BY <3>3, <2>10, <1>0 DEF Crash, TypeOK, MailTypeOK
      <4>2. \A d \in Deliveries \ {held[w]} : Pending(d) => Pending(d)'
        BY <3>1 DEF Pending, OthersStay
      <4>3. Accounted'
        BY <3>1, <4>1, <4>2, <1>b DEF MailInv, Accounted
      <4>4. lock' # w
        BY <3>3, <2>10, <1>a DEF Crash, InSend
      <4> QED
        BY <2>7, <3>1, <3>3, <4>3, <4>4, <1>0 DEF MailInv
    <3> QED
      BY <3>2, <3>3
  <2> QED
    BY <1>4, <2>1, <2>2, <2>3, <2>4, <2>6, <2>8, <2>9, <2>10 DEF Execution, Delivering, Closing, Select
<1> QED
  BY <1>3, <1>4 DEF Next

LEMMA InitMail ==
    ASSUME Init
    PROVE  MailInv
<1>1. TypeOK
  BY InitTypes
<1> QED
  BY <1>1 DEF Init, MailInv, SendHolds, InSend, Accounted

(* Only a slot that sends makes SMTP accept a message, for its delivery.     *)
LEMMA Sender ==
    ASSUME MailInv, [Next]_vars, NEW d \in Deliveries, mails'[d] # mails[d]
    PROVE  \E w \in Workers : pc[w] = "sending" /\ held[w] = d
<1>0. MailTypeOK
  BY DEF MailInv, TypeOK
<1>1. PICK w \in Workers : Execution(w)
  BY DEF Next, Recipient, Subscribe, Unsubscribe, LoseAccess, Api, SendNow, CancelJob, RetryJob,
         Beat, EnqueueDue, Lapse, Wake, ClaimCancelled, Detect, Tick, vars
<1>2. HandOver(w) \/ SendFails(w)
  BY <1>1 DEF Execution, Claim, Preparing, PrepareLost, PrepareCancelled, PrepareFails, Prepare, Mark,
              Closing, Complete, Abandon, Fail, Crash, Delivering, DeliverLost, DeliverCancelled, FindSent,
              FindDisabled, DeferQuiet, CommitSent, CommitUnsent, DeliverFails, Select
<1>3. pc[w] = "sending" /\ mails' = [mails EXCEPT ![held[w]] = @ + 1]
  BY <1>2 DEF HandOver, SendFails, Accept
<1> QED
  BY <1>0, <1>3 DEF MailTypeOK

(* Whatever overtakes, retries or repeats a delivery's job, SMTP accepts its *)
(* message once; another takes a crash or a lost answer after the first      *)
(* (docs/INBOX_READS.md, digests.deliver).                                   *)
THEOREM DeliveryIsMailedOnce == Spec => []MailedOnce
<1>1. Init => MailInv
  BY InitMail
<1>2. MailInv /\ [Next]_vars => MailInv'
  BY MailStep
<1>3. MailInv => MailedOnce
  BY DEF MailInv, Accounted, MailedOnce
<1> QED
  BY <1>1, <1>2, <1>3, PTL DEF Spec
===============================================================================
