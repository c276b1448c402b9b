---------------------------- MODULE DigestDelivery ----------------------------
(***************************************************************************)
(* The e-mail digests of one recipient (digests.py, the digest branch of   *)
(* HelveticLens.execute_job, the digest calls of the API): the preference, *)
(* the deliveries that the schedule and "Send now" create, the paged       *)
(* preparation that a job carries in its checkpoint, and the delivery      *)
(* transaction that hands a message to SMTP before it commits.             *)
(*                                                                         *)
(* The job of a delivery is reduced to what this code asks about it; its   *)
(* outbox, its attempts and its unlocked updates are the subject of        *)
(* DurableJobs.  Here an attempt that fails may or may not be the last.    *)
(*                                                                         *)
(* `alert` is one event, any event, that the recipient is to hear about.   *)
(***************************************************************************)
EXTENDS Integers, FiniteSets

CONSTANTS
    MaxDeliveries, \* bound: delivery rows of a run, numbered as created
    Workers,       \* execution slots
    Hosts,         \* values of socket.gethostname()
    HostOf,        \* the host of each slot
    Filters,       \* severity and source filters a recipient may save
    Hiding,        \* filters that exclude the alert
    SeverityOnly,  \* filters that exclude events without an assessment
    Pages,         \* pages of one period
    AlertPage,     \* the page the alert is on
    Interval,      \* FREQUENCIES[preference.frequency]
    MaxTime,       \* bound: the last instant of a run
    MaxMails,      \* bound: messages SMTP accepts for one delivery
    Transports,    \* values settings.auth_email_mode takes over deployments
    Requests,      \* what the recipient and the API do in a run
    Faults,        \* faults a run includes
    Overrun,       \* TRUE: an execution may outlive its lease
    NoWorker, NoHost, NoPrint

ASSUME DigestAssumption ==
    /\ MaxDeliveries \in Nat /\ MaxTime \in Nat /\ MaxMails \in Nat
    /\ Interval \in Nat \ {0}
    /\ HostOf \in [Workers -> Hosts]
    /\ NoWorker \notin Workers /\ NoHost \notin Hosts
    /\ Hiding \subseteq Filters /\ SeverityOnly \subseteq Filters
    /\ Pages \in Nat \ {0} /\ AlertPage \in 1..Pages
    /\ Transports \subseteq {"smtp", "disabled"}
    /\ Faults \subseteq {"crash", "refusal", "ambiguity"}
    /\ Requests \subseteq {"subscribe", "unsubscribe", "leave", "send", "cancel", "retry"}
    /\ Overrun \in BOOLEAN

VARIABLES
    now,      \* the clock
    pref,     \* the recipient's DigestPreference row
    member,   \* the account is active and belongs to the organization
    delivery, \* DigestDelivery rows
    job,      \* the durable job of each delivery
    check,    \* payload["checkpoint"] of each job
    pc,       \* what an execution slot is doing
    held,     \* the delivery it works on
    sel,      \* the selection it carries from preparation to delivery
    lock,     \* the slot whose delivery transaction is open
    mails,    \* messages SMTP accepted for each delivery
    unclear,  \* ... of which the database never learned
    alert     \* when the event was detected; whether its digest told it, or it was declined

rowVars  == <<pref, member, delivery, job, check>>
slotVars == <<pc, held, sel, lock>>
vars == <<now, rowVars, slotVars, mails, unclear, alert>>

Deliveries == 1..MaxDeliveries
NoTime     == -1 - Interval
Times      == (-Interval)..MaxTime
Runtimes   == {"verified", "offline"}

Prints == [enabled: BOOLEAN, filter: Filters, runtime: Runtimes]
Checkpoint == [page: 0..Pages, found: BOOLEAN, print: Prints \cup {NoPrint}, complete: BOOLEAN]
Selection == {c \in Checkpoint : c.complete \/ c.page < Pages}
NoSelection == [page |-> 0, found |-> FALSE, print |-> NoPrint, complete |-> FALSE]

JobRow == [state: {"absent", "waiting", "running", "succeeded", "failed", "cancelled"},
           owner: Hosts \cup {NoHost}, cancel: BOOLEAN, quiet: BOOLEAN]
Waiting(quiet) == [state |-> "waiting", owner |-> NoHost, cancel |-> FALSE, quiet |-> quiet]
NoJob == [Waiting(FALSE) EXCEPT !.state = "absent"]
NoDelivery == [status |-> "absent", from |-> NoTime, until |-> NoTime]

Init ==
    /\ now = 0
    /\ \E f \in Filters :
         pref = [enabled |-> FALSE, filter |-> f, next |-> NoTime, mark |-> NoTime]
    /\ member = TRUE
    /\ delivery = [d \in Deliveries |-> NoDelivery]
    /\ job = [d \in Deliveries |-> NoJob]
    /\ check = [d \in Deliveries |-> NoSelection]
    /\ pc = [w \in Workers |-> "idle"]
    /\ held = [w \in Workers |-> 0]
    /\ sel = [w \in Workers |-> NoSelection]
    /\ lock = NoWorker
    /\ mails = [d \in Deliveries |-> 0]
    /\ unclear = [d \in Deliveries |-> 0]
    /\ alert = [at |-> NoTime, told |-> FALSE, declined |-> FALSE]

-------------------------------------------------------------------------------
(* Locks.  A delivery transaction locks the organization, its job, its       *)
(* delivery, the preference and the recipient; an UPDATE of a locked row     *)
(* waits, SKIP LOCKED passes it over.                                        *)

(* Mutant: the job is read without FOR UPDATE.                               *)
RowFreeAlways(d) == d \in Deliveries
RowFree(d) == \A w \in Workers : lock = w => held[w] # d
(* Mutant: the preference and the recipient are read without FOR UPDATE.     *)
RecipientFreeAlways == TRUE
RecipientFree == lock = NoWorker

-------------------------------------------------------------------------------
(* The recipient and the schedule.                                           *)

Subscribe(f) ==
    /\ RecipientFree
    /\ "subscribe" \in Requests \/ ~pref.enabled
    /\ pref' = [pref EXCEPT !.enabled = TRUE, !.filter = f,
                            !.next = IF pref.enabled /\ pref.next # NoTime THEN @
                                     ELSE now + Interval]
    /\ UNCHANGED <<now, member, delivery, job, check, slotVars, mails, unclear, alert>>

Unsubscribe ==
    /\ RecipientFree
    /\ "unsubscribe" \in Requests
    /\ pref.enabled
    /\ pref' = [pref EXCEPT !.enabled = FALSE, !.next = NoTime]
    /\ UNCHANGED <<now, member, delivery, job, check, slotVars, mails, unclear, alert>>

LoseAccess ==
    /\ RecipientFree
    /\ "leave" \in Requests
    /\ member
    /\ member' = FALSE
    /\ UNCHANGED <<now, pref, delivery, job, check, slotVars, mails, unclear, alert>>

PeriodStart(end) == IF pref.mark = NoTime THEN end - Interval ELSE pref.mark

(* A new delivery row with its job.                                          *)
Create(d, end) ==
    /\ delivery[d].status = "absent"
    /\ \A e \in 1..(d - 1) : delivery[e].status # "absent"
    /\ delivery' = [delivery EXCEPT ![d] =
                      [status |-> "queued", from |-> PeriodStart(end), until |-> end]]
    /\ job' = [job EXCEPT ![d] = Waiting(FALSE)]

Ending(end) == {d \in Deliveries : delivery[d].status # "absent" /\ delivery[d].until = end}

(* POST /api/digests/send.  The pair (preference, period_end) is unique.     *)
SendNow(d) ==
    /\ "send" \in Requests
    /\ pref.enabled
    /\ Ending(now) = {}
    /\ Create(d, now)
    /\ UNCHANGED <<now, pref, member, check, slotVars, mails, unclear, alert>>

(* The idempotency key of an ended job is freed only when it succeeded.      *)
Requeue(d) ==
    /\ job' = IF job[d].state = "succeeded" THEN [job EXCEPT ![d] = Waiting(FALSE)] ELSE job
    /\ check' = IF job[d].state = "succeeded" THEN [check EXCEPT ![d] = NoSelection] ELSE check
    /\ UNCHANGED delivery

(* The scheduler's pass over due preferences (Beat, every minute).           *)
EnqueueDue ==
    /\ RecipientFree
    /\ pref.enabled /\ pref.next # NoTime /\ pref.next <= now
    /\ \/ /\ Ending(pref.next) = {}
          /\ \E d \in Deliveries : Create(d, pref.next)
          /\ UNCHANGED check
       \/ \E d \in Ending(pref.next) : RowFree(d) /\ Requeue(d)
    /\ pref' = [pref EXCEPT !.next = @ + Interval]
    /\ UNCHANGED <<now, member, slotVars, mails, unclear, alert>>

-------------------------------------------------------------------------------
(* The job: claims, leases, cancellation.                                    *)

At(w, label) == pc' = [pc EXCEPT ![w] = label]

(* The execution ends; the slot is free.                                     *)
Leave(w) ==
    /\ At(w, "idle")
    /\ held' = [held EXCEPT ![w] = 0]
    /\ sel' = [sel EXCEPT ![w] = NoSelection]

(* The execution goes on without its selection.                              *)
Turn(w, label) ==
    /\ At(w, label)
    /\ sel' = [sel EXCEPT ![w] = NoSelection]
    /\ UNCHANGED held

Claim(w, d) ==
    /\ pc[w] = "idle"
    /\ RowFree(d)
    /\ job[d].state = "waiting" /\ ~job[d].cancel /\ ~job[d].quiet
    /\ job' = [job EXCEPT ![d] = [@ EXCEPT !.state = "running", !.owner = HostOf[w]]]
    /\ held' = [held EXCEPT ![w] = d]
    /\ At(w, "prepare")
    /\ UNCHANGED <<now, pref, member, delivery, check, sel, lock, mails, unclear, alert>>

(* A cancellation that came while a lost execution was running ends the job.  *)
ClaimCancelled(d) ==
    /\ RowFree(d)
    /\ job[d].state = "waiting" /\ job[d].cancel
    /\ job' = [job EXCEPT ![d] = [@ EXCEPT !.state = "cancelled", !.owner = NoHost]]
    /\ UNCHANGED <<now, pref, member, delivery, check, slotVars, mails, unclear, alert>>

Lost(w) == job[held[w]].state # "running" \/ job[held[w]].owner # HostOf[w]

(* reconcile; the attempts decide between retrying and failed.               *)
Lapse(d) ==
    /\ job[d].state = "running" /\ RowFree(d)
    /\ Overrun \/ \A w \in Workers : held[w] # d
    /\ \E after \in {"waiting", "failed"} :
         job' = [job EXCEPT ![d] = [@ EXCEPT !.state = after, !.owner = NoHost]]
    /\ UNCHANGED <<now, pref, member, delivery, check, slotVars, mails, unclear, alert>>

CancelJob(d) ==
    /\ "cancel" \in Requests
    /\ RowFree(d)
    /\ job[d].state \in {"waiting", "running"}
    /\ job' = [job EXCEPT ![d] =
                 IF @.state = "running" THEN [@ EXCEPT !.cancel = TRUE]
                 ELSE [@ EXCEPT !.cancel = TRUE, !.state = "cancelled"]]
    /\ UNCHANGED <<now, pref, member, delivery, check, slotVars, mails, unclear, alert>>

RetryJob(d) ==
    /\ "retry" \in Requests
    /\ RowFree(d)
    /\ job[d].state \in {"failed", "cancelled"}
    /\ job' = [job EXCEPT ![d] = Waiting(FALSE)]
    /\ UNCHANGED <<now, pref, member, delivery, check, slotVars, mails, unclear, alert>>

(* available_at of a job that waits for the end of quiet hours passes.       *)
Wake(d) ==
    /\ job[d].quiet
    /\ job' = [job EXCEPT ![d] = [@ EXCEPT !.quiet = FALSE]]
    /\ UNCHANGED <<now, pref, member, delivery, check, slotVars, mails, unclear, alert>>

-------------------------------------------------------------------------------
(* Preparation: one page per execution, in one transaction with the yield.   *)

CurrentPrint(r) == [enabled |-> pref.enabled, filter |-> pref.filter, runtime |-> r]

(* Mutant: an unavailable model never defers a digest.                       *)
FilterDeferredNever(r) == r \notin Runtimes
(* severity_filter_deferred: the filter needs assessments nobody can verify. *)
FilterDeferred(r) == r = "offline" /\ pref.filter \in SeverityOnly

Covers(d) == delivery[d].from <= alert.at /\ alert.at < delivery[d].until

(* What the reader shows of the alert under the preference and the runtime.  *)
Shown(d, r) == Covers(d) /\ pref.filter \notin Hiding /\ ~(r = "offline" /\ pref.filter \in SeverityOnly)

Resumed(c, r) == IF c.print = CurrentPrint(r) THEN c
                 ELSE [NoSelection EXCEPT !.print = CurrentPrint(r)]

(* Mutant: a complete selection is scanned on.                               *)
ScannedOn(d, c, r) == [c EXCEPT !.page = @ + 1, !.complete = (c.page + 1 >= Pages)]

Scanned(d, c, r) ==
    IF c.complete \/ delivery[d].status = "succeeded" \/ ~pref.enabled
    THEN [c EXCEPT !.complete = TRUE]
    ELSE [c EXCEPT !.page = @ + 1,
                   !.found = @ \/ (c.page + 1 = AlertPage /\ Shown(d, r)),
                   !.complete = (c.page + 1 = Pages)]

PrepareStep(w) == pc[w] = "prepare" /\ RowFree(held[w])

PrepareLost(w) ==
    /\ PrepareStep(w) /\ Lost(w)
    /\ Leave(w)
    /\ UNCHANGED <<now, rowVars, lock, mails, unclear, alert>>

PrepareCancelled(w) ==
    /\ PrepareStep(w) /\ ~Lost(w) /\ job[held[w]].cancel
    /\ At(w, "abandon")
    /\ UNCHANGED <<now, rowVars, held, sel, lock, mails, unclear, alert>>

PrepareOwned(w) == PrepareStep(w) /\ ~Lost(w) /\ ~job[held[w]].cancel

PrepareFails(w, r) ==
    /\ PrepareOwned(w) /\ (~member \/ FilterDeferred(r))
    /\ At(w, "raise")
    /\ UNCHANGED <<now, rowVars, held, sel, lock, mails, unclear, alert>>

Prepare(w, r) ==
    /\ PrepareOwned(w) /\ member /\ ~FilterDeferred(r)
    /\ LET d == held[w]
           c == Scanned(d, Resumed(check[d], r), r)
       IN  /\ check' = [check EXCEPT ![d] = c]
           /\ IF c.complete
              THEN At(w, "prepared") /\ sel' = [sel EXCEPT ![w] = c] /\ UNCHANGED <<job, held>>
              ELSE Leave(w) /\ job' = [job EXCEPT ![d] = Waiting(FALSE)]
    /\ UNCHANGED <<now, pref, member, delivery, lock, mails, unclear, alert>>

(* mark: a heartbeat that an execution without the lease takes for a         *)
(* cancellation.                                                             *)
Mark(w) ==
    /\ pc[w] \in {"prepared", "delivered"} /\ RowFree(held[w])
    /\ IF Lost(w) \/ job[held[w]].cancel THEN Turn(w, "abandon")
       ELSE /\ At(w, IF pc[w] = "prepared" THEN "deliver" ELSE "finish")
            /\ UNCHANGED <<held, sel>>
    /\ UNCHANGED <<now, rowVars, lock, mails, unclear, alert>>

-------------------------------------------------------------------------------
(* Delivery: one transaction, under the locks, around the SMTP hand-over.    *)

DeliverStep(w) == pc[w] = "deliver" /\ lock = NoWorker

DeliverLost(w) ==
    /\ DeliverStep(w) /\ Lost(w)
    /\ Leave(w)
    /\ UNCHANGED <<now, rowVars, lock, mails, unclear, alert>>

DeliverCancelled(w) ==
    /\ DeliverStep(w) /\ ~Lost(w) /\ job[held[w]].cancel
    /\ Turn(w, "abandon")
    /\ UNCHANGED <<now, rowVars, lock, mails, unclear, alert>>

DeliverOwned(w) == DeliverStep(w) /\ ~Lost(w) /\ ~job[held[w]].cancel

(* Mutant: a delivery that succeeded is delivered again.                     *)
AlreadySentNever(d) == FALSE /\ delivery[d].status = "succeeded"
AlreadySent(d) == delivery[d].status = "succeeded"

FindSent(w) ==
    /\ DeliverOwned(w) /\ AlreadySent(held[w])
    /\ Turn(w, "delivered")
    /\ UNCHANGED <<now, rowVars, lock, mails, unclear, alert>>

Deliverable(w) == DeliverOwned(w) /\ ~AlreadySent(held[w])

Close(d, status) == delivery' = [delivery EXCEPT ![d].status = status]

(* The period is over for an alert the recipient had excluded by then.       *)
Decline(d) ==
    alert' = [alert EXCEPT !.declined =
                @ \/ (Covers(d) /\ (~pref.enabled \/ pref.filter \in Hiding))]

FindDisabled(w) ==
    /\ Deliverable(w) /\ member /\ ~pref.enabled
    /\ Close(held[w], "skipped") /\ Decline(held[w])
    /\ Turn(w, "delivered")
    /\ UNCHANGED <<now, pref, member, job, check, lock, mails, unclear>>

(* Quiet hours put the delivery back in the queue without an attempt.        *)
DeferQuiet(w) ==
    /\ \/ Deliverable(w) /\ member /\ pref.enabled
       \/ pc[w] = "sending"
    /\ Close(held[w], "queued")
    /\ job' = [job EXCEPT ![held[w]] = Waiting(TRUE)]
    /\ lock' = IF lock = w THEN NoWorker ELSE lock
    /\ Leave(w)
    /\ UNCHANGED <<now, pref, member, check, mails, unclear, alert>>

Current(c, r) == c.complete /\ c.print = CurrentPrint(r)

DeliverFails(w, r) ==
    /\ Deliverable(w)
    /\ ~member \/ (pref.enabled /\ (FilterDeferred(r) \/ ~Current(sel[w], r)))
    /\ Turn(w, "raise")
    /\ UNCHANGED <<now, rowVars, lock, mails, unclear, alert>>

(* Mutant: the watermark follows the last commit.                            *)
RaisedToLast(mark, end) == IF mark = end THEN mark ELSE end
Raised(mark, end) == IF mark >= end THEN mark ELSE end
RaiseMark(d) == pref' = [pref EXCEPT !.mark = Raised(@, delivery[d].until)]

Selected(w, r) == sel[w].found /\ Shown(held[w], r)

(* `others`: the selection still holds events besides the alert.             *)
Select(w, r, others) ==
    /\ Deliverable(w) /\ member /\ pref.enabled
    /\ ~FilterDeferred(r) /\ Current(sel[w], r)
    /\ IF Selected(w, r) \/ others
       THEN /\ sel' = [sel EXCEPT ![w].found = Selected(w, r)]
            /\ lock' = w
            /\ At(w, "sending")
            /\ UNCHANGED <<delivery, pref, held, alert>>
       ELSE /\ Close(held[w], "skipped") /\ RaiseMark(held[w]) /\ Decline(held[w])
            /\ Turn(w, "delivered")
            /\ UNCHANGED lock
    /\ UNCHANGED <<now, member, job, check, mails, unclear>>

Accept(w) ==
    /\ mails[held[w]] < MaxMails
    /\ mails' = [mails EXCEPT ![held[w]] = @ + 1]
    /\ alert' = [alert EXCEPT !.told = @ \/ sel[w].found]

HandOver(w) ==
    /\ pc[w] = "sending" /\ "smtp" \in Transports
    /\ Accept(w)
    /\ At(w, "sent")
    /\ UNCHANGED <<now, rowVars, held, sel, lock, unclear>>

CommitSent(w) ==
    /\ pc[w] = "sent"
    /\ Close(held[w], "succeeded") /\ RaiseMark(held[w]) /\ Decline(held[w])
    /\ lock' = NoWorker
    /\ Turn(w, "delivered")
    /\ UNCHANGED <<now, member, job, check, mails, unclear>>

(* E-mail is not configured: the period is closed, its digest is on the web. *)
CommitUnsent(w) ==
    /\ pc[w] = "sending" /\ "disabled" \in Transports
    /\ Close(held[w], "skipped") /\ RaiseMark(held[w])
    /\ IF sel[w].found THEN alert' = [alert EXCEPT !.told = TRUE] ELSE Decline(held[w])
    /\ lock' = NoWorker
    /\ Turn(w, "delivered")
    /\ UNCHANGED <<now, member, job, check, mails, unclear>>

(* The mailer raises: nothing was accepted, or the answer got lost.          *)
SendFails(w) ==
    /\ pc[w] = "sending" /\ "smtp" \in Transports
    /\ \/ "refusal" \in Faults /\ UNCHANGED <<mails, unclear, alert>>
       \/ /\ "ambiguity" \in Faults
          /\ Accept(w)
          /\ unclear' = [unclear EXCEPT ![held[w]] = @ + 1]
    /\ Close(held[w], "failed")
    /\ lock' = NoWorker
    /\ Turn(w, "raise")
    /\ UNCHANGED <<now, pref, member, job, check>>

-------------------------------------------------------------------------------
(* The end of an execution: none of these looks at the lease.                *)

EndStep(w, label) == pc[w] = label /\ RowFree(held[w])

Complete(w) ==
    /\ EndStep(w, "finish")
    /\ job' = [job EXCEPT ![held[w]] =
                 [@ EXCEPT !.state = IF job[held[w]].cancel THEN "cancelled" ELSE "succeeded",
                           !.owner = NoHost, !.quiet = FALSE]]
    /\ Leave(w)
    /\ UNCHANGED <<now, pref, member, delivery, check, lock, mails, unclear, alert>>

Abandon(w) ==
    /\ EndStep(w, "abandon")
    /\ job' = [job EXCEPT ![held[w]] =
                 [@ EXCEPT !.state = "cancelled", !.owner = NoHost, !.cancel = TRUE]]
    /\ Leave(w)
    /\ UNCHANGED <<now, pref, member, delivery, check, lock, mails, unclear, alert>>

Fail(w) ==
    /\ EndStep(w, "raise")
    /\ \E after \in (IF job[held[w]].cancel THEN {"cancelled"} ELSE {"waiting", "failed"}) :
         job' = [job EXCEPT ![held[w]] =
                   [@ EXCEPT !.state = after, !.owner = NoHost, !.quiet = FALSE]]
    /\ Leave(w)
    /\ UNCHANGED <<now, pref, member, delivery, check, lock, mails, unclear, alert>>

(* A killed process: an open transaction rolls back, an accepted message     *)
(* stays accepted.                                                           *)
Crash(w) ==
    /\ "crash" \in Faults
    /\ pc[w] # "idle"
    /\ Leave(w)
    /\ lock' = IF lock = w THEN NoWorker ELSE lock
    /\ unclear' = IF pc[w] = "sent" THEN [unclear EXCEPT ![held[w]] = @ + 1] ELSE unclear
    /\ UNCHANGED <<now, rowVars, mails, alert>>

-------------------------------------------------------------------------------
(* The event is detected, and admitted, now.                                 *)
Detect ==
    /\ alert.at = NoTime
    /\ alert' = [alert EXCEPT !.at = now]
    /\ UNCHANGED <<now, rowVars, slotVars, mails, unclear>>

Tick ==
    /\ now < MaxTime
    /\ now' = now + 1
    /\ UNCHANGED <<rowVars, slotVars, mails, unclear, alert>>

Recipient == (\E f \in Filters : Subscribe(f)) \/ Unsubscribe \/ LoseAccess
Api == \E d \in Deliveries : SendNow(d) \/ CancelJob(d) \/ RetryJob(d)
Beat == EnqueueDue \/ \E d \in Deliveries : Lapse(d) \/ Wake(d) \/ ClaimCancelled(d)
Preparing(w) ==
    \/ PrepareLost(w) \/ PrepareCancelled(w)
    \/ \E r \in Runtimes : PrepareFails(w, r) \/ Prepare(w, r)
Delivering(w) ==
    \/ DeliverLost(w) \/ DeliverCancelled(w) \/ FindSent(w) \/ FindDisabled(w)
    \/ DeferQuiet(w) \/ HandOver(w) \/ CommitSent(w) \/ CommitUnsent(w) \/ SendFails(w)
    \/ \E r \in Runtimes : DeliverFails(w, r) \/ \E others \in BOOLEAN : Select(w, r, others)
Closing(w) == Complete(w) \/ Abandon(w) \/ Fail(w) \/ Crash(w)
Execution(w) ==
    \/ \E d \in Deliveries : Claim(w, d)
    \/ Preparing(w) \/ Mark(w) \/ Delivering(w) \/ Closing(w)

Next == Recipient \/ Api \/ Beat \/ (\E w \in Workers : Execution(w)) \/ Detect \/ Tick

Spec == Init /\ [][Next]_vars

-------------------------------------------------------------------------------
(* Properties.                                                               *)

RecipientTypeOK ==
    /\ now \in 0..MaxTime
    /\ pref \in [enabled: BOOLEAN, filter: Filters,
                 next: {NoTime} \cup 0..(MaxTime + Interval), mark: {NoTime} \cup Times]
    /\ member \in BOOLEAN
RowTypeOK ==
    /\ delivery \in [Deliveries -> [status: {"absent", "queued", "succeeded", "failed", "skipped"},
                                   from: {NoTime} \cup Times, until: {NoTime} \cup Times]]
    /\ job \in [Deliveries -> JobRow]
    /\ check \in [Deliveries -> Selection]
SlotTypeOK ==
    /\ pc \in [Workers -> {"idle", "prepare", "prepared", "deliver", "sending", "sent",
                           "delivered", "finish", "raise", "abandon"}]
    /\ held \in [Workers -> Deliveries \cup {0}]
    /\ \A w \in Workers : pc[w] = "idle" \/ held[w] \in Deliveries
    /\ sel \in [Workers -> Selection]
    /\ lock \in Workers \cup {NoWorker}
MailTypeOK ==
    /\ mails \in [Deliveries -> 0..MaxMails]
    /\ unclear \in [Deliveries -> Nat]
    /\ alert \in [at: {NoTime} \cup Times, told: BOOLEAN, declined: BOOLEAN]

(* Types and bounds; a selection is complete before it runs out of pages     *)
(* (prepare_batch).                                                          *)
TypeOK == RecipientTypeOK /\ RowTypeOK /\ SlotTypeOK /\ MailTypeOK

(* A delivery is mailed once, whatever overtakes, retries or repeats its     *)
(* job; one more message needs a crash or a lost answer after SMTP accepted  *)
(* (docs/INBOX_READS.md, "Durable digest preparation"; digests.deliver).     *)
MailedOnce == \A d \in Deliveries : mails[d] <= 1 + unclear[d]

(* Once every delivery whose period holds the alert is closed, the alert was *)
(* told, or excluded by the preference in force at the end: no preparation *)
(* that was interrupted, restarted or taken over, no missing model and no    *)
(* changed filter consumes a period in silence (digests.delivery_runtime,    *)
(* prepare_batch, deliver).                                                  *)
Closed(d) == delivery[d].status \in {"succeeded", "skipped"}
NoAlertSkipped ==
    (/\ \E d \in Deliveries : Covers(d)
     /\ \A d \in Deliveries : Covers(d) => Closed(d))
    => alert.told \/ alert.declined

(* A message leaves only while its job is running, owned by the host that    *)
(* sends and not to be cancelled (digests.deliver, first lock).              *)
MailUnderLease ==
    [][\A d \in Deliveries : mails'[d] # mails[d] =>
          /\ job[d].state = "running" /\ ~job[d].cancel
          /\ \E w \in Workers : held[w] = d /\ pc[w] = "sending" /\ HostOf[w] = job[d].owner]_vars

(* A message leaves only to a member who is subscribed, from a selection of  *)
(* the whole period under the filter now in force (digests.deliver).         *)
MailToSubscriber ==
    [][\A d \in Deliveries : mails'[d] # mails[d] =>
          /\ pref.enabled /\ member
          /\ \E w \in Workers : /\ held[w] = d /\ pc[w] = "sending"
                               /\ sel[w].complete /\ sel[w].page = Pages
                               /\ sel[w].print.filter = pref.filter]_vars

(* An older delivery that comes late never rewinds last_sent_at              *)
(* (test_late_delivery_never_rewinds_the_last_sent_watermark).               *)
MarkNeverRewinds == [][pref'.mark >= pref.mark]_vars
===============================================================================
