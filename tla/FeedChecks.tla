------------------------------ MODULE FeedChecks ------------------------------
(***************************************************************************)
(* The collection of one monitoring feed: its checks and their durable     *)
(* jobs, the checkpoint a check leaves behind every step, what the next    *)
(* check inherits from it, the originals that become immutable updates and *)
(* their assessment (feed_worker.py, feed_operations.py, feed_api.py).     *)
(*                                                                         *)
(* Every transaction locks the organization row, so each is one action.    *)
(* Between the two transactions of a step the worker holds a copy of the   *)
(* checkpoint and talks to the source.  A lease is the claim that took it  *)
(* (lease_owner, leased_at, attempts): no two share all three, and a slot  *)
(* works on one claim at a time, so that the slot stands for it here.      *)
(* A plan has one question, an original is judged in one piece, and        *)
(* next_check_at only delays a check: a feed is always due.                *)
(***************************************************************************)
EXTENDS Integers, Sequences

CONSTANTS
    Checks,       \* rows of product_feed_checks that still matter, each with its job
    Workers,      \* slots that consume the source queue
    Urls,         \* addresses of originals and of indexes
    Index,        \* those that serve RSS or Atom
    Sources,      \* feed.sources_json: the addresses the user gave
    Pages,        \* what an index or a search may answer
    Cursors,      \* what a search may give to go on with
    Versions,     \* bound: versions of a document
    Portions,     \* portions of an original
    MaxAttempts,  \* settings.job_max_attempts
    MaxMishaps,   \* bound: changes around the feed, crashes, failed calls, early lapses
    Overrun,      \* TRUE: a step may outlive its lease
    None          \* no check, no worker, no cursor

ASSUME FeedAssumption ==
    /\ Index \subseteq Urls /\ Sources \in Seq(Urls) /\ Pages \subseteq Seq(Urls)
    /\ Checks # {} /\ Versions \in Nat \ {0} /\ Portions \in Nat \ {0}
    /\ MaxAttempts \in Nat \ {0}
    /\ MaxMishaps \in Nat /\ Overrun \in BOOLEAN
    /\ None \notin Checks \cup Workers \cup Cursors

VARIABLES
    web,       \* the version each address serves
    feed,      \* product_feeds: status, revision, scope, job_id, cached plan
    owner,     \* its owner is an active administrator of the organization
    job,       \* the job of a check
    check,     \* product_feed_checks: status, and the settings it was made under
    saved,     \* job.payload["checkpoint"]
    receipts,  \* product_feed_checks.receipts_json
    exec,      \* a worker: its step, its copy of the checkpoint, what it fetched
    updates,   \* product_feed_updates, by sequence
    assessed,  \* product_feed_assessments under the settings in force: their updates
    decided,   \* those with a verdict that is not "unavailable"
    mishaps,
    begun      \* history: versions retained, not recorded, since the scope last changed

rowVars == <<job, check, saved, receipts>>
factVars == <<updates, assessed, decided, begun>>
envVars == <<web, owner, mishaps>>
vars == <<rowVars, factVars, envVars, feed, exec>>

NoReading == [version |-> 0, parts |-> 0]
Fresh ==
    [plan |-> FALSE, items |-> Sources, reading |-> NoReading, pending |-> TRUE,
     cursors |-> {}, pages |-> {}, seen |-> {}, retry |-> <<>>, resume |-> <<>>,
     resumed |-> FALSE, turn |-> TRUE, judged |-> 0, gate |-> 0]
NewJob == [state |-> "ready", attempts |-> 0, holder |-> None, fresh |-> FALSE]
NoJob == [NewJob EXCEPT !.state = "absent"]
NoCheck == [status |-> "absent", rev |-> 0, scope |-> 0]
Idle == [pc |-> "idle", check |-> None, state |-> Fresh, doc |-> 0]

(* Rows and slots are alike: any will do.                                    *)
One(S) == CHOOSE x \in S : TRUE

(* The feed has just been created, with its first check.                     *)
Init ==
    LET c == One(Checks) IN
    /\ web = [u \in Urls |-> 1]
    /\ feed = [active |-> TRUE, rev |-> 1, scope |-> 1, check |-> c, plan |-> FALSE]
    /\ owner = TRUE
    /\ job = [d \in Checks |-> IF d = c THEN NewJob ELSE NoJob]
    /\ check = [d \in Checks |-> IF d = c THEN [status |-> "queued", rev |-> 1, scope |-> 1]
                                 ELSE NoCheck]
    /\ saved = [d \in Checks |-> Fresh] /\ receipts = [d \in Checks |-> Fresh]
    /\ exec = [w \in Workers |-> Idle]
    /\ updates = <<>> /\ assessed = {} /\ decided = {}
    /\ mishaps = 0 /\ begun = {}

Live(c) == job[c].state \in {"ready", "running"}
Unfinished(c) == check[c].status \in {"queued", "running"}
(* What goes wrong, and what others change, counts; its undoing does not.    *)
Mishap == mishaps < MaxMishaps /\ mishaps' = mishaps + 1
Edit(undone) == IF undone THEN UNCHANGED mishaps ELSE Mishap

-------------------------------------------------------------------------------
(* Enqueueing a check.                                                       *)

(* A row that nobody works on and nothing is inherited from is forgotten.    *)
Unused == {c \in Checks : c # feed.check /\ ~Live(c) /\ \A w \in Workers : exec[w].check # c}

(* Mutant: an original that is half read is forgotten.                       *)
UnreadTailForgotten(s) == <<>>
(* An original whose first portion was saved goes on where it stopped.       *)
UnreadTail(s) == IF s.reading.version # 0 /\ s.items # <<>>
                 THEN <<[url |-> s.items[1], reading |-> s.reading]>> ELSE <<>>

(* What a new check under these settings takes over from the last one: all   *)
(* of one that failed, or the originals that are not finished.               *)
Inherited(rev, scope, plan, status) ==
    LET last == feed.check
        old == receipts[last]
        same == check[last].scope = scope
        fresh == [Fresh EXCEPT !.plan = plan]
    IN  IF same /\ check[last].rev = rev /\ status = "failed"
        THEN [old EXCEPT !.resume = old.resume \o old.retry, !.retry = <<>>, !.resumed = TRUE]
        ELSE IF same
        THEN [fresh EXCEPT !.resume = old.resume \o UnreadTail(old) \o old.retry]
        ELSE fresh

(* Mutant: the check of a job that failed stays open.                        *)
ClosedNever(c) == check[c].status
(* The check of a job that failed or was cancelled is closed first.          *)
Closed(c) == IF Unfinished(c) THEN job[c].state ELSE check[c].status

(* A new check; its predecessor is closed, and nobody reads its receipts     *)
(* again.                                                                    *)
Enqueued(f, jobs, status) ==
    LET c == One(Unused)
        last == feed.check
        state == Inherited(f.rev, f.scope, f.plan, status)
    IN
    /\ Unused # {}
    /\ feed' = [f EXCEPT !.check = c]
    /\ job' = [jobs EXCEPT ![c] = NewJob]
    /\ check' = [check EXCEPT ![c] = [status |-> "queued", rev |-> f.rev, scope |-> f.scope],
                              ![last] = [check[last] EXCEPT !.status = status]]
    /\ saved' = [saved EXCEPT ![c] = state, ![last] = Fresh]
    /\ receipts' = [receipts EXCEPT ![c] = state, ![last] = Fresh]

(* A live check under the same settings is the one that was asked for.       *)
Enqueue(f) == ~Live(feed.check) /\ Enqueued(f, job, Closed(feed.check))

(* Beat finds the feed due, or a member asks for a check.  next_check_at only*)
(* delays it.                                                                *)
StartCheck ==
    /\ owner /\ feed.active
    /\ Enqueue(feed)
    /\ UNCHANGED <<factVars, envVars, exec>>

-------------------------------------------------------------------------------
(* Changes of the feed, its context and its owner.                           *)

Cancelled(c) == [job EXCEPT ![c] = [NewJob EXCEPT !.state = "cancelled"]]

(* A verdict holds under the settings it was reached under, and an original  *)
(* is carried on within the scope it was discovered in.                      *)
Resettled(scope) ==
    /\ assessed' = {} /\ decided' = {}
    /\ begun' = IF scope = feed.scope THEN begun ELSE {}
    /\ UNCHANGED updates

(* PATCH: a live check is cancelled, the feed is due, and an active feed gets*)
(* a check at once.  The name or the status may change, or the question too. *)
Change(active, scope) ==
    LET last == feed.check
        f == [feed EXCEPT !.active = active, !.rev = feed.rev + 1, !.scope = scope,
                          !.plan = FALSE]
        jobs == IF Live(last) THEN Cancelled(last) ELSE job
        status == IF Live(last) /\ Unfinished(last) THEN "cancelled" ELSE check[last].status
    IN
    /\ Edit(~feed.active /\ active /\ scope = feed.scope) /\ owner
    /\ IF active
       THEN Enqueued(f, jobs, IF Live(last) THEN status ELSE Closed(last))
       ELSE /\ feed' = f /\ job' = jobs
            /\ check' = [check EXCEPT ![last] = [check[last] EXCEPT !.status = status]]
            /\ UNCHANGED <<saved, receipts>>
    /\ Resettled(scope)
    /\ UNCHANGED <<web, owner, exec>>

(* The research a feed learns from changes under it.                         *)
ContextChanges ==
    /\ Edit(FALSE)
    /\ feed' = [feed EXCEPT !.scope = feed.scope + 1, !.plan = FALSE]
    /\ Resettled(feed.scope + 1)
    /\ UNCHANGED <<rowVars, web, owner, exec>>

(* The owner is demoted or leaves, and comes back.                           *)
OwnerChanges ==
    /\ Edit(~owner)
    /\ owner' = ~owner
    /\ UNCHANGED <<rowVars, factVars, feed, web, exec>>

(* The source publishes another version.                                     *)
Publish(u) ==
    /\ u \notin Index /\ web[u] < Versions
    /\ web' = [web EXCEPT ![u] = web[u] + 1]
    /\ UNCHANGED <<rowVars, factVars, feed, owner, mishaps, exec>>

-------------------------------------------------------------------------------
(* The job of a check, as the queue changes it.                              *)

IdleWorkers == {w \in Workers : exec[w].check = None}

Claim(c) ==
    LET w == One(IdleWorkers) IN
    /\ IdleWorkers # {} /\ job[c].state = "ready"
    /\ job' = [job EXCEPT ![c] = [state |-> "running", attempts |-> job[c].attempts + 1,
                                  holder |-> w, fresh |-> TRUE]]
    /\ exec' = [exec EXCEPT ![w] = [Idle EXCEPT !.pc = "claimed", !.check = c]]
    /\ UNCHANGED <<check, saved, receipts, factVars, envVars, feed>>

Alive(c) == \E w \in Workers : exec[w].check = c /\ job[c].holder = w

(* The heartbeat of the claim gets old: the worker is dead.                  *)
Expire(c) ==
    /\ job[c].state = "running" /\ job[c].fresh /\ ~Alive(c)
    /\ job' = [job EXCEPT ![c] = [job[c] EXCEPT !.fresh = FALSE]]
    /\ UNCHANGED <<check, saved, receipts, factVars, envVars, feed, exec>>

(* Or it was suspended, since its calls end before the lease.                *)
ExpireEarly(c) ==
    /\ Overrun /\ Mishap
    /\ job[c].state = "running" /\ job[c].fresh /\ Alive(c)
    /\ job' = [job EXCEPT ![c] = [job[c] EXCEPT !.fresh = FALSE]]
    /\ UNCHANGED <<check, saved, receipts, factVars, feed, exec, web, owner>>

(* Mutant: once more than the maximum.                                       *)
RecoveredOnceMore(c) == IF job[c].attempts <= MaxAttempts THEN "ready" ELSE "failed"
Recovered(c) == IF job[c].attempts < MaxAttempts THEN "ready" ELSE "failed"

Reconcile(c) ==
    /\ job[c].state = "running" /\ ~job[c].fresh
    /\ job' = [job EXCEPT ![c] =
                  [NewJob EXCEPT !.state = Recovered(c), !.attempts = job[c].attempts]]
    /\ UNCHANGED <<check, saved, receipts, factVars, envVars, feed, exec>>

-------------------------------------------------------------------------------
(* What a step may do: _current.                                             *)

(* Mutant: whoever's lease it is.                                            *)
OwnsAnyLease(w) == LET j == job[exec[w].check] IN j.state = "running" /\ j.fresh
Owns(w) ==
    LET j == job[exec[w].check]
    IN  j.state = "running" /\ j.holder = w /\ j.fresh
Permitted(c) ==
    /\ owner /\ feed.active /\ feed.check = c
    /\ check[c].rev = feed.rev /\ check[c].scope = feed.scope
Current(w) == Owns(w) /\ Permitted(exec[w].check)

At(w, pc) == exec[w].pc = pc
Leaves(w) == exec' = [exec EXCEPT ![w] = Idle]
Asks == {"claimed", "plan", "gate", "search", "fetched", "finish"}

(* The lease is lost, or the job was cancelled.                              *)
Lost(w) ==
    /\ exec[w].pc \in Asks /\ ~Owns(w)
    /\ Leaves(w)
    /\ UNCHANGED <<rowVars, factVars, envVars, feed>>

(* The feed is not the one the check was made for.                           *)
Refused(w) ==
    /\ exec[w].pc \in Asks /\ Owns(w) /\ ~Permitted(exec[w].check)
    /\ exec' = [exec EXCEPT ![w] = [exec[w] EXCEPT !.pc = "drop"]]
    /\ UNCHANGED <<rowVars, factVars, envVars, feed>>

Drop(w) ==
    LET c == exec[w].check IN
    /\ At(w, "drop")
    /\ IF job[c].state = "running" /\ job[c].holder = w
       THEN /\ job' = Cancelled(c)
            /\ check' = [check EXCEPT ![c] = [check[c] EXCEPT !.status = "cancelled"]]
       ELSE UNCHANGED <<job, check>>
    /\ Leaves(w)
    /\ UNCHANGED <<saved, receipts, factVars, envVars, feed>>

-------------------------------------------------------------------------------
(* The first transaction of a step: what is to be done next.                 *)

(* Mutant: the newest first.                                                 *)
NextUnassessedNewest(after) ==
    LET open == {i \in DOMAIN updates : i > after /\ i \notin decided}
    IN  IF \E i \in open : \A k \in open : i >= k
        THEN CHOOSE i \in open : \A k \in open : i >= k ELSE 0
(* The oldest update behind the assessment cursor that has no verdict.       *)
NextUnassessed(after) ==
    LET open == {i \in DOMAIN updates : i > after /\ i \notin decided}
    IN  IF \E i \in open : \A k \in open : i <= k
        THEN CHOOSE i \in open : \A k \in open : i <= k ELSE 0

Drained(s) == ~s.pending /\ s.items = <<>> /\ s.resume = <<>>

(* Collection and assessment take turns; an empty list of sources, as it was *)
(* saved, leaves the turn to assessment.                                     *)
NextGate(s) ==
    IF s.plan /\ s.gate = 0 /\ s.reading.version = 0 /\ (s.turn \/ Drained(s))
    THEN [s EXCEPT !.turn = FALSE, !.gate = NextUnassessed(s.judged)] ELSE s

(* Mutant: after all that is new.                                           *)
ResumedLast(s) ==
    IF s.items = <<>> /\ s.resume # <<>>
    THEN [s EXCEPT !.items = <<Head(s.resume).url>>,
                   !.reading = Head(s.resume).reading, !.resume = Tail(s.resume)] ELSE s
(* What an earlier check left is read first.                                 *)
Resumed(s) ==
    IF s.reading.version = 0 /\ s.resume # <<>>
    THEN [s EXCEPT !.items = <<Head(s.resume).url>> \o s.items,
                   !.reading = Head(s.resume).reading, !.resume = Tail(s.resume)] ELSE s

(* Addresses that were seen are passed over.                                 *)
Unseen(s) == {k \in DOMAIN s.items : s.items[k] \notin s.seen}
Ahead(s) ==
    IF s.reading.version # 0 \/ s.items = <<>> THEN s
    ELSE IF \E k \in Unseen(s) : \A l \in Unseen(s) : k <= l
    THEN LET next == CHOOSE k \in Unseen(s) : \A l \in Unseen(s) : k <= l
         IN  [s EXCEPT !.items = SubSeq(s.items, next, Len(s.items))]
    ELSE [s EXCEPT !.items = <<>>]

Prepared(s) == IF s.plan /\ s.gate = 0 THEN Ahead(Resumed(s)) ELSE s
(* Mutant: the search goes first.                                            *)
PhaseSearchFirst(s) ==
    IF ~s.plan THEN "plan" ELSE IF s.gate # 0 THEN "gate" ELSE IF s.pending THEN "search"
    ELSE IF s.items # <<>> THEN "read" ELSE "finish"
Phase(s) ==
    IF ~s.plan THEN "plan" ELSE IF s.gate # 0 THEN "gate" ELSE IF s.items # <<>> THEN "read"
    ELSE IF s.pending THEN "search" ELSE "finish"

Open(w) ==
    LET c == exec[w].check
        s == Prepared(NextGate(saved[c]))
    IN
    /\ At(w, "claimed") /\ Current(w)
    /\ saved' = [saved EXCEPT ![c] = s]
    /\ check' = [check EXCEPT ![c] = [check[c] EXCEPT !.status = "running"]]
    /\ exec' = [exec EXCEPT ![w] = [exec[w] EXCEPT !.pc = Phase(s), !.state = s]]
    /\ UNCHANGED <<job, receipts, factVars, envVars, feed>>

(* The original is fetched, or what was retained of it is read on.           *)
Fetch(w) ==
    LET s == exec[w].state IN
    /\ At(w, "read")
    /\ exec' = [exec EXCEPT ![w] = [exec[w] EXCEPT !.pc = "fetched",
                   !.doc = IF s.reading.version # 0 THEN s.reading.version ELSE web[s.items[1]]]]
    /\ UNCHANGED <<rowVars, factVars, envVars, feed>>

(* No answer, or none that is usable: nothing new is retained.               *)
FetchFails(w) ==
    /\ At(w, "read") /\ Mishap
    /\ exec' = [exec EXCEPT ![w] = [exec[w] EXCEPT !.pc = "fetched", !.doc = 0]]
    /\ UNCHANGED <<rowVars, factVars, feed, web, owner>>

-------------------------------------------------------------------------------
(* The second transaction: the outcome, the checkpoint and the job together. *)

Saves(w, s) ==
    LET c == exec[w].check IN
    /\ Current(w)
    /\ saved' = [saved EXCEPT ![c] = s]
    /\ receipts' = [receipts EXCEPT ![c] = s]
    /\ Leaves(w)

(* yield_batch: the next step starts with all its attempts.                  *)
Yields(w, s) ==
    /\ Saves(w, s)
    /\ job' = [job EXCEPT ![exec[w].check] = NewJob]
    /\ UNCHANGED <<check, web, owner>>

(* A plan that holds is kept for the next checks; without one the search     *)
(* asks the question itself.                                                 *)
PlanMade(w, held) ==
    /\ At(w, "plan")
    /\ Yields(w, [exec[w].state EXCEPT !.plan = TRUE])
    /\ feed' = [feed EXCEPT !.plan = feed.plan \/ held]
    /\ UNCHANGED factVars

Plan(w) == PlanMade(w, TRUE) /\ UNCHANGED mishaps
PlanFails(w) == PlanMade(w, FALSE) /\ Mishap

(* The verdict on an update, or that none could be had.                      *)
Judged(w, verdicts) ==
    LET s == exec[w].state IN
    /\ At(w, "gate")
    /\ Yields(w, [s EXCEPT !.judged = s.gate, !.gate = 0])
    /\ assessed' = assessed \cup {s.gate} /\ decided' = decided \cup verdicts
    /\ UNCHANGED <<updates, begun, feed>>

Judge(w) == Judged(w, {exec[w].state.gate}) /\ UNCHANGED mishaps
JudgeFails(w) == Judged(w, {}) /\ Mishap

(* A page of a search replaces the last; pages and cursors that come again   *)
(* end it.                                                                   *)
Repeated(s, page, next) == next \in s.cursors \/ (page # <<>> /\ page \in s.pages)
Found(w, page, next) ==
    LET s == exec[w].state
        following == IF next # None /\ Repeated(s, page, next) THEN None ELSE next
    IN
    /\ At(w, "search")
    /\ Yields(w, [s EXCEPT !.items = page, !.pending = following # None,
                           !.pages = s.pages \cup {page},
                           !.cursors = s.cursors \cup ({next} \ {None}), !.turn = TRUE])
    /\ UNCHANGED <<factVars, feed>>

Search(w) ==
    /\ UNCHANGED mishaps
    /\ \E page \in Pages, next \in Cursors \cup {None} : Found(w, page, next)
SearchFails(w) == Found(w, <<>>, None) /\ Mishap

Done(s) == [s EXCEPT !.items = Tail(s.items), !.reading = NoReading,
                     !.seen = s.seen \cup {s.items[1]}]

(* A read that fails is left for the next check, with what was retained.     *)
Kept(s, doc) ==
    IF s.reading.version # 0 \/ doc = 0 THEN s.reading ELSE [version |-> doc, parts |-> 0]

Fails(w) ==
    LET s == exec[w].state
        u == s.items[1]
        kept == Kept(s, exec[w].doc)
    IN
    /\ At(w, "fetched")
    /\ Yields(w, [Done(s) EXCEPT !.retry = Append(s.retry, [url |-> u, reading |-> kept])])
    /\ begun' = IF kept.version = 0 THEN begun ELSE begun \cup {<<u, kept.version>>}
    /\ UNCHANGED <<updates, assessed, decided, feed>>

ReadFails(w) == exec[w].doc = 0 /\ Fails(w) /\ UNCHANGED mishaps
Unreadable(w) ==
    /\ exec[w].doc # 0 /\ exec[w].state.items[1] \notin Index
    /\ Fails(w) /\ Mishap

(* An index gives leads, never originals.                                    *)
ReadIndex(w, page) ==
    LET s == exec[w].state IN
    /\ At(w, "fetched") /\ exec[w].doc # 0 /\ s.items[1] \in Index
    /\ Yields(w, [Done(s) EXCEPT !.items = Tail(s.items) \o page])
    /\ UNCHANGED <<factVars, feed, mishaps>>

ReadPortion(w) ==
    LET s == exec[w].state
        parts == s.reading.parts + 1
    IN
    /\ At(w, "fetched") /\ exec[w].doc # 0 /\ s.items[1] \notin Index
    /\ parts < Portions
    /\ Yields(w, [s EXCEPT !.reading = [version |-> exec[w].doc, parts |-> parts]])
    /\ begun' = begun \cup {<<s.items[1], exec[w].doc>>}
    /\ UNCHANGED <<updates, assessed, decided, feed, mishaps>>

(* Only a version that differs from the last one of its address is new.      *)
Unchanged(u, v) ==
    \E i \in DOMAIN updates :
        /\ updates[i] = [url |-> u, version |-> v]
        /\ \A k \in DOMAIN updates : updates[k].url = u => k <= i

RecordOriginal(w) ==
    LET s == exec[w].state
        u == s.items[1]
        v == exec[w].doc
    IN
    /\ At(w, "fetched") /\ exec[w].doc # 0 /\ u \notin Index
    /\ s.reading.parts + 1 = Portions
    /\ Yields(w, [Done(s) EXCEPT !.turn = TRUE])
    /\ IF Unchanged(u, v) THEN UNCHANGED updates
       ELSE updates' = Append(updates, [url |-> u, version |-> v])
    /\ begun' = begun \ {<<u, v>>}
    /\ UNCHANGED <<assessed, decided, feed, mishaps>>

Finish(w) ==
    LET c == exec[w].check IN
    /\ At(w, "finish")
    /\ Saves(w, exec[w].state)
    /\ check' = [check EXCEPT ![c] = [check[c] EXCEPT !.status = "completed"]]
    /\ job' = [job EXCEPT ![c] = [NewJob EXCEPT !.state = "succeeded"]]
    /\ UNCHANGED <<factVars, envVars, feed>>

(* The process dies; its job stays running.                                  *)
Crash(w) ==
    /\ exec[w].check # None /\ Mishap
    /\ Leaves(w)
    /\ UNCHANGED <<rowVars, factVars, feed, web, owner>>

-------------------------------------------------------------------------------
Administrator ==
    \/ ContextChanges \/ OwnerChanges
    \/ \E active \in BOOLEAN, scope \in {feed.scope, feed.scope + 1} : Change(active, scope)

Queue(c) == Expire(c) \/ Reconcile(c)

Remember(w) ==
    \/ Plan(w) \/ Judge(w) \/ Search(w) \/ Finish(w)
    \/ ReadFails(w) \/ ReadPortion(w) \/ RecordOriginal(w)
    \/ \E page \in Pages : ReadIndex(w, page)

Fail(w) == PlanFails(w) \/ JudgeFails(w) \/ SearchFails(w) \/ FetchFails(w) \/ Unreadable(w)

Work(w) == Open(w) \/ Fetch(w) \/ Remember(w) \/ Lost(w) \/ Refused(w) \/ Drop(w)

Next ==
    \/ StartCheck \/ Administrator
    \/ \E u \in Urls : Publish(u)
    \/ \E c \in Checks : Claim(c) \/ Queue(c) \/ ExpireEarly(c)
    \/ \E w \in Workers : Work(w) \/ Fail(w) \/ Crash(w)

Spec == Init /\ [][Next]_vars

-------------------------------------------------------------------------------
Readings == {r \in [version: 0..Versions, parts: 0..Portions] : r.version = 0 => r.parts = 0}
Reads == Seq([url: Urls, reading: Readings])
States ==
    [plan: BOOLEAN, items: Seq(Urls), reading: Readings, pending: BOOLEAN,
     cursors: SUBSET Cursors, pages: SUBSET Seq(Urls),
     seen: SUBSET Urls, retry: Reads, resume: Reads, resumed: BOOLEAN,
     turn: BOOLEAN, judged: Nat, gate: Nat]

(* Types, and that attempts never exceed their maximum.                      *)
TypeOK ==
    /\ web \in [Urls -> 1..Versions] /\ owner \in BOOLEAN
    /\ feed \in [active: BOOLEAN, rev: Nat, scope: Nat, check: Checks, plan: BOOLEAN]
    /\ job \in [Checks -> [state: {"absent", "ready", "running", "succeeded", "failed",
                                   "cancelled"},
                           attempts: 0..MaxAttempts, holder: Workers \cup {None}, fresh: BOOLEAN]]
    /\ check \in [Checks -> [status: {"absent", "queued", "running", "completed", "failed",
                                      "cancelled"},
                             rev: Nat, scope: Nat]]
    /\ saved \in [Checks -> States] /\ receipts \in [Checks -> States]
    /\ exec \in [Workers -> [pc: Asks \cup {"idle", "read", "drop"}, check: Checks \cup {None},
                             state: States, doc: 0..Versions]]
    /\ updates \in Seq([url: Urls, version: 1..Versions])
    /\ assessed \subseteq DOMAIN updates /\ decided \subseteq assessed
    /\ mishaps \in 0..MaxMishaps /\ begun \subseteq Urls \X (1..Versions)

(* Only the newest check of a feed can have work left, and it has a job for  *)
(* it: editing, pausing, failing and checking again never leave two checks   *)
(* to write into the feed, or one that nobody will end (feed_api.change,     *)
(* enqueue_check).                                                           *)
UnfinishedIsCurrent ==
    \A c \in Checks : (Unfinished(c) => feed.check = c) /\ (Live(c) => Unfinished(c))

(* The updates of an address follow each other as its versions did: what an  *)
(* earlier check half read is never recorded after what a later one found    *)
(* (resume_reads go first, record_update).                                   *)
VersionsInOrder ==
    \A i, k \in DOMAIN updates :
        i < k /\ updates[i].url = updates[k].url => updates[i].version < updates[k].version

(* A retained original that is not an update yet is never dropped within its *)
(* scope: it stays with the newest check through failures, crashes, pauses,  *)
(* renames and new checks (enqueue_check, resume_reads and retry_reads).     *)
Holds(s, u, v) ==
    \/ s.items # <<>> /\ s.items[1] = u /\ s.reading.version = v
    \/ \E i \in DOMAIN s.retry : s.retry[i].url = u /\ s.retry[i].reading.version = v
    \/ \E i \in DOMAIN s.resume : s.resume[i].url = u /\ s.resume[i].reading.version = v
OriginalsAreFinished ==
    \A o \in begun : Holds(receipts[feed.check], o[1], o[2])

(* A check never passes over an update: whatever is before the assessment    *)
(* cursor it works with, its own or one it took over from a failed check, is *)
(* assessed under the settings in force, the oldest first (_next_gate,       *)
(* next_unassessed, enqueue_check).                                          *)
JudgedInOrder ==
    LET c == feed.check IN
    check[c].rev = feed.rev /\ check[c].scope = feed.scope =>
        \A i \in DOMAIN updates : i <= saved[c].judged => i \in assessed

(* A check that completes leaves no update without an assessment under the   *)
(* settings in force: "eventually drain the whole history" (_next_gate).     *)
(* The code ends a check before that when all that is left to read are       *)
(* addresses it has seen: they are still ahead when _next_gate looks whether *)
(* the source list is drained, and passed over when _prepare goes on.        *)
Finished(c) ==
    check[c].status = "completed" /\ check[c].rev = feed.rev /\ check[c].scope = feed.scope
HistoryIsJudged ==
    Finished(feed.check) => \A i \in DOMAIN updates : i \in assessed

(* A check that completed has read every address the user gave, and what it  *)
(* read is an update or waits for the next check.  One that carried on a     *)
(* failed check is exempt from the latter: an address whose failed read left *)
(* nothing behind is passed over as seen (_prepare, _read_failure).          *)
Waits(s, u) == \E i \in DOMAIN s.retry : s.retry[i].url = u
NothingPassedOver ==
    LET s == receipts[feed.check] IN
    Finished(feed.check) =>
        \A i \in DOMAIN Sources :
            /\ Sources[i] \in s.seen
            /\ \/ Sources[i] \in Index \/ s.resumed \/ Waits(s, Sources[i])
               \/ \E k \in DOMAIN updates : updates[k].url = Sources[i]

(* The checkpoint of a check never goes back, and every step that hands it   *)
(* on has got further: no late worker undoes another's step, no step is done *)
(* twice, no moving catalogue keeps a check busy for ever (execute,          *)
(* yield_batch).                                                             *)
NoRetreat(s, t) ==
    /\ s.plan => t.plan
    /\ s.seen \subseteq t.seen /\ s.cursors \subseteq t.cursors /\ s.pages \subseteq t.pages
    /\ s.judged <= t.judged
GotFurther(s, t) ==
    \/ ~s.plan /\ t.plan
    \/ s.judged < t.judged
    \/ s.seen # t.seen
    \/ s.pending /\ (s.pages # t.pages \/ s.cursors # t.cursors \/ ~t.pending)
    \/ s.reading.parts < t.reading.parts
    \/ s.reading.version # 0 /\ t.reading.version = 0
HandsOn(c) == job[c].state = "running" /\ job'[c].state = "ready" /\ job'[c].attempts = 0
StepsAdvance ==
    [][\A c \in Checks :
           feed.check = c /\ feed'.check = c =>
               /\ NoRetreat(saved[c], saved'[c])
               /\ HandsOn(c) => GotFurther(saved[c], saved'[c])]_vars
===============================================================================
