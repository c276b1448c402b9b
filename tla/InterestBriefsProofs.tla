------------------------ MODULE InterestBriefsProofs ------------------------
(***************************************************************************)
(* Proofs about InterestBriefs, for any number of inputs, languages,        *)
(* workers, admissions, attempts, retries and policies, with leases overrun *)
(* or kept and with or without cancellations.                               *)
(***************************************************************************)
EXTENDS InterestBriefs, FiniteSetTheorems, TLAPS

BriefRows == [status: {"absent", "queued", "running", "succeeded", "failed", "superseded"},
              attempt: 0..MaxAttempts, attempts: 0..MaxAttempts]
JobRows == [state: {"absent", "ready", "running", "succeeded", "failed", "cancelled"},
            lease: Workers \cup {NoWorker}, cancel: BOOLEAN,
            attempts: 0..MaxAttempts, max: 1..MaxAttempts,
            policy: 0..MaxRevision, retries: 0..MaxRetries]
Executions == [pc: {"idle", "claimed", "bound", "generating", "published", "raised"},
               key: Keys \cup {NoKey}, token: 0..MaxAttempts,
               why: {"none", "transient", "permanent", "cancelled", "changed"}]

(* Limits that are still open to a job or a brief in each of its states.     *)
WithinLimits ==
    \A k \in Keys :
        /\ job[k].state = "ready" => job[k].attempts < job[k].max
        /\ job[k].state = "running" => job[k].attempts \in 1..job[k].max
        /\ brief[k].status \in {"absent", "queued"} => brief[k].attempts < MaxAttempts

(* Whoever works, works on a brief; a job begins with its admission.         *)
Addressed ==
    /\ \A w \in Workers : exec[w].pc # "idle" => exec[w].key \in Keys
    /\ request # NoRequest => request.key \in Keys
    /\ \A a \in Admitters : adm[a] # NoAdmission => adm[a].key \in Keys

(* What an execution published stays published until it completes the job.   *)
PublishedStays ==
    \A w \in Workers : exec[w].pc = "published" => Published(exec[w].key)

(* What every transaction on the rows keeps.                                 *)
RowsInv ==
    /\ brief \in [Keys -> BriefRows] /\ ledger \in [Keys -> SUBSET (1..MaxAttempts)]
    /\ job \in [Keys -> JobRows]
    /\ WithinLimits /\ UnfinishedHasJob /\ OneOpenAttempt /\ CompletedIsPublished

BriefInv ==
    /\ TypeOK /\ WithinLimits /\ Addressed
    /\ UnfinishedHasJob /\ OneOpenAttempt
    /\ PublishedStays /\ CompletedIsPublished

-------------------------------------------------------------------------------
(* What closing the briefs of S does to each row.                            *)
LEMMA Closing ==
    ASSUME TypeOK, NEW S \in SUBSET Keys,
           NEW status \in {"succeeded", "failed", "superseded"}, Close(S, status)
    PROVE  /\ brief' \in [Keys -> BriefRows]
           /\ ledger' \in [Keys -> SUBSET (1..MaxAttempts)]
           /\ \A k \in S : /\ brief'[k].status = status
                           /\ brief'[k].attempts = brief[k].attempts
                           /\ ledger'[k] = ledger[k] \ {brief[k].attempt}
           /\ \A k \in Keys \ S : brief'[k] = brief[k] /\ ledger'[k] = ledger[k]
<1>1. /\ brief \in [Keys -> BriefRows] /\ ledger \in [Keys -> SUBSET (1..MaxAttempts)]
      /\ MaxAttempts \in Nat
  BY BriefAssumption DEF TypeOK, BriefRows
<1>2. brief' = BriefsClosed(S, status) /\ ledger' = LedgerClosed(S)
  BY DEF Close
<1>3. \A k \in Keys : brief'[k] = IF k \in S THEN [status |-> status, attempt |-> 0, attempts |-> brief[k].attempts]
                                  ELSE brief[k]
  BY <1>1, <1>2 DEF BriefsClosed
<1>4. brief' \in [Keys -> BriefRows]
  BY <1>1, <1>2 DEF BriefsClosed, BriefRows
<1>5. ASSUME NEW k \in S PROVE brief'[k].status = status /\ brief'[k].attempts = brief[k].attempts
  <2>1. brief'[k] = [status |-> status, attempt |-> 0, attempts |-> brief[k].attempts]
    BY <1>3
  <2> QED
    BY <2>1
<1>6. /\ ledger' \in [Keys -> SUBSET (1..MaxAttempts)]
      /\ \A k \in Keys : ledger'[k] = IF k \in S THEN ledger[k] \ {brief[k].attempt} ELSE ledger[k]
  BY <1>1, <1>2 DEF LedgerClosed
<1> QED
  BY <1>3, <1>4, <1>5, <1>6

(* Closing keeps the books, and never touches what is published.             *)
LEMMA ClosingKeeps ==
    ASSUME BriefInv, NEW S \in SUBSET Keys,
           NEW status \in {"succeeded", "failed", "superseded"}, Close(S, status),
           \A k \in S : brief[k].status \in {"queued", "running"}
    PROVE  /\ brief' \in [Keys -> BriefRows]
           /\ ledger' \in [Keys -> SUBSET (1..MaxAttempts)]
           /\ OneOpenAttempt'
           /\ Unfinished' = Unfinished \ S
           /\ \A k \in Keys : Published(k) => Published(k)'
           /\ \A k \in Keys : brief'[k].status \in {"absent", "queued"} =>
                                  brief'[k] = brief[k]
<1>1. /\ brief' \in [Keys -> BriefRows]
      /\ ledger' \in [Keys -> SUBSET (1..MaxAttempts)]
      /\ \A k \in S : /\ brief'[k].status = status
                      /\ brief'[k].attempts = brief[k].attempts
                      /\ ledger'[k] = ledger[k] \ {brief[k].attempt}
      /\ \A k \in Keys \ S : brief'[k] = brief[k] /\ ledger'[k] = ledger[k]
  BY Closing DEF BriefInv
<1>2. OneOpenAttempt'
  BY <1>1 DEF BriefInv, OneOpenAttempt
<1>3. Unfinished' = Unfinished \ S
  BY <1>1 DEF Unfinished
<1> QED
  BY <1>1, <1>2, <1>3 DEF Published

(* The columns that the handlers of a job write.                             *)
LEMMA JobUpdates ==
    ASSUME NEW j \in JobRows
    PROVE  /\ MaxAttempts \in Nat /\ NoJob \in JobRows /\ Requested(j) \in JobRows
           /\ \A s \in {"ready", "succeeded", "failed", "cancelled"} : Ended(j, s) \in JobRows
           /\ [j EXCEPT !.cancel = TRUE] \in JobRows
           /\ [j EXCEPT !.state = "cancelled", !.cancel = TRUE] \in JobRows
           /\ [j EXCEPT !.state = "cancelled", !.lease = NoWorker] \in JobRows
           /\ [Ended(j, "cancelled") EXCEPT !.cancel = TRUE] \in JobRows
           /\ j.attempts \in 1..MaxAttempts => [Ended(j, "failed") EXCEPT !.max = j.attempts] \in JobRows
<1>0. MaxAttempts \in Nat \ {0} /\ MaxRevision \in Nat /\ MaxRetries \in Nat
  BY BriefAssumption
<1>1. ASSUME NEW i \in JobRows
      PROVE  /\ \A s \in {"ready", "running", "succeeded", "failed", "cancelled"} :
                    [i EXCEPT !.state = s] \in JobRows
             /\ \A c \in BOOLEAN : [i EXCEPT !.cancel = c] \in JobRows
             /\ \A l \in Workers \cup {NoWorker} : [i EXCEPT !.lease = l] \in JobRows
             /\ \A n \in 1..MaxAttempts : [i EXCEPT !.max = n] \in JobRows
  BY DEF JobRows
<1>2. \A s \in {"ready", "succeeded", "failed", "cancelled"} : Ended(j, s) \in JobRows
  <2> TAKE s \in {"ready", "succeeded", "failed", "cancelled"}
  <2>1. [j EXCEPT !.state = s] \in JobRows
    BY <1>1
  <2>2. [[j EXCEPT !.state = s] EXCEPT !.lease = NoWorker] \in JobRows
    BY <2>1, <1>1
  <2> QED
    BY <2>2 DEF Ended, JobRows
<1>3. [j EXCEPT !.state = "cancelled", !.cancel = TRUE] \in JobRows
  <2>1. [j EXCEPT !.state = "cancelled"] \in JobRows
    BY <1>1
  <2>2. [[j EXCEPT !.state = "cancelled"] EXCEPT !.cancel = TRUE] \in JobRows
    BY <2>1, <1>1
  <2> QED
    BY <2>2 DEF JobRows
<1>4. NoJob \in JobRows
  BY <1>0 DEF NoJob, JobRows
<1> QED
  BY <1>0, <1>1, <1>2, <1>3, <1>4 DEF Requested, Ended

LEMMA FencedBriefs ==
    ASSUME BriefInv, NEW w \in Workers, Working(w)
    PROVE  Fenced(w) \in SUBSET Keys /\ \A k \in Fenced(w) : brief[k].status \in {"queued", "running"}
BY DEF BriefInv, Addressed, Working, Fenced, Holds

(* A step that writes no row.                                                *)
LEMMA RowsKept ==
    ASSUME BriefInv, UNCHANGED <<brief, ledger, job>>
    PROVE  RowsInv' /\ \A k \in Keys : Published(k) => Published(k)'
BY DEF BriefInv, RowsInv, TypeOK, BriefRows, JobRows, WithinLimits, UnfinishedHasJob, Unfinished, Live, OneOpenAttempt,
       CompletedIsPublished, Published

(* Rows whose type, limits and links are kept make the invariant, with the   *)
(* variables outside the database.                                           *)
LEMMA Assembled ==
    ASSUME input' \in Inputs, policy' \in [enabled: BOOLEAN, revision: 0..MaxRevision],
           RowsInv', exec' \in [Workers -> Executions],
           adm' \in [Admitters -> [key: Keys \cup {NoKey}, policy: 0..MaxRevision]],
           request' \in [key: Keys \cup {NoKey}, seen: {"none", "ready", "running"}],
           Addressed', PublishedStays'
    PROVE  BriefInv'
BY DEF BriefInv, RowsInv, TypeOK, BriefRows, JobRows, Executions

LEMMA Disassembled ==
    ASSUME BriefInv
    PROVE  /\ input \in Inputs /\ policy \in [enabled: BOOLEAN, revision: 0..MaxRevision]
           /\ brief \in [Keys -> BriefRows] /\ ledger \in [Keys -> SUBSET (1..MaxAttempts)]
           /\ job \in [Keys -> JobRows] /\ exec \in [Workers -> Executions]
           /\ adm \in [Admitters -> [key: Keys \cup {NoKey}, policy: 0..MaxRevision]]
           /\ request \in [key: Keys \cup {NoKey}, seen: {"none", "ready", "running"}]
           /\ MaxAttempts \in Nat \ {0} /\ MaxRevision \in Nat /\ MaxRetries \in Nat
BY BriefAssumption DEF BriefInv, TypeOK, BriefRows, JobRows, Executions

LEMMA InitInv == Init => BriefInv
<1> SUFFICES ASSUME Init PROVE BriefInv
  OBVIOUS
<1>0. MaxAttempts \in Nat \ {0} /\ MaxRevision \in Nat /\ MaxRetries \in Nat
  BY BriefAssumption
<1>1. NoBrief \in BriefRows /\ NoJob \in JobRows /\ Idle \in Executions
  BY <1>0 DEF NoBrief, NoJob, Idle, Doing, BriefRows, JobRows, Executions
<1>2. /\ brief \in [Keys -> BriefRows] /\ ledger \in [Keys -> SUBSET (1..MaxAttempts)]
      /\ job \in [Keys -> JobRows] /\ exec \in [Workers -> Executions]
  BY <1>1 DEF Init
<1>3. NoAdmission \in [key: Keys \cup {NoKey}, policy: 0..MaxRevision]
  BY <1>0 DEF NoAdmission
<1>4. NoRequest \in [key: Keys \cup {NoKey}, seen: {"none", "ready", "running"}]
  BY DEF NoRequest
<1>5. /\ policy \in [enabled: BOOLEAN, revision: 0..MaxRevision]
      /\ adm \in [Admitters -> [key: Keys \cup {NoKey}, policy: 0..MaxRevision]]
  BY <1>0, <1>3 DEF Init
<1>6. TypeOK
  BY <1>2, <1>4, <1>5 DEF Init, TypeOK, BriefRows, JobRows, Executions
<1>7. WithinLimits /\ Addressed /\ PublishedStays
  BY <1>0 DEF Init, WithinLimits, Addressed, PublishedStays, NoBrief, NoJob, Idle, Doing
<1>8. UnfinishedHasJob /\ OneOpenAttempt /\ CompletedIsPublished
  BY DEF Init, UnfinishedHasJob, Unfinished, OneOpenAttempt, CompletedIsPublished, NoBrief, NoJob
<1> QED
  BY <1>6, <1>7, <1>8 DEF BriefInv

(* An execution goes on, ends, or begins with a brief.                       *)
LEMMA MovingTo ==
    ASSUME BriefInv, NEW w \in Workers, UNCHANGED <<adm, request>>,
           \A k \in Keys : Published(k) => Published(k)',
           NEW pc \in {"idle", "claimed", "bound", "generating", "published", "raised"},
           NEW key \in Keys \cup {NoKey}, NEW n \in 0..MaxAttempts,
           NEW why \in {"none", "transient", "permanent", "cancelled", "changed"},
           exec' = [exec EXCEPT ![w] = Doing(pc, key, n, why)],
           pc # "idle" => key \in Keys,
           pc = "published" => Published(key)'
    PROVE  exec' \in [Workers -> Executions] /\ Addressed' /\ PublishedStays'
<1>1. exec \in [Workers -> Executions]
  BY Disassembled
<1>2. PICK e : e = Doing(pc, key, n, why)
  OBVIOUS
<1>3. e \in Executions /\ e.pc = pc /\ e.key = key
  BY <1>2 DEF Doing, Executions
<1>4. exec' = [exec EXCEPT ![w] = e]
  BY <1>2
<1>5. exec' \in [Workers -> Executions]
  BY <1>1, <1>3, <1>4
<1>6. exec'[w] = e /\ \A v \in Workers \ {w} : exec'[v] = exec[v]
  BY <1>1, <1>4
<1>7. PublishedStays'
  <2>1. \A v \in Workers \ {w} : exec[v].pc = "published" => exec[v].key \in Keys /\ Published(exec[v].key)
    BY DEF BriefInv, PublishedStays, Addressed
  <2>2. ASSUME NEW v \in Workers, exec'[v].pc = "published" PROVE Published(exec[v].key)'
    <3>1. CASE v = w
      BY <3>1, <2>2, <1>3, <1>6
    <3>2. CASE v # w
      BY <3>2, <2>1, <2>2, <1>6
    <3> QED
      BY <3>1, <3>2
  <2> QED
    BY <2>2 DEF PublishedStays
<1> QED
  BY <1>3, <1>5, <1>6, <1>7 DEF BriefInv, Addressed

LEMMA Moving ==
    ASSUME BriefInv, NEW w \in Workers, UNCHANGED <<adm, request>>,
           \A k \in Keys : Published(k) => Published(k)',
           \/ exec' = [exec EXCEPT ![w] = Idle]
           \/ Working(w) /\ \E why \in {"transient", "permanent", "cancelled", "changed"} : Raised(w, why)
           \/ Working(w) /\ At(w, "bound")
           \/ Working(w) /\ At(w, "published") /\ brief'[exec[w].key].status = "succeeded"
    PROVE  exec' \in [Workers -> Executions] /\ Addressed' /\ PublishedStays'
<1>0. Working(w) => exec[w].key \in Keys
  BY DEF BriefInv, Addressed, Working
<1>1. 0 \in 0..MaxAttempts
  BY Disassembled
<1>2. CASE exec' = [exec EXCEPT ![w] = Idle]
  BY <1>2, <1>1, MovingTo DEF Idle
<1>3. ASSUME NEW why \in {"transient", "permanent", "cancelled", "changed"}, Working(w), Raised(w, why)
      PROVE  exec' \in [Workers -> Executions] /\ Addressed' /\ PublishedStays'
  BY <1>0, <1>1, <1>3, MovingTo DEF Raised
<1>4. CASE Working(w) /\ At(w, "bound")
  BY <1>0, <1>1, <1>4, MovingTo DEF At
<1>5. CASE Working(w) /\ At(w, "published") /\ brief'[exec[w].key].status = "succeeded"
  BY <1>0, <1>1, <1>5, MovingTo DEF At, Published
<1> QED
  BY <1>2, <1>3, <1>4, <1>5

(* Steps that write no row.                                                  *)
LEMMA RowlessSteps ==
    ASSUME BriefInv,
           \/ \E a \in Admitters : AdmitStop(a) \/ \E l \in Locales : AdmitMeasure(a, l)
           \/ \E w \in Workers : BindExhausted(w) \/ FindChanged(w) \/ FindSettled(w) \/ Crash(w)
           \/ \E k \in Keys : CancelRead(k)
           \/ ChangeInput
           \/ UNCHANGED vars
    PROVE  BriefInv'
<1> USE Disassembled, RowsKept
<1>1. ASSUME NEW a \in Admitters, AdmitStop(a) \/ \E l \in Locales : AdmitMeasure(a, l)
      PROVE  BriefInv'
  <2>1. UNCHANGED <<input, policy, brief, ledger, job, exec, request>>
    BY <1>1 DEF AdmitStop, AdmitMeasure
  <2>2. PICK m : adm' = [adm EXCEPT ![a] = m]
                 /\ (m = NoAdmission \/ \E l \in Locales : m = [key |-> <<input, l>>, policy |-> policy.revision])
    BY <1>1 DEF AdmitStop, AdmitMeasure
  <2>3. /\ m \in [key: Keys \cup {NoKey}, policy: 0..MaxRevision]
        /\ m = NoAdmission \/ m.key \in Keys
    BY <2>2 DEF NoAdmission, Keys
  <2>4. adm' \in [Admitters -> [key: Keys \cup {NoKey}, policy: 0..MaxRevision]]
    BY <2>2, <2>3
  <2>5. \A b \in Admitters : adm'[b] # NoAdmission => adm'[b].key \in Keys
    BY <2>2, <2>3 DEF BriefInv, Addressed
  <2> QED
    BY <2>1, <2>4, <2>5, Assembled DEF BriefInv, Addressed, PublishedStays
<1>2. ASSUME NEW w \in Workers, BindExhausted(w) \/ FindChanged(w) \/ FindSettled(w) \/ Crash(w)
      PROVE  BriefInv'
  <2>1. UNCHANGED <<input, policy, brief, ledger, job, adm, request>>
    BY <1>2 DEF BindExhausted, FindChanged, FindSettled, Crash
  <2>2. \/ exec' = [exec EXCEPT ![w] = Idle]
        \/ Working(w) /\ \E why \in {"transient", "permanent", "cancelled", "changed"} : Raised(w, why)
        \/ Working(w) /\ At(w, "published") /\ brief'[exec[w].key].status = "succeeded"
    <3>1. CASE BindExhausted(w)
      BY <3>1 DEF BindExhausted, Working
    <3>2. CASE FindChanged(w)
      BY <3>2 DEF FindChanged, Checking, Working
    <3>3. CASE FindSettled(w)
      <4>1. Working(w) /\ brief' = brief
        BY <3>3 DEF FindSettled, Checking, Working
      <4>2. CASE Published(exec[w].key)
        BY <4>1, <4>2, <3>3 DEF FindSettled, Published
      <4>3. CASE ~Published(exec[w].key)
        BY <4>1, <4>3, <3>3 DEF FindSettled
      <4> QED
        BY <4>2, <4>3
    <3>4. CASE Crash(w)
      BY <3>4 DEF Crash
    <3> QED
      BY <1>2, <3>1, <3>2, <3>3, <3>4
  <2>3. exec' \in [Workers -> Executions] /\ PublishedStays' /\ Addressed'
    BY <2>1, <2>2, Moving
  <2> QED
    BY <2>1, <2>3, Assembled DEF BriefInv
<1>3. CASE \E k \in Keys : CancelRead(k)
  <2>1. UNCHANGED <<input, policy, brief, ledger, job, adm, exec>>
    BY <1>3 DEF CancelRead
  <2>2. /\ request' \in [key: Keys \cup {NoKey}, seen: {"none", "ready", "running"}]
        /\ request'.key \in Keys
    BY <1>3 DEF CancelRead
  <2> QED
    BY <2>1, <2>2, Assembled DEF BriefInv, Addressed, PublishedStays
<1>4. CASE ChangeInput \/ UNCHANGED vars
  <2>1. input' \in Inputs /\ UNCHANGED <<policy, brief, ledger, job, adm, exec, request>>
    BY <1>4 DEF ChangeInput, vars
  <2> QED
    BY <2>1, Assembled DEF BriefInv, Addressed, PublishedStays
<1> QED
  BY <1>1, <1>2, <1>3, <1>4

(* Steps that close briefs and leave the jobs alone.                         *)
LEMMA ClosingRows ==
    ASSUME BriefInv, NEW S \in SUBSET Keys,
           NEW status \in {"succeeded", "failed", "superseded"}, Close(S, status),
           \A k \in S : brief[k].status \in {"queued", "running"},
           UNCHANGED job
    PROVE  RowsInv' /\ \A k \in Keys : Published(k) => Published(k)'
<1>1. /\ brief' \in [Keys -> BriefRows] /\ ledger' \in [Keys -> SUBSET (1..MaxAttempts)]
      /\ OneOpenAttempt'
      /\ Unfinished' = Unfinished \ S
      /\ \A k \in Keys : Published(k) => Published(k)'
      /\ \A k \in Keys : brief'[k].status \in {"absent", "queued"} => brief'[k] = brief[k]
  BY ClosingKeeps
<1>2. WithinLimits'
  BY <1>1 DEF BriefInv, WithinLimits
<1>3. UnfinishedHasJob'
  BY <1>1 DEF BriefInv, UnfinishedHasJob, Live
<1>4. CompletedIsPublished'
  BY <1>1 DEF BriefInv, CompletedIsPublished, Published
<1> QED
  BY <1>1, <1>2, <1>3, <1>4, Disassembled DEF RowsInv

LEMMA ClosingSteps ==
    ASSUME BriefInv,
           \/ \E a \in Admitters : AdmitReuse(a)
           \/ \E w \in Workers : Evict(w) \/ Break(w) \/ Publish(w) \/ Discard(w)
    PROVE  BriefInv'
<1> USE Disassembled
<1>1. ASSUME NEW a \in Admitters, AdmitReuse(a) PROVE BriefInv'
  <2>1. /\ Close(StaleFor(adm[a].key), "superseded") /\ adm' = [adm EXCEPT ![a] = NoAdmission]
        /\ UNCHANGED <<input, policy, job, exec, request>>
    BY <1>1 DEF AdmitReuse
  <2>2. RowsInv' /\ \A k \in Keys : Published(k) => Published(k)'
    BY <2>1, ClosingRows DEF StaleFor, Unfinished
  <2>3. adm' \in [Admitters -> [key: Keys \cup {NoKey}, policy: 0..MaxRevision]] /\ Addressed'
    BY <2>1 DEF NoAdmission, BriefInv, Addressed
  <2>4. PublishedStays'
    BY <2>1, <2>2 DEF BriefInv, PublishedStays, Addressed
  <2> QED
    BY <2>1, <2>2, <2>3, <2>4, Assembled
<1>2. ASSUME NEW w \in Workers, Evict(w) \/ Break(w) \/ Publish(w) \/ Discard(w) PROVE BriefInv'
  <2>0. Working(w) /\ exec[w].key \in Keys /\ UNCHANGED <<input, policy, job, adm, request>>
    BY <1>2 DEF Evict, Break, Publish, Discard, Returning, Working, BriefInv, Addressed
  <2>1. CASE Publish(w)
    <3>1. Close({exec[w].key}, "succeeded") /\ Holds(w) /\ At(w, "published")
      BY <2>1 DEF Publish, Publishable
    <3>2. RowsInv' /\ \A k \in Keys : Published(k) => Published(k)'
      BY <3>1, <2>0, ClosingRows DEF Holds
    <3>3. brief'[exec[w].key].status = "succeeded"
      BY <3>1, <2>0, Closing DEF BriefInv
    <3>4. exec' \in [Workers -> Executions] /\ Addressed' /\ PublishedStays'
      BY <3>1, <3>2, <3>3, <2>0, Moving
    <3> QED
      BY <3>2, <3>4, <2>0, Assembled
  <2>2. CASE Evict(w) \/ Break(w) \/ Discard(w)
    <3>1. /\ \E status \in {"failed", "superseded"} : Close(Fenced(w), status)
          /\ \E why \in {"transient", "permanent", "cancelled", "changed"} : Raised(w, why)
      BY <2>2 DEF Evict, Break, Discard
    <3>2. RowsInv' /\ \A k \in Keys : Published(k) => Published(k)'
      BY <3>1, <2>0, FencedBriefs, ClosingRows
    <3>3. exec' \in [Workers -> Executions] /\ Addressed' /\ PublishedStays'
      BY <3>1, <3>2, <2>0, Moving
    <3> QED
      BY <3>2, <3>3, <2>0, Assembled
  <2> QED
    BY <1>2, <2>1, <2>2
<1> QED
  BY <1>1, <1>2

(* A job ends without success, and withdraws its brief.                      *)
LEMMA JobCloses ==
    ASSUME BriefInv, NEW k \in Keys, NEW j \in JobRows, j.state \in {"failed", "cancelled"},
           job' = [job EXCEPT ![k] = j],
           NEW status \in {"failed", "superseded"}, CloseUnfinished(k, status)
    PROVE  RowsInv' /\ \A i \in Keys : Published(i) => Published(i)'
<1>1. /\ {k} \cap Unfinished \in SUBSET Keys /\ Close({k} \cap Unfinished, status)
      /\ \A i \in {k} \cap Unfinished : brief[i].status \in {"queued", "running"}
  BY DEF CloseUnfinished, Unfinished
<1>2. /\ brief' \in [Keys -> BriefRows] /\ ledger' \in [Keys -> SUBSET (1..MaxAttempts)]
      /\ OneOpenAttempt'
      /\ Unfinished' = Unfinished \ {k}
      /\ \A i \in Keys : Published(i) => Published(i)'
      /\ \A i \in Keys : brief'[i].status \in {"absent", "queued"} => brief'[i] = brief[i]
  BY <1>1, ClosingKeeps
<1>3. job' \in [Keys -> JobRows] /\ job'[k] = j /\ \A i \in Keys \ {k} : job'[i] = job[i]
  BY Disassembled
<1>4. WithinLimits'
  BY <1>2, <1>3 DEF BriefInv, WithinLimits
<1>5. UnfinishedHasJob'
  BY <1>2, <1>3 DEF BriefInv, UnfinishedHasJob, Live, Unfinished
<1>6. CompletedIsPublished'
  BY <1>2, <1>3 DEF BriefInv, CompletedIsPublished, Published
<1> QED
  BY <1>2, <1>3, <1>4, <1>5, <1>6 DEF RowsInv

(* A job goes on; or ends with its brief published.                          *)
LEMMA JobGoesOn ==
    ASSUME BriefInv, NEW k \in Keys, NEW j \in JobRows, job' = [job EXCEPT ![k] = j],
           UNCHANGED <<brief, ledger>>,
           \/ j.state = "ready" /\ j.attempts < j.max
           \/ j.state = "running" /\ j.attempts \in 1..j.max
           \/ j.state = "succeeded" /\ Published(k)
           \/ j.state = job[k].state /\ j.attempts = job[k].attempts /\ j.max = job[k].max
    PROVE  RowsInv' /\ \A i \in Keys : Published(i) => Published(i)'
<1>1. /\ brief \in [Keys -> BriefRows] /\ ledger \in [Keys -> SUBSET (1..MaxAttempts)]
      /\ job' \in [Keys -> JobRows] /\ job'[k] = j /\ \A i \in Keys \ {k} : job'[i] = job[i]
  BY Disassembled
<1>2. WithinLimits'
  BY <1>1 DEF BriefInv, WithinLimits
<1>3. UnfinishedHasJob'
  BY <1>1 DEF BriefInv, UnfinishedHasJob, Live, Unfinished, Published
<1>4. CompletedIsPublished' /\ OneOpenAttempt'
  BY <1>1 DEF BriefInv, CompletedIsPublished, OneOpenAttempt, Published
<1> QED
  BY <1>1, <1>2, <1>3, <1>4 DEF RowsInv, Published

LEMMA QueueSteps ==
    ASSUME BriefInv, NEW k \in Keys,
           ClaimCancelled(k) \/ Lapse(k) \/ \E w \in Workers : Claim(w, k)
    PROVE  BriefInv'
<1> USE Disassembled
<1> DEFINE j == job[k]
<1>0. j \in JobRows
  OBVIOUS
<1>1. ASSUME RowsInv' /\ \A i \in Keys : Published(i) => Published(i)',
             UNCHANGED <<input, policy, exec, adm, request>>
      PROVE  BriefInv'
  <2>1. PublishedStays' /\ Addressed'
    BY <1>1 DEF BriefInv, PublishedStays, Addressed
  <2> QED
    BY <1>1, <2>1, Assembled
<1>2. CASE ClaimCancelled(k)
  <2>1. [j EXCEPT !.state = "cancelled", !.lease = NoWorker] \in JobRows
    BY <1>0, JobUpdates
  <2>2. job' = [job EXCEPT ![k] = [j EXCEPT !.state = "cancelled", !.lease = NoWorker]]
    BY <1>2 DEF ClaimCancelled
  <2>3. [j EXCEPT !.state = "cancelled", !.lease = NoWorker].state = "cancelled"
    BY <1>0 DEF JobRows
  <2>4. CloseUnfinished(k, "failed") /\ UNCHANGED <<input, policy, exec, adm, request>>
    BY <1>2 DEF ClaimCancelled
  <2> QED
    BY <2>1, <2>2, <2>3, <2>4, <1>1, JobCloses
<1>3. CASE Lapse(k)
  <2>0. j.state = "running" /\ UNCHANGED <<input, policy, exec, adm, request>>
    BY <1>3 DEF Lapse
  <2>1. CASE j.attempts >= j.max
    <3>1. job' = [job EXCEPT ![k] = Ended(j, "failed")] /\ CloseUnfinished(k, "failed")
      BY <2>1, <1>3 DEF Lapse
    <3>2. Ended(j, "failed") \in JobRows /\ Ended(j, "failed").state = "failed"
      BY ZenonT(60), <1>0, JobUpdates DEF Ended, JobRows
    <3> QED
      BY <3>1, <3>2, <2>0, <1>1, JobCloses
  <2>2. CASE ~(j.attempts >= j.max)
    <3>1. job' = [job EXCEPT ![k] = Ended(j, "ready")] /\ UNCHANGED <<brief, ledger>>
      BY <2>2, <1>3 DEF Lapse
    <3>2. Ended(j, "ready") \in JobRows
      BY <1>0, JobUpdates
    <3>3. /\ Ended(j, "ready").state = "ready" /\ Ended(j, "ready").attempts = j.attempts
          /\ Ended(j, "ready").max = j.max /\ j.attempts < j.max
      BY <1>0, <2>2 DEF Ended, JobRows
    <3>4. RowsInv' /\ \A i \in Keys : Published(i) => Published(i)'
      BY <3>1, <3>2, <3>3, JobGoesOn
    <3> QED
      BY <3>4, <2>0, <1>1
  <2> QED
    BY <2>1, <2>2
<1>4. ASSUME NEW w \in Workers, Claim(w, k) PROVE BriefInv'
  <2>1. /\ j.state = "ready" /\ UNCHANGED <<input, policy, brief, ledger, adm, request>>
        /\ exec' = [exec EXCEPT ![w] = Doing("claimed", k, 0, "none")]
    BY <1>4 DEF Claim
  <2>2. PICK i : i = [j EXCEPT !.state = "running", !.lease = w, !.attempts = j.attempts + 1]
    OBVIOUS
  <2>3. job' = [job EXCEPT ![k] = i]
    BY <2>2, <1>4 DEF Claim, ClaimRow
  <2>4. j.attempts < j.max
    BY <2>1 DEF BriefInv, WithinLimits
  <2>5. i.state = "running" /\ i.attempts \in 1..i.max
    BY <2>2, <2>4, <1>0 DEF JobRows
  <2>6. i \in JobRows
    <3>1. j.attempts + 1 \in 0..MaxAttempts
      BY <2>4, <1>0 DEF JobRows
    <3>2. [j EXCEPT !.state = "running"] \in JobRows
      BY <1>0 DEF JobRows
    <3>3. [[j EXCEPT !.state = "running"] EXCEPT !.lease = w] \in JobRows
      BY <3>2 DEF JobRows
    <3>4. [[[j EXCEPT !.state = "running"] EXCEPT !.lease = w] EXCEPT !.attempts = j.attempts + 1] \in JobRows
      BY <3>1, <3>3 DEF JobRows
    <3> QED
      BY <3>4, <2>2, <1>0 DEF JobRows
  <2>7. RowsInv' /\ \A o \in Keys : Published(o) => Published(o)'
    BY <2>1, <2>3, <2>5, <2>6, JobGoesOn
  <2>8. exec' \in [Workers -> Executions] /\ Addressed' /\ PublishedStays'
    <3>1. 0 \in 0..MaxAttempts
      OBVIOUS
    <3> QED
      BY <3>1, <2>1, <2>7, MovingTo
  <2> QED
    BY <2>1, <2>7, <2>8, Assembled
<1> QED
  BY <1>2, <1>3, <1>4

LEMMA CompletingSteps ==
    ASSUME BriefInv, NEW w \in Workers, Complete(w) \/ Settle(w)
    PROVE  BriefInv'
<1> USE Disassembled
<1> DEFINE k == exec[w].key
           j == job[k]
           why == exec[w].why
<1>0. /\ k \in Keys /\ j \in JobRows /\ exec' = [exec EXCEPT ![w] = Idle]
      /\ UNCHANGED <<input, policy, adm, request>>
  BY DEF Complete, Settle, BriefInv, Addressed
<1>1. ASSUME RowsInv' /\ \A i \in Keys : Published(i) => Published(i)' PROVE BriefInv'
  <2>1. exec' \in [Workers -> Executions] /\ Addressed' /\ PublishedStays'
    BY <1>0, <1>1, Moving
  <2> QED
    BY <1>0, <1>1, <2>1, Assembled
<1>2. CASE Complete(w)
  <2>1. /\ job' = [job EXCEPT ![k] = Ended(j, "succeeded")] /\ UNCHANGED <<brief, ledger>>
        /\ Published(k)
    BY <1>2 DEF Complete, BriefInv, PublishedStays
  <2>2. Ended(j, "succeeded") \in JobRows /\ Ended(j, "succeeded").state = "succeeded"
    BY ZenonT(60), <1>0, JobUpdates DEF Ended, JobRows
  <2> QED
    BY <1>0, <1>1, <2>1, <2>2, JobGoesOn
<1>3. CASE Settle(w)
  <2>1. CASE ~Leased(w)
    <3>1. UNCHANGED <<job, brief, ledger>>
      BY <1>3, <2>1 DEF Settle
    <3> QED
      BY <3>1, <1>1, RowsKept
  <2>2. CASE Leased(w) /\ (j.cancel \/ why = "cancelled")
    <3> DEFINE i == [Ended(j, "cancelled") EXCEPT !.cancel = TRUE]
    <3>1. job' = [job EXCEPT ![k] = i] /\ CloseUnfinished(k, "failed")
      BY <1>3, <2>2 DEF Settle
    <3>2. i \in JobRows /\ i.state = "cancelled"
      BY ZenonT(60), <1>0, JobUpdates DEF Ended, JobRows
    <3> QED
      BY <1>0, <1>1, <3>1, <3>2, JobCloses
  <2>3. CASE Leased(w) /\ ~(j.cancel \/ why = "cancelled") /\ why = "transient" /\ j.attempts < j.max
    <3>1. job' = [job EXCEPT ![k] = Ended(j, "ready")] /\ UNCHANGED <<brief, ledger>>
      BY <1>3, <2>3 DEF Settle
    <3>2. Ended(j, "ready") \in JobRows
      BY <1>0, JobUpdates
    <3>3. /\ Ended(j, "ready").state = "ready" /\ Ended(j, "ready").attempts = j.attempts
          /\ Ended(j, "ready").max = j.max
      BY <1>0 DEF Ended, JobRows
    <3> QED
      BY <1>0, <1>1, <2>3, <3>1, <3>2, <3>3, JobGoesOn
  <2>4. CASE Leased(w) /\ ~(j.cancel \/ why = "cancelled") /\ ~(why = "transient" /\ j.attempts < j.max)
    <3>0. PICK n : n = IF why = "transient" THEN j.max ELSE j.attempts
      OBVIOUS
    <3>1. /\ job' = [job EXCEPT ![k] = [Ended(j, "failed") EXCEPT !.max = n]]
          /\ \E status \in {"failed", "superseded"} : CloseUnfinished(k, status)
      BY <1>3, <2>4, <3>0 DEF Settle
    <3>2. j.attempts \in 1..MaxAttempts /\ j.max \in 1..MaxAttempts
      BY <1>0, <2>4 DEF Leased, BriefInv, WithinLimits, JobRows
    <3>3. Ended(j, "failed") \in JobRows /\ Ended(j, "failed").state = "failed"
      BY ZenonT(60), <1>0, JobUpdates DEF Ended, JobRows
    <3>4. n \in 1..MaxAttempts
      BY <3>0, <3>2
    <3>5. [Ended(j, "failed") EXCEPT !.max = n] \in JobRows
      BY <3>3, <3>4 DEF JobRows
    <3>6. [Ended(j, "failed") EXCEPT !.max = n].state = "failed"
      BY <3>3 DEF JobRows
    <3> QED
      BY <1>0, <1>1, <3>1, <3>5, <3>6, JobCloses
  <2> QED
    BY <2>1, <2>2, <2>3, <2>4
<1> QED
  BY <1>2, <1>3

(* A step of the API: the executions do not move.                            *)
LEMMA OutsideExecutions ==
    ASSUME BriefInv, RowsInv', \A k \in Keys : Published(k) => Published(k)',
           UNCHANGED <<input, exec, adm>>,
           policy' \in [enabled: BOOLEAN, revision: 0..MaxRevision],
           request' \in {request, NoRequest}
    PROVE  BriefInv'
<1>1. request' \in [key: Keys \cup {NoKey}, seen: {"none", "ready", "running"}]
  BY Disassembled DEF NoRequest
<1>2. PublishedStays' /\ Addressed'
  BY DEF BriefInv, PublishedStays, Addressed, NoRequest
<1> QED
  BY <1>1, <1>2, Assembled, Disassembled

LEMMA CancelWriteStep == ASSUME BriefInv, CancelWrite PROVE BriefInv'
<1> USE Disassembled
<1> DEFINE k == request.key
           j == job[k]
<1>0. /\ k \in Keys /\ j \in JobRows /\ request' = NoRequest
      /\ UNCHANGED <<input, policy, exec, adm>>
  BY DEF CancelWrite, BriefInv, Addressed
<1>1. CASE request.seen = "ready"
  <2> DEFINE i == [j EXCEPT !.state = "cancelled", !.cancel = TRUE]
  <2>1. job' = [job EXCEPT ![k] = i] /\ CloseUnfinished(k, "failed")
    BY <1>1 DEF CancelWrite
  <2>2. i \in JobRows /\ i.state = "cancelled"
    BY ZenonT(60), <1>0, JobUpdates DEF JobRows
  <2>3. RowsInv' /\ \A o \in Keys : Published(o) => Published(o)'
    BY <1>0, <2>1, <2>2, JobCloses
  <2> QED
    BY <1>0, <2>3, OutsideExecutions
<1>2. CASE request.seen # "ready"
  <2> DEFINE i == [j EXCEPT !.cancel = TRUE]
  <2>1. job' = [job EXCEPT ![k] = i] /\ UNCHANGED <<brief, ledger>>
    BY <1>2 DEF CancelWrite
  <2>2. i \in JobRows
    BY <1>0, JobUpdates
  <2>3. i.state = j.state /\ i.attempts = j.attempts /\ i.max = j.max
    BY <1>0 DEF JobRows
  <2>4. RowsInv' /\ \A o \in Keys : Published(o) => Published(o)'
    BY <1>0, <2>1, <2>2, <2>3, JobGoesOn
  <2> QED
    BY <1>0, <2>4, OutsideExecutions
<1> QED
  BY <1>1, <1>2

(* A job that is asked to stop keeps what it has spent.                      *)
LEMMA Requests ==
    ASSUME NEW j \in JobRows
    PROVE  /\ Requested(j) \in JobRows
           /\ Requested(j).attempts = j.attempts /\ Requested(j).max = j.max
           /\ Requested(j).state = IF j.state = "ready" THEN "cancelled" ELSE j.state
BY ZenonT(60), JobUpdates DEF Requested, JobRows

LEMMA SavePolicyStep == ASSUME BriefInv, NEW enabled \in BOOLEAN, SavePolicy(enabled) PROVE BriefInv'
<1> USE Disassembled
<1> DEFINE S == {k \in Live : job[k].state = "ready"} \cap Unfinished
<1>0. /\ Close(S, "failed") /\ S \in SUBSET Keys
      /\ \A k \in S : brief[k].status \in {"queued", "running"}
      /\ UNCHANGED <<input, exec, adm, request>>
      /\ policy' = [enabled |-> enabled, revision |-> policy.revision + 1]
      /\ policy.revision < MaxRevision
  BY DEF SavePolicy, Unfinished
<1>1. \A k \in Keys : job'[k] = IF k \in Live THEN Requested(job[k]) ELSE job[k]
  BY DEF SavePolicy
<1>2. job' \in [Keys -> JobRows]
  <2>1. \A k \in Keys : (IF k \in Live THEN Requested(job[k]) ELSE job[k]) \in JobRows
    BY Requests
  <2> QED
    BY <2>1 DEF SavePolicy
<1>3. /\ brief' \in [Keys -> BriefRows] /\ ledger' \in [Keys -> SUBSET (1..MaxAttempts)]
      /\ OneOpenAttempt'
      /\ Unfinished' = Unfinished \ S
      /\ \A k \in Keys : Published(k) => Published(k)'
      /\ \A k \in Keys : brief'[k].status \in {"absent", "queued"} => brief'[k] = brief[k]
  BY <1>0, ClosingKeeps
<1>4. \A k \in Keys : /\ job'[k].attempts = job[k].attempts /\ job'[k].max = job[k].max
                      /\ job'[k].state = IF job[k].state = "ready" THEN "cancelled" ELSE job[k].state
  BY <1>1, Requests DEF Live
<1>5. WithinLimits'
  BY <1>3, <1>4 DEF BriefInv, WithinLimits
<1>6. UnfinishedHasJob'
  BY <1>3, <1>4 DEF BriefInv, UnfinishedHasJob, Live, Unfinished
<1>7. CompletedIsPublished'
  BY <1>3, <1>4 DEF BriefInv, CompletedIsPublished, Published
<1>8. policy' \in [enabled: BOOLEAN, revision: 0..MaxRevision]
  <2>1. policy.revision + 1 \in 0..MaxRevision
    BY <1>0
  <2> QED
    BY <2>1, <1>0
<1>9. RowsInv'
  BY <1>2, <1>3, <1>5, <1>6, <1>7 DEF RowsInv
<1> QED
  BY <1>0, <1>3, <1>8, <1>9, OutsideExecutions

(* A brief that is queued again, or enters an attempt of its own.            *)
LEMMA RetryStep == ASSUME BriefInv, NEW k \in Keys, RetryBrief(k) PROVE BriefInv'
<1> USE Disassembled
<1> DEFINE j == job[k]
           b == brief[k]
<1>0. PICK i, c : /\ i = [j EXCEPT !.state = "ready", !.cancel = FALSE, !.attempts = 0, !.retries = j.retries + 1]
                  /\ c = [b EXCEPT !.status = "queued"]
  OBVIOUS
<1>1. /\ job' = [job EXCEPT ![k] = i] /\ brief' = [brief EXCEPT ![k] = c]
      /\ UNCHANGED <<input, policy, ledger, exec, adm, request>>
      /\ b.status = "failed" /\ b.attempts < MaxAttempts /\ j.retries < MaxRetries
  BY <1>0 DEF RetryBrief, Spent, BriefRows
<1>2. i \in JobRows
  <2>1. j.retries + 1 \in 0..MaxRetries /\ 0 \in 0..MaxAttempts
    BY <1>1 DEF JobRows
  <2>2. [j EXCEPT !.state = "ready"] \in JobRows
    BY ZenonT(60) DEF JobRows
  <2>3. [[j EXCEPT !.state = "ready"] EXCEPT !.cancel = FALSE] \in JobRows
    BY <2>2 DEF JobRows
  <2>4. [[[j EXCEPT !.state = "ready"] EXCEPT !.cancel = FALSE] EXCEPT !.attempts = 0] \in JobRows
    BY <2>1, <2>3 DEF JobRows
  <2>5. [[[[j EXCEPT !.state = "ready"] EXCEPT !.cancel = FALSE] EXCEPT !.attempts = 0]
             EXCEPT !.retries = j.retries + 1] \in JobRows
    BY <2>1, <2>4 DEF JobRows
  <2> QED
    BY <1>0, <2>5 DEF JobRows
<1>3. i.state = "ready" /\ i.attempts = 0 /\ i.max \in 1..MaxAttempts
  BY <1>0, <1>2 DEF JobRows
<1>4. c \in BriefRows /\ c.status = "queued" /\ c.attempts = b.attempts
  BY <1>0 DEF BriefRows
<1>5. /\ job' \in [Keys -> JobRows] /\ brief' \in [Keys -> BriefRows]
      /\ job'[k] = i /\ brief'[k] = c
      /\ \A o \in Keys \ {k} : job'[o] = job[o] /\ brief'[o] = brief[o]
  BY <1>1, <1>2, <1>4
<1>6. WithinLimits'
  BY <1>1, <1>3, <1>4, <1>5 DEF BriefInv, WithinLimits
<1>7. UnfinishedHasJob'
  BY <1>3, <1>5 DEF BriefInv, UnfinishedHasJob, Live, Unfinished
<1>8. OneOpenAttempt' /\ CompletedIsPublished'
  BY <1>1, <1>3, <1>4, <1>5 DEF BriefInv, OneOpenAttempt, CompletedIsPublished
<1>9. \A o \in Keys : Published(o) => Published(o)'
  BY <1>1, <1>5 DEF Published
<1>10. RowsInv'
  BY <1>1, <1>5, <1>6, <1>7, <1>8 DEF RowsInv
<1> QED
  BY <1>1, <1>9, <1>10, OutsideExecutions

LEMMA BindStep == ASSUME BriefInv, NEW w \in Workers, Bind(w) PROVE BriefInv'
<1> USE Disassembled
<1> DEFINE k == exec[w].key
           b == brief[k]
           S == IF Recovered(k) THEN {k} ELSE {}
<1>0. PICK c : c = IF Again(k) THEN [status |-> "queued", attempt |-> 0, attempts |-> b.attempts] ELSE b
  OBVIOUS
<1>1. /\ k \in Keys /\ Working(w) /\ job[k].state = "running"
      /\ brief' = [brief EXCEPT ![k] = c] /\ ledger' = LedgerClosed(S) /\ At(w, "bound")
      /\ UNCHANGED <<input, policy, job, adm, request>>
      /\ Again(k) => ~Spent(k)
  BY <1>0 DEF Bind, Working, BriefInv, Addressed, Guard, Stopped, Leased
<1>2. Again(k) => b.status \in {"running", "failed"} /\ b.attempts < MaxAttempts
  BY <1>1 DEF Again, Recovered, Spent, BriefRows
<1>3. c \in BriefRows /\ (Again(k) => c.status = "queued" /\ c.attempts = b.attempts) /\ (~Again(k) => c = b)
  <2>1. b \in BriefRows
    BY <1>1
  <2>2. CASE Again(k)
    <3>1. c = [status |-> "queued", attempt |-> 0, attempts |-> b.attempts]
      BY <1>0, <2>2
    <3> QED
      BY <2>1, <2>2, <3>1 DEF BriefRows
  <2>3. CASE ~Again(k)
    BY <1>0, <2>1, <2>3
  <2> QED
    BY <2>2, <2>3
<1>4. /\ brief' \in [Keys -> BriefRows] /\ brief'[k] = c /\ \A o \in Keys \ {k} : brief'[o] = brief[o]
  BY <1>1, <1>3
<1>5. /\ ledger' \in [Keys -> SUBSET (1..MaxAttempts)]
      /\ \A o \in Keys : ledger'[o] = IF o \in S THEN ledger[o] \ {brief[o].attempt} ELSE ledger[o]
  BY <1>1 DEF LedgerClosed
<1>6. OneOpenAttempt'
  <2>1. ASSUME NEW o \in Keys
        PROVE  ledger'[o] = IF brief'[o].status = "running" THEN {brief'[o].attempt} ELSE {}
    <3>0. ledger[o] = IF brief[o].status = "running" THEN {brief[o].attempt} ELSE {}
      BY DEF BriefInv, OneOpenAttempt
    <3>1. CASE o # k
      BY <3>0, <3>1, <1>4, <1>5
    <3>2. CASE o = k /\ ~Again(k)
      BY <3>0, <3>2, <1>3, <1>4, <1>5 DEF Again
    <3>3. CASE o = k /\ Recovered(k)
      BY <3>0, <3>3, <1>3, <1>4, <1>5 DEF Again, Recovered
    <3>4. CASE o = k /\ ~Recovered(k) /\ Again(k)
      BY <3>0, <3>4, <1>3, <1>4, <1>5 DEF Again
    <3> QED
      BY <3>1, <3>2, <3>3, <3>4
  <2> QED
    BY <2>1 DEF OneOpenAttempt
<1>7. WithinLimits'
  BY <1>1, <1>2, <1>3, <1>4 DEF BriefInv, WithinLimits
<1>8. UnfinishedHasJob'
  BY <1>1, <1>4 DEF BriefInv, UnfinishedHasJob, Live, Unfinished
<1>9. \A o \in Keys : Published(o) => Published(o)'
  BY <1>2, <1>3, <1>4 DEF Published
<1>10. CompletedIsPublished'
  BY <1>1, <1>4 DEF BriefInv, CompletedIsPublished
<1>11. RowsInv'
  BY <1>1, <1>4, <1>5, <1>6, <1>7, <1>8, <1>10 DEF RowsInv
<1>12. exec' \in [Workers -> Executions] /\ Addressed' /\ PublishedStays'
  BY <1>1, <1>9, Moving
<1> QED
  BY <1>1, <1>11, <1>12, Assembled

(* What supersession leaves, before the brief that causes it is written.     *)
LEMMA Superseding ==
    ASSUME BriefInv, NEW k \in Keys
    PROVE  /\ BriefsClosed(StaleFor(k), "superseded") \in [Keys -> BriefRows]
           /\ LedgerClosed(StaleFor(k)) \in [Keys -> SUBSET (1..MaxAttempts)]
           /\ BriefsClosed(StaleFor(k), "superseded")[k] = brief[k]
           /\ LedgerClosed(StaleFor(k))[k] = ledger[k]
           /\ \A o \in Keys \ StaleFor(k) :
                  BriefsClosed(StaleFor(k), "superseded")[o] = brief[o] /\ LedgerClosed(StaleFor(k))[o] = ledger[o]
           /\ \A o \in StaleFor(k) :
                  /\ o \in Unfinished
                  /\ BriefsClosed(StaleFor(k), "superseded")[o].status = "superseded"
                  /\ LedgerClosed(StaleFor(k))[o] = {}
<1> USE Disassembled
<1>1. \A o \in Keys : BriefsClosed(StaleFor(k), "superseded")[o] =
          IF o \in StaleFor(k) THEN [status |-> "superseded", attempt |-> 0, attempts |-> brief[o].attempts]
          ELSE brief[o]
  BY DEF BriefsClosed
<1>2. BriefsClosed(StaleFor(k), "superseded") \in [Keys -> BriefRows]
  BY DEF BriefsClosed, BriefRows
<1>3. LedgerClosed(StaleFor(k)) \in [Keys -> SUBSET (1..MaxAttempts)]
  BY DEF LedgerClosed
<1>4. \A o \in Keys : LedgerClosed(StaleFor(k))[o] =
          IF o \in StaleFor(k) THEN ledger[o] \ {brief[o].attempt} ELSE ledger[o]
  BY DEF LedgerClosed
<1>5. k \notin StaleFor(k) /\ StaleFor(k) \subseteq Unfinished /\ Unfinished \subseteq Keys
  BY DEF StaleFor, Unfinished
<1>6. \A o \in StaleFor(k) : ledger[o] \ {brief[o].attempt} = {}
  BY <1>5 DEF BriefInv, OneOpenAttempt
<1>7. ASSUME NEW o \in StaleFor(k) PROVE BriefsClosed(StaleFor(k), "superseded")[o].status = "superseded"
  <2>1. BriefsClosed(StaleFor(k), "superseded")[o] =
            [status |-> "superseded", attempt |-> 0, attempts |-> brief[o].attempts]
    BY <1>1, <1>5
  <2> QED
    BY <2>1
<1> QED
  BY <1>1, <1>2, <1>3, <1>4, <1>5, <1>6, <1>7

LEMMA StartStep == ASSUME BriefInv, NEW w \in Workers, Start(w) PROVE BriefInv'
<1> USE Disassembled
<1> DEFINE k == exec[w].key
           n == brief[k].attempts + 1
           r == [status |-> "running", attempt |-> n, attempts |-> n]
<1>0. PICK B, L : B = BriefsClosed(StaleFor(k), "superseded") /\ L = LedgerClosed(StaleFor(k))
  OBVIOUS
<1>1. /\ k \in Keys /\ job[k].state = "running" /\ brief[k].status = "queued"
      /\ brief' = [B EXCEPT ![k] = r] /\ ledger' = [L EXCEPT ![k] = ledger[k] \cup {n}]
      /\ exec' = [exec EXCEPT ![w] = Doing("generating", k, n, "none")]
      /\ UNCHANGED <<input, policy, job, adm, request>>
  BY <1>0 DEF Start, Checking, BriefInv, Addressed, Guard, Stopped, Leased
<1>2. /\ B \in [Keys -> BriefRows] /\ L \in [Keys -> SUBSET (1..MaxAttempts)]
      /\ \A o \in Keys \ StaleFor(k) : B[o] = brief[o] /\ L[o] = ledger[o]
      /\ \A o \in StaleFor(k) : o \in Unfinished /\ B[o].status = "superseded" /\ L[o] = {}
  BY <1>0, <1>1, Superseding
<1>3. n \in 1..MaxAttempts
  BY <1>1 DEF BriefInv, WithinLimits, BriefRows
<1>4. r \in BriefRows /\ r.status = "running" /\ r.attempt = n
  BY <1>3 DEF BriefRows
<1>5. /\ brief' \in [Keys -> BriefRows] /\ brief'[k].status = "running" /\ brief'[k].attempt = n
      /\ ledger' \in [Keys -> SUBSET (1..MaxAttempts)] /\ ledger'[k] = ledger[k] \cup {n}
      /\ \A o \in Keys \ {k} : brief'[o] = B[o] /\ ledger'[o] = L[o]
  BY <1>1, <1>2, <1>3, <1>4
<1>6. OneOpenAttempt'
  <2>1. ledger[k] = {}
    BY <1>1 DEF BriefInv, OneOpenAttempt
  <2>2. ASSUME NEW o \in Keys \ {k}
        PROVE  ledger'[o] = IF brief'[o].status = "running" THEN {brief'[o].attempt} ELSE {}
    <3>1. CASE o \in StaleFor(k)
      BY <3>1, <1>2, <1>5
    <3>2. CASE o \notin StaleFor(k)
      <4>1. brief'[o] = brief[o] /\ ledger'[o] = ledger[o]
        BY <3>2, <1>2, <1>5
      <4>2. ledger[o] = IF brief[o].status = "running" THEN {brief[o].attempt} ELSE {}
        BY DEF BriefInv, OneOpenAttempt
      <4> QED
        BY <4>1, <4>2
    <3> QED
      BY <3>1, <3>2
  <2> QED
    BY <2>1, <2>2, <1>5 DEF OneOpenAttempt
<1>7. WithinLimits'
  BY <1>1, <1>2, <1>5 DEF BriefInv, WithinLimits
<1>8. UnfinishedHasJob'
  BY SMTT(30), <1>1, <1>2, <1>5 DEF BriefInv, UnfinishedHasJob, Live, Unfinished
<1>9. \A o \in Keys : Published(o) => Published(o)'
  BY <1>1, <1>2, <1>5 DEF Published, Unfinished
<1>10. CompletedIsPublished'
  BY <1>1, <1>9 DEF BriefInv, CompletedIsPublished, Published
<1>11. RowsInv'
  BY <1>1, <1>5, <1>6, <1>7, <1>8, <1>10 DEF RowsInv
<1>12. exec' \in [Workers -> Executions] /\ Addressed' /\ PublishedStays'
  <2>1. n \in 0..MaxAttempts
    BY <1>3
  <2> QED
    BY <2>1, <1>1, <1>9, MovingTo
<1> QED
  BY <1>1, <1>11, <1>12, Assembled

LEMMA AdmitNewStep == ASSUME BriefInv, NEW a \in Admitters, AdmitNew(a) PROVE BriefInv'
<1> USE Disassembled
<1> DEFINE k == adm[a].key
           b == brief[k]
           stale == {o \in Live : o \in StaleFor(k) \/ brief[o].status = "superseded"}
<1>0. PICK B, c, i : /\ B = BriefsClosed(StaleFor(k), "superseded")
                     /\ c = [b EXCEPT !.status = "queued"]
                     /\ i = [NoJob EXCEPT !.state = "ready", !.policy = adm[a].policy]
  OBVIOUS
<1>1. /\ k \in Keys /\ job[k].state = "absent" /\ b.status \in {"absent", "queued"}
      /\ brief' = [B EXCEPT ![k] = c] /\ ledger' = LedgerClosed(StaleFor(k))
      /\ job' = [o \in Keys |-> IF o = k THEN i ELSE IF o \in stale THEN Requested(job[o]) ELSE job[o]]
      /\ adm' = [adm EXCEPT ![a] = NoAdmission]
      /\ UNCHANGED <<input, policy, exec, request>>
  BY <1>0 DEF AdmitNew, Admissible, BriefInv, Addressed, NoAdmission
<1>2. /\ B \in [Keys -> BriefRows] /\ ledger' \in [Keys -> SUBSET (1..MaxAttempts)]
      /\ \A o \in Keys \ StaleFor(k) : B[o] = brief[o] /\ ledger'[o] = ledger[o]
      /\ \A o \in StaleFor(k) : o \in Unfinished /\ B[o].status = "superseded" /\ ledger'[o] = {}
      /\ ledger'[k] = ledger[k]
  BY <1>0, <1>1, Superseding
<1>3. c \in BriefRows /\ c.status = "queued" /\ c.attempts = b.attempts
  BY <1>0, <1>1 DEF BriefRows
<1>4. i \in JobRows /\ i.state = "ready" /\ i.attempts = 0 /\ i.max = MaxAttempts
  <2>1. NoJob \in JobRows /\ NoJob.attempts = 0 /\ NoJob.max = MaxAttempts
    BY JobUpdates, <1>1 DEF NoJob
  <2>2. [NoJob EXCEPT !.state = "ready"] \in JobRows
    BY <2>1 DEF JobRows
  <2>3. [[NoJob EXCEPT !.state = "ready"] EXCEPT !.policy = adm[a].policy] \in JobRows
    BY <2>2 DEF JobRows
  <2> QED
    BY <1>0, <2>1, <2>3 DEF JobRows
<1>5. job' \in [Keys -> JobRows] /\ job'[k] = i
  <2>1. \A o \in Keys : (IF o = k THEN i ELSE IF o \in stale THEN Requested(job[o]) ELSE job[o]) \in JobRows
    BY <1>4, Requests
  <2> QED
    BY <1>1, <2>1
<1>6. \A o \in Keys \ {k} :
          /\ job'[o].attempts = job[o].attempts /\ job'[o].max = job[o].max
          /\ job'[o].state = IF o \in stale /\ job[o].state = "ready" THEN "cancelled" ELSE job[o].state
  BY <1>1, Requests
<1>7. /\ brief' \in [Keys -> BriefRows] /\ brief'[k] = c
      /\ \A o \in Keys \ {k} : brief'[o] = B[o]
  BY <1>1, <1>2, <1>3
<1>8. OneOpenAttempt'
  <2>1. ledger[k] = {}
    BY <1>1 DEF BriefInv, OneOpenAttempt
  <2>2. ASSUME NEW o \in Keys \ {k}
        PROVE  ledger'[o] = IF brief'[o].status = "running" THEN {brief'[o].attempt} ELSE {}
    <3>1. CASE o \in StaleFor(k)
      BY <3>1, <1>2, <1>7
    <3>2. CASE o \notin StaleFor(k)
      <4>1. brief'[o] = brief[o] /\ ledger'[o] = ledger[o]
        BY <3>2, <1>2, <1>7
      <4>2. ledger[o] = IF brief[o].status = "running" THEN {brief[o].attempt} ELSE {}
        BY DEF BriefInv, OneOpenAttempt
      <4> QED
        BY <4>1, <4>2
    <3> QED
      BY <3>1, <3>2
  <2>3. ledger'[k] = IF brief'[k].status = "running" THEN {brief'[k].attempt} ELSE {}
    BY <2>1, <1>2, <1>3, <1>7
  <2> QED
    BY <2>2, <2>3 DEF OneOpenAttempt
<1>9. WithinLimits'
  <2>1. b.attempts < MaxAttempts
    BY <1>1 DEF BriefInv, WithinLimits
  <2> QED
    BY <2>1, <1>2, <1>3, <1>4, <1>5, <1>6, <1>7 DEF BriefInv, WithinLimits
<1>10. UnfinishedHasJob'
  <2>1. k \in Live'
    BY <1>1, <1>4, <1>5 DEF Live
  <2>2. ASSUME NEW o \in Unfinished', o # k PROVE o \in Live'
    <3>1. o \in Keys \ {k} /\ o \in Unfinished /\ o \notin StaleFor(k)
      BY <2>2, <1>2, <1>7 DEF Unfinished
    <3>2. o \in Live /\ o \notin stale
      BY <3>1 DEF BriefInv, UnfinishedHasJob, Unfinished
    <3> QED
      BY <3>1, <3>2, <1>6 DEF Live
  <2> QED
    BY <2>1, <2>2 DEF UnfinishedHasJob
<1>11. \A o \in Keys : Published(o) => Published(o)'
  BY <1>1, <1>2, <1>7 DEF Published, Unfinished
<1>12. CompletedIsPublished'
  BY <1>4, <1>5, <1>6, <1>11 DEF BriefInv, CompletedIsPublished, Published
<1>13. RowsInv'
  BY <1>2, <1>5, <1>7, <1>8, <1>9, <1>10, <1>12 DEF RowsInv
<1>14. adm' \in [Admitters -> [key: Keys \cup {NoKey}, policy: 0..MaxRevision]] /\ Addressed'
  BY <1>1 DEF NoAdmission, BriefInv, Addressed
<1>15. PublishedStays'
  BY <1>1, <1>11 DEF BriefInv, PublishedStays, Addressed
<1> QED
  BY <1>1, <1>13, <1>14, <1>15, Assembled

(* Every step, of any number of workers and admissions, keeps the rows       *)
(* consistent.                                                               *)
LEMMA NextInv == BriefInv /\ [Next]_vars => BriefInv'
<1> SUFFICES ASSUME BriefInv, [Next]_vars PROVE BriefInv'
  OBVIOUS
<1>1. CASE Admission
  BY <1>1, RowlessSteps, ClosingSteps, AdmitNewStep DEF Admission
<1>2. CASE Queue
  BY <1>2, QueueSteps DEF Queue
<1>3. CASE Api
  BY <1>3, RowlessSteps, RetryStep, CancelWriteStep DEF Api
<1>4. CASE Outside
  BY <1>4, RowlessSteps, SavePolicyStep DEF Outside
<1>5. ASSUME NEW w \in Workers, Running(w) \/ Crash(w) PROVE BriefInv'
  BY <1>5, RowlessSteps, ClosingSteps, BindStep, StartStep, CompletingSteps DEF Running
<1>6. CASE UNCHANGED vars
  BY <1>6, RowlessSteps
<1> QED
  BY <1>1, <1>2, <1>3, <1>4, <1>5, <1>6 DEF Next

(* The rows of briefs, attempts and jobs stay consistent: types and limits,  *)
(* every unfinished brief with a job that will finish it, one open attempt   *)
(* at most, and no completed job without its published brief.                *)
THEOREM BriefsInvariant == Spec => []BriefInv
<1>1. Init => BriefInv
  BY InitInv
<1>2. BriefInv /\ [Next]_vars => BriefInv'
  BY NextInv
<1> QED
  BY <1>1, <1>2, PTL DEF Spec

(* No retry, recovery or policy change overspends a job or a brief.          *)
THEOREM BriefTypes == Spec => []TypeOK
<1>1. BriefInv => TypeOK
  BY DEF BriefInv
<1> QED
  BY <1>1, BriefsInvariant, PTL

(* However a job ends, it withdraws its brief: nothing waits for nobody.     *)
THEOREM NoOrphanedBrief == Spec => []UnfinishedHasJob
<1>1. BriefInv => UnfinishedHasJob
  BY DEF BriefInv
<1> QED
  BY <1>1, BriefsInvariant, PTL

(* The ledger and the briefs agree on which attempt is running.              *)
THEOREM LedgerAgrees == Spec => []OneOpenAttempt
<1>1. BriefInv => OneOpenAttempt
  BY DEF BriefInv
<1> QED
  BY <1>1, BriefsInvariant, PTL

(* A job that is reported as succeeded has published its brief.              *)
THEOREM SuccessIsPublished == Spec => []CompletedIsPublished
<1>1. BriefInv => CompletedIsPublished
  BY DEF BriefInv
<1> QED
  BY <1>1, BriefsInvariant, PTL

-------------------------------------------------------------------------------
(* What a step may do to a brief, and who does it.                           *)
UnderLease(w, k) ==
    /\ exec[w].key = k /\ Leased(w) /\ ~job[k].cancel
    /\ CurrentPolicy(job[k].policy) /\ SameInput(k)

Outdated(k) == ~SameInput(k) \/ \E w \in Workers : exec[w].key = k /\ exec[w].why = "changed"

Open(k) == brief[k].status \in {"queued", "running"}

Explained(k) ==
    \/ brief'[k] = brief[k]
    \/ Open(k) /\ brief'[k].status = "failed"
    \/ Open(k) /\ brief'[k].status = "superseded" /\ Outdated(k)
    \/ Open(k) /\ brief'[k].status = "succeeded" /\ \E w \in Workers : UnderLease(w, k) /\ Holds(w)
    \/ brief[k].status \in {"absent", "queued", "running", "failed"} /\ brief'[k].status = "queued"
    \/ Open(k) /\ brief'[k].status = "running" /\ \E w \in Workers : UnderLease(w, k)

LEMMA ClosingExplained ==
    ASSUME BriefInv, NEW S \in SUBSET Keys,
           NEW status \in {"succeeded", "failed", "superseded"}, Close(S, status),
           \A k \in S : Open(k),
           status = "superseded" => \A k \in S : Outdated(k),
           status = "succeeded" => \A k \in S : \E w \in Workers : UnderLease(w, k) /\ Holds(w)
    PROVE  \A k \in Keys : Explained(k)
<1>1. /\ \A k \in S : brief'[k].status = status
      /\ \A k \in Keys \ S : brief'[k] = brief[k]
  BY Closing DEF BriefInv
<1> QED
  BY <1>1 DEF Explained

(* Other inputs in the same language are not the inputs in force.            *)
LEMMA StaleOutdated ==
    ASSUME NEW k \in Keys, SameInput(k)
    PROVE  StaleFor(k) \in SUBSET Keys /\ \A o \in StaleFor(k) : Open(o) /\ Outdated(o)
BY DEF StaleFor, Unfinished, Open, Outdated, SameInput, Keys

LEMMA ClosingStepsExplained ==
    ASSUME BriefInv,
           \/ \E a \in Admitters : AdmitReuse(a)
           \/ \E w \in Workers : Evict(w) \/ Break(w) \/ Publish(w) \/ Discard(w)
           \/ \E w \in Workers : Settle(w)
           \/ \E k \in Keys : ClaimCancelled(k) \/ Lapse(k)
           \/ CancelWrite
           \/ \E enabled \in BOOLEAN : SavePolicy(enabled)
    PROVE  \A k \in Keys : Explained(k)
<1>1. ASSUME NEW a \in Admitters, AdmitReuse(a) PROVE \A k \in Keys : Explained(k)
  <2>1. adm[a].key \in Keys /\ SameInput(adm[a].key) /\ Close(StaleFor(adm[a].key), "superseded")
    BY <1>1 DEF AdmitReuse, Admissible, SameInput, BriefInv, Addressed, NoAdmission
  <2> QED
    BY <2>1, StaleOutdated, ClosingExplained
<1>2. ASSUME NEW w \in Workers, Evict(w) \/ Break(w) PROVE \A k \in Keys : Explained(k)
  <2>1. Working(w) /\ Close(Fenced(w), "failed")
    BY <1>2 DEF Evict, Break
  <2> QED
    BY <2>1, FencedBriefs, ClosingExplained DEF Open
<1>3. ASSUME NEW w \in Workers, Publish(w) PROVE \A k \in Keys : Explained(k)
  <2>1. /\ exec[w].key \in Keys /\ Close({exec[w].key}, "succeeded")
        /\ Holds(w) /\ SameInput(exec[w].key) /\ Guard(w)
    BY <1>3 DEF Publish, Publishable, Returning, BriefInv, Addressed
  <2>2. Open(exec[w].key)
    BY <2>1 DEF Open, Holds
  <2>3. UnderLease(w, exec[w].key)
    BY <2>1 DEF UnderLease, Guard, Stopped
  <2> QED
    BY <2>1, <2>2, <2>3, ClosingExplained
<1>4. ASSUME NEW w \in Workers, Discard(w) PROVE \A k \in Keys : Explained(k)
  <2>1. Working(w) /\ Close(Fenced(w), "superseded") /\ ~(SameInput(exec[w].key) /\ Holds(w))
    BY <1>4 DEF Discard, Returning, Working, Publishable
  <2>2. \A k \in Fenced(w) : Outdated(k)
    BY <2>1 DEF Fenced, Outdated
  <2> QED
    BY <2>1, <2>2, FencedBriefs, ClosingExplained DEF Open
<1>5. ASSUME NEW k \in Keys, NEW status \in {"failed", "superseded"}, CloseUnfinished(k, status),
             status = "superseded" => Outdated(k)
      PROVE  \A o \in Keys : Explained(o)
  <2>1. /\ Close({k} \cap Unfinished, status) /\ {k} \cap Unfinished \in SUBSET Keys
        /\ \A o \in {k} \cap Unfinished : Open(o) /\ o = k
    BY <1>5 DEF CloseUnfinished, Unfinished, Open
  <2> QED
    BY <1>5, <2>1, ClosingExplained
<1>6. UNCHANGED brief => \A k \in Keys : Explained(k)
  BY DEF Explained
<1>7. ASSUME NEW w \in Workers, Settle(w) PROVE \A k \in Keys : Explained(k)
  <2>1. exec[w].key \in Keys
    BY <1>7 DEF Settle, BriefInv, Addressed
  <2>2. \/ UNCHANGED brief
        \/ CloseUnfinished(exec[w].key, "failed")
        \/ CloseUnfinished(exec[w].key, "superseded") /\ exec[w].why = "changed"
    BY <1>7 DEF Settle
  <2> QED
    BY <2>1, <2>2, <1>5, <1>6 DEF Outdated
<1>8. ASSUME NEW k \in Keys, ClaimCancelled(k) \/ Lapse(k) PROVE \A o \in Keys : Explained(o)
  <2>1. UNCHANGED brief \/ CloseUnfinished(k, "failed")
    BY <1>8 DEF ClaimCancelled, Lapse
  <2> QED
    BY <2>1, <1>5, <1>6
<1>9. CASE CancelWrite
  <2>1. request.key \in Keys /\ (UNCHANGED brief \/ CloseUnfinished(request.key, "failed"))
    BY <1>9 DEF CancelWrite, BriefInv, Addressed
  <2> QED
    BY <2>1, <1>5, <1>6
<1>10. ASSUME NEW enabled \in BOOLEAN, SavePolicy(enabled) PROVE \A k \in Keys : Explained(k)
  <2> DEFINE S == {k \in Live : job[k].state = "ready"} \cap Unfinished
  <2>1. Close(S, "failed") /\ S \in SUBSET Keys /\ \A k \in S : Open(k)
    BY <1>10 DEF SavePolicy, Unfinished, Open
  <2> QED
    BY <2>1, ClosingExplained
<1> QED
  BY <1>1, <1>2, <1>3, <1>4, <1>7, <1>8, <1>9, <1>10

LEMMA WritingStepsExplained ==
    ASSUME BriefInv,
           \/ \E a \in Admitters : AdmitNew(a)
           \/ \E w \in Workers : Bind(w) \/ Start(w)
           \/ \E k \in Keys : RetryBrief(k)
    PROVE  \A k \in Keys : Explained(k)
<1> USE Disassembled
<1>1. ASSUME NEW a \in Admitters, AdmitNew(a) PROVE \A o \in Keys : Explained(o)
  <2> DEFINE k == adm[a].key
  <2>0. PICK B, c : B = BriefsClosed(StaleFor(k), "superseded") /\ c = [brief[k] EXCEPT !.status = "queued"]
    OBVIOUS
  <2>1. /\ k \in Keys /\ SameInput(k) /\ brief[k].status \in {"absent", "queued"}
        /\ brief' = [B EXCEPT ![k] = c]
    BY <2>0, <1>1 DEF AdmitNew, Admissible, SameInput, BriefInv, Addressed, NoAdmission
  <2>2. /\ B \in [Keys -> BriefRows]
        /\ \A o \in Keys \ StaleFor(k) : B[o] = brief[o]
        /\ \A o \in StaleFor(k) : B[o].status = "superseded"
    BY <2>0, <2>1, Superseding
  <2>3. /\ \A o \in Keys \ {k} : brief'[o] = B[o]
        /\ brief'[k].status = "queued"
    BY <2>0, <2>1, <2>2 DEF BriefRows
  <2>4. \A o \in StaleFor(k) : Open(o) /\ Outdated(o)
    BY <2>1, StaleOutdated
  <2> QED
    BY <2>1, <2>2, <2>3, <2>4 DEF Explained
<1>2. ASSUME NEW w \in Workers, Start(w) PROVE \A o \in Keys : Explained(o)
  <2> DEFINE k == exec[w].key
             n == brief[k].attempts + 1
  <2>0. PICK B, c : /\ B = BriefsClosed(StaleFor(k), "superseded")
                    /\ c = [status |-> "running", attempt |-> n, attempts |-> n]
    OBVIOUS
  <2>1. /\ k \in Keys /\ SameInput(k) /\ brief[k].status = "queued" /\ Guard(w)
        /\ brief' = [B EXCEPT ![k] = c]
    BY <2>0, <1>2 DEF Start, Checking, BriefInv, Addressed
  <2>2. /\ B \in [Keys -> BriefRows]
        /\ \A o \in Keys \ StaleFor(k) : B[o] = brief[o]
        /\ \A o \in StaleFor(k) : B[o].status = "superseded"
    BY <2>0, <2>1, Superseding
  <2>3. /\ \A o \in Keys \ {k} : brief'[o] = B[o]
        /\ brief'[k].status = "running"
    BY <2>0, <2>1, <2>2
  <2>4. \A o \in StaleFor(k) : Open(o) /\ Outdated(o)
    BY <2>1, StaleOutdated
  <2>5. UnderLease(w, k) /\ Open(k)
    BY <2>1 DEF UnderLease, Guard, Stopped, Open
  <2> QED
    BY <2>1, <2>2, <2>3, <2>4, <2>5 DEF Explained
<1>3. ASSUME NEW w \in Workers, Bind(w) PROVE \A o \in Keys : Explained(o)
  <2> DEFINE k == exec[w].key
  <2>0. PICK c : c = IF Again(k) THEN [status |-> "queued", attempt |-> 0, attempts |-> brief[k].attempts] ELSE brief[k]
    OBVIOUS
  <2>1. k \in Keys /\ brief' = [brief EXCEPT ![k] = c]
    BY <2>0, <1>3 DEF Bind, BriefInv, Addressed
  <2>2. \/ c = brief[k]
        \/ brief[k].status \in {"running", "failed"} /\ c.status = "queued"
    BY <2>0 DEF Again, Recovered
  <2>3. brief'[k] = c /\ \A o \in Keys \ {k} : brief'[o] = brief[o]
    BY <2>1
  <2> QED
    BY <2>1, <2>2, <2>3 DEF Explained
<1>4. ASSUME NEW k \in Keys, RetryBrief(k) PROVE \A o \in Keys : Explained(o)
  <2>0. PICK c : c = [brief[k] EXCEPT !.status = "queued"]
    OBVIOUS
  <2>1. brief' = [brief EXCEPT ![k] = c] /\ brief[k].status = "failed"
    BY <2>0, <1>4 DEF RetryBrief
  <2>2. c.status = "queued"
    BY <2>0 DEF BriefRows
  <2>3. brief'[k] = c /\ \A o \in Keys \ {k} : brief'[o] = brief[o]
    BY <2>1
  <2> QED
    BY <2>1, <2>2, <2>3 DEF Explained
<1> QED
  BY <1>1, <1>2, <1>3, <1>4

LEMMA StepsExplained == BriefInv /\ [Next]_vars => \A k \in Keys : Explained(k)
<1> SUFFICES ASSUME BriefInv, [Next]_vars PROVE \A k \in Keys : Explained(k)
  OBVIOUS
<1>0. UNCHANGED brief => \A k \in Keys : Explained(k)
  BY DEF Explained
<1>1. CASE Admission
  <2>1. \/ UNCHANGED brief
        \/ \E a \in Admitters : AdmitReuse(a) \/ AdmitNew(a)
    BY <1>1 DEF Admission, AdmitMeasure, AdmitStop
  <2> QED
    BY <2>1, <1>0, ClosingStepsExplained, WritingStepsExplained
<1>2. CASE Queue
  <2>1. \/ UNCHANGED brief
        \/ \E k \in Keys : ClaimCancelled(k) \/ Lapse(k)
    BY <1>2 DEF Queue, Claim
  <2> QED
    BY <2>1, <1>0, ClosingStepsExplained
<1>3. CASE Api
  <2>1. \/ UNCHANGED brief \/ CancelWrite
        \/ \E k \in Keys : RetryBrief(k)
    BY <1>3 DEF Api, CancelRead
  <2> QED
    BY <2>1, <1>0, ClosingStepsExplained, WritingStepsExplained
<1>4. CASE Outside
  <2>1. \/ UNCHANGED brief
        \/ \E enabled \in BOOLEAN : SavePolicy(enabled)
    BY <1>4 DEF Outside, ChangeInput
  <2> QED
    BY <2>1, <1>0, ClosingStepsExplained
<1>5. ASSUME NEW w \in Workers, Running(w) \/ Crash(w) PROVE \A k \in Keys : Explained(k)
  <2>1. \/ UNCHANGED brief
        \/ Evict(w) \/ Break(w) \/ Publish(w) \/ Discard(w) \/ Settle(w)
        \/ Bind(w) \/ Start(w)
    BY <1>5 DEF Running, Crash, BindExhausted, FindChanged, FindSettled, Complete
  <2> QED
    BY <2>1, <1>0, ClosingStepsExplained, WritingStepsExplained
<1>6. CASE UNCHANGED vars
  BY <1>6, <1>0 DEF vars
<1> QED
  BY <1>1, <1>2, <1>3, <1>4, <1>5, <1>6 DEF Next

(* No late execution, retry or policy change rewrites a published or a       *)
(* superseded brief, or more than re-queues a failed one.                    *)
THEOREM HistoryIsKept == Spec => HistoryStands
<1>1. BriefInv /\ [Next]_vars =>
          [\A k \in Keys :
              /\ brief[k].status \in {"succeeded", "superseded"} => brief'[k] = brief[k]
              /\ brief[k].status = "failed" => brief'[k].status \in {"failed", "queued"}]_vars
  BY StepsExplained DEF Explained, Open
<1> QED
  BY <1>1, BriefsInvariant, PTL DEF Spec, HistoryStands

(* Only inputs no longer in force are superseded, in any number of languages *)
(* and with admissions and executions in any order.                          *)
THEOREM SupersessionIsDue == Spec => OnlyStaleSuperseded
<1>1. BriefInv /\ [Next]_vars =>
          [\A k \in Keys :
              (brief[k].status # "superseded" /\ brief'[k].status = "superseded")
                 => \/ ~SameInput(k)
                    \/ \E w \in Workers : exec[w].key = k /\ exec[w].why = "changed"]_vars
  BY StepsExplained DEF Explained, Outdated
<1> QED
  BY <1>1, BriefsInvariant, PTL DEF Spec, OnlyStaleSuperseded

(* An execution that lost its lease, was cancelled or works under an old     *)
(* policy neither starts an attempt nor publishes.                           *)
THEOREM LeaseGuardsWork == Spec => WorkUnderLease
<1>1. BriefInv /\ [Next]_vars =>
          [\A k \in Keys :
              (brief'[k] # brief[k] /\ brief'[k].status \in {"running", "succeeded"})
                 => \E w \in Workers :
                      /\ exec[w].key = k /\ Leased(w) /\ ~job[k].cancel
                      /\ CurrentPolicy(job[k].policy) /\ SameInput(k)
                      /\ brief'[k].status = "succeeded" => Holds(w)]_vars
  BY StepsExplained DEF Explained, UnderLease
<1> QED
  BY <1>1, BriefsInvariant, PTL DEF Spec, WorkUnderLease

-------------------------------------------------------------------------------
(* The pending allowance.                                                    *)
LEMMA LiveRow ==
    ASSUME BriefInv, NEW k \in Keys, NEW j, job' = [job EXCEPT ![k] = j],
           j.state \in {"ready", "running"} => job[k].state \in {"ready", "running"}
    PROVE  Live' \subseteq Live
<1>1. job'[k] = j /\ \A o \in Keys \ {k} : job'[o] = job[o]
  BY Disassembled
<1> QED
  BY <1>1 DEF Live

LEMMA LiveShrinks ==
    ASSUME BriefInv,
           \/ \E w \in Workers : Complete(w) \/ Settle(w)
           \/ \E k \in Keys : ClaimCancelled(k) \/ Lapse(k) \/ \E w \in Workers : Claim(w, k)
           \/ CancelWrite
           \/ \E enabled \in BOOLEAN : SavePolicy(enabled)
    PROVE  Live' \subseteq Live
<1> USE Disassembled
<1>1. ASSUME NEW w \in Workers, Complete(w) PROVE Live' \subseteq Live
  <2>1. /\ exec[w].key \in Keys
        /\ job' = [job EXCEPT ![exec[w].key] = Ended(job[exec[w].key], "succeeded")]
    BY <1>1 DEF Complete, BriefInv, Addressed
  <2>2. Ended(job[exec[w].key], "succeeded").state = "succeeded"
    BY <2>1 DEF Ended, JobRows
  <2> QED
    BY <2>1, <2>2, LiveRow
<1>2. ASSUME NEW w \in Workers, Settle(w) PROVE Live' \subseteq Live
  <2>1. exec[w].key \in Keys
    BY <1>2 DEF Settle, BriefInv, Addressed
  <2>2. CASE ~Leased(w)
    BY <1>2, <2>2 DEF Settle, Live
  <2>3. CASE Leased(w)
    <3> DEFINE k == exec[w].key
               i == job[k]
               why == exec[w].why
    <3>1. \E j : job' = [job EXCEPT ![k] = j]
      <4>1. CASE i.cancel \/ why = "cancelled"
        <5>1. job' = [job EXCEPT ![k] = [Ended(i, "cancelled") EXCEPT !.cancel = TRUE]]
          BY <1>2, <2>3, <4>1 DEF Settle
        <5> QED
          BY <5>1
      <4>2. CASE ~(i.cancel \/ why = "cancelled") /\ why = "transient" /\ i.attempts < i.max
        <5>1. job' = [job EXCEPT ![k] = Ended(i, "ready")]
          BY <1>2, <2>3, <4>2 DEF Settle
        <5> QED
          BY <5>1
      <4>3. CASE ~(i.cancel \/ why = "cancelled") /\ ~(why = "transient" /\ i.attempts < i.max)
        <5>1. job' = [job EXCEPT ![k] = [Ended(i, "failed") EXCEPT
                          !.max = IF why = "transient" THEN i.max ELSE i.attempts]]
          BY <1>2, <2>3, <4>3 DEF Settle
        <5> QED
          BY <5>1
      <4> QED
        BY <4>1, <4>2, <4>3
    <3>2. job[exec[w].key].state = "running"
      BY <2>3 DEF Leased
    <3> QED
      BY <2>1, <3>1, <3>2, LiveRow
  <2> QED
    BY <2>2, <2>3
<1>3. ASSUME NEW k \in Keys, ClaimCancelled(k) \/ Lapse(k) \/ \E w \in Workers : Claim(w, k)
      PROVE  Live' \subseteq Live
  <2>1. PICK j : job' = [job EXCEPT ![k] = j]
    BY <1>3 DEF ClaimCancelled, Lapse, Claim, ClaimRow
  <2>2. job[k].state \in {"ready", "running"}
    BY <1>3 DEF ClaimCancelled, Lapse, Claim
  <2> QED
    BY <2>1, <2>2, LiveRow
<1>4. CASE CancelWrite
  <2> DEFINE k == request.key
  <2>1. k \in Keys
    BY <1>4 DEF CancelWrite, BriefInv, Addressed
  <2>2. PICK j : /\ job' = [job EXCEPT ![k] = j]
                 /\ \/ j = [job[k] EXCEPT !.state = "cancelled", !.cancel = TRUE]
                    \/ j = [job[k] EXCEPT !.cancel = TRUE]
    BY <1>4 DEF CancelWrite
  <2>3. j.state \in {"cancelled", job[k].state}
    <3>1. job[k] \in JobRows
      BY <2>1
    <3>2. /\ [job[k] EXCEPT !.state = "cancelled", !.cancel = TRUE].state = "cancelled"
          /\ [job[k] EXCEPT !.cancel = TRUE].state = job[k].state
      BY <3>1 DEF JobRows
    <3> QED
      BY <2>2, <3>2
  <2> QED
    BY <2>1, <2>2, <2>3, LiveRow
<1>5. ASSUME NEW enabled \in BOOLEAN, SavePolicy(enabled) PROVE Live' \subseteq Live
  <2>1. \A k \in Keys : job'[k] = IF k \in Live THEN Requested(job[k]) ELSE job[k]
    BY <1>5 DEF SavePolicy
  <2> QED
    BY <2>1 DEF Live
<1> QED
  BY <1>1, <1>2, <1>3, <1>4, <1>5

(* An allowance that had room for one more is not exceeded by one more.      *)
LEMMA OneMore ==
    ASSUME NEW S \in SUBSET Keys, NEW k \in Keys, Room(S), Live' \subseteq S \cup {k}
    PROVE  PendingAllowance'
<1>1. IsFiniteSet(S)
  BY BriefAssumption, FS_Subset DEF Keys
<1>2. /\ IsFiniteSet(S \cup {k}) /\ Cardinality(S) \in Nat
      /\ Cardinality(S \cup {k}) <= Cardinality(S) + 1
  <2>1. IsFiniteSet(S \cup {k}) /\ Cardinality(S) \in Nat
    BY <1>1, FS_AddElement, FS_CardinalityType
  <2>2. Cardinality(S \cup {k}) = IF k \in S THEN Cardinality(S) ELSE Cardinality(S) + 1
    BY <1>1, FS_AddElement, Zenon
  <2> QED
    BY <2>1, <2>2
<1>3. Cardinality(S \cup {k}) \in Nat /\ Cardinality(S) < MaxPending /\ MaxPending \in Nat
  BY <1>2, FS_CardinalityType, BriefAssumption DEF Room
<1>4. /\ Cardinality(Live') \in Nat
      /\ Cardinality(Live') <= Cardinality(S \cup {k})
  BY <1>2, FS_Subset, FS_CardinalityType
<1> QED
  BY <1>2, <1>3, <1>4 DEF PendingAllowance

LEMMA AllowanceKept == BriefInv /\ PendingAllowance /\ [Next]_vars => PendingAllowance'
<1> SUFFICES ASSUME BriefInv, PendingAllowance, [Next]_vars PROVE PendingAllowance'
  OBVIOUS
<1> USE Disassembled
<1>1. ASSUME Live' \subseteq Live PROVE PendingAllowance'
  <2>1. IsFiniteSet(Live)
    BY BriefAssumption, FS_Subset DEF Keys, Live
  <2>2. /\ Cardinality(Live) \in Nat /\ Cardinality(Live') \in Nat /\ MaxPending \in Nat
        /\ Cardinality(Live') <= Cardinality(Live)
    BY <1>1, <2>1, FS_Subset, FS_CardinalityType, BriefAssumption
  <2> QED
    BY <2>2 DEF PendingAllowance
<1>2. ASSUME NEW a \in Admitters, AdmitNew(a) PROVE PendingAllowance'
  <2> DEFINE k == adm[a].key
             stale == {o \in Live : o \in StaleFor(k) \/ brief[o].status = "superseded"}
             gone == {o \in stale : job[o].state = "ready"}
  <2>1. /\ k \in Keys /\ Room(Live \ gone)
        /\ \A o \in Keys \ {k} : job'[o] = IF o \in stale THEN Requested(job[o]) ELSE job[o]
    BY <1>2 DEF AdmitNew, Admissible, BriefInv, Addressed, NoAdmission
  <2>2. ASSUME NEW o \in Live', o # k PROVE o \in Live \ gone
    <3>1. o \in Keys \ {k} /\ job'[o].state \in {"ready", "running"}
      BY <2>2 DEF Live
    <3>2. o \in stale => /\ job'[o].state = IF job[o].state = "ready" THEN "cancelled" ELSE job[o].state
                         /\ o \in Live
      BY <2>1, <3>1, Requests
    <3>3. o \notin stale => job'[o] = job[o]
      BY <2>1, <3>1
    <3> QED
      BY <3>1, <3>2, <3>3 DEF Live
  <2>3. Live \ gone \in SUBSET Keys /\ Live' \subseteq (Live \ gone) \cup {k}
    BY <2>2 DEF Live
  <2> QED
    BY <2>1, <2>3, OneMore
<1>3. ASSUME NEW k \in Keys, RetryBrief(k) PROVE PendingAllowance'
  <2>1. PICK j : job' = [job EXCEPT ![k] = j]
    BY <1>3 DEF RetryBrief
  <2>2. Live \in SUBSET Keys /\ Live' \subseteq Live \cup {k} /\ Room(Live)
    BY <2>1, <1>3 DEF RetryBrief, Live
  <2> QED
    BY <2>2, OneMore
<1>4. UNCHANGED job => Live' \subseteq Live
  BY DEF Live
<1>5. CASE Admission
  <2>1. UNCHANGED job \/ \E a \in Admitters : AdmitNew(a)
    BY <1>5 DEF Admission, AdmitMeasure, AdmitReuse, AdmitStop
  <2> QED
    BY <2>1, <1>1, <1>2, <1>4
<1>6. CASE Queue
  BY <1>6, <1>1, LiveShrinks DEF Queue
<1>7. CASE Api
  <2>1. UNCHANGED job \/ CancelWrite \/ \E k \in Keys : RetryBrief(k)
    BY <1>7 DEF Api, CancelRead
  <2> QED
    BY <2>1, <1>1, <1>3, <1>4, LiveShrinks
<1>8. CASE Outside
  <2>1. UNCHANGED job \/ \E enabled \in BOOLEAN : SavePolicy(enabled)
    BY <1>8 DEF Outside, ChangeInput
  <2> QED
    BY <2>1, <1>1, <1>4, LiveShrinks
<1>9. ASSUME NEW w \in Workers, Running(w) \/ Crash(w) PROVE PendingAllowance'
  <2>1. UNCHANGED job \/ Complete(w) \/ Settle(w)
    BY <1>9 DEF Running, Crash, Evict, Break, Bind, BindExhausted, FindChanged, FindSettled, Start, Publish, Discard
  <2> QED
    BY <2>1, <1>1, <1>4, LiveShrinks
<1>10. CASE UNCHANGED vars
  BY <1>10, <1>1, <1>4 DEF vars
<1> QED
  BY <1>5, <1>6, <1>7, <1>8, <1>9, <1>10 DEF Next

(* New briefs, retries and supersession together never leave more jobs       *)
(* unfinished than the organization's allowance.                             *)
THEOREM AllowanceHolds == Spec => []PendingAllowance
<1>1. Init => PendingAllowance
  <2>1. ASSUME Init PROVE Live = {}
    BY <2>1 DEF Init, Live, NoJob
  <2> QED
    BY <2>1, FS_EmptySet, BriefAssumption DEF PendingAllowance
<1>2. BriefInv /\ PendingAllowance /\ [Next]_vars => PendingAllowance'
  BY AllowanceKept
<1> QED
  BY <1>1, <1>2, BriefsInvariant, PTL DEF Spec
=============================================================================
