--------------------------- MODULE FeedChecksProofs ---------------------------
(***************************************************************************)
(* Proofs about FeedChecks, for any number of checks, workers, addresses,   *)
(* versions and portions, any answer of a source, and any number of edits,  *)
(* crashes, failed calls and lapsed leases.                                 *)
(***************************************************************************)
EXTENDS FeedChecks, SequenceTheorems, TLAPS

FeedRows == [active: BOOLEAN, rev: Nat, scope: Nat, check: Checks, plan: BOOLEAN]
JobRows == [state: {"absent", "ready", "running", "succeeded", "failed", "cancelled"},
            attempts: 0..MaxAttempts, holder: Workers \cup {None}, fresh: BOOLEAN]
CheckRows == [status: {"absent", "queued", "running", "completed", "failed", "cancelled"},
              rev: Nat, scope: Nat]
Executions == [pc: Asks \cup {"idle", "read", "drop"}, check: Checks \cup {None},
               state: States, doc: 0..Versions]

(* Attempts are left while a job waits; what ran was claimed; a check that   *)
(* is not finished has a job that can still end it.                          *)
Budgets ==
    \A c \in Checks :
        /\ job[c].state = "ready" => job[c].attempts < MaxAttempts
        /\ job[c].state = "running" => job[c].attempts > 0
Closable ==
    \A c \in Checks : Unfinished(c) => job[c].state \in {"ready", "running", "failed", "cancelled"}

(* What a checkpoint is about to judge is an update behind its cursor; what  *)
(* it retains of an original is of one that is no index.                     *)
GateOpen(s) == s.gate # 0 => s.gate \in DOMAIN updates /\ s.judged < s.gate
Originals(reads) ==
    \A i \in DOMAIN reads : reads[i].reading.version # 0 => reads[i].url \notin Index
WellRead(s) ==
    /\ s.reading.version # 0 => s.items # <<>> /\ s.items[1] \notin Index
    /\ Originals(s.retry) /\ Originals(s.resume)
Sound(s) == GateOpen(s) /\ WellRead(s)
Checkpoints ==
    /\ \A c \in Checks : Sound(saved[c]) /\ Sound(receipts[c])
    /\ \A w \in Workers : Sound(exec[w].state)

(* A worker is at the step that its copy of the checkpoint calls for.        *)
Due(pc, s) ==
    /\ pc = "plan" => ~s.plan
    /\ pc = "gate" => s.gate # 0
    /\ pc = "search" => s.pending /\ s.items = <<>>
    /\ pc \in {"read", "fetched"} => s.items # <<>> /\ (s.reading.version # 0 \/ s.items[1] \notin s.seen)
InStep(e) ==
    /\ e.pc = "idle" <=> e.check = None
    /\ Due(e.pc, e.state)
    /\ e.pc = "fetched" /\ e.state.reading.version # 0 => e.doc \in {0, e.state.reading.version}
StepsAreDue == \A w \in Workers : InStep(exec[w])

(* While its claim is in force, its copy is what is saved.                   *)
Copies ==
    \A w \in Workers, c \in Checks :
        /\ exec[w].check = c /\ job[c].state = "running" /\ job[c].holder = w
        /\ exec[w].pc \notin {"claimed", "drop"}
        => exec[w].state = saved[c]

(* What is retained is in the receipts and in the live checkpoint of the     *)
(* newest check, which is of the scope in force.                             *)
Retained ==
    \A o \in begun :
        /\ o[1] \notin Index
        /\ Holds(receipts[feed.check], o[1], o[2])
        /\ Live(feed.check) => Holds(saved[feed.check], o[1], o[2])
        /\ check[feed.check].scope = feed.scope

Bookkeeping == TypeOK /\ Budgets /\ Closable /\ UnfinishedIsCurrent
FeedInv == Bookkeeping /\ Checkpoints /\ StepsAreDue /\ Copies /\ Retained

-------------------------------------------------------------------------------
(* Checkpoints as values.                                                    *)
LEMMA StateFields ==
    ASSUME NEW s \in States
    PROVE  /\ s.plan \in BOOLEAN /\ s.items \in Seq(Urls) /\ s.reading \in Readings
           /\ s.pending \in BOOLEAN /\ s.cursors \subseteq Cursors /\ s.pages \subseteq Seq(Urls)
           /\ s.seen \subseteq Urls /\ s.retry \in Reads /\ s.resume \in Reads
           /\ s.resumed \in BOOLEAN /\ s.turn \in BOOLEAN /\ s.judged \in Nat /\ s.gate \in Nat
  BY DEF States

LEMMA StateShape ==
    ASSUME NEW s \in States
    PROVE  s = [plan |-> s.plan, items |-> s.items, reading |-> s.reading,
                pending |-> s.pending, cursors |-> s.cursors, pages |-> s.pages,
                seen |-> s.seen, retry |-> s.retry, resume |-> s.resume,
                resumed |-> s.resumed, turn |-> s.turn, judged |-> s.judged, gate |-> s.gate]
  BY DEF States

LEMMA OneField ==
    ASSUME NEW s \in States
    PROVE  /\ \A x \in BOOLEAN : /\ [s EXCEPT !.plan = x] \in States
                                 /\ [s EXCEPT !.pending = x] \in States
                                 /\ [s EXCEPT !.resumed = x] \in States
                                 /\ [s EXCEPT !.turn = x] \in States
           /\ \A x \in Seq(Urls) : [s EXCEPT !.items = x] \in States
           /\ \A x \in Readings : [s EXCEPT !.reading = x] \in States
           /\ \A x \in SUBSET Cursors : [s EXCEPT !.cursors = x] \in States
           /\ \A x \in SUBSET Seq(Urls) : [s EXCEPT !.pages = x] \in States
           /\ \A x \in SUBSET Urls : [s EXCEPT !.seen = x] \in States
           /\ \A x \in Reads : /\ [s EXCEPT !.retry = x] \in States
                               /\ [s EXCEPT !.resume = x] \in States
           /\ \A x \in Nat : [s EXCEPT !.judged = x] \in States /\ [s EXCEPT !.gate = x] \in States
  BY DEF States

LEMMA ReadingFields ==
    /\ \A r \in Readings : r.version \in 0..Versions /\ r.parts \in 0..Portions
    /\ \A v \in 1..Versions, p \in 0..Portions : [version |-> v, parts |-> p] \in Readings
    /\ NoReading \in Readings /\ NoReading.version = 0 /\ NoReading.parts = 0
  BY FeedAssumption DEF Readings, NoReading

LEMMA ReadFields ==
    \A reads \in Reads : \A i \in DOMAIN reads :
        reads[i].url \in Urls /\ reads[i].reading \in Readings
<1> SUFFICES ASSUME NEW reads \in Reads, NEW i \in DOMAIN reads
             PROVE  reads[i].url \in Urls /\ reads[i].reading \in Readings
  OBVIOUS
<1> DEFINE R == [url: Urls, reading: Readings]
<1>1. reads[i] \in R
  <2> HIDE DEF R
  <2>1. reads \in Seq(R)
    BY DEF Reads, R
  <2> QED
    BY <2>1
<1> QED
  BY <1>1

LEMMA FreshState ==
    /\ Fresh \in States /\ WellRead(Fresh)
    /\ Fresh.gate = 0 /\ Fresh.judged = 0
<1>1. Sources \in Seq(Urls) /\ <<>> \in Reads
  BY FeedAssumption DEF Reads
<1>2. Fresh \in States
  BY <1>1, ReadingFields DEF Fresh, States
<1> QED
  BY <1>2, ReadingFields DEF Fresh, WellRead, Originals

(* What the bookkeeping of a step leaves alone.                              *)
Alike(s, t) ==
    /\ t.plan = s.plan /\ t.pending = s.pending /\ t.cursors = s.cursors /\ t.pages = s.pages
    /\ t.seen = s.seen /\ t.retry = s.retry /\ t.judged = s.judged
Keeps(s, t) == \A u, v : v # 0 /\ Holds(s, u, v) => Holds(t, u, v)

LEMMA NextGateState ==
    ASSUME NEW s \in States, Sound(s), updates \in Seq([url: Urls, version: 1..Versions])
    PROVE  LET t == NextGate(s) IN t \in States /\ Alike(s, t) /\ Keeps(s, t) /\ Sound(t)
<1> DEFINE n == NextUnassessed(s.judged)
           t == [s EXCEPT !.turn = FALSE, !.gate = n]
           open == {i \in DOMAIN updates : i > s.judged /\ i \notin decided}
<1>1. DOMAIN updates \subseteq Nat
  OBVIOUS
<1>2. n = 0 \/ n \in open
  BY DEF NextUnassessed
<1>3. n \in Nat /\ (n # 0 => n \in DOMAIN updates /\ s.judged < n)
  BY <1>1, <1>2, StateFields
<1>4. t \in States
  <2>1. [s EXCEPT !.turn = FALSE] \in States
    BY OneField
  <2>2. [[s EXCEPT !.turn = FALSE] EXCEPT !.gate = n] \in States
    BY <2>1, <1>3, OneField
  <2> QED
    BY <2>2
<1>5. /\ Alike(s, t) /\ t.items = s.items /\ t.reading = s.reading /\ t.resume = s.resume
      /\ t.gate = n
  BY StateShape DEF Alike
<1>6. Keeps(s, t) /\ Sound(t)
  BY <1>3, <1>5 DEF Keeps, Holds, Sound, GateOpen, WellRead, Alike
<1>7. Alike(s, s) /\ Keeps(s, s)
  BY DEF Alike, Keeps
<1> QED
  BY <1>4, <1>5, <1>6, <1>7 DEF NextGate

LEMMA ResumedState ==
    ASSUME NEW s \in States, Sound(s)
    PROVE  LET t == Resumed(s) IN
           t \in States /\ Alike(s, t) /\ t.gate = s.gate /\ Keeps(s, t) /\ Sound(t)
<1> DEFINE h == Head(s.resume)
           t == [s EXCEPT !.items = <<h.url>> \o s.items, !.reading = h.reading,
                          !.resume = Tail(s.resume)]
<1>1. ASSUME s.reading.version = 0, s.resume # <<>>
      PROVE  t \in States /\ Alike(s, t) /\ t.gate = s.gate /\ Keeps(s, t) /\ Sound(t)
  <2>1. /\ Tail(s.resume) \in Reads /\ h = s.resume[1] /\ 1 \in DOMAIN s.resume
        /\ s.resume \in Seq([url: Urls, reading: Readings]) /\ s.items \in Seq(Urls)
    <3> DEFINE R == [url: Urls, reading: Readings]
    <3>1. s.resume \in Seq(R) /\ Reads = Seq(R) /\ s.items \in Seq(Urls)
      BY StateFields DEF Reads
    <3> HIDE DEF R
    <3>2. Tail(s.resume) \in Seq(R) /\ h = s.resume[1] /\ 1 \in DOMAIN s.resume
      BY <1>1, <3>1
    <3> QED
      BY <3>1, <3>2 DEF R
  <2>2. h.url \in Urls /\ h.reading \in Readings
    BY <2>1, StateFields, ReadFields
  <2>3. <<h.url>> \o s.items \in Seq(Urls) /\ (<<h.url>> \o s.items)[1] = h.url /\ <<h.url>> \o s.items # <<>>
    BY <2>1, <2>2
  <2>4. t \in States
    <3>1. [s EXCEPT !.items = <<h.url>> \o s.items] \in States
      BY <2>3, OneField
    <3>2. [[s EXCEPT !.items = <<h.url>> \o s.items] EXCEPT !.reading = h.reading] \in States
      BY <2>2, <3>1, OneField
    <3>3. [[[s EXCEPT !.items = <<h.url>> \o s.items] EXCEPT !.reading = h.reading]
              EXCEPT !.resume = Tail(s.resume)] \in States
      BY <2>1, <3>2, OneField
    <3> QED
      BY <3>3
  <2>5. /\ Alike(s, t) /\ t.gate = s.gate
        /\ t.items = <<h.url>> \o s.items /\ t.reading = h.reading /\ t.resume = Tail(s.resume)
    BY StateShape DEF Alike
  <2>6. \A i \in DOMAIN s.resume : s.resume[i] = h \/ \E k \in DOMAIN t.resume : t.resume[k] = s.resume[i]
    <3>1. \A i \in DOMAIN s.resume : i # 1 => i - 1 \in DOMAIN Tail(s.resume) /\ Tail(s.resume)[i - 1] = s.resume[i]
      BY <2>1, <1>1
    <3> QED
      BY <2>1, <2>5, <3>1
  <2>7. \A k \in DOMAIN t.resume : \E i \in DOMAIN s.resume : t.resume[k] = s.resume[i]
    <3>1. \A k \in DOMAIN Tail(s.resume) : k + 1 \in DOMAIN s.resume /\ Tail(s.resume)[k] = s.resume[k + 1]
      BY <2>1, <1>1
    <3> QED
      BY <2>5, <3>1
  <2>8. Keeps(s, t)
    BY <1>1, <2>3, <2>5, <2>6 DEF Keeps, Holds, Alike
  <2>9. WellRead(t)
    BY <2>1, <2>3, <2>5, <2>7 DEF Sound, WellRead, Originals, Alike
  <2>10. GateOpen(t)
    BY <2>5 DEF Sound, GateOpen, Alike
  <2> QED
    BY <2>4, <2>5, <2>8, <2>9, <2>10 DEF Sound
<1>2. Alike(s, s) /\ Keeps(s, s)
  BY DEF Alike, Keeps
<1> QED
  BY <1>1, <1>2 DEF Resumed

LEMMA AheadState ==
    ASSUME NEW s \in States, Sound(s)
    PROVE  LET t == Ahead(s) IN
           /\ t \in States /\ Alike(s, t) /\ t.gate = s.gate /\ Keeps(s, t) /\ Sound(t)
           /\ t.items # <<>> => t.reading.version # 0 \/ t.items[1] \notin t.seen
<1>1. Alike(s, s) /\ Keeps(s, s)
  BY DEF Alike, Keeps
<1>2. ASSUME s.reading.version = 0, s.items # <<>>, NEW rest \in Seq(Urls)
      PROVE  LET t == [s EXCEPT !.items = rest] IN
             /\ t \in States /\ Alike(s, t) /\ t.gate = s.gate /\ t.items = rest
             /\ Keeps(s, t) /\ Sound(t)
  <2> DEFINE t == [s EXCEPT !.items = rest]
  <2>1. t \in States
    BY OneField
  <2>2. /\ Alike(s, t) /\ t.gate = s.gate /\ t.items = rest /\ t.reading = s.reading
        /\ t.resume = s.resume
    BY StateShape DEF Alike
  <2>3. Keeps(s, t) /\ Sound(t)
    BY <1>2, <2>2 DEF Alike, Keeps, Holds, Sound, GateOpen, WellRead
  <2> QED
    BY <2>1, <2>2, <2>3
<1>3. ASSUME s.reading.version = 0, s.items # <<>>,
             \E k \in Unseen(s) : \A l \in Unseen(s) : k <= l
      PROVE  LET next == CHOOSE k \in Unseen(s) : \A l \in Unseen(s) : k <= l
                 rest == SubSeq(s.items, next, Len(s.items))
             IN  rest \in Seq(Urls) /\ rest # <<>> /\ rest[1] \notin s.seen
  <2> DEFINE next == CHOOSE k \in Unseen(s) : \A l \in Unseen(s) : k <= l
  <2>1. next \in DOMAIN s.items /\ s.items[next] \notin s.seen /\ s.items \in Seq(Urls)
    BY <1>3, StateFields DEF Unseen
  <2> HIDE DEF next
  <2>2. next \in 1..Len(s.items)
    BY <2>1
  <2>3. /\ SubSeq(s.items, next, Len(s.items)) \in Seq(Urls)
        /\ SubSeq(s.items, next, Len(s.items)) # <<>>
        /\ SubSeq(s.items, next, Len(s.items))[1] = s.items[next]
    BY <2>1, <2>2
  <2> QED
    BY <2>1, <2>3 DEF next
<1>4. CASE s.reading.version # 0 \/ s.items = <<>>
  BY <1>1, <1>4 DEF Ahead
<1>5. CASE /\ s.reading.version = 0 /\ s.items # <<>>
           /\ \E k \in Unseen(s) : \A l \in Unseen(s) : k <= l
  <2> DEFINE rest == SubSeq(s.items, CHOOSE k \in Unseen(s) : \A l \in Unseen(s) : k <= l, Len(s.items))
  <2>1. rest \in Seq(Urls) /\ rest # <<>> /\ rest[1] \notin s.seen
    BY <1>3, <1>5
  <2>2. Ahead(s) = [s EXCEPT !.items = rest]
    BY <1>5 DEF Ahead
  <2> HIDE DEF rest
  <2> QED
    BY <1>2, <1>5, <2>1, <2>2 DEF Alike
<1>6. CASE /\ s.reading.version = 0 /\ s.items # <<>>
           /\ ~\E k \in Unseen(s) : \A l \in Unseen(s) : k <= l
  <2>1. Ahead(s) = [s EXCEPT !.items = <<>>]
    BY <1>6 DEF Ahead
  <2>2. <<>> \in Seq(Urls)
    OBVIOUS
  <2> QED
    BY <1>2, <1>6, <2>1, <2>2
<1> QED
  BY <1>4, <1>5, <1>6

(* The first transaction of a step.                                          *)
LEMMA OpenedState ==
    ASSUME NEW s \in States, Sound(s), updates \in Seq([url: Urls, version: 1..Versions])
    PROVE  LET t == Prepared(NextGate(s)) IN
           /\ t \in States /\ Alike(s, t) /\ Keeps(s, t) /\ Sound(t)
           /\ Due(Phase(t), t) /\ Phase(t) \in {"plan", "gate", "read", "search", "finish"}
<1> DEFINE g == NextGate(s)
           t == Prepared(g)
<1>1. g \in States /\ Alike(s, g) /\ Keeps(s, g) /\ Sound(g)
  BY NextGateState
<1> HIDE DEF g
<1>2. CASE ~(g.plan /\ g.gate = 0)
  <2>1. t = g
    BY <1>2 DEF Prepared
  <2> QED
    BY <1>1, <1>2, <2>1 DEF Phase, Due, g
<1>3. CASE g.plan /\ g.gate = 0
  <2> DEFINE r == Resumed(g)
  <2>1. r \in States /\ Alike(g, r) /\ r.gate = g.gate /\ Keeps(g, r) /\ Sound(r)
    BY <1>1, ResumedState
  <2>2. t = Ahead(r)
    BY <1>3 DEF Prepared
  <2> HIDE DEF r, t
  <2>3. /\ t \in States /\ Alike(r, t) /\ t.gate = r.gate /\ Keeps(r, t) /\ Sound(t)
        /\ t.items # <<>> => t.reading.version # 0 \/ t.items[1] \notin t.seen
    BY <2>1, <2>2, AheadState
  <2>4. Alike(s, t) /\ Keeps(s, t)
    BY <1>1, <2>1, <2>3 DEF Alike, Keeps
  <2>5. Due(Phase(t), t) /\ Phase(t) \in {"plan", "gate", "read", "search", "finish"}
    BY <2>3, StateFields DEF Phase, Due
  <2> QED
    BY <2>3, <2>4, <2>5 DEF t, g
<1> QED
  BY <1>2, <1>3

-------------------------------------------------------------------------------
(* What the outcomes of a step make of a checkpoint.                         *)
Progress(s, t) == NoRetreat(s, t) /\ GotFurther(s, t)

LEMMA PlanState ==
    ASSUME NEW s \in States, Sound(s), ~s.plan
    PROVE  LET t == [s EXCEPT !.plan = TRUE] IN
           t \in States /\ Sound(t) /\ Keeps(s, t) /\ Progress(s, t)
<1> DEFINE t == [s EXCEPT !.plan = TRUE]
<1>1. t \in States
  BY OneField
<1>2. /\ t.plan /\ t.items = s.items /\ t.reading = s.reading /\ t.resume = s.resume
      /\ t.gate = s.gate /\ t.judged = s.judged /\ t.retry = s.retry
      /\ t.seen = s.seen /\ t.cursors = s.cursors /\ t.pages = s.pages
  BY StateShape
<1>3. Sound(t) /\ Keeps(s, t)
  BY <1>2 DEF Sound, GateOpen, WellRead, Keeps, Holds
<1>4. Progress(s, t)
  BY <1>2, StateFields DEF Progress, NoRetreat, GotFurther
<1> QED
  BY <1>1, <1>3, <1>4

LEMMA JudgedState ==
    ASSUME NEW s \in States, Sound(s), s.gate # 0
    PROVE  LET t == [s EXCEPT !.judged = s.gate, !.gate = 0] IN
           t \in States /\ Sound(t) /\ Keeps(s, t) /\ Progress(s, t)
<1> DEFINE t == [s EXCEPT !.judged = s.gate, !.gate = 0]
<1>1. t \in States
  <2>1. [s EXCEPT !.judged = s.gate] \in States
    BY StateFields, OneField
  <2>2. [[s EXCEPT !.judged = s.gate] EXCEPT !.gate = 0] \in States
    BY <2>1, OneField
  <2> QED
    BY <2>2
<1>2. /\ t.plan = s.plan /\ t.items = s.items /\ t.reading = s.reading /\ t.resume = s.resume
      /\ t.gate = 0 /\ t.judged = s.gate /\ t.retry = s.retry
      /\ t.seen = s.seen /\ t.cursors = s.cursors /\ t.pages = s.pages
  BY StateShape
<1>3. Sound(t) /\ Keeps(s, t)
  BY <1>2 DEF Sound, GateOpen, WellRead, Keeps, Holds
<1>4. s.judged < s.gate /\ s.judged \in Nat /\ s.gate \in Nat
  BY StateFields DEF Sound, GateOpen
<1>5. Progress(s, t)
  BY <1>2, <1>4 DEF Progress, NoRetreat, GotFurther
<1> QED
  BY <1>1, <1>3, <1>5

LEMMA FoundState ==
    ASSUME NEW s \in States, Sound(s), s.pending, s.items = <<>>,
           NEW page \in Seq(Urls), NEW next \in Cursors \cup {None}
    PROVE  LET following == IF next # None /\ Repeated(s, page, next) THEN None ELSE next
               t == [s EXCEPT !.items = page, !.pending = following # None,
                              !.pages = s.pages \cup {page},
                              !.cursors = s.cursors \cup ({next} \ {None}), !.turn = TRUE]
           IN  t \in States /\ Sound(t) /\ Keeps(s, t) /\ Progress(s, t)
<1> DEFINE following == IF next # None /\ Repeated(s, page, next) THEN None ELSE next
           pages == s.pages \cup {page}
           cursors == s.cursors \cup ({next} \ {None})
           pending == following # None
           t == [s EXCEPT !.items = page, !.pending = pending, !.pages = pages,
                          !.cursors = cursors, !.turn = TRUE]
<1>1. pages \in SUBSET Seq(Urls) /\ cursors \in SUBSET Cursors /\ pending \in BOOLEAN
  BY StateFields
<1>2. pending => cursors # s.cursors
  BY DEF Repeated
<1>3. s.cursors \subseteq cursors /\ s.pages \subseteq pages
  OBVIOUS
<1> HIDE DEF pages, cursors, pending
<1>4. t \in States
  <2>1. [s EXCEPT !.items = page] \in States
    BY OneField
  <2>2. [[s EXCEPT !.items = page] EXCEPT !.pending = pending] \in States
    BY <1>1, <2>1, OneField
  <2>3. [[[s EXCEPT !.items = page] EXCEPT !.pending = pending] EXCEPT !.pages = pages] \in States
    BY <1>1, <2>2, OneField
  <2>4. [[[[s EXCEPT !.items = page] EXCEPT !.pending = pending] EXCEPT !.pages = pages]
            EXCEPT !.cursors = cursors] \in States
    BY <1>1, <2>3, OneField
  <2>5. [[[[[s EXCEPT !.items = page] EXCEPT !.pending = pending] EXCEPT !.pages = pages]
            EXCEPT !.cursors = cursors] EXCEPT !.turn = TRUE] \in States
    BY <2>4, OneField
  <2> QED
    BY <2>5
<1>5. /\ t.plan = s.plan /\ t.items = page /\ t.reading = s.reading /\ t.resume = s.resume
      /\ t.gate = s.gate /\ t.judged = s.judged /\ t.retry = s.retry /\ t.seen = s.seen
      /\ t.cursors = cursors /\ t.pages = pages /\ t.pending = pending
  BY StateShape
<1>6. s.reading.version = 0
  BY DEF Sound, WellRead
<1>7. Sound(t)
  BY <1>5, <1>6 DEF Sound, GateOpen, WellRead
<1>8. Keeps(s, t)
  BY <1>5 DEF Keeps, Holds
<1>9. Progress(s, t)
  BY <1>2, <1>3, <1>5, StateFields DEF Progress, NoRetreat, GotFurther
<1> QED
  BY <1>4, <1>7, <1>8, <1>9 DEF pages, cursors, pending

(* An address is done with.                                                  *)
LEMMA DoneState ==
    ASSUME NEW s \in States, s.items # <<>>
    PROVE  Done(s) \in States
<1>1. s.items[1] \in Urls /\ Tail(s.items) \in Seq(Urls)
  BY StateFields
<1>2. [s EXCEPT !.items = Tail(s.items)] \in States
  BY <1>1, OneField
<1>3. [[s EXCEPT !.items = Tail(s.items)] EXCEPT !.reading = NoReading] \in States
  BY <1>2, OneField, ReadingFields
<1>4. s.seen \cup {s.items[1]} \in SUBSET Urls
  BY <1>1, StateFields
<1>5. [[[s EXCEPT !.items = Tail(s.items)] EXCEPT !.reading = NoReading]
          EXCEPT !.seen = s.seen \cup {s.items[1]}] \in States
  BY <1>3, <1>4, OneField
<1> QED
  BY <1>5 DEF Done

(* All it leaves unfinished is the original at the head of the list.         *)
Drops(s, t) ==
    /\ t.reading = NoReading /\ t.seen = s.seen \cup {s.items[1]} /\ t.resume = s.resume
    /\ t.plan = s.plan /\ t.judged = s.judged /\ t.gate = s.gate
    /\ t.cursors = s.cursors /\ t.pages = s.pages

LEMMA DoneFields ==
    ASSUME NEW s \in States
    PROVE  Drops(s, Done(s)) /\ Done(s).items = Tail(s.items) /\ Done(s).retry = s.retry
  BY StateShape DEF Done, Drops

LEMMA DropsProgress ==
    ASSUME NEW s \in States, NEW t \in States, Drops(s, t), Due("fetched", s)
    PROVE  Progress(s, t)
<1>1. t.reading.version = 0
  BY ReadingFields DEF Drops
<1>2. s.reading.version # 0 \/ s.seen # t.seen
  BY DEF Drops, Due
<1> QED
  BY <1>1, <1>2, StateFields DEF Drops, Progress, NoRetreat, GotFurther

(* What is retained of an original that cannot be read goes to the retries.  *)
LEMMA FailedState ==
    ASSUME NEW s \in States, Sound(s), Due("fetched", s), NEW doc \in 0..Versions,
           doc # 0 => s.items[1] \notin Index
    PROVE  LET kept == Kept(s, doc)
               u == s.items[1]
               t == [Done(s) EXCEPT !.retry = Append(s.retry, [url |-> u, reading |-> kept])]
           IN  /\ t \in States /\ Sound(t) /\ Keeps(s, t) /\ Progress(s, t)
               /\ u \in Urls /\ kept.version \in 0..Versions
               /\ kept.version # 0 => u \notin Index /\ Holds(t, u, kept.version)
<1> DEFINE kept == Kept(s, doc)
           u == s.items[1]
           read == [url |-> u, reading |-> kept]
           retry == Append(s.retry, read)
           d == Done(s)
           t == [d EXCEPT !.retry = retry]
<1>1. s.items # <<>> /\ u \in Urls
  BY StateFields DEF Due
<1>2. /\ kept \in Readings /\ kept.version \in 0..Versions
      /\ kept.version # 0 => u \notin Index
      /\ s.reading.version # 0 => kept = s.reading
  <2>1. kept \in Readings
    BY FeedAssumption, StateFields, ReadingFields DEF Kept
  <2>2. s.reading.version # 0 => kept = s.reading
    BY DEF Kept
  <2>3. kept.version # 0 => u \notin Index
    BY DEF Kept, Sound, WellRead
  <2> QED
    BY <2>1, <2>2, <2>3, ReadingFields
<1> HIDE DEF kept
<1>3. /\ retry \in Reads /\ \A i \in DOMAIN s.retry : i \in DOMAIN retry /\ retry[i] = s.retry[i]
      /\ Len(retry) \in DOMAIN retry /\ retry[Len(retry)] = read
      /\ \A i \in DOMAIN retry : i = Len(retry) \/ i \in DOMAIN s.retry
  <2> DEFINE R == [url: Urls, reading: Readings]
  <2>1. s.retry \in Seq(R) /\ Reads = Seq(R) /\ read \in R
    BY <1>1, <1>2, StateFields DEF Reads
  <2> HIDE DEF R, read
  <2> QED
    BY <2>1
<1> HIDE DEF retry
<1>4. d \in States /\ Drops(s, d) /\ d.items = Tail(s.items)
  BY <1>1, DoneState, DoneFields
<1> HIDE DEF d
<1>5. t \in States /\ t.retry = retry /\ Drops(s, t)
  <2>1. t \in States
    BY <1>3, <1>4, OneField
  <2>2. t.retry = retry /\ Drops(s, t)
    BY <1>4, StateShape DEF Drops
  <2> QED
    BY <2>1, <2>2
<1>6. kept.version # 0 => Holds(t, u, kept.version)
  BY <1>3, <1>5 DEF Holds
<1>7. Keeps(s, t)
  BY <1>2, <1>3, <1>5 DEF Keeps, Holds, Drops
<1>8. Sound(t)
  <2>1. Originals(retry)
    BY <1>2, <1>3 DEF Originals, Sound, WellRead
  <2> QED
    BY <1>5, <2>1, ReadingFields DEF Sound, WellRead, GateOpen, Drops
<1>9. Progress(s, t)
  BY <1>5, DropsProgress
<1> QED
  BY <1>1, <1>2, <1>5, <1>6, <1>7, <1>8, <1>9 DEF d, kept, retry

LEMMA IndexState ==
    ASSUME NEW s \in States, Sound(s), Due("fetched", s), s.items[1] \in Index,
           NEW page \in Seq(Urls)
    PROVE  LET t == [Done(s) EXCEPT !.items = Tail(s.items) \o page] IN
           t \in States /\ Sound(t) /\ Keeps(s, t) /\ Progress(s, t)
<1> DEFINE d == Done(s)
           items == Tail(s.items) \o page
           t == [d EXCEPT !.items = items]
<1>1. s.items # <<>> /\ s.reading.version = 0 /\ items \in Seq(Urls)
  BY StateFields DEF Due, Sound, WellRead
<1> HIDE DEF items
<1>2. d \in States /\ Drops(s, d) /\ d.retry = s.retry
  BY <1>1, DoneState, DoneFields
<1> HIDE DEF d
<1>3. t \in States /\ Drops(s, t) /\ t.retry = s.retry
  <2>1. t \in States
    BY <1>1, <1>2, OneField
  <2>2. Drops(s, t) /\ t.retry = s.retry
    BY <1>2, StateShape DEF Drops
  <2> QED
    BY <2>1, <2>2
<1>4. Keeps(s, t)
  BY <1>1, <1>3 DEF Keeps, Holds, Drops
<1>5. Sound(t)
  BY <1>3, ReadingFields DEF Sound, WellRead, GateOpen, Drops
<1> QED
  BY <1>3, <1>4, <1>5, DropsProgress DEF d, items

LEMMA PortionState ==
    ASSUME NEW s \in States, Sound(s), Due("fetched", s), s.items[1] \notin Index,
           NEW doc \in 1..Versions, s.reading.version # 0 => doc = s.reading.version,
           s.reading.parts + 1 < Portions
    PROVE  LET t == [s EXCEPT !.reading = [version |-> doc, parts |-> s.reading.parts + 1]] IN
           /\ t \in States /\ Sound(t) /\ Keeps(s, t) /\ Progress(s, t)
           /\ s.items[1] \in Urls /\ Holds(t, s.items[1], doc)
<1> DEFINE r == [version |-> doc, parts |-> s.reading.parts + 1]
           t == [s EXCEPT !.reading = r]
<1>1. s.reading \in Readings /\ s.reading.parts \in 0..Portions
  BY StateFields, ReadingFields
<1>2. r \in Readings /\ r.version = doc /\ s.reading.parts < r.parts
  BY <1>1, FeedAssumption, ReadingFields
<1> HIDE DEF r
<1>3. t \in States
  BY <1>2, OneField
<1>4. /\ t.plan = s.plan /\ t.items = s.items /\ t.reading = r /\ t.resume = s.resume
      /\ t.gate = s.gate /\ t.judged = s.judged /\ t.retry = s.retry
      /\ t.seen = s.seen /\ t.cursors = s.cursors /\ t.pages = s.pages
  BY StateShape
<1>5. s.items # <<>> /\ s.items[1] \in Urls
  BY StateFields DEF Due
<1>6. Sound(t)
  BY <1>4, <1>5 DEF Sound, GateOpen, WellRead
<1>7. Keeps(s, t) /\ Holds(t, s.items[1], doc)
  BY <1>2, <1>4, <1>5 DEF Keeps, Holds
<1>8. Progress(s, t)
  BY <1>2, <1>4, StateFields DEF Progress, NoRetreat, GotFurther
<1> QED
  BY <1>3, <1>5, <1>6, <1>7, <1>8 DEF r

(* The original becomes an update; nothing else that is retained goes.       *)
LEMMA RecordedState ==
    ASSUME NEW s \in States, Sound(s), Due("fetched", s),
           NEW doc \in 1..Versions, s.reading.version # 0 => doc = s.reading.version
    PROVE  LET t == [Done(s) EXCEPT !.turn = TRUE] IN
           /\ t \in States /\ Sound(t) /\ Progress(s, t)
           /\ s.items[1] \in Urls
           /\ \A u, v : /\ v # 0 /\ Holds(s, u, v) /\ <<u, v>> # <<s.items[1], doc>>
                        => Holds(t, u, v)
<1> DEFINE d == Done(s)
           t == [d EXCEPT !.turn = TRUE]
<1>1. s.items # <<>> /\ s.items[1] \in Urls
  BY StateFields DEF Due
<1>2. d \in States /\ Drops(s, d) /\ d.retry = s.retry
  BY <1>1, DoneState, DoneFields
<1> HIDE DEF d
<1>3. t \in States /\ Drops(s, t) /\ t.retry = s.retry
  <2>1. t \in States
    BY <1>2, OneField
  <2>2. Drops(s, t) /\ t.retry = s.retry
    BY <1>2, StateShape DEF Drops
  <2> QED
    BY <2>1, <2>2
<1>4. ASSUME NEW u, NEW v, v # 0, Holds(s, u, v), <<u, v>> # <<s.items[1], doc>>
      PROVE  Holds(t, u, v)
  BY <1>3, <1>4 DEF Holds, Drops
<1>5. Sound(t)
  BY <1>3, ReadingFields DEF Sound, WellRead, GateOpen, Drops
<1> QED
  BY <1>1, <1>3, <1>4, <1>5, DropsProgress DEF d

-------------------------------------------------------------------------------
(* The steps by what they touch.                                             *)
Rows ==
    /\ web \in [Urls -> 1..Versions] /\ owner \in BOOLEAN /\ feed \in FeedRows
    /\ job \in [Checks -> JobRows] /\ check \in [Checks -> CheckRows]
    /\ saved \in [Checks -> States] /\ receipts \in [Checks -> States]
    /\ exec \in [Workers -> Executions]
Facts ==
    /\ updates \in Seq([url: Urls, version: 1..Versions])
    /\ assessed \subseteq DOMAIN updates /\ decided \subseteq assessed
    /\ mishaps \in 0..MaxMishaps /\ begun \subseteq Urls \X (1..Versions)

LEMMA TypesByRow == TypeOK <=> Rows /\ Facts
  BY DEF TypeOK, Rows, Facts, FeedRows, JobRows, CheckRows, Executions

(* The facts keep their types; what was retained still is, or its scope is   *)
(* gone.                                                                     *)
Remembered == DOMAIN updates \subseteq DOMAIN updates'
SameScope == begun' # {} => begun' = begun /\ feed'.scope = feed.scope

(* The world, the owner and the settings change around a check.              *)
Around ==
    /\ UNCHANGED <<rowVars, exec, updates>> /\ Facts' /\ SameScope
    /\ web' \in [Urls -> 1..Versions] /\ owner' \in BOOLEAN
    /\ feed' \in FeedRows /\ feed'.check = feed.check

(* The newest check is closed, for a pause or for a new check.               *)
ClosedStatus == {"absent", "completed", "failed", "cancelled"}
Closes(jobs, status) ==
    /\ status \in ClosedStatus
    /\ (jobs = job /\ ~Live(feed.check)) \/ jobs = Cancelled(feed.check)
Settings(f) == f \in FeedRows /\ f.check = feed.check
Replaced ==
    /\ \E f, jobs, status : Settings(f) /\ Closes(jobs, status) /\ Enqueued(f, jobs, status)
    /\ UNCHANGED <<exec, updates, web, owner>> /\ Facts' /\ SameScope
Paused ==
    /\ Settings(feed') /\ job' = Cancelled(feed.check)
    /\ check' = [check EXCEPT ![feed.check] = [check[feed.check] EXCEPT !.status = "cancelled"]]
    /\ UNCHANGED <<saved, receipts, exec, updates, web, owner>> /\ Facts' /\ SameScope

Lapses(c) ==
    /\ job[c].state = "running" /\ job' = [job EXCEPT ![c] = [job[c] EXCEPT !.fresh = FALSE]]
    /\ UNCHANGED <<check, saved, receipts, factVars, feed, exec, web, owner>>
    /\ mishaps' \in 0..MaxMishaps

(* A worker goes on with its copy of the checkpoint, or lets go.             *)
Holding == {"plan", "gate", "search", "read", "fetched", "finish"}
Turns(w) ==
    /\ UNCHANGED <<rowVars, factVars, feed, web, owner>> /\ mishaps' \in 0..MaxMishaps
    /\ exec[w].check \in Checks
    /\ \E e \in Executions :
          /\ exec' = [exec EXCEPT ![w] = e]
          /\ e.check \in {exec[w].check, None}
          /\ InStep(e)
          /\ e.state \in {exec[w].state, Fresh}
          /\ e.pc \in Holding => e.state = exec[w].state /\ exec[w].pc \in Holding

(* A worker ends its step: what it saves keeps what was retained.            *)
KeepsOriginals(s, t) ==
    \A o \in begun' :
        /\ o \in begun \/ (o[1] \notin Index /\ Holds(t, o[1], o[2]))
        /\ o \in begun /\ Holds(s, o[1], o[2]) => Holds(t, o[1], o[2])
Passes(w) ==
    /\ exec[w].pc \in Holding /\ Remembered /\ Facts'
    /\ Settings(feed') /\ feed'.scope = feed.scope
    /\ \E t \in States :
          /\ Yields(w, t) /\ Sound(t)
          /\ Progress(exec[w].state, t) /\ KeepsOriginals(exec[w].state, t)

StepOf ==
    \/ Around \/ Replaced \/ Paused
    \/ \E c \in Checks : Claim(c) \/ Lapses(c) \/ Reconcile(c)
    \/ \E w \in Workers : Turns(w) \/ Drop(w) \/ Open(w) \/ Passes(w) \/ Finish(w)

-------------------------------------------------------------------------------
LEMMA MishapTypes == (Facts /\ (Mishap \/ UNCHANGED mishaps)) => mishaps' \in 0..MaxMishaps
  BY FeedAssumption DEF Facts, Mishap

(* What the settings reset.                                                  *)
LEMMA ResettledFacts ==
    ASSUME Facts, NEW scope, Resettled(scope), mishaps' \in 0..MaxMishaps
    PROVE  Facts' /\ UNCHANGED updates /\ (scope = feed.scope => begun' = begun)
           /\ (scope # feed.scope => begun' = {})
  BY DEF Facts, Resettled

LEMMA ChangeStep ==
    ASSUME FeedInv, NEW active \in BOOLEAN, NEW scope \in {feed.scope, feed.scope + 1},
           Change(active, scope)
    PROVE  Replaced \/ Paused \/ Around
<1> DEFINE last == feed.check
           f == [feed EXCEPT !.active = active, !.rev = feed.rev + 1, !.scope = scope,
                             !.plan = FALSE]
           jobs == IF Live(last) THEN Cancelled(last) ELSE job
           status == IF Live(last) /\ Unfinished(last) THEN "cancelled" ELSE check[last].status
           final == IF Live(last) THEN status ELSE Closed(last)
<1>1. Rows /\ Facts /\ UnfinishedIsCurrent /\ Closable
  BY TypesByRow DEF FeedInv, Bookkeeping
<1>2. feed \in FeedRows /\ last \in Checks /\ feed.rev \in Nat /\ feed.scope \in Nat
  BY <1>1 DEF Rows, FeedRows
<1>3. f \in FeedRows /\ f.check = last /\ f.scope = scope /\ scope \in Nat
  <2>1. scope \in Nat /\ feed.rev + 1 \in Nat
    BY <1>2
  <2>2. ASSUME NEW r \in FeedRows, NEW b \in BOOLEAN, NEW n \in Nat
        PROVE  /\ [r EXCEPT !.active = b] \in FeedRows /\ [r EXCEPT !.rev = n] \in FeedRows
               /\ [r EXCEPT !.scope = n] \in FeedRows /\ [r EXCEPT !.plan = b] \in FeedRows
    BY DEF FeedRows
  <2>3. [[feed EXCEPT !.active = active] EXCEPT !.rev = feed.rev + 1] \in FeedRows
    BY <1>2, <2>1, <2>2
  <2>4. [[[feed EXCEPT !.active = active] EXCEPT !.rev = feed.rev + 1] EXCEPT !.scope = scope]
            \in FeedRows
    BY <2>1, <2>2, <2>3
  <2>5. f \in FeedRows
    BY <2>2, <2>4
  <2>6. feed = [active |-> feed.active, rev |-> feed.rev, scope |-> feed.scope,
                check |-> feed.check, plan |-> feed.plan]
    BY <1>2 DEF FeedRows
  <2>7. f.check = last /\ f.scope = scope
    BY <2>6
  <2> QED
    BY <2>1, <2>5, <2>7
<1>4. check[last].status \in ClosedStatus \cup {"queued", "running"}
  BY <1>1, <1>2 DEF Rows, CheckRows, ClosedStatus
<1>5. Live(last) => Unfinished(last)
  BY <1>1, <1>2 DEF UnfinishedIsCurrent
<1>6. ~Live(last) => Closed(last) \in ClosedStatus
  BY <1>1, <1>2, <1>4 DEF Closed, Closable, Unfinished, Live, ClosedStatus
<1>7. Closes(jobs, final)
  BY <1>5, <1>6 DEF Closes, ClosedStatus
<1>8. mishaps' \in 0..MaxMishaps /\ Resettled(scope) /\ UNCHANGED <<web, owner, exec>>
  BY <1>1, MishapTypes DEF Change, Edit
<1>9. Facts' /\ UNCHANGED updates /\ (scope = feed.scope => begun' = begun)
      /\ (scope # feed.scope => begun' = {})
  BY <1>1, <1>8, ResettledFacts
<1> HIDE DEF f, jobs, status, final
<1>10. CASE active
  <2>1. Enqueued(f, jobs, final)
    BY <1>10 DEF Change, f, jobs, status, final
  <2>2. SameScope
    BY <1>3, <1>9, <2>1 DEF SameScope, Enqueued
  <2> QED
    BY <1>3, <1>7, <1>8, <1>9, <2>1, <2>2 DEF Replaced, Settings
<1>11. CASE ~active
  <2>1. /\ feed' = f /\ job' = jobs /\ UNCHANGED <<saved, receipts>>
        /\ check' = [check EXCEPT ![last] = [check[last] EXCEPT !.status = status]]
    BY <1>11 DEF Change, f, jobs, status
  <2>2. SameScope
    BY <1>3, <1>9, <2>1 DEF SameScope
  <2>3. CASE Live(last)
    <3>1. jobs = Cancelled(last) /\ status = "cancelled"
      BY <1>5, <2>3 DEF jobs, status
    <3> QED
      BY <1>3, <1>8, <1>9, <2>1, <2>2, <3>1 DEF Paused, Settings
  <2>4. CASE ~Live(last)
    <3>1. jobs = job /\ status = check[last].status
      BY <2>4 DEF jobs, status
    <3>2. check \in [Checks -> CheckRows]
      BY <1>1 DEF Rows
    <3>3. check' = check
      BY <1>2, <2>1, <3>1, <3>2 DEF CheckRows
    <3>4. web' \in [Urls -> 1..Versions] /\ owner' \in BOOLEAN
      BY <1>1, <1>8 DEF Rows
    <3> QED
      BY <1>3, <1>8, <1>9, <2>1, <2>2, <3>1, <3>3, <3>4 DEF Around, rowVars
  <2> QED
    BY <2>3, <2>4
<1> QED
  BY <1>10, <1>11

LEMMA AroundSteps ==
    ASSUME FeedInv,
           ContextChanges \/ OwnerChanges \/ (\E u \in Urls : Publish(u)) \/ UNCHANGED vars
    PROVE  Around
<1>1. Rows /\ Facts
  BY TypesByRow DEF FeedInv, Bookkeeping
<1>2. feed \in FeedRows /\ web \in [Urls -> 1..Versions] /\ owner \in BOOLEAN /\ feed.scope \in Nat
  BY <1>1 DEF Rows, FeedRows
<1>3. CASE ContextChanges
  <2> DEFINE f == [feed EXCEPT !.scope = feed.scope + 1, !.plan = FALSE]
  <2>1. /\ feed' = f /\ UNCHANGED <<rowVars, web, owner, exec>> /\ Resettled(feed.scope + 1)
        /\ mishaps' \in 0..MaxMishaps
    BY <1>1, <1>3, MishapTypes DEF ContextChanges, Edit
  <2>2. f \in FeedRows /\ f.check = feed.check
    <3>1. [feed EXCEPT !.scope = feed.scope + 1] \in FeedRows
      BY <1>2 DEF FeedRows
    <3>2. [[feed EXCEPT !.scope = feed.scope + 1] EXCEPT !.plan = FALSE] \in FeedRows
      BY <3>1 DEF FeedRows
    <3>3. feed = [active |-> feed.active, rev |-> feed.rev, scope |-> feed.scope,
                  check |-> feed.check, plan |-> feed.plan]
      BY <1>2 DEF FeedRows
    <3>4. f \in FeedRows
      BY <3>2
    <3>5. f.check = feed.check
      BY <3>3
    <3> QED
      BY <3>4, <3>5
  <2> HIDE DEF f
  <2>3. feed.scope + 1 # feed.scope
    BY <1>2
  <2>4. Facts' /\ UNCHANGED updates /\ begun' = {}
    BY <1>1, <2>1, <2>3, ResettledFacts
  <2> QED
    BY <1>2, <2>1, <2>2, <2>4 DEF Around, SameScope
<1>4. CASE OwnerChanges \/ (\E u \in Urls : Publish(u)) \/ UNCHANGED vars
  <2>1. /\ UNCHANGED <<rowVars, factVars, exec, feed>>
        /\ mishaps' = mishaps \/ Mishap
    BY <1>4 DEF OwnerChanges, Publish, Edit, vars, envVars
  <2>2. mishaps' \in 0..MaxMishaps
    BY <1>1, <2>1, MishapTypes
  <2>3. Facts' /\ SameScope
    BY <1>1, <2>1, <2>2 DEF Facts, SameScope, factVars
  <2>4. owner' \in BOOLEAN
    BY <1>2, <1>4 DEF OwnerChanges, Publish, vars, envVars
  <2>5. web' \in [Urls -> 1..Versions]
    BY <1>2, <1>4, FeedAssumption DEF OwnerChanges, Publish, vars, envVars
  <2> QED
    BY <1>2, <2>1, <2>3, <2>4, <2>5 DEF Around, factVars
<1> QED
  BY <1>3, <1>4

LEMMA StartCheckStep == ASSUME FeedInv, StartCheck PROVE Replaced
<1> DEFINE status == Closed(feed.check)
<1>1. Rows /\ Facts /\ Closable
  BY TypesByRow DEF FeedInv, Bookkeeping
<1>2. feed \in FeedRows /\ feed.check \in Checks
  BY <1>1 DEF Rows, FeedRows
<1>3. check[feed.check].status \in ClosedStatus \cup {"queued", "running"}
  BY <1>1, <1>2 DEF Rows, CheckRows, ClosedStatus
<1>4. ~Live(feed.check) /\ Enqueued(feed, job, status) /\ UNCHANGED <<factVars, envVars, exec>>
  BY DEF StartCheck, Enqueue
<1>5. status \in ClosedStatus
  BY <1>1, <1>2, <1>3, <1>4 DEF Closed, Closable, Unfinished, Live, ClosedStatus
<1>6. Closes(job, status) /\ Settings(feed)
  BY <1>2, <1>4, <1>5 DEF Closes, Settings
<1>7. feed' = [feed EXCEPT !.check = One(Unused)]
  BY <1>4 DEF Enqueued
<1>8. feed'.scope = feed.scope
  BY <1>2, <1>7 DEF FeedRows
<1>9. Facts' /\ SameScope
  BY <1>1, <1>4, <1>8 DEF Facts, SameScope, factVars, envVars
<1> HIDE DEF status
<1> QED
  BY <1>4, <1>6, <1>9 DEF Replaced, factVars, envVars

(* A worker at a step has a check.                                           *)
LEMMA WorkerTypes ==
    ASSUME FeedInv, NEW w \in Workers
    PROVE  /\ exec \in [Workers -> Executions] /\ exec[w] \in Executions
           /\ exec[w].state \in States /\ Sound(exec[w].state)
           /\ exec[w].doc \in 0..Versions /\ exec[w].check \in Checks \cup {None}
           /\ InStep(exec[w]) /\ (exec[w].pc # "idle" => exec[w].check \in Checks)
           /\ Idle \in Executions /\ InStep(Idle) /\ Idle.state = Fresh /\ Idle.check = None
           /\ Idle.pc = "idle"
<1>1. exec \in [Workers -> Executions] /\ Sound(exec[w].state) /\ InStep(exec[w])
  BY TypesByRow DEF FeedInv, Bookkeeping, Rows, Checkpoints, StepsAreDue
<1>2. exec[w] \in Executions
  BY <1>1
<1>3. /\ exec[w].state \in States /\ exec[w].doc \in 0..Versions
      /\ exec[w].check \in Checks \cup {None}
  BY <1>2 DEF Executions
<1>4. exec[w].pc # "idle" => exec[w].check \in Checks
  BY <1>1, <1>3 DEF InStep
<1>5. Idle \in Executions
  BY FreshState, FeedAssumption DEF Idle, Executions
<1>6. InStep(Idle) /\ Idle.state = Fresh /\ Idle.check = None /\ Idle.pc = "idle"
  BY DEF Idle, InStep, Due
<1> QED
  BY <1>1, <1>2, <1>3, <1>4, <1>5, <1>6

LEMMA TurnSteps ==
    ASSUME FeedInv, NEW w \in Workers,
           Lost(w) \/ Refused(w) \/ Fetch(w) \/ FetchFails(w) \/ Crash(w)
    PROVE  Turns(w)
<1>1. Facts /\ web \in [Urls -> 1..Versions]
  BY TypesByRow DEF FeedInv, Bookkeeping, Rows
<1>2. UNCHANGED <<rowVars, factVars, feed, web, owner>> /\ (Mishap \/ UNCHANGED mishaps)
  BY DEF Lost, Refused, Fetch, FetchFails, Crash, envVars
<1>3. mishaps' \in 0..MaxMishaps
  BY <1>1, <1>2, MishapTypes
<1>4. exec[w].check \in Checks
  BY WorkerTypes DEF Lost, Refused, Fetch, FetchFails, Crash, At, Asks
<1>5. CASE Lost(w) \/ Crash(w)
  <2>1. exec' = [exec EXCEPT ![w] = Idle]
    BY <1>5 DEF Lost, Crash, Leaves
  <2> QED
    BY <1>2, <1>3, <1>4, <2>1, WorkerTypes DEF Turns, Holding
<1>6. CASE Refused(w)
  <2> DEFINE e == [exec[w] EXCEPT !.pc = "drop"]
  <2>1. exec' = [exec EXCEPT ![w] = e]
    BY <1>6 DEF Refused
  <2>2. /\ e \in Executions /\ e.pc = "drop" /\ e.check = exec[w].check
        /\ e.state = exec[w].state
    BY WorkerTypes DEF Executions
  <2>3. InStep(e)
    BY <1>4, <2>2, FeedAssumption DEF InStep, Due
  <2> HIDE DEF e
  <2> QED
    BY <1>2, <1>3, <1>4, <2>1, <2>2, <2>3 DEF Turns, Holding
<1>7. CASE Fetch(w) \/ FetchFails(w)
  <2> DEFINE s == exec[w].state
  <2>1. exec[w].pc = "read" /\ InStep(exec[w]) /\ s \in States
    BY <1>7, WorkerTypes DEF Fetch, FetchFails, At
  <2>2. s.items # <<>> /\ s.items[1] \in Urls /\ s.reading.version \in 0..Versions
    BY <2>1, StateFields, ReadingFields DEF InStep, Due
  <2>3. \E doc \in 0..Versions :
            /\ exec' = [exec EXCEPT ![w] = [exec[w] EXCEPT !.pc = "fetched", !.doc = doc]]
            /\ s.reading.version # 0 => doc \in {0, s.reading.version}
    <3>1. CASE Fetch(w)
      <4> DEFINE doc == IF s.reading.version # 0 THEN s.reading.version ELSE web[s.items[1]]
      <4>1. doc \in 0..Versions
        BY <1>1, <2>2
      <4>2. exec' = [exec EXCEPT ![w] = [exec[w] EXCEPT !.pc = "fetched", !.doc = doc]]
        BY <3>1 DEF Fetch
      <4>3. s.reading.version # 0 => doc \in {0, s.reading.version}
        OBVIOUS
      <4> HIDE DEF doc, s
      <4> QED
        BY <4>1, <4>2, <4>3
    <3>2. CASE FetchFails(w)
      <4>1. exec' = [exec EXCEPT ![w] = [exec[w] EXCEPT !.pc = "fetched", !.doc = 0]]
        BY <3>2 DEF FetchFails
      <4>2. 0 \in 0..Versions
        BY FeedAssumption
      <4> HIDE DEF s
      <4> QED
        BY <4>1, <4>2
    <3> QED
      BY <1>7, <3>1, <3>2
  <2>4. PICK doc \in 0..Versions :
            /\ exec' = [exec EXCEPT ![w] = [exec[w] EXCEPT !.pc = "fetched", !.doc = doc]]
            /\ s.reading.version # 0 => doc \in {0, s.reading.version}
    BY <2>3
  <2> DEFINE e == [exec[w] EXCEPT !.pc = "fetched", !.doc = doc]
  <2>5. e \in Executions /\ e.pc = "fetched" /\ e.check = exec[w].check /\ e.state = s /\ e.doc = doc
    <3>1. [exec[w] EXCEPT !.pc = "fetched"] \in Executions
      BY WorkerTypes DEF Executions, Asks
    <3>2. [[exec[w] EXCEPT !.pc = "fetched"] EXCEPT !.doc = doc] \in Executions
      BY <3>1 DEF Executions
    <3>3. e \in Executions
      BY <3>2
    <3>4. exec[w] = [pc |-> exec[w].pc, check |-> exec[w].check, state |-> s, doc |-> exec[w].doc]
      BY WorkerTypes DEF Executions
    <3>5. e.pc = "fetched" /\ e.check = exec[w].check /\ e.state = s /\ e.doc = doc
      BY <3>4
    <3> QED
      BY <3>3, <3>5
  <2> HIDE DEF e
  <2>6. InStep(e)
    BY <1>4, <2>1, <2>4, <2>5, FeedAssumption DEF InStep, Due
  <2> QED
    BY <1>2, <1>3, <1>4, <2>1, <2>4, <2>5, <2>6 DEF Turns, Holding, e
<1> QED
  BY <1>5, <1>6, <1>7

(* The second transactions.                                                  *)
LEMMA SameFacts ==
    ASSUME Facts, UNCHANGED factVars, mishaps' \in 0..MaxMishaps
    PROVE  Facts' /\ Remembered /\ begun' = begun
  BY DEF Facts, Remembered, factVars

LEMMA KeptFacts ==
    ASSUME NEW s, NEW t, Keeps(s, t), begun' = begun, Facts
    PROVE  KeepsOriginals(s, t)
<1>1. \A o \in begun : o[2] # 0
  BY DEF Facts
<1> QED
  BY <1>1 DEF Keeps, KeepsOriginals

LEMMA PlanStep ==
    ASSUME FeedInv, NEW w \in Workers, NEW held \in BOOLEAN, PlanMade(w, held),
           mishaps' \in 0..MaxMishaps
    PROVE  Passes(w)
<1> DEFINE s == exec[w].state
           t == [s EXCEPT !.plan = TRUE]
<1>1. Rows /\ Facts
  BY TypesByRow DEF FeedInv, Bookkeeping
<1>2. exec[w].pc = "plan" /\ Yields(w, t) /\ UNCHANGED factVars
      /\ feed' = [feed EXCEPT !.plan = feed.plan \/ held]
  BY DEF PlanMade, At
<1>3. t \in States /\ Sound(t) /\ Keeps(s, t) /\ Progress(s, t)
  BY <1>2, WorkerTypes, PlanState DEF InStep, Due
<1>4. Settings(feed') /\ feed'.scope = feed.scope
  BY <1>1, <1>2 DEF Settings, Rows, FeedRows
<1>5. Facts' /\ Remembered /\ begun' = begun
  BY <1>1, <1>2, SameFacts
<1>6. KeepsOriginals(s, t)
  BY <1>1, <1>3, <1>5, KeptFacts
<1> HIDE DEF s, t
<1> QED
  BY <1>2, <1>3, <1>4, <1>5, <1>6 DEF Passes, Holding, s

LEMMA SameSettings == FeedInv /\ feed' = feed => Settings(feed') /\ feed'.scope = feed.scope
  BY TypesByRow DEF FeedInv, Bookkeeping, Rows, Settings

LEMMA JudgeStep ==
    ASSUME FeedInv, NEW w \in Workers, NEW verdicts \in SUBSET {exec[w].state.gate},
           Judged(w, verdicts), mishaps' \in 0..MaxMishaps
    PROVE  Passes(w)
<1> DEFINE s == exec[w].state
           t == [s EXCEPT !.judged = s.gate, !.gate = 0]
<1>1. Facts
  BY TypesByRow DEF FeedInv, Bookkeeping
<1>2. /\ exec[w].pc = "gate" /\ Yields(w, t) /\ UNCHANGED <<updates, begun, feed>>
      /\ assessed' = assessed \cup {s.gate} /\ decided' = decided \cup verdicts
  BY DEF Judged, At
<1>3. s \in States /\ Sound(s) /\ s.gate # 0
  BY <1>2, WorkerTypes DEF InStep, Due
<1>4. t \in States /\ Sound(t) /\ Keeps(s, t) /\ Progress(s, t)
  BY <1>3, JudgedState
<1>5. Facts' /\ Remembered
  BY <1>1, <1>2, <1>3 DEF Facts, Remembered, Sound, GateOpen
<1>6. KeepsOriginals(s, t)
  BY <1>1, <1>2, <1>4, KeptFacts
<1> HIDE DEF s, t
<1> QED
  BY <1>2, <1>4, <1>5, <1>6, SameSettings DEF Passes, Holding, s

LEMMA SearchStep ==
    ASSUME FeedInv, NEW w \in Workers, NEW page \in Seq(Urls), NEW next \in Cursors \cup {None},
           Found(w, page, next), mishaps' \in 0..MaxMishaps
    PROVE  Passes(w)
<1> DEFINE s == exec[w].state
           following == IF next # None /\ Repeated(s, page, next) THEN None ELSE next
           t == [s EXCEPT !.items = page, !.pending = following # None,
                          !.pages = s.pages \cup {page},
                          !.cursors = s.cursors \cup ({next} \ {None}), !.turn = TRUE]
<1>1. Facts
  BY TypesByRow DEF FeedInv, Bookkeeping
<1>2. exec[w].pc = "search" /\ Yields(w, t) /\ UNCHANGED <<factVars, feed>>
  BY DEF Found, At
<1>3. s \in States /\ Sound(s) /\ s.pending /\ s.items = <<>>
  BY <1>2, WorkerTypes DEF InStep, Due
<1>4. t \in States /\ Sound(t) /\ Keeps(s, t) /\ Progress(s, t)
  BY <1>3, FoundState
<1>5. Facts' /\ Remembered /\ begun' = begun
  BY <1>1, <1>2, SameFacts
<1>6. KeepsOriginals(s, t)
  BY <1>1, <1>4, <1>5, KeptFacts
<1> HIDE DEF s, t
<1> QED
  BY <1>2, <1>4, <1>5, <1>6, SameSettings DEF Passes, Holding, s

LEMMA FetchedTypes ==
    ASSUME FeedInv, NEW w \in Workers, At(w, "fetched")
    PROVE  LET s == exec[w].state IN
           /\ s \in States /\ Sound(s) /\ Due("fetched", s) /\ exec[w].doc \in 0..Versions
           /\ exec[w].doc # 0 => /\ exec[w].doc \in 1..Versions
                                 /\ s.reading.version # 0 => exec[w].doc = s.reading.version
<1>1. /\ exec[w].state \in States /\ Sound(exec[w].state) /\ exec[w].doc \in 0..Versions
      /\ InStep(exec[w]) /\ exec[w].pc = "fetched"
  BY WorkerTypes DEF At
<1>2. exec[w].doc # 0 => exec[w].doc \in 1..Versions
  BY <1>1, FeedAssumption
<1> QED
  BY <1>1, <1>2 DEF InStep

LEMMA FailStep ==
    ASSUME FeedInv, NEW w \in Workers, Fails(w), mishaps' \in 0..MaxMishaps,
           exec[w].doc # 0 => exec[w].state.items[1] \notin Index
    PROVE  Passes(w)
<1> DEFINE s == exec[w].state
           u == s.items[1]
           kept == Kept(s, exec[w].doc)
           t == [Done(s) EXCEPT !.retry = Append(s.retry, [url |-> u, reading |-> kept])]
<1>1. Facts
  BY TypesByRow DEF FeedInv, Bookkeeping
<1>2. /\ At(w, "fetched") /\ Yields(w, t) /\ UNCHANGED <<updates, assessed, decided, feed>>
      /\ begun' = IF kept.version = 0 THEN begun ELSE begun \cup {<<u, kept.version>>}
  BY DEF Fails
<1>3. s \in States /\ Sound(s) /\ Due("fetched", s) /\ exec[w].doc \in 0..Versions
  BY <1>2, FetchedTypes
<1>4. /\ t \in States /\ Sound(t) /\ Keeps(s, t) /\ Progress(s, t)
      /\ u \in Urls /\ kept.version \in 0..Versions
      /\ kept.version # 0 => u \notin Index /\ Holds(t, u, kept.version)
  BY <1>3, FailedState
<1> HIDE DEF kept, t, u
<1>5. kept.version # 0 => kept.version \in 1..Versions
  BY <1>4, FeedAssumption
<1>6. Facts' /\ Remembered
  BY <1>1, <1>2, <1>4, <1>5 DEF Facts, Remembered
<1>7. KeepsOriginals(s, t)
  <2>1. \A o \in begun : o[2] # 0
    BY <1>1 DEF Facts
  <2> QED
    BY <1>2, <1>4, <2>1 DEF KeepsOriginals, Keeps
<1> HIDE DEF s
<1> QED
  BY <1>2, <1>4, <1>6, <1>7, SameSettings DEF Passes, Holding, At, s

LEMMA IndexStep ==
    ASSUME FeedInv, NEW w \in Workers, NEW page \in Pages, ReadIndex(w, page)
    PROVE  Passes(w)
<1> DEFINE s == exec[w].state
           t == [Done(s) EXCEPT !.items = Tail(s.items) \o page]
<1>1. Facts /\ page \in Seq(Urls)
  BY TypesByRow, FeedAssumption DEF FeedInv, Bookkeeping
<1>2. At(w, "fetched") /\ s.items[1] \in Index /\ Yields(w, t) /\ UNCHANGED <<factVars, feed, mishaps>>
  BY DEF ReadIndex
<1>3. s \in States /\ Sound(s) /\ Due("fetched", s)
  BY <1>2, FetchedTypes
<1>4. t \in States /\ Sound(t) /\ Keeps(s, t) /\ Progress(s, t)
  BY <1>1, <1>2, <1>3, IndexState
<1>5. Facts' /\ Remembered /\ begun' = begun
  BY <1>1, <1>2, SameFacts DEF Facts
<1>6. KeepsOriginals(s, t)
  BY <1>1, <1>4, <1>5, KeptFacts
<1> HIDE DEF s, t
<1> QED
  BY <1>2, <1>4, <1>5, <1>6, SameSettings DEF Passes, Holding, At, s

LEMMA PortionStep ==
    ASSUME FeedInv, NEW w \in Workers, ReadPortion(w)
    PROVE  Passes(w)
<1> DEFINE s == exec[w].state
           doc == exec[w].doc
           t == [s EXCEPT !.reading = [version |-> doc, parts |-> s.reading.parts + 1]]
<1>1. Facts
  BY TypesByRow DEF FeedInv, Bookkeeping
<1>2. /\ At(w, "fetched") /\ doc # 0 /\ s.items[1] \notin Index /\ s.reading.parts + 1 < Portions
      /\ Yields(w, t) /\ begun' = begun \cup {<<s.items[1], doc>>}
      /\ UNCHANGED <<updates, assessed, decided, feed, mishaps>>
  BY DEF ReadPortion
<1>3. /\ s \in States /\ Sound(s) /\ Due("fetched", s) /\ doc \in 1..Versions
      /\ s.reading.version # 0 => doc = s.reading.version
  BY <1>2, FetchedTypes
<1>4. /\ t \in States /\ Sound(t) /\ Keeps(s, t) /\ Progress(s, t)
      /\ s.items[1] \in Urls /\ Holds(t, s.items[1], doc)
  BY <1>2, <1>3, PortionState
<1> HIDE DEF t, doc
<1>5. Facts' /\ Remembered
  BY <1>1, <1>2, <1>3, <1>4 DEF Facts, Remembered
<1>6. KeepsOriginals(s, t)
  <2>1. \A o \in begun : o[2] # 0
    BY <1>1 DEF Facts
  <2> QED
    BY <1>2, <1>4, <2>1 DEF KeepsOriginals, Keeps
<1> HIDE DEF s
<1> QED
  BY <1>2, <1>4, <1>5, <1>6, SameSettings DEF Passes, Holding, At, s

LEMMA RecordStep ==
    ASSUME FeedInv, NEW w \in Workers, RecordOriginal(w)
    PROVE  Passes(w)
<1> DEFINE s == exec[w].state
           doc == exec[w].doc
           u == s.items[1]
           new == [url |-> u, version |-> doc]
           t == [Done(s) EXCEPT !.turn = TRUE]
<1>1. Facts
  BY TypesByRow DEF FeedInv, Bookkeeping
<1>2. /\ At(w, "fetched") /\ doc # 0 /\ Yields(w, t)
      /\ updates' = updates \/ updates' = Append(updates, new)
      /\ begun' = begun \ {<<u, doc>>}
      /\ UNCHANGED <<assessed, decided, feed, mishaps>>
  BY DEF RecordOriginal
<1>3. /\ s \in States /\ Sound(s) /\ Due("fetched", s) /\ doc \in 1..Versions
      /\ s.reading.version # 0 => doc = s.reading.version
  BY <1>2, FetchedTypes
<1>4. /\ t \in States /\ Sound(t) /\ Progress(s, t) /\ u \in Urls
      /\ \A a, v : /\ v # 0 /\ Holds(s, a, v) /\ <<a, v>> # <<u, doc>> => Holds(t, a, v)
  BY <1>3, RecordedState
<1> HIDE DEF t, doc, u
<1>5. updates' \in Seq([url: Urls, version: 1..Versions]) /\ DOMAIN updates \subseteq DOMAIN updates'
  <2> DEFINE R == [url: Urls, version: 1..Versions]
  <2>1. updates \in Seq(R) /\ new \in R
    BY <1>1, <1>3, <1>4 DEF Facts
  <2> HIDE DEF R, new
  <2>2. updates' \in Seq(R) /\ DOMAIN updates \subseteq DOMAIN updates'
    BY <1>2, <2>1
  <2> QED
    BY <2>2 DEF R
<1>6. Facts' /\ Remembered
  BY <1>1, <1>2, <1>5 DEF Facts, Remembered
<1>7. KeepsOriginals(s, t)
  <2>1. \A o \in begun : o[2] # 0 /\ o = <<o[1], o[2]>>
    BY <1>1 DEF Facts
  <2> QED
    BY <1>2, <1>4, <2>1 DEF KeepsOriginals
<1> HIDE DEF s
<1> QED
  BY <1>2, <1>4, <1>6, <1>7, SameSettings DEF Passes, Holding, At, s

LEMMA PassSteps ==
    ASSUME FeedInv, NEW w \in Workers, Remember(w) \/ Fail(w), ~Finish(w), ~FetchFails(w)
    PROVE  Passes(w)
<1>1. Facts
  BY TypesByRow DEF FeedInv, Bookkeeping
<1>2. (Mishap \/ UNCHANGED mishaps) => mishaps' \in 0..MaxMishaps
  BY <1>1, MishapTypes
<1>3. CASE Plan(w) \/ PlanFails(w)
  BY <1>2, <1>3, PlanStep DEF Plan, PlanFails
<1>4. CASE Judge(w) \/ JudgeFails(w)
  BY <1>2, <1>4, JudgeStep DEF Judge, JudgeFails
<1>5. CASE Search(w)
  BY <1>2, <1>5, SearchStep, FeedAssumption DEF Search
<1>6. CASE SearchFails(w)
  <2>1. <<>> \in Seq(Urls) /\ None \in Cursors \cup {None}
    OBVIOUS
  <2>2. Found(w, <<>>, None) /\ mishaps' \in 0..MaxMishaps
    BY <1>2, <1>6 DEF SearchFails
  <2> QED
    BY <2>1, <2>2, SearchStep
<1>7. CASE ReadFails(w) \/ Unreadable(w)
  BY <1>2, <1>7, FailStep DEF ReadFails, Unreadable
<1>8. CASE ReadPortion(w) \/ RecordOriginal(w) \/ \E page \in Pages : ReadIndex(w, page)
  BY <1>8, PortionStep, RecordStep, IndexStep
<1> QED
  BY <1>3, <1>4, <1>5, <1>6, <1>7, <1>8 DEF Remember, Fail

LEMMA Steps == FeedInv /\ [Next]_vars => StepOf
<1> SUFFICES ASSUME FeedInv, [Next]_vars PROVE StepOf
  OBVIOUS
<1>1. CASE StartCheck
  BY <1>1, StartCheckStep DEF StepOf
<1>2. CASE \E active \in BOOLEAN, scope \in {feed.scope, feed.scope + 1} : Change(active, scope)
  BY <1>2, ChangeStep DEF StepOf
<1>3. CASE ContextChanges \/ OwnerChanges \/ (\E u \in Urls : Publish(u)) \/ UNCHANGED vars
  BY <1>3, AroundSteps DEF StepOf
<1>4. CASE \E c \in Checks : Claim(c) \/ Queue(c) \/ ExpireEarly(c)
  <2>1. PICK c \in Checks : Claim(c) \/ Queue(c) \/ ExpireEarly(c)
    BY <1>4
  <2>2. Facts
    BY TypesByRow DEF FeedInv, Bookkeeping
  <2>3. Expire(c) \/ ExpireEarly(c) => Lapses(c)
    BY <2>2, MishapTypes DEF Expire, ExpireEarly, Lapses, envVars
  <2> QED
    BY <2>1, <2>3 DEF StepOf, Queue
<1>5. CASE \E w \in Workers : Work(w) \/ Fail(w) \/ Crash(w)
  <2>1. PICK w \in Workers : Work(w) \/ Fail(w) \/ Crash(w)
    BY <1>5
  <2>2. CASE Lost(w) \/ Refused(w) \/ Fetch(w) \/ FetchFails(w) \/ Crash(w)
    BY <2>2, TurnSteps DEF StepOf
  <2>3. CASE Drop(w) \/ Open(w) \/ Finish(w)
    BY <2>3 DEF StepOf
  <2>4. CASE (Remember(w) \/ Fail(w)) /\ ~Finish(w) /\ ~FetchFails(w)
    BY <2>4, PassSteps DEF StepOf
  <2> QED
    BY <2>1, <2>2, <2>3, <2>4 DEF Work
<1> QED
  BY <1>1, <1>2, <1>3, <1>4, <1>5 DEF Next, Administrator

-------------------------------------------------------------------------------
(* What every class of steps preserves.                                      *)

(* A job and its check change together.                                      *)
Waiting == {"queued", "running"}
GoodRow(c, r, k) ==
    /\ r \in JobRows /\ k \in CheckRows
    /\ r.state = "ready" => r.attempts < MaxAttempts
    /\ r.state = "running" => r.attempts > 0
    /\ k.status \in Waiting => /\ check[c].status \in Waiting
                               /\ r.state \in {"ready", "running", "failed", "cancelled"}
    /\ r.state \in {"ready", "running"} => k.status \in Waiting
OneRow(c, r, k) ==
    /\ job' = [job EXCEPT ![c] = r] /\ check' = [check EXCEPT ![c] = k]
    /\ feed'.check = feed.check

LEMMA RowKeeps ==
    ASSUME Bookkeeping, NEW c \in Checks, NEW r, NEW k, GoodRow(c, r, k), OneRow(c, r, k)
    PROVE  /\ Budgets' /\ Closable' /\ UnfinishedIsCurrent'
           /\ job' \in [Checks -> JobRows] /\ check' \in [Checks -> CheckRows]
<1>1. job \in [Checks -> JobRows] /\ check \in [Checks -> CheckRows]
  BY TypesByRow DEF Bookkeeping, Rows
<1>2. job' \in [Checks -> JobRows] /\ check' \in [Checks -> CheckRows]
  BY <1>1 DEF OneRow, GoodRow
<1>3. /\ job'[c] = r /\ check'[c] = k
      /\ \A d \in Checks : d # c => job'[d] = job[d] /\ check'[d] = check[d]
  BY <1>1 DEF OneRow
<1>4. Budgets'
  BY <1>3 DEF Bookkeeping, Budgets, GoodRow
<1>5. Closable'
  BY <1>3 DEF Bookkeeping, Closable, Unfinished, GoodRow, Waiting
<1>6. UnfinishedIsCurrent'
  <2>1. \A d \in Checks : Unfinished(d)' => Unfinished(d)
    BY <1>3 DEF Unfinished, GoodRow, Waiting
  <2>2. \A d \in Checks : Live(d)' => Unfinished(d)'
    BY <1>3 DEF Live, Unfinished, GoodRow, Waiting, Bookkeeping, UnfinishedIsCurrent
  <2> QED
    BY <2>1, <2>2 DEF Bookkeeping, UnfinishedIsCurrent, OneRow
<1> QED
  BY <1>2, <1>4, <1>5, <1>6

LEMMA SameRow ==
    ASSUME FeedInv, NEW c \in Checks
    PROVE  /\ job[c] \in JobRows /\ check[c] \in CheckRows
           /\ check = [check EXCEPT ![c] = check[c]] /\ job = [job EXCEPT ![c] = job[c]]
           /\ Live(c) => check[c].status \in Waiting /\ feed.check = c
           /\ Live(c) <=> job[c].state \in {"ready", "running"}
           /\ check[c].status \in Waiting => job[c].state \in {"ready", "running", "failed", "cancelled"}
           /\ job[c].attempts \in 0..MaxAttempts
           /\ job[c].state = "ready" => job[c].attempts < MaxAttempts
           /\ job[c].state = "running" => job[c].attempts > 0
<1>1. job \in [Checks -> JobRows] /\ check \in [Checks -> CheckRows]
  BY TypesByRow DEF FeedInv, Bookkeeping, Rows
<1>2. job[c] \in JobRows /\ check[c] \in CheckRows /\ job[c].attempts \in 0..MaxAttempts
  BY <1>1 DEF JobRows
<1>3. check = [check EXCEPT ![c] = check[c]] /\ job = [job EXCEPT ![c] = job[c]]
  BY <1>1
<1>4. /\ Live(c) => check[c].status \in Waiting /\ feed.check = c
      /\ check[c].status \in Waiting => job[c].state \in {"ready", "running", "failed", "cancelled"}
      /\ job[c].state = "ready" => job[c].attempts < MaxAttempts
      /\ job[c].state = "running" => job[c].attempts > 0
  BY DEF FeedInv, Bookkeeping, UnfinishedIsCurrent, Closable, Budgets, Unfinished, Waiting
<1> QED
  BY <1>2, <1>3, <1>4 DEF Live

LEMMA JobRecords ==
    /\ NewJob \in JobRows /\ NewJob.state = "ready" /\ NewJob.attempts = 0 /\ 0 < MaxAttempts
    /\ \A state \in {"succeeded", "cancelled"} :
          [NewJob EXCEPT !.state = state] \in JobRows
          /\ [NewJob EXCEPT !.state = state].state = state
    /\ \A k \in CheckRows : \A status \in ClosedStatus \cup Waiting :
          [k EXCEPT !.status = status] \in CheckRows /\ [k EXCEPT !.status = status].status = status
          /\ [k EXCEPT !.status = status].scope = k.scope
<1>1. NewJob \in JobRows /\ NewJob.state = "ready" /\ NewJob.attempts = 0 /\ 0 < MaxAttempts
  BY FeedAssumption DEF NewJob, JobRows
<1>2. \A state \in {"succeeded", "cancelled"} :
          [NewJob EXCEPT !.state = state] \in JobRows
          /\ [NewJob EXCEPT !.state = state].state = state
  BY <1>1 DEF JobRows
<1>3. \A k \in CheckRows : \A status \in ClosedStatus \cup Waiting :
          [k EXCEPT !.status = status] \in CheckRows /\ [k EXCEPT !.status = status].status = status
          /\ [k EXCEPT !.status = status].scope = k.scope
  BY DEF CheckRows, ClosedStatus, Waiting
<1> QED
  BY <1>1, <1>2, <1>3

(* A checkpoint stays sound while updates are only added.                    *)
SoundAfter(s) ==
    /\ s.gate # 0 => s.gate \in DOMAIN updates' /\ s.judged < s.gate
    /\ WellRead(s)
LEMMA SoundGrows == Remembered => \A s : Sound(s) => SoundAfter(s)
  BY DEF Remembered, Sound, GateOpen, SoundAfter
LEMMA CheckpointsAfter ==
    ASSUME \A c \in Checks : SoundAfter(saved'[c]) /\ SoundAfter(receipts'[c]),
           \A w \in Workers : SoundAfter(exec'[w].state)
    PROVE  Checkpoints'
  BY DEF Checkpoints, Sound, GateOpen, SoundAfter, WellRead, Originals

LEMMA QuietCheckpoints ==
    ASSUME FeedInv, Remembered, UNCHANGED <<saved, receipts, exec>>
    PROVE  Checkpoints'
  BY SoundGrows, CheckpointsAfter DEF FeedInv, Checkpoints

LEMMA QuietSteps == FeedInv /\ UNCHANGED exec => StepsAreDue'
  BY DEF FeedInv, StepsAreDue, InStep, Due

LEMMA QuietCopies ==
    ASSUME FeedInv, UNCHANGED <<exec, saved>>,
           \A c \in Checks : job'[c].state = "running" =>
               job[c].state = "running" /\ job'[c].holder = job[c].holder
    PROVE  Copies'
  BY DEF FeedInv, Copies

(* Nothing of the newest check changes but its job, which does not revive.   *)
LEMMA QuietRetained ==
    ASSUME FeedInv, SameScope, UNCHANGED receipts, feed'.check = feed.check,
           Live(feed.check)' => (Live(feed.check) /\ saved'[feed.check] = saved[feed.check]),
           check'[feed.check].scope = check[feed.check].scope
    PROVE  Retained'
<1> SUFFICES ASSUME NEW o \in begun'
             PROVE  /\ o[1] \notin Index
                    /\ Holds(receipts[feed.check], o[1], o[2])'
                    /\ Live(feed.check)' => Holds(saved[feed.check], o[1], o[2])'
                    /\ check'[feed'.check].scope = feed'.scope
  BY DEF Retained
<1>1. o \in begun /\ begun' = begun /\ feed'.scope = feed.scope
  BY DEF SameScope
<1>2. /\ o[1] \notin Index /\ Holds(receipts[feed.check], o[1], o[2])
      /\ Live(feed.check) => Holds(saved[feed.check], o[1], o[2])
      /\ check[feed.check].scope = feed.scope
  BY <1>1 DEF FeedInv, Retained
<1>3. receipts'[feed'.check] = receipts[feed.check]
  OBVIOUS
<1>4. Holds(receipts[feed.check], o[1], o[2])'
  BY <1>2, <1>3 DEF Holds
<1>5. Live(feed.check)' => Holds(saved[feed.check], o[1], o[2])'
  <2> SUFFICES ASSUME Live(feed.check)' PROVE Holds(saved[feed.check], o[1], o[2])'
    OBVIOUS
  <2>1. saved'[feed'.check] = saved[feed.check] /\ Holds(saved[feed.check], o[1], o[2])
    BY <1>2
  <2> QED
    BY <2>1 DEF Holds
<1> QED
  BY <1>1, <1>2, <1>4, <1>5

LEMMA InvParts ==
    /\ TypeOK' /\ Budgets' /\ Closable' /\ UnfinishedIsCurrent'
    /\ Checkpoints' /\ StepsAreDue' /\ Copies' /\ Retained'
    => FeedInv'
  BY DEF FeedInv, Bookkeeping
LEMMA TypesAfter == Rows' /\ Facts' => TypeOK'
  BY DEF TypeOK, Rows, Facts, FeedRows, JobRows, CheckRows, Executions
LEMMA InvTypes == FeedInv => Rows /\ Facts /\ Bookkeeping
  BY TypesByRow DEF FeedInv, Bookkeeping

LEMMA AroundKeeps == ASSUME FeedInv, Around PROVE FeedInv'
<1>1. Rows /\ Facts /\ Facts' /\ Remembered
  BY InvTypes DEF Around, Remembered
<1>2. TypeOK'
  BY <1>1, TypesAfter DEF Around, Rows, rowVars
<1>3. Budgets' /\ Closable' /\ UnfinishedIsCurrent'
  BY DEF FeedInv, Bookkeeping, Around, rowVars, Budgets, Closable, UnfinishedIsCurrent, Unfinished, Live
<1>4. Checkpoints' /\ StepsAreDue' /\ Copies'
  BY <1>1, QuietCheckpoints, QuietSteps, QuietCopies DEF Around, rowVars
<1>5. Retained'
  BY QuietRetained DEF Around, rowVars, Live
<1> QED
  BY <1>2, <1>3, <1>4, <1>5, InvParts

LEMMA PausedKeeps == ASSUME FeedInv, Paused PROVE FeedInv'
<1> DEFINE c == feed.check
           r == [NewJob EXCEPT !.state = "cancelled"]
           k == [check[c] EXCEPT !.status = "cancelled"]
<1>1. Rows /\ Facts /\ Facts' /\ Remembered /\ Bookkeeping /\ c \in Checks
  BY InvTypes DEF Paused, Remembered, Rows, FeedRows
<1>2. /\ OneRow(c, r, k) /\ feed' \in FeedRows
      /\ UNCHANGED <<saved, receipts, exec, updates, web, owner>> /\ SameScope
  BY DEF Paused, Settings, Cancelled, OneRow
<1>3. r \in JobRows /\ r.state = "cancelled" /\ k \in CheckRows /\ k.status = "cancelled"
      /\ k.scope = check[c].scope
  <2>1. check[c] \in CheckRows /\ "cancelled" \in ClosedStatus \cup Waiting
    BY <1>1, SameRow DEF ClosedStatus
  <2>2. r \in JobRows /\ r.state = "cancelled"
    BY JobRecords
  <2> QED
    BY <2>1, <2>2, JobRecords
<1>4. GoodRow(c, r, k)
  BY <1>3 DEF GoodRow, Waiting
<1> HIDE DEF r, k
<1>5. /\ Budgets' /\ Closable' /\ UnfinishedIsCurrent'
      /\ job' \in [Checks -> JobRows] /\ check' \in [Checks -> CheckRows]
  BY <1>1, <1>2, <1>4, RowKeeps
<1>6. TypeOK'
  BY <1>1, <1>2, <1>5, TypesAfter DEF Rows
<1>7. job'[c] = r /\ check'[c] = k /\ \A d \in Checks : d # c => job'[d] = job[d]
  BY <1>1, <1>2 DEF OneRow, Rows
<1>8. Checkpoints' /\ StepsAreDue' /\ Copies'
  BY <1>1, <1>2, <1>3, <1>7, QuietCheckpoints, QuietSteps, QuietCopies
<1>9. Retained'
  BY <1>2, <1>3, <1>7, QuietRetained DEF OneRow, Live
<1> QED
  BY <1>5, <1>6, <1>8, <1>9, InvParts

LEMMA LapsesKeeps == ASSUME FeedInv, NEW c \in Checks, Lapses(c) PROVE FeedInv'
<1> DEFINE r == [job[c] EXCEPT !.fresh = FALSE]
<1>1. Rows /\ Facts /\ Bookkeeping
  BY InvTypes
<1>2. /\ job[c].state = "running" /\ OneRow(c, r, check[c]) /\ mishaps' \in 0..MaxMishaps
      /\ UNCHANGED <<check, saved, receipts, factVars, feed, exec, web, owner>>
  BY SameRow DEF Lapses, OneRow
<1>3. r \in JobRows /\ r.state = "running" /\ r.attempts = job[c].attempts /\ r.holder = job[c].holder
  BY <1>2, SameRow DEF JobRows
<1>4. GoodRow(c, r, check[c])
  BY <1>2, <1>3, SameRow DEF GoodRow, Waiting
<1> HIDE DEF r
<1>5. /\ Budgets' /\ Closable' /\ UnfinishedIsCurrent'
      /\ job' \in [Checks -> JobRows] /\ check' \in [Checks -> CheckRows]
  BY <1>1, <1>2, <1>4, RowKeeps
<1>6. Facts' /\ Remembered /\ begun' = begun
  BY <1>1, <1>2, SameFacts
<1>7. TypeOK'
  BY <1>1, <1>2, <1>5, <1>6, TypesAfter DEF Rows
<1>8. job'[c] = r /\ \A d \in Checks : d # c => job'[d] = job[d]
  BY <1>1, <1>2 DEF OneRow, Rows
<1>9. Checkpoints' /\ StepsAreDue' /\ Copies'
  BY <1>2, <1>3, <1>6, <1>8, QuietCheckpoints, QuietSteps, QuietCopies
<1>10. feed.check \in Checks
  BY <1>1 DEF Rows, FeedRows
<1>11. Live(feed.check)' => Live(feed.check)
  BY <1>2, <1>3, <1>8, <1>10 DEF Live
<1>12. Retained'
  BY <1>2, <1>6, <1>11, QuietRetained DEF SameScope
<1> QED
  BY <1>5, <1>7, <1>9, <1>12, InvParts

LEMMA ReconcileKeeps == ASSUME FeedInv, NEW c \in Checks, Reconcile(c) PROVE FeedInv'
<1> DEFINE r == [NewJob EXCEPT !.state = Recovered(c), !.attempts = job[c].attempts]
<1>1. Rows /\ Facts /\ Bookkeeping
  BY InvTypes
<1>2. /\ job[c].state = "running" /\ OneRow(c, r, check[c])
      /\ UNCHANGED <<check, saved, receipts, factVars, envVars, feed, exec>>
  BY SameRow DEF Reconcile, OneRow
<1>3. /\ r \in JobRows /\ r.state = Recovered(c) /\ r.attempts = job[c].attempts
  <2>1. Recovered(c) \in {"ready", "failed"}
    BY DEF Recovered
  <2>2. [NewJob EXCEPT !.state = Recovered(c)] \in JobRows
    BY <2>1, JobRecords DEF JobRows
  <2>3. [[NewJob EXCEPT !.state = Recovered(c)] EXCEPT !.attempts = job[c].attempts] \in JobRows
    BY <2>2, SameRow DEF JobRows
  <2>4. r.state = Recovered(c) /\ r.attempts = job[c].attempts
    BY DEF NewJob
  <2> QED
    BY <2>3, <2>4
<1>4. GoodRow(c, r, check[c])
  <2>1. Recovered(c) = "ready" => job[c].attempts < MaxAttempts
    BY DEF Recovered
  <2>2. Recovered(c) \in {"ready", "failed"}
    BY DEF Recovered
  <2> QED
    BY <1>2, <1>3, <2>1, <2>2, SameRow DEF GoodRow, Waiting
<1>5. r.state # "running"
  BY <1>3 DEF Recovered
<1> HIDE DEF r
<1>6. /\ Budgets' /\ Closable' /\ UnfinishedIsCurrent'
      /\ job' \in [Checks -> JobRows] /\ check' \in [Checks -> CheckRows]
  BY <1>1, <1>2, <1>4, RowKeeps
<1>7. Facts' /\ Remembered /\ begun' = begun
  BY <1>1, <1>2, SameFacts DEF Facts, envVars
<1>8. TypeOK'
  BY <1>1, <1>2, <1>6, <1>7, TypesAfter DEF Rows, envVars
<1>9. job'[c] = r /\ \A d \in Checks : d # c => job'[d] = job[d]
  BY <1>1, <1>2 DEF OneRow, Rows
<1>10. Checkpoints' /\ StepsAreDue' /\ Copies'
  BY <1>2, <1>5, <1>7, <1>9, QuietCheckpoints, QuietSteps, QuietCopies
<1>11. feed.check \in Checks
  BY <1>1 DEF Rows, FeedRows
<1>12. Live(feed.check)' => Live(feed.check)
  BY <1>2, <1>9, <1>11 DEF Live
<1>13. Retained'
  BY <1>2, <1>7, <1>12, QuietRetained DEF SameScope
<1> QED
  BY <1>6, <1>8, <1>10, <1>13, InvParts

LEMMA ClaimKeeps == ASSUME FeedInv, NEW c \in Checks, Claim(c) PROVE FeedInv'
<1> DEFINE w == One(IdleWorkers)
           r == [state |-> "running", attempts |-> job[c].attempts + 1, holder |-> w, fresh |-> TRUE]
           e == [Idle EXCEPT !.pc = "claimed", !.check = c]
<1>1. Rows /\ Facts /\ Bookkeeping
  BY InvTypes
<1>2. w \in Workers /\ exec[w].check = None
  BY DEF Claim, One, IdleWorkers
<1>3. /\ job[c].state = "ready" /\ OneRow(c, r, check[c]) /\ exec' = [exec EXCEPT ![w] = e]
      /\ UNCHANGED <<check, saved, receipts, factVars, envVars, feed>>
  BY SameRow DEF Claim, OneRow
<1> HIDE DEF w
<1>4. job[c].attempts + 1 \in 0..MaxAttempts /\ job[c].attempts + 1 > 0
  BY <1>3, SameRow, FeedAssumption
<1>5. r \in JobRows /\ r.state = "running" /\ r.attempts > 0 /\ r.holder = w
  BY <1>2, <1>4 DEF JobRows
<1>6. GoodRow(c, r, check[c])
  BY <1>3, <1>5, SameRow DEF GoodRow, Waiting
<1>7. e \in Executions /\ e.pc = "claimed" /\ e.check = c /\ e.state = Fresh
  <2>1. Idle \in Executions
    BY <1>2, WorkerTypes
  <2>2. [Idle EXCEPT !.pc = "claimed"] \in Executions
    BY <2>1 DEF Executions, Asks
  <2>3. [[Idle EXCEPT !.pc = "claimed"] EXCEPT !.check = c] \in Executions
    BY <2>2 DEF Executions
  <2>4. e.pc = "claimed" /\ e.check = c /\ e.state = Fresh
    BY DEF Idle
  <2> QED
    BY <2>3, <2>4
<1>8. InStep(e)
  BY <1>7, FeedAssumption DEF InStep, Due
<1> HIDE DEF r, e
<1>9. /\ Budgets' /\ Closable' /\ UnfinishedIsCurrent'
      /\ job' \in [Checks -> JobRows] /\ check' \in [Checks -> CheckRows]
  BY <1>1, <1>3, <1>6, RowKeeps
<1>10. Facts' /\ Remembered /\ begun' = begun
  BY <1>1, <1>3, SameFacts DEF Facts, envVars
<1>11. /\ exec' \in [Workers -> Executions] /\ exec'[w] = e
       /\ \A v \in Workers : v # w => exec'[v] = exec[v]
  BY <1>1, <1>2, <1>3, <1>7 DEF Rows
<1>12. TypeOK'
  BY <1>1, <1>3, <1>9, <1>10, <1>11, TypesAfter DEF Rows, envVars
<1>13. job'[c] = r /\ \A d \in Checks : d # c => job'[d] = job[d]
  BY <1>1, <1>3 DEF OneRow, Rows
<1>14. Checkpoints'
  <2>1. SoundAfter(e.state)
    BY <1>7, FreshState DEF SoundAfter
  <2>2. \A v \in Workers : SoundAfter(exec'[v].state)
    BY <1>10, <1>11, <2>1, SoundGrows DEF FeedInv, Checkpoints
  <2>3. \A d \in Checks : SoundAfter(saved'[d]) /\ SoundAfter(receipts'[d])
    BY <1>3, <1>10, SoundGrows DEF FeedInv, Checkpoints
  <2> QED
    BY <2>2, <2>3, CheckpointsAfter
<1>15. StepsAreDue'
  BY <1>8, <1>11 DEF FeedInv, StepsAreDue, InStep, Due
<1>16. Copies'
  <2> SUFFICES ASSUME NEW v \in Workers, NEW d \in Checks,
                      exec'[v].check = d, job'[d].state = "running", job'[d].holder = v,
                      exec'[v].pc \notin {"claimed", "drop"}
               PROVE  exec'[v].state = saved'[d]
    BY DEF Copies
  <2>1. v # w
    BY <1>7, <1>11
  <2>2. d # c
    BY <1>5, <1>13, <2>1
  <2> QED
    BY <1>3, <1>11, <1>13, <2>1, <2>2 DEF FeedInv, Copies
<1>17. feed.check \in Checks
  BY <1>1 DEF Rows, FeedRows
<1>18. Live(feed.check)' => Live(feed.check)
  BY <1>3, <1>13, <1>17 DEF Live
<1>19. Retained'
  BY <1>3, <1>10, <1>18, QuietRetained DEF SameScope
<1> QED
  BY <1>9, <1>12, <1>14, <1>15, <1>16, <1>19, InvParts

LEMMA TurnsKeeps == ASSUME FeedInv, NEW w \in Workers, Turns(w) PROVE FeedInv'
<1>1. Rows /\ Facts /\ Bookkeeping
  BY InvTypes
<1>2. /\ UNCHANGED <<rowVars, factVars, feed, web, owner>> /\ mishaps' \in 0..MaxMishaps
  BY DEF Turns
<1>3. PICK e \in Executions :
          /\ exec' = [exec EXCEPT ![w] = e]
          /\ e.check \in {exec[w].check, None}
          /\ InStep(e)
          /\ e.state \in {exec[w].state, Fresh}
          /\ e.pc \in Holding => e.state = exec[w].state /\ exec[w].pc \in Holding
  BY DEF Turns
<1>4. Facts' /\ Remembered /\ begun' = begun
  BY <1>1, <1>2, SameFacts
<1>5. /\ exec' \in [Workers -> Executions] /\ exec'[w] = e
      /\ \A v \in Workers : v # w => exec'[v] = exec[v]
  BY <1>1, <1>3 DEF Rows
<1>6. TypeOK'
  BY <1>1, <1>2, <1>4, <1>5, TypesAfter DEF Rows, rowVars
<1>7. Budgets' /\ Closable' /\ UnfinishedIsCurrent'
  BY <1>1, <1>2 DEF Bookkeeping, rowVars, Budgets, Closable, UnfinishedIsCurrent, Unfinished, Live
<1>8. Checkpoints'
  <2>1. SoundAfter(e.state)
    BY <1>3, <1>4, FreshState, SoundGrows DEF SoundAfter, FeedInv, Checkpoints
  <2>2. \A v \in Workers : SoundAfter(exec'[v].state)
    BY <1>4, <1>5, <2>1, SoundGrows DEF FeedInv, Checkpoints
  <2>3. \A d \in Checks : SoundAfter(saved'[d]) /\ SoundAfter(receipts'[d])
    BY <1>2, <1>4, SoundGrows DEF FeedInv, Checkpoints, rowVars
  <2> QED
    BY <2>2, <2>3, CheckpointsAfter
<1>9. StepsAreDue'
  BY <1>3, <1>5 DEF FeedInv, StepsAreDue, InStep, Due
<1>10. Copies'
  <2> SUFFICES ASSUME NEW v \in Workers, NEW d \in Checks,
                      exec'[v].check = d, job'[d].state = "running", job'[d].holder = v,
                      exec'[v].pc \notin {"claimed", "drop"}
               PROVE  exec'[v].state = saved'[d]
    BY DEF Copies
  <2>1. CASE v # w
    BY <1>2, <1>5, <2>1 DEF FeedInv, Copies, rowVars
  <2>2. CASE v = w
    <3>1. e.check = d /\ e.check # None /\ exec[w].check = d
      BY <1>3, <1>5, <2>2, FeedAssumption
    <3>2. e.pc \in Holding
      <4>1. e.pc \in Asks \cup {"idle", "read", "drop"}
        BY DEF Executions
      <4>2. e.pc # "idle" /\ e.pc \notin {"claimed", "drop"}
        BY <1>3, <1>5, <2>2, <3>1 DEF InStep
      <4> QED
        BY <4>1, <4>2 DEF Asks, Holding
    <3>3. exec[w].pc \notin {"claimed", "drop"} /\ e.state = exec[w].state
      BY <1>3, <3>2 DEF Holding
    <3> QED
      BY <1>2, <1>5, <2>2, <3>1, <3>3 DEF FeedInv, Copies, rowVars
  <2> QED
    BY <2>1, <2>2
<1>11. Live(feed.check)' => Live(feed.check)
  BY <1>2 DEF rowVars, Live
<1>12. Retained'
  BY <1>2, <1>4, <1>11, QuietRetained DEF SameScope, rowVars
<1> QED
  BY <1>6, <1>7, <1>8, <1>9, <1>10, <1>12, InvParts

(* A worker leaves, or goes on; its job ends or waits again.                 *)
LEMMA LeavesTypes ==
    ASSUME FeedInv, NEW w \in Workers, Leaves(w)
    PROVE  /\ exec' \in [Workers -> Executions] /\ exec'[w] = Idle /\ StepsAreDue'
           /\ \A v \in Workers : v # w => exec'[v] = exec[v]
           /\ Remembered => \A v \in Workers : SoundAfter(exec'[v].state)
<1>1. exec \in [Workers -> Executions] /\ Idle \in Executions /\ InStep(Idle) /\ Idle.state = Fresh
  BY WorkerTypes
<1>2. /\ exec' \in [Workers -> Executions] /\ exec'[w] = Idle
      /\ \A v \in Workers : v # w => exec'[v] = exec[v]
  BY <1>1 DEF Leaves
<1>3. StepsAreDue'
  BY <1>1, <1>2 DEF FeedInv, StepsAreDue, InStep, Due
<1>4. Remembered => \A v \in Workers : SoundAfter(exec'[v].state)
  <2>1. SoundAfter(Fresh)
    BY FreshState DEF SoundAfter
  <2> QED
    BY <1>1, <1>2, <2>1, SoundGrows DEF FeedInv, Checkpoints
<1> QED
  BY <1>2, <1>3, <1>4

(* Its copy goes with it.                                                    *)
LEMMA LeavesCopies ==
    ASSUME FeedInv, NEW w \in Workers, Leaves(w), NEW c \in Checks,
           job'[c].state # "running" \/ (job'[c] = job[c] /\ saved'[c] = saved[c]),
           \A d \in Checks : d # c => job'[d] = job[d] /\ saved'[d] = saved[d]
    PROVE  Copies'
<1> SUFFICES ASSUME NEW v \in Workers, NEW d \in Checks,
                    exec'[v].check = d, job'[d].state = "running", job'[d].holder = v,
                    exec'[v].pc \notin {"claimed", "drop"}
             PROVE  exec'[v].state = saved'[d]
  BY DEF Copies
<1>1. v # w
  BY LeavesTypes, WorkerTypes, FeedAssumption
<1>2. exec'[v] = exec[v]
  BY <1>1, LeavesTypes
<1>3. job'[d] = job[d] /\ saved'[d] = saved[d]
  OBVIOUS
<1> QED
  BY <1>2, <1>3 DEF FeedInv, Copies

LEMMA DropKeeps == ASSUME FeedInv, NEW w \in Workers, Drop(w) PROVE FeedInv'
<1> DEFINE c == exec[w].check
           r == [NewJob EXCEPT !.state = "cancelled"]
           k == [check[c] EXCEPT !.status = "cancelled"]
<1>1. Rows /\ Facts /\ Bookkeeping /\ c \in Checks
  BY InvTypes, WorkerTypes DEF Drop, At
<1>2. /\ Leaves(w) /\ UNCHANGED <<saved, receipts, factVars, envVars, feed>>
      /\ (OneRow(c, r, k) /\ job[c].state = "running") \/ UNCHANGED <<job, check>>
  BY DEF Drop, OneRow, Cancelled
<1>3. Facts' /\ Remembered /\ begun' = begun
  BY <1>1, <1>2, SameFacts DEF Facts, envVars
<1>4. r \in JobRows /\ r.state = "cancelled" /\ k \in CheckRows /\ k.status = "cancelled"
      /\ k.scope = check[c].scope
  <2>1. check[c] \in CheckRows /\ "cancelled" \in ClosedStatus \cup Waiting
    BY <1>1, SameRow DEF ClosedStatus
  <2>2. r \in JobRows /\ r.state = "cancelled"
    BY JobRecords
  <2> QED
    BY <2>1, <2>2, JobRecords
<1>5. GoodRow(c, r, k)
  BY <1>4 DEF GoodRow, Waiting
<1> HIDE DEF r, k, c
<1>6. /\ Budgets' /\ Closable' /\ UnfinishedIsCurrent'
      /\ job' \in [Checks -> JobRows] /\ check' \in [Checks -> CheckRows]
  <2>1. CASE OneRow(c, r, k)
    BY <1>1, <1>5, <2>1, RowKeeps
  <2>2. CASE UNCHANGED <<job, check>>
    BY <1>1, <1>2, <2>2 DEF Rows, Bookkeeping, Budgets, Closable, UnfinishedIsCurrent, Unfinished, Live
  <2> QED
    BY <1>2, <2>1, <2>2
<1>7. /\ \/ job'[c] = r /\ check'[c] = k
         \/ job'[c] = job[c] /\ check'[c] = check[c]
      /\ \A d \in Checks : d # c => job'[d] = job[d] /\ check'[d] = check[d]
  BY <1>1, <1>2 DEF OneRow, Rows
<1>8. TypeOK'
  BY <1>1, <1>2, <1>3, <1>6, LeavesTypes, TypesAfter DEF Rows, envVars
<1>9. Checkpoints' /\ StepsAreDue'
  BY <1>2, <1>3, SoundGrows, LeavesTypes, CheckpointsAfter DEF FeedInv, Checkpoints
<1>10. Copies'
  BY <1>1, <1>2, <1>4, <1>7, LeavesCopies
<1>11. feed.check \in Checks
  BY <1>1 DEF Rows, FeedRows
<1>12. (Live(feed.check)' => Live(feed.check)) /\ check'[feed.check].scope = check[feed.check].scope
  BY <1>2, <1>4, <1>7, <1>11 DEF Live
<1>13. Retained'
  BY <1>2, <1>3, <1>12, QuietRetained DEF SameScope
<1> QED
  BY <1>6, <1>8, <1>9, <1>10, <1>13, InvParts

LEMMA CurrentCheck ==
    ASSUME FeedInv, NEW w \in Workers, Current(w), exec[w].check \in Checks
    PROVE  LET c == exec[w].check IN
           /\ feed.check = c /\ check[c].scope = feed.scope
           /\ job[c].state = "running" /\ job[c].holder = w /\ check[c].status \in Waiting
           /\ exec[w].pc \in Holding => exec[w].state = saved[c]
<1> DEFINE c == exec[w].check
<1>1. /\ feed.check = c /\ check[c].scope = feed.scope
      /\ job[c].state = "running" /\ job[c].holder = w
  BY DEF Current, Owns, Permitted
<1>2. check[c].status \in Waiting
  BY <1>1, SameRow
<1>3. exec[w].pc \in Holding => exec[w].state = saved[c]
  BY <1>1 DEF FeedInv, Copies, Holding
<1> QED
  BY <1>1, <1>2, <1>3

LEMMA OpenKeeps == ASSUME FeedInv, NEW w \in Workers, Open(w) PROVE FeedInv'
<1> DEFINE c == exec[w].check
           t == Prepared(NextGate(saved[c]))
           k == [check[c] EXCEPT !.status = "running"]
           e == [exec[w] EXCEPT !.pc = Phase(t), !.state = t]
<1>1. Rows /\ Facts /\ Bookkeeping /\ c \in Checks
  BY InvTypes, WorkerTypes DEF Open, At
<1>2. /\ Current(w) /\ saved' = [saved EXCEPT ![c] = t] /\ exec' = [exec EXCEPT ![w] = e]
      /\ OneRow(c, job[c], k) /\ UNCHANGED <<job, receipts, factVars, envVars, feed>>
  BY <1>1, SameRow DEF Open, OneRow
<1>3. /\ feed.check = c /\ check[c].scope = feed.scope
      /\ job[c].state = "running" /\ job[c].holder = w /\ check[c].status \in Waiting
  BY <1>1, <1>2, CurrentCheck
<1>4. saved[c] \in States /\ Sound(saved[c])
  BY <1>1 DEF Rows, FeedInv, Checkpoints
<1>5. /\ t \in States /\ Keeps(saved[c], t) /\ Sound(t)
      /\ Due(Phase(t), t) /\ Phase(t) \in {"plan", "gate", "read", "search", "finish"}
  BY <1>1, <1>4, OpenedState DEF Facts
<1> HIDE DEF t
<1>6. e \in Executions /\ e.pc = Phase(t) /\ e.check = c /\ e.state = t
  <2>1. Phase(t) \in Asks \cup {"idle", "read", "drop"}
    BY <1>5 DEF Asks
  <2>2. exec[w] \in Executions
    BY WorkerTypes
  <2>3. [exec[w] EXCEPT !.pc = Phase(t)] \in Executions
    BY <2>1, <2>2 DEF Executions
  <2>4. [[exec[w] EXCEPT !.pc = Phase(t)] EXCEPT !.state = t] \in Executions
    BY <1>5, <2>3 DEF Executions
  <2>5. exec[w] = [pc |-> exec[w].pc, check |-> c, state |-> exec[w].state, doc |-> exec[w].doc]
    BY <2>2 DEF Executions
  <2>6. e.pc = Phase(t) /\ e.check = c /\ e.state = t
    BY <2>5
  <2> QED
    BY <2>4, <2>6
<1>7. InStep(e)
  BY <1>1, <1>5, <1>6, FeedAssumption DEF InStep
<1> HIDE DEF e
<1>8. k \in CheckRows /\ k.status = "running" /\ k.scope = check[c].scope
  <2>1. check[c] \in CheckRows /\ "running" \in ClosedStatus \cup Waiting
    BY <1>1, SameRow DEF Waiting
  <2> QED
    BY <2>1, JobRecords
<1>9. GoodRow(c, job[c], k)
  BY <1>1, <1>3, <1>8, SameRow DEF GoodRow, Waiting
<1> HIDE DEF k
<1>10. /\ Budgets' /\ Closable' /\ UnfinishedIsCurrent'
       /\ job' \in [Checks -> JobRows] /\ check' \in [Checks -> CheckRows]
  BY <1>1, <1>2, <1>9, RowKeeps
<1>11. Facts' /\ Remembered /\ begun' = begun
  BY <1>1, <1>2, SameFacts DEF Facts, envVars
<1>12. /\ exec' \in [Workers -> Executions] /\ exec'[w] = e
       /\ \A v \in Workers : v # w => exec'[v] = exec[v]
       /\ saved' \in [Checks -> States] /\ saved'[c] = t
       /\ \A d \in Checks : d # c => saved'[d] = saved[d]
  BY <1>1, <1>2, <1>5, <1>6 DEF Rows
<1>13. TypeOK'
  BY <1>1, <1>2, <1>10, <1>11, <1>12, TypesAfter DEF Rows, envVars
<1>14. Checkpoints'
  <2>1. SoundAfter(t)
    BY <1>5, <1>11, SoundGrows
  <2>2. \A v \in Workers : SoundAfter(exec'[v].state)
    BY <1>6, <1>11, <1>12, <2>1, SoundGrows DEF FeedInv, Checkpoints
  <2>3. \A d \in Checks : SoundAfter(saved'[d]) /\ SoundAfter(receipts'[d])
    BY <1>2, <1>11, <1>12, <2>1, SoundGrows DEF FeedInv, Checkpoints
  <2> QED
    BY <2>2, <2>3, CheckpointsAfter
<1>15. StepsAreDue'
  BY <1>7, <1>12 DEF FeedInv, StepsAreDue, InStep, Due
<1>16. Copies'
  <2> SUFFICES ASSUME NEW v \in Workers, NEW d \in Checks,
                      exec'[v].check = d, job'[d].state = "running", job'[d].holder = v,
                      exec'[v].pc \notin {"claimed", "drop"}
               PROVE  exec'[v].state = saved'[d]
    BY DEF Copies
  <2>1. CASE v = w
    BY <1>6, <1>12, <2>1
  <2>2. CASE v # w
    <3>1. d # c
      BY <1>2, <1>3, <2>2
    <3> QED
      BY <1>2, <1>12, <2>2, <3>1 DEF FeedInv, Copies
  <2> QED
    BY <2>1, <2>2
<1>17. Retained'
  <2> SUFFICES ASSUME NEW o \in begun'
               PROVE  /\ o[1] \notin Index
                      /\ Holds(receipts[feed.check], o[1], o[2])'
                      /\ Live(feed.check)' => Holds(saved[feed.check], o[1], o[2])'
                      /\ check'[feed'.check].scope = feed'.scope
    BY DEF Retained
  <2>1. /\ o \in begun /\ o[2] # 0
    BY <1>1, <1>11 DEF Facts
  <2>2. /\ o[1] \notin Index /\ Holds(receipts[c], o[1], o[2]) /\ Holds(saved[c], o[1], o[2])
    BY <1>3, <2>1 DEF FeedInv, Retained, Live
  <2>3. Holds(t, o[1], o[2])
    BY <1>5, <2>1, <2>2 DEF Keeps
  <2>4. receipts'[feed'.check] = receipts[c] /\ saved'[feed'.check] = t
    BY <1>2, <1>3, <1>12
  <2>5. Holds(receipts[feed.check], o[1], o[2])' /\ Holds(saved[feed.check], o[1], o[2])'
    BY <2>2, <2>3, <2>4 DEF Holds
  <2>6. check'[c] = k
    BY <1>1, <1>2 DEF OneRow, Rows
  <2>7. check'[feed'.check].scope = feed'.scope
    BY <1>2, <1>3, <1>8, <2>6
  <2> QED
    BY <2>2, <2>5, <2>7
<1> QED
  BY <1>10, <1>13, <1>14, <1>15, <1>16, <1>17, InvParts

LEMMA PassesKeeps == ASSUME FeedInv, NEW w \in Workers, Passes(w) PROVE FeedInv'
<1> DEFINE c == exec[w].check
           s == exec[w].state
<1>1. Rows /\ Facts /\ Bookkeeping /\ c \in Checks
  BY InvTypes, WorkerTypes DEF Passes, Holding
<1>2. PICK t \in States :
          Yields(w, t) /\ Sound(t) /\ Progress(s, t) /\ KeepsOriginals(s, t)
  BY DEF Passes
<1>3. /\ exec[w].pc \in Holding /\ Remembered /\ Facts'
      /\ feed' \in FeedRows /\ feed'.check = feed.check /\ feed'.scope = feed.scope
  BY DEF Passes, Settings
<1>4. /\ Current(w) /\ saved' = [saved EXCEPT ![c] = t] /\ receipts' = [receipts EXCEPT ![c] = t]
      /\ Leaves(w) /\ OneRow(c, NewJob, check[c]) /\ UNCHANGED <<check, web, owner>>
  BY <1>1, <1>2, <1>3, SameRow DEF Yields, Saves, OneRow
<1>5. /\ feed.check = c /\ check[c].scope = feed.scope
      /\ job[c].state = "running" /\ check[c].status \in Waiting /\ s = saved[c]
  BY <1>1, <1>3, <1>4, CurrentCheck
<1>6. GoodRow(c, NewJob, check[c])
  BY <1>1, <1>5, SameRow, JobRecords DEF GoodRow
<1>7. /\ Budgets' /\ Closable' /\ UnfinishedIsCurrent'
      /\ job' \in [Checks -> JobRows] /\ check' \in [Checks -> CheckRows]
  BY <1>1, <1>4, <1>6, RowKeeps
<1>8. /\ saved' \in [Checks -> States] /\ saved'[c] = t
      /\ \A d \in Checks : d # c => saved'[d] = saved[d]
      /\ receipts' \in [Checks -> States] /\ receipts'[c] = t
      /\ \A d \in Checks : d # c => receipts'[d] = receipts[d]
  BY <1>1, <1>4 DEF Rows
<1>9. TypeOK'
  BY <1>1, <1>3, <1>4, <1>7, <1>8, LeavesTypes, TypesAfter DEF Rows
<1>10. Checkpoints' /\ StepsAreDue'
  <2>1. SoundAfter(t)
    BY <1>2, <1>3, SoundGrows
  <2>2. \A d \in Checks : SoundAfter(saved'[d]) /\ SoundAfter(receipts'[d])
    BY <1>3, <1>8, <2>1, SoundGrows DEF FeedInv, Checkpoints
  <2> QED
    BY <1>3, <1>4, <2>2, LeavesTypes, CheckpointsAfter
<1>11. job'[c] = NewJob /\ \A d \in Checks : d # c => job'[d] = job[d]
  BY <1>1, <1>4 DEF OneRow, Rows
<1>12. Copies'
  BY <1>1, <1>4, <1>8, <1>11, JobRecords, LeavesCopies
<1>13. Retained'
  <2> SUFFICES ASSUME NEW o \in begun'
               PROVE  /\ o[1] \notin Index
                      /\ Holds(receipts[feed.check], o[1], o[2])'
                      /\ Live(feed.check)' => Holds(saved[feed.check], o[1], o[2])'
                      /\ check'[feed'.check].scope = feed'.scope
    BY DEF Retained
  <2>1. o[1] \notin Index /\ Holds(t, o[1], o[2])
    <3>1. CASE o \in begun
      BY <1>2, <1>5, <3>1 DEF FeedInv, Retained, Live, KeepsOriginals
    <3>2. CASE o \notin begun
      BY <1>2, <3>2 DEF KeepsOriginals
    <3> QED
      BY <3>1, <3>2
  <2>2. receipts'[feed'.check] = t /\ saved'[feed'.check] = t
    BY <1>3, <1>5, <1>8
  <2>3. Holds(receipts[feed.check], o[1], o[2])' /\ Holds(saved[feed.check], o[1], o[2])'
    BY <2>1, <2>2 DEF Holds
  <2>4. check'[feed'.check].scope = feed'.scope
    BY <1>3, <1>4, <1>5
  <2> QED
    BY <2>1, <2>3, <2>4
<1> QED
  BY <1>7, <1>9, <1>10, <1>12, <1>13, InvParts

LEMMA FinishKeeps == ASSUME FeedInv, NEW w \in Workers, Finish(w) PROVE FeedInv'
<1> DEFINE c == exec[w].check
           t == exec[w].state
           r == [NewJob EXCEPT !.state = "succeeded"]
           k == [check[c] EXCEPT !.status = "completed"]
<1>1. Rows /\ Facts /\ Bookkeeping /\ c \in Checks /\ t \in States /\ Sound(t)
  BY InvTypes, WorkerTypes DEF Finish, At
<1>2. /\ Current(w) /\ saved' = [saved EXCEPT ![c] = t] /\ receipts' = [receipts EXCEPT ![c] = t]
      /\ Leaves(w) /\ OneRow(c, r, k) /\ UNCHANGED <<factVars, envVars, feed>>
      /\ exec[w].pc \in Holding
  BY DEF Finish, Saves, OneRow, At, Holding
<1>3. /\ feed.check = c /\ check[c].scope = feed.scope
      /\ job[c].state = "running" /\ check[c].status \in Waiting /\ t = saved[c]
  BY <1>1, <1>2, CurrentCheck
<1>4. /\ r \in JobRows /\ r.state = "succeeded"
      /\ k \in CheckRows /\ k.status = "completed" /\ k.scope = check[c].scope
  <2>1. check[c] \in CheckRows /\ "completed" \in ClosedStatus \cup Waiting
    BY <1>1, SameRow DEF ClosedStatus
  <2>2. r \in JobRows /\ r.state = "succeeded"
    BY JobRecords
  <2> QED
    BY <2>1, <2>2, JobRecords
<1>5. GoodRow(c, r, k)
  BY <1>4 DEF GoodRow, Waiting
<1> HIDE DEF r, k
<1>6. /\ Budgets' /\ Closable' /\ UnfinishedIsCurrent'
      /\ job' \in [Checks -> JobRows] /\ check' \in [Checks -> CheckRows]
  BY <1>1, <1>2, <1>5, RowKeeps
<1>7. Facts' /\ Remembered /\ begun' = begun
  BY <1>1, <1>2, SameFacts DEF Facts, envVars
<1>8. /\ saved' \in [Checks -> States] /\ saved'[c] = t
      /\ \A d \in Checks : d # c => saved'[d] = saved[d]
      /\ receipts' \in [Checks -> States] /\ receipts'[c] = t
      /\ \A d \in Checks : d # c => receipts'[d] = receipts[d]
  BY <1>1, <1>2 DEF Rows
<1>9. TypeOK'
  BY <1>1, <1>2, <1>6, <1>7, <1>8, LeavesTypes, TypesAfter DEF Rows, envVars
<1>10. Checkpoints' /\ StepsAreDue'
  <2>1. SoundAfter(t)
    BY <1>1, <1>7, SoundGrows
  <2>2. \A d \in Checks : SoundAfter(saved'[d]) /\ SoundAfter(receipts'[d])
    BY <1>7, <1>8, <2>1, SoundGrows DEF FeedInv, Checkpoints
  <2> QED
    BY <1>2, <1>7, <2>2, LeavesTypes, CheckpointsAfter
<1>11. /\ job'[c] = r /\ check'[c] = k
       /\ \A d \in Checks : d # c => job'[d] = job[d]
  BY <1>1, <1>2 DEF OneRow, Rows
<1>12. Copies'
  BY <1>1, <1>2, <1>4, <1>8, <1>11, LeavesCopies
<1>13. Retained'
  <2> SUFFICES ASSUME NEW o \in begun'
               PROVE  /\ o[1] \notin Index
                      /\ Holds(receipts[feed.check], o[1], o[2])'
                      /\ Live(feed.check)' => Holds(saved[feed.check], o[1], o[2])'
                      /\ check'[feed'.check].scope = feed'.scope
    BY DEF Retained
  <2>1. o[1] \notin Index /\ Holds(t, o[1], o[2])
    BY <1>3, <1>7 DEF FeedInv, Retained, Live
  <2>2. receipts'[feed'.check] = t /\ saved'[feed'.check] = t
    BY <1>2, <1>3, <1>8
  <2>3. Holds(receipts[feed.check], o[1], o[2])' /\ Holds(saved[feed.check], o[1], o[2])'
    BY <2>1, <2>2 DEF Holds
  <2>4. check'[feed'.check].scope = feed'.scope
    BY <1>2, <1>3, <1>4, <1>11
  <2> QED
    BY <2>1, <2>3, <2>4
<1> QED
  BY <1>6, <1>9, <1>10, <1>12, <1>13, InvParts

(* What a new check inherits.                                                *)
LEMMA ReadsJoin ==
    ASSUME NEW a \in Reads, NEW b \in Reads
    PROVE  /\ a \o b \in Reads
           /\ \A i \in DOMAIN a : \E k \in DOMAIN (a \o b) : (a \o b)[k] = a[i]
           /\ \A i \in DOMAIN b : \E k \in DOMAIN (a \o b) : (a \o b)[k] = b[i]
           /\ Originals(a) /\ Originals(b) => Originals(a \o b)
<1> DEFINE R == [url: Urls, reading: Readings]
           j == a \o b
<1>1. Reads = Seq(R)
  BY DEF Reads
<1> HIDE DEF R
<1>2. a \in Seq(R) /\ b \in Seq(R)
  BY <1>1
<1>3. j \in Seq(R) /\ Len(j) = Len(a) + Len(b)
  BY <1>2
<1>4. \A i \in 1..Len(a) : j[i] = a[i]
  BY <1>2
<1>5. \A i \in 1..Len(b) : Len(a) + i \in 1..Len(j) /\ j[Len(a) + i] = b[i]
  BY <1>2, <1>3
<1>6. \A k \in 1..Len(j) : k \in 1..Len(a) \/ (k - Len(a) \in 1..Len(b) /\ j[k] = b[k - Len(a)])
  BY <1>2, <1>3
<1>7. DOMAIN a = 1..Len(a) /\ DOMAIN b = 1..Len(b) /\ DOMAIN j = 1..Len(j) /\ Len(a) \in Nat /\ Len(b) \in Nat
  BY <1>2, <1>3
<1> HIDE DEF j
<1>8. \A i \in DOMAIN a : i \in DOMAIN j /\ j[i] = a[i]
  BY <1>3, <1>4, <1>7
<1>9. \A i \in DOMAIN b : \E k \in DOMAIN j : j[k] = b[i]
  BY <1>5, <1>7
<1>10. Originals(a) /\ Originals(b) => Originals(j)
  BY <1>4, <1>6, <1>7 DEF Originals
<1> QED
  BY <1>1, <1>3, <1>8, <1>9, <1>10 DEF j

LEMMA UnreadTailReads ==
    ASSUME NEW s \in States, WellRead(s)
    PROVE  /\ UnreadTail(s) \in Reads /\ Originals(UnreadTail(s))
           /\ s.reading.version # 0 => \E i \in DOMAIN UnreadTail(s) :
                  UnreadTail(s)[i] = [url |-> s.items[1], reading |-> s.reading]
<1> DEFINE R == [url: Urls, reading: Readings]
           x == [url |-> s.items[1], reading |-> s.reading]
<1>1. Reads = Seq(R) /\ <<>> \in Reads /\ Originals(<<>>)
  BY DEF Reads, Originals
<1>2. CASE s.reading.version # 0
  <2>1. s.items # <<>> /\ s.items[1] \in Urls /\ s.items[1] \notin Index
    BY <1>2, StateFields DEF WellRead
  <2>2. x \in R /\ x.url \notin Index
    BY <2>1, StateFields
  <2> HIDE DEF R, x
  <2>3. <<x>> \in Seq(R) /\ 1 \in DOMAIN <<x>> /\ <<x>>[1] = x /\ \A i \in DOMAIN <<x>> : <<x>>[i] = x
    BY <2>2
  <2>4. Originals(<<x>>)
    BY <2>2, <2>3 DEF Originals
  <2>5. UnreadTail(s) = <<x>>
    BY <1>2, <2>1 DEF UnreadTail, x
  <2> QED
    BY <1>1, <2>3, <2>4, <2>5 DEF x
<1>3. CASE s.reading.version = 0
  BY <1>1, <1>3 DEF UnreadTail
<1> QED
  BY <1>2, <1>3

LEMMA InheritedState ==
    ASSUME FeedInv, NEW f, Settings(f), NEW status
    PROVE  LET t == Inherited(f.rev, f.scope, f.plan, status) IN
           /\ t \in States /\ Sound(t)
           /\ check[feed.check].scope = f.scope => Keeps(receipts[feed.check], t)
<1> DEFINE last == feed.check
           old == receipts[last]
           fresh == [Fresh EXCEPT !.plan = f.plan]
           more == old.resume \o old.retry
           carried == [old EXCEPT !.resume = more, !.retry = <<>>, !.resumed = TRUE]
           rest == old.resume \o UnreadTail(old) \o old.retry
           left == [fresh EXCEPT !.resume = rest]
<1>1. Rows
  BY InvTypes
<1>2. last \in Checks /\ f.plan \in BOOLEAN
  BY <1>1 DEF Rows, FeedRows, Settings
<1>3. old \in States /\ Sound(old) /\ WellRead(old)
  BY <1>1, <1>2 DEF Rows, FeedInv, Checkpoints, Sound
<1> HIDE DEF old
<1>4. /\ old.resume \in Reads /\ old.retry \in Reads /\ UnreadTail(old) \in Reads /\ <<>> \in Reads
      /\ Originals(old.resume) /\ Originals(old.retry) /\ Originals(UnreadTail(old)) /\ Originals(<<>>)
  <2>1. <<>> \in Reads /\ Originals(<<>>)
    BY DEF Reads, Originals
  <2> QED
    BY <1>3, <2>1, StateFields, UnreadTailReads DEF WellRead
<1>5. /\ more \in Reads /\ Originals(more)
      /\ \A i \in DOMAIN old.resume : \E k \in DOMAIN more : more[k] = old.resume[i]
      /\ \A i \in DOMAIN old.retry : \E k \in DOMAIN more : more[k] = old.retry[i]
  BY <1>4, ReadsJoin
<1>6. /\ rest \in Reads /\ Originals(rest)
      /\ \A i \in DOMAIN old.resume : \E k \in DOMAIN rest : rest[k] = old.resume[i]
      /\ \A i \in DOMAIN UnreadTail(old) : \E k \in DOMAIN rest : rest[k] = UnreadTail(old)[i]
      /\ \A i \in DOMAIN old.retry : \E k \in DOMAIN rest : rest[k] = old.retry[i]
  <2> DEFINE m == old.resume \o UnreadTail(old)
  <2>1. /\ m \in Reads /\ Originals(m)
        /\ \A i \in DOMAIN old.resume : \E k \in DOMAIN m : m[k] = old.resume[i]
        /\ \A i \in DOMAIN UnreadTail(old) : \E k \in DOMAIN m : m[k] = UnreadTail(old)[i]
    BY <1>4, ReadsJoin
  <2> HIDE DEF m
  <2>2. /\ m \o old.retry \in Reads /\ Originals(m \o old.retry)
        /\ \A i \in DOMAIN m : \E k \in DOMAIN (m \o old.retry) : (m \o old.retry)[k] = m[i]
        /\ \A i \in DOMAIN old.retry : \E k \in DOMAIN (m \o old.retry) : (m \o old.retry)[k] = old.retry[i]
    BY <1>4, <2>1, ReadsJoin
  <2>3. rest = m \o old.retry
    BY DEF m
  <2> HIDE DEF rest
  <2>4. \A i \in DOMAIN old.resume : \E k \in DOMAIN rest : rest[k] = old.resume[i]
    <3> TAKE i \in DOMAIN old.resume
    <3>1. PICK k \in DOMAIN m : m[k] = old.resume[i]
      BY <2>1
    <3> QED
      BY <2>2, <2>3, <3>1
  <2>5. \A i \in DOMAIN UnreadTail(old) : \E k \in DOMAIN rest : rest[k] = UnreadTail(old)[i]
    <3> TAKE i \in DOMAIN UnreadTail(old)
    <3>1. PICK k \in DOMAIN m : m[k] = UnreadTail(old)[i]
      BY <2>1
    <3> QED
      BY <2>2, <2>3, <3>1
  <2> QED
    BY <2>2, <2>3, <2>4, <2>5
<1> HIDE DEF more, rest
<1>7. fresh \in States /\ fresh.gate = 0 /\ WellRead(fresh)
  <2>1. Fresh \in States /\ WellRead(Fresh) /\ Fresh.gate = 0
    BY FreshState
  <2>2. fresh \in States
    BY <1>2, <2>1, OneField
  <2>3. /\ fresh.gate = Fresh.gate /\ fresh.items = Fresh.items /\ fresh.reading = Fresh.reading
        /\ fresh.retry = Fresh.retry /\ fresh.resume = Fresh.resume
    BY <2>1, StateShape
  <2> QED
    BY <2>1, <2>2, <2>3 DEF WellRead
<1> HIDE DEF fresh
<1>8. carried \in States /\ Sound(carried) /\ Keeps(old, carried)
  <2>1. [old EXCEPT !.resume = more] \in States
    BY <1>3, <1>5, OneField
  <2>2. [[old EXCEPT !.resume = more] EXCEPT !.retry = <<>>] \in States
    BY <1>4, <2>1, OneField
  <2>3. [[[old EXCEPT !.resume = more] EXCEPT !.retry = <<>>] EXCEPT !.resumed = TRUE] \in States
    BY <2>2, OneField
  <2>4. /\ carried.items = old.items /\ carried.reading = old.reading /\ carried.resume = more
        /\ carried.retry = <<>> /\ carried.gate = old.gate /\ carried.judged = old.judged
    BY <1>3, StateShape
  <2>5. carried \in States
    BY <2>3
  <2> HIDE DEF carried
  <2>6. Sound(carried)
    BY <1>3, <1>4, <1>5, <2>4 DEF Sound, GateOpen, WellRead
  <2>7. Keeps(old, carried)
    BY <1>5, <2>4 DEF Keeps, Holds
  <2> QED
    BY <2>5, <2>6, <2>7
<1>9. left \in States /\ Sound(left) /\ Keeps(old, left)
  <2>1. left \in States
    BY <1>6, <1>7, OneField
  <2>2. /\ left.items = fresh.items /\ left.reading = fresh.reading /\ left.resume = rest
        /\ left.retry = fresh.retry /\ left.gate = 0
    BY <1>7, StateShape
  <2> HIDE DEF left
  <2>3. Sound(left)
    BY <1>6, <1>7, <2>2 DEF Sound, GateOpen, WellRead
  <2>4. Keeps(old, left)
    <3> SUFFICES ASSUME NEW u, NEW v, v # 0, Holds(old, u, v) PROVE Holds(left, u, v)
      BY DEF Keeps
    <3>1. CASE old.reading.version = v /\ old.items[1] = u
      <4>1. PICK i \in DOMAIN UnreadTail(old) :
                UnreadTail(old)[i] = [url |-> old.items[1], reading |-> old.reading]
        BY <1>3, <3>1, UnreadTailReads
      <4>2. PICK k \in DOMAIN rest : rest[k] = UnreadTail(old)[i]
        BY <1>6
      <4>3. rest[k].url = u /\ rest[k].reading.version = v
        BY <3>1, <4>1, <4>2
      <4> QED
        BY <2>2, <4>3 DEF Holds
    <3>2. CASE \/ \E i \in DOMAIN old.retry : old.retry[i].url = u /\ old.retry[i].reading.version = v
               \/ \E i \in DOMAIN old.resume : old.resume[i].url = u /\ old.resume[i].reading.version = v
      BY <1>6, <2>2, <3>2 DEF Holds
    <3> QED
      BY <3>1, <3>2 DEF Holds
  <2> QED
    BY <2>1, <2>3, <2>4
<1>10. Sound(fresh)
  BY <1>7 DEF Sound, GateOpen
<1> HIDE DEF carried, left
<1>11. Inherited(f.rev, f.scope, f.plan, status)
           = IF check[last].scope = f.scope /\ check[last].rev = f.rev /\ status = "failed" THEN carried
             ELSE IF check[last].scope = f.scope THEN left ELSE fresh
  BY DEF Inherited, old, fresh, more, carried, rest, left
<1> QED
  BY <1>7, <1>8, <1>9, <1>10, <1>11 DEF old

LEMMA ReplacedKeeps == ASSUME FeedInv, Replaced PROVE FeedInv'
<1> DEFINE last == feed.check
           c == One(Unused)
<1>1. PICK f, jobs, status : Settings(f) /\ Closes(jobs, status) /\ Enqueued(f, jobs, status)
  BY DEF Replaced
<1> DEFINE t == Inherited(f.rev, f.scope, f.plan, status)
           n == [status |-> "queued", rev |-> f.rev, scope |-> f.scope]
           k == [check[last] EXCEPT !.status = status]
<1>2. Rows /\ Facts /\ Bookkeeping /\ last \in Checks
  BY InvTypes DEF Rows, FeedRows
<1>3. UNCHANGED <<exec, updates, web, owner>> /\ Facts' /\ SameScope /\ Remembered
  BY DEF Replaced, Remembered
<1>4. c \in Checks /\ c # last /\ ~Live(c) /\ \A w \in Workers : exec[w].check # c
  <2>1. c \in Unused
    BY <1>1 DEF Enqueued, One
  <2> QED
    BY <2>1 DEF Unused
<1>5. /\ feed' = [f EXCEPT !.check = c]
      /\ job' = [jobs EXCEPT ![c] = NewJob]
      /\ check' = [check EXCEPT ![c] = n, ![last] = k]
      /\ saved' = [saved EXCEPT ![c] = t, ![last] = Fresh]
      /\ receipts' = [receipts EXCEPT ![c] = t, ![last] = Fresh]
  BY <1>1 DEF Enqueued
<1> HIDE DEF c
<1>6. t \in States /\ Sound(t) /\ (check[last].scope = f.scope => Keeps(receipts[last], t))
  BY <1>1, InheritedState
<1> HIDE DEF t
<1>7. /\ feed' \in FeedRows /\ feed'.check = c /\ feed'.scope = f.scope
      /\ f.rev \in Nat /\ f.scope \in Nat
  BY <1>1, <1>4, <1>5 DEF Settings, FeedRows
<1>8. n \in CheckRows /\ n.status = "queued" /\ n.scope = f.scope
  BY <1>7 DEF CheckRows
<1>9. k \in CheckRows /\ k.status = status /\ status \in ClosedStatus
  <2>1. status \in ClosedStatus /\ check[last] \in CheckRows
    BY <1>1, <1>2, SameRow DEF Closes
  <2> QED
    BY <2>1, JobRecords
<1> HIDE DEF n, k
<1>10. /\ jobs \in [Checks -> JobRows] /\ jobs[last].state \notin {"ready", "running"}
       /\ \A d \in Checks : d # last => jobs[d] = job[d]
       /\ jobs[last] = job[last] \/ jobs[last].state = "cancelled"
  <2>1. CASE jobs = job /\ ~Live(last)
    BY <1>2, <2>1 DEF Rows, Live
  <2>2. CASE jobs = Cancelled(last)
    <3>1. /\ [NewJob EXCEPT !.state = "cancelled"] \in JobRows
          /\ [NewJob EXCEPT !.state = "cancelled"].state = "cancelled"
      BY JobRecords
    <3>2. jobs = [job EXCEPT ![last] = [NewJob EXCEPT !.state = "cancelled"]]
      BY <2>2 DEF Cancelled
    <3> QED
      BY <1>2, <3>1, <3>2 DEF Rows
  <2> QED
    BY <1>1, <2>1, <2>2 DEF Closes
<1>11. /\ job' \in [Checks -> JobRows] /\ job'[c] = NewJob /\ job'[last] = jobs[last]
       /\ \A d \in Checks : d # c /\ d # last => job'[d] = job[d]
  BY <1>2, <1>4, <1>5, <1>10, JobRecords
<1>12. /\ check' \in [Checks -> CheckRows] /\ check'[c] = n /\ check'[last] = k
       /\ \A d \in Checks : d # c /\ d # last => check'[d] = check[d]
  BY <1>2, <1>4, <1>5, <1>8, <1>9 DEF Rows
<1>13. /\ saved' \in [Checks -> States] /\ saved'[c] = t /\ saved'[last] = Fresh
       /\ \A d \in Checks : d # c /\ d # last => saved'[d] = saved[d]
  BY <1>2, <1>4, <1>5, <1>6, FreshState DEF Rows
<1>14. /\ receipts' \in [Checks -> States] /\ receipts'[c] = t /\ receipts'[last] = Fresh
       /\ \A d \in Checks : d # c /\ d # last => receipts'[d] = receipts[d]
  BY <1>2, <1>4, <1>5, <1>6, FreshState DEF Rows
<1>15. TypeOK'
  BY <1>2, <1>3, <1>7, <1>11, <1>12, <1>13, <1>14, TypesAfter DEF Rows
<1>16. Budgets'
  <2> SUFFICES ASSUME NEW d \in Checks
               PROVE  /\ job'[d].state = "ready" => job'[d].attempts < MaxAttempts
                      /\ job'[d].state = "running" => job'[d].attempts > 0
    BY DEF Budgets
  <2>1. CASE d = c
    BY <1>11, <2>1, JobRecords
  <2>2. CASE d = last
    BY <1>10, <1>11, <2>2
  <2>3. CASE d # c /\ d # last
    BY <1>11, <2>3, SameRow
  <2> QED
    BY <2>1, <2>2, <2>3
<1>17. \A d \in Checks : d # c => check'[d].status \notin Waiting /\ job'[d].state \notin {"ready", "running"}
  <2> SUFFICES ASSUME NEW d \in Checks, d # c
               PROVE  check'[d].status \notin Waiting /\ job'[d].state \notin {"ready", "running"}
    OBVIOUS
  <2>1. CASE d = last
    BY <1>9, <1>10, <1>11, <1>12, <2>1 DEF ClosedStatus, Waiting
  <2>2. CASE d # last
    <3>1. ~Unfinished(d) /\ ~Live(d)
      BY <1>2, <2>2 DEF Bookkeeping, UnfinishedIsCurrent
    <3> QED
      BY <1>11, <1>12, <2>2, <3>1 DEF Unfinished, Live, Waiting
  <2> QED
    BY <2>1, <2>2
<1>18. job'[c].state = "ready" /\ check'[c].status = "queued"
  BY <1>8, <1>11, <1>12, JobRecords
<1>19. Closable' /\ UnfinishedIsCurrent'
  BY <1>7, <1>17, <1>18 DEF Closable, UnfinishedIsCurrent, Unfinished, Live, Waiting
<1>20. Checkpoints'
  <2>1. SoundAfter(t) /\ SoundAfter(Fresh)
    BY <1>3, <1>6, SoundGrows, FreshState DEF SoundAfter
  <2>2. \A d \in Checks : SoundAfter(saved'[d]) /\ SoundAfter(receipts'[d])
    BY <1>3, <1>13, <1>14, <2>1, SoundGrows DEF FeedInv, Checkpoints
  <2>3. \A w \in Workers : SoundAfter(exec'[w].state)
    BY <1>3, SoundGrows DEF FeedInv, Checkpoints
  <2> QED
    BY <2>2, <2>3, CheckpointsAfter
<1>21. StepsAreDue'
  BY <1>3, QuietSteps
<1>22. Copies'
  <2> SUFFICES ASSUME NEW w \in Workers, NEW d \in Checks,
                      exec'[w].check = d, job'[d].state = "running"
               PROVE  FALSE
    BY DEF Copies
  <2>1. d # c
    BY <1>3, <1>4
  <2> QED
    BY <1>17, <2>1
<1>23. Retained'
  <2> SUFFICES ASSUME NEW o \in begun'
               PROVE  /\ o[1] \notin Index
                      /\ Holds(receipts[feed.check], o[1], o[2])'
                      /\ Live(feed.check)' => Holds(saved[feed.check], o[1], o[2])'
                      /\ check'[feed'.check].scope = feed'.scope
    BY DEF Retained
  <2>1. o \in begun /\ feed'.scope = feed.scope
    BY <1>3 DEF SameScope
  <2>2. o[1] \notin Index /\ Holds(receipts[last], o[1], o[2]) /\ check[last].scope = feed.scope /\ o[2] # 0
    BY <1>2, <2>1 DEF FeedInv, Retained, Facts
  <2>3. Holds(t, o[1], o[2])
    BY <1>6, <1>7, <2>1, <2>2 DEF Keeps
  <2>4. receipts'[feed'.check] = t /\ saved'[feed'.check] = t
    BY <1>7, <1>13, <1>14
  <2>5. Holds(receipts[feed.check], o[1], o[2])' /\ Holds(saved[feed.check], o[1], o[2])'
    BY <2>3, <2>4 DEF Holds
  <2>6. check'[feed'.check].scope = feed'.scope
    BY <1>7, <1>8, <1>12
  <2> QED
    BY <2>2, <2>5, <2>6
<1> QED
  BY <1>15, <1>16, <1>19, <1>20, <1>21, <1>22, <1>23, InvParts

-------------------------------------------------------------------------------
(* The first check of a new feed.                                            *)
LEMMA InitKeeps == Init => FeedInv
<1> SUFFICES ASSUME Init PROVE FeedInv
  OBVIOUS
<1> DEFINE c == One(Checks)
           n == [status |-> "queued", rev |-> 1, scope |-> 1]
<1>1. c \in Checks
  BY FeedAssumption DEF One
<1>2. /\ web = [u \in Urls |-> 1] /\ owner = TRUE
      /\ feed = [active |-> TRUE, rev |-> 1, scope |-> 1, check |-> c, plan |-> FALSE]
      /\ job = [d \in Checks |-> IF d = c THEN NewJob ELSE NoJob]
      /\ check = [d \in Checks |-> IF d = c THEN n ELSE NoCheck]
      /\ saved = [d \in Checks |-> Fresh] /\ receipts = [d \in Checks |-> Fresh]
      /\ exec = [w \in Workers |-> Idle]
      /\ updates = <<>> /\ assessed = {} /\ decided = {} /\ mishaps = 0 /\ begun = {}
  BY DEF Init
<1> HIDE DEF c
<1>3. /\ NewJob \in JobRows /\ NewJob.state = "ready" /\ NewJob.attempts = 0 /\ 0 < MaxAttempts
      /\ NoJob \in JobRows /\ NoJob.state = "absent"
  <2>1. NewJob \in JobRows
    BY JobRecords
  <2>2. NoJob \in JobRows /\ NoJob.state = "absent"
    BY <2>1 DEF NoJob, JobRows
  <2> QED
    BY <2>2, JobRecords
<1>4. /\ n \in CheckRows /\ n.status = "queued"
      /\ NoCheck \in CheckRows /\ NoCheck.status = "absent"
  BY DEF CheckRows, NoCheck
<1> HIDE DEF n
<1>5. Idle \in Executions /\ Idle.state = Fresh /\ Idle.pc = "idle" /\ Idle.check = None
  BY FreshState, FeedAssumption DEF Idle, Executions
<1>6. feed \in FeedRows /\ feed.check = c
  BY <1>1, <1>2 DEF FeedRows
<1>7. Rows
  <2>1. web \in [Urls -> 1..Versions] /\ owner \in BOOLEAN
    BY <1>2, FeedAssumption
  <2>2. job \in [Checks -> JobRows] /\ check \in [Checks -> CheckRows]
    BY <1>2, <1>3, <1>4
  <2>3. /\ saved \in [Checks -> States] /\ receipts \in [Checks -> States]
        /\ exec \in [Workers -> Executions]
    BY <1>2, <1>5, FreshState
  <2> QED
    BY <1>6, <2>1, <2>2, <2>3 DEF Rows
<1>8. Facts
  BY <1>2, FeedAssumption DEF Facts
<1>9. Budgets /\ Closable /\ UnfinishedIsCurrent
  BY <1>2, <1>3, <1>4, <1>6 DEF Budgets, Closable, UnfinishedIsCurrent, Unfinished, Live
<1>10. Checkpoints
  BY <1>2, <1>5, FreshState DEF Checkpoints, Sound, GateOpen
<1>11. StepsAreDue
  BY <1>2, <1>5 DEF StepsAreDue, InStep, Due
<1>12. Copies /\ Retained
  BY <1>2, <1>5, FeedAssumption DEF Copies, Retained
<1> QED
  BY <1>7, <1>8, <1>9, <1>10, <1>11, <1>12, TypesByRow DEF FeedInv, Bookkeeping

LEMMA StepKeeps == FeedInv /\ [Next]_vars => FeedInv'
  BY Steps, AroundKeeps, ReplacedKeeps, PausedKeeps, ClaimKeeps, LapsesKeeps, ReconcileKeeps,
     TurnsKeeps, DropKeeps, OpenKeeps, PassesKeeps, FinishKeeps DEF StepOf

(* The invariant that the theorems below rest on.                            *)
THEOREM FeedInvariant == Spec => []FeedInv
  BY InitKeeps, StepKeeps, PTL DEF Spec

(* The types hold, and attempts never exceed their maximum.                  *)
THEOREM FeedTypes == Spec => []TypeOK
<1>1. FeedInv => TypeOK
  BY DEF FeedInv, Bookkeeping
<1> QED
  BY <1>1, FeedInvariant, PTL

(* Only the newest check of a feed can have work left, and its job is there  *)
(* to do it or to end it.                                                    *)
THEOREM OneCheckAtATime == Spec => []UnfinishedIsCurrent
<1>1. FeedInv => UnfinishedIsCurrent
  BY DEF FeedInv, Bookkeeping
<1> QED
  BY <1>1, FeedInvariant, PTL

(* What is retained of an original stays with the newest check until it is   *)
(* an update, or the scope it was found in is gone.                          *)
THEOREM NothingRetainedIsLost == Spec => []OriginalsAreFinished
<1>1. FeedInv => OriginalsAreFinished
  BY DEF FeedInv, Retained, OriginalsAreFinished
<1> QED
  BY <1>1, FeedInvariant, PTL

-------------------------------------------------------------------------------
(* No step takes a checkpoint back, and what hands it on has got further.    *)
StepAdvances(c) ==
    feed.check = c /\ feed'.check = c =>
        /\ NoRetreat(saved[c], saved'[c])
        /\ HandsOn(c) => GotFurther(saved[c], saved'[c])

LEMMA StaysPut ==
    ASSUME FeedInv, NEW c \in Checks, saved'[c] = saved[c], ~HandsOn(c)
    PROVE  StepAdvances(c)
<1>1. saved[c] \in States
  BY InvTypes DEF Rows
<1>2. NoRetreat(saved[c], saved[c])
  BY <1>1, StateFields DEF NoRetreat
<1> QED
  BY <1>2 DEF StepAdvances

LEMMA JobStepAdvances ==
    ASSUME FeedInv, NEW c \in Checks,
           \/ Around \/ Paused
           \/ \E d \in Checks : Claim(d) \/ Lapses(d) \/ Reconcile(d)
           \/ \E w \in Workers : Turns(w) \/ Drop(w)
    PROVE  StepAdvances(c)
<1>1. saved' = saved
  BY DEF Around, Paused, Claim, Lapses, Reconcile, Turns, Drop, rowVars
<1>2. job \in [Checks -> JobRows]
  BY InvTypes DEF Rows
<1>3. CASE Around \/ \E w \in Workers : Turns(w)
  BY <1>1, <1>3, StaysPut DEF Around, Turns, rowVars, HandsOn
<1>4. CASE \/ Paused \/ \E w \in Workers : Drop(w)
           \/ \E d \in Checks : Claim(d) \/ Lapses(d)
  <2>1. \/ job' = job
        \/ \E d \in Checks : \E r : job' = [job EXCEPT ![d] = r] /\ r.state \in {"cancelled", "running"}
    <3>1. [NewJob EXCEPT !.state = "cancelled"].state = "cancelled"
      BY JobRecords
    <3>2. CASE Paused
      <4>1. feed.check \in Checks
        BY InvTypes DEF Rows, FeedRows
      <4> QED
        BY <3>1, <3>2, <4>1 DEF Paused, Cancelled
    <3>3. CASE \E w \in Workers : Drop(w)
      <4>1. PICK w \in Workers : Drop(w)
        BY <3>3
      <4>2. exec[w].check \in Checks
        BY <4>1, WorkerTypes DEF Drop, At
      <4> QED
        BY <3>1, <4>1, <4>2 DEF Drop, Cancelled
    <3>4. ASSUME NEW d \in Checks, Claim(d) \/ Lapses(d)
          PROVE  \E r : job' = [job EXCEPT ![d] = r] /\ r.state = "running"
      <4>1. CASE Claim(d)
        <5> DEFINE r == [state |-> "running", attempts |-> job[d].attempts + 1,
                         holder |-> One(IdleWorkers), fresh |-> TRUE]
        <5>1. job' = [job EXCEPT ![d] = r] /\ r.state = "running"
          BY <4>1 DEF Claim
        <5> HIDE DEF r
        <5> QED
          BY <5>1
      <4>2. CASE Lapses(d)
        <5>1. /\ job' = [job EXCEPT ![d] = [job[d] EXCEPT !.fresh = FALSE]]
              /\ [job[d] EXCEPT !.fresh = FALSE].state = "running"
          BY <1>2, <4>2 DEF Lapses, JobRows
        <5> QED
          BY <5>1
      <4> QED
        BY <3>4, <4>1, <4>2
    <3> QED
      BY <1>4, <3>2, <3>3, <3>4
  <2>2. ~HandsOn(c)
    BY <1>2, <2>1 DEF HandsOn
  <2> QED
    BY <1>1, <2>2, StaysPut
<1>5. CASE \E d \in Checks : Reconcile(d)
  <2>1. PICK d \in Checks : Reconcile(d)
    BY <1>5
  <2> DEFINE r == [NewJob EXCEPT !.state = Recovered(d), !.attempts = job[d].attempts]
  <2>2. job' = [job EXCEPT ![d] = r] /\ job[d].attempts > 0 /\ job[d].attempts \in 0..MaxAttempts
    BY <2>1, SameRow DEF Reconcile
  <2>3. r.attempts = job[d].attempts
    BY DEF NewJob
  <2> HIDE DEF r
  <2>4. r.attempts # 0
    BY <2>2, <2>3
  <2>5. ~HandsOn(c)
    BY <1>2, <2>2, <2>4 DEF HandsOn
  <2> QED
    BY <1>1, <2>5, StaysPut
<1> QED
  BY <1>3, <1>4, <1>5

LEMMA WorkStepAdvances ==
    ASSUME FeedInv, NEW c \in Checks, NEW w \in Workers, Open(w) \/ Passes(w) \/ Finish(w)
    PROVE  StepAdvances(c)
<1> DEFINE d == exec[w].check
<1>1. Rows /\ Facts /\ d \in Checks
  BY InvTypes, WorkerTypes DEF Open, Passes, Finish, At, Holding
<1>2. saved[d] \in States /\ Sound(saved[d])
  BY <1>1 DEF Rows, FeedInv, Checkpoints
<1>3. job \in [Checks -> JobRows] /\ saved \in [Checks -> States]
  BY <1>1 DEF Rows
<1>4. CASE Open(w)
  <2> DEFINE t == Prepared(NextGate(saved[d]))
  <2>1. saved' = [saved EXCEPT ![d] = t] /\ job' = job
    BY <1>4 DEF Open
  <2>2. Alike(saved[d], t)
    BY <1>1, <1>2, OpenedState DEF Facts
  <2> HIDE DEF t
  <2>3. NoRetreat(saved[d], t)
    BY <1>2, <2>2, StateFields DEF Alike, NoRetreat
  <2>4. ~HandsOn(c)
    BY <2>1 DEF HandsOn
  <2>5. CASE c = d
    <3>1. saved'[c] = t
      BY <1>3, <2>1, <2>5
    <3> QED
      BY <2>3, <2>4, <2>5, <3>1 DEF StepAdvances
  <2>6. CASE c # d
    BY <1>3, <2>1, <2>4, <2>6, StaysPut
  <2> QED
    BY <2>5, <2>6
<1>5. CASE Passes(w)
  <2>1. PICK t \in States : Yields(w, t) /\ Progress(exec[w].state, t)
    BY <1>5 DEF Passes
  <2>2. exec[w].pc \in Holding
    BY <1>5 DEF Passes
  <2>3. /\ Current(w) /\ saved' = [saved EXCEPT ![d] = t] /\ job' = [job EXCEPT ![d] = NewJob]
    BY <2>1 DEF Yields, Saves
  <2>4. exec[w].state = saved[d]
    BY <1>1, <2>2, <2>3, CurrentCheck
  <2>5. CASE c = d
    <3>1. saved'[c] = t /\ Progress(saved[c], t)
      BY <1>3, <2>1, <2>3, <2>4, <2>5
    <3> QED
      BY <3>1 DEF StepAdvances, Progress
  <2>6. CASE c # d
    <3>1. saved'[c] = saved[c] /\ job'[c] = job[c]
      BY <1>3, <2>3, <2>6
    <3> QED
      BY <3>1, StaysPut DEF HandsOn
  <2> QED
    BY <2>5, <2>6
<1>6. CASE Finish(w)
  <2>1. /\ Current(w) /\ saved' = [saved EXCEPT ![d] = exec[w].state] /\ exec[w].pc \in Holding
        /\ job' = [job EXCEPT ![d] = [NewJob EXCEPT !.state = "succeeded"]]
    BY <1>6 DEF Finish, Saves, At, Holding
  <2>2. exec[w].state = saved[d]
    BY <1>1, <2>1, CurrentCheck
  <2>3. saved'[c] = saved[c]
    BY <1>3, <2>1, <2>2
  <2>4. [NewJob EXCEPT !.state = "succeeded"].state = "succeeded"
    BY JobRecords
  <2>5. ~HandsOn(c)
    BY <1>3, <2>1, <2>4 DEF HandsOn
  <2> QED
    BY <2>3, <2>5, StaysPut
<1> QED
  BY <1>4, <1>5, <1>6

LEMMA StepOfAdvances ==
    ASSUME FeedInv, StepOf, NEW c \in Checks
    PROVE  StepAdvances(c)
<1>1. CASE Replaced
  <2>1. PICK f, jobs, status : Settings(f) /\ Enqueued(f, jobs, status)
    BY <1>1 DEF Replaced
  <2>2. feed' = [f EXCEPT !.check = One(Unused)] /\ One(Unused) \in Unused /\ f \in FeedRows
    BY <2>1 DEF Enqueued, Settings, One
  <2>3. feed'.check = One(Unused)
    BY <2>2 DEF FeedRows
  <2>4. feed'.check # feed.check
    BY <2>2, <2>3 DEF Unused
  <2> QED
    BY <2>4 DEF StepAdvances
<1>2. CASE ~Replaced
  BY <1>2, JobStepAdvances, WorkStepAdvances DEF StepOf
<1> QED
  BY <1>1, <1>2

(* A checkpoint never goes back, and a step that hands it on has got further. *)
THEOREM EveryStepAdvances == Spec => StepsAdvance
<1>1. FeedInv /\ [Next]_vars => [\A c \in Checks : StepAdvances(c)]_vars
  BY Steps, StepOfAdvances
<1>2. [\A c \in Checks : StepAdvances(c)]_vars =>
          [\A c \in Checks :
              feed.check = c /\ feed'.check = c =>
                  /\ NoRetreat(saved[c], saved'[c])
                  /\ HandsOn(c) => GotFurther(saved[c], saved'[c])]_vars
  BY DEF StepAdvances
<1> QED
  BY <1>1, <1>2, FeedInvariant, PTL DEF Spec, StepsAdvance
===============================================================================
