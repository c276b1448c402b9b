--------------------------- MODULE FeedHistoryProofs ---------------------------
(***************************************************************************)
(* The history of a feed, whatever is edited, fails, crashes or is taken   *)
(* over by the next check: its assessment passes over no update, a check   *)
(* that completes has read every source, and the updates of an address     *)
(* follow each other as its versions did.                                  *)
(***************************************************************************)
EXTENDS FeedChecksProofs, WellFoundedInduction

InForce == check[feed.check].rev = feed.rev /\ check[feed.check].scope = feed.scope
JudgedTo(n) == \A i \in DOMAIN updates : i <= n => i \in assessed
(* The cursor has only assessed updates before it, and so has the update that*)
(* is judged next.                                                           *)
InOrder(s) ==
    /\ s.judged <= Len(updates) /\ JudgedTo(s.judged)
    /\ s.gate # 0 => JudgedTo(s.gate - 1)
(* Settings only advance, so that what was reset for new ones stays behind.  *)
JudgeInv ==
    /\ check[feed.check].rev <= feed.rev /\ check[feed.check].scope <= feed.scope
    /\ InForce => InOrder(saved[feed.check]) /\ InOrder(receipts[feed.check])

-------------------------------------------------------------------------------
(* Updates and assessments that are added disturb nothing.                   *)
InOrderAfter(s) ==
    /\ s.judged <= Len(updates')
    /\ \A i \in DOMAIN updates' : i <= s.judged => i \in assessed'
    /\ s.gate # 0 => \A i \in DOMAIN updates' : i <= s.gate - 1 => i \in assessed'
Appended ==
    \/ updates' = updates
    \/ \E u \in [url: Urls, version: 1..Versions] : updates' = Append(updates, u)
Added == Appended /\ assessed \subseteq assessed'

LEMMA OrderGrows ==
    ASSUME Facts, Added, NEW s \in States, InOrder(s), GateOpen(s)
    PROVE  InOrderAfter(s)
<1> DEFINE U == [url: Urls, version: 1..Versions]
<1> HIDE DEF U
<1>1. updates \in Seq(U) /\ (updates' = updates \/ \E u \in U : updates' = Append(updates, u))
  BY DEF Facts, Added, Appended, U
<1>2. /\ Len(updates) \in Nat /\ Len(updates') \in Nat /\ Len(updates) <= Len(updates')
      /\ DOMAIN updates = 1..Len(updates) /\ DOMAIN updates' = 1..Len(updates')
  BY <1>1
<1>3. s.judged \in Nat /\ s.gate \in Nat
  BY StateFields
<1>4. assessed \subseteq assessed'
  BY DEF Added, Appended
<1>5. s.judged <= Len(updates')
  BY <1>2, <1>3 DEF InOrder
<1>6. \A i \in DOMAIN updates' : i <= s.judged => i \in assessed'
  BY <1>2, <1>3, <1>4 DEF InOrder, JudgedTo
<1>7. s.gate # 0 => \A i \in DOMAIN updates' : i <= s.gate - 1 => i \in assessed'
  BY <1>2, <1>3, <1>4 DEF InOrder, JudgedTo, GateOpen
<1> QED
  BY <1>5, <1>6, <1>7 DEF InOrderAfter

LEMMA Same == Facts /\ UNCHANGED <<updates, assessed>> => Added
  BY DEF Added, Appended

(* The check and the settings stay what they are.                            *)
Settled ==
    /\ feed'.check = feed.check /\ feed'.rev = feed.rev /\ feed'.scope = feed.scope
    /\ check'[feed.check].rev = check[feed.check].rev
    /\ check'[feed.check].scope = check[feed.check].scope

LEMMA OrderAfter ==
    ASSUME JudgeInv, Settled,
           InForce => InOrderAfter(saved'[feed.check]) /\ InOrderAfter(receipts'[feed.check])
    PROVE  JudgeInv'
  BY DEF JudgeInv, Settled, InForce, InOrderAfter, InOrder, JudgedTo

LEMMA Records ==
    ASSUME FeedInv
    PROVE  /\ feed.check \in Checks /\ feed \in FeedRows
           /\ saved[feed.check] \in States /\ receipts[feed.check] \in States
           /\ Sound(saved[feed.check]) /\ Sound(receipts[feed.check])
           /\ check \in [Checks -> CheckRows] /\ check[feed.check] \in CheckRows
           /\ saved \in [Checks -> States] /\ receipts \in [Checks -> States]
           /\ Facts
<1>1. Rows /\ Facts
  BY InvTypes
<1>2. feed.check \in Checks
  BY <1>1 DEF Rows, FeedRows
<1> QED
  BY <1>1, <1>2 DEF Rows, FeedInv, Checkpoints

LEMMA QuietOrder ==
    ASSUME FeedInv, JudgeInv, Settled, Added,
           saved'[feed.check] = saved[feed.check], receipts'[feed.check] = receipts[feed.check]
    PROVE  JudgeInv'
<1>1. InForce => InOrderAfter(saved[feed.check]) /\ InOrderAfter(receipts[feed.check])
  BY Records, OrderGrows DEF JudgeInv, Sound
<1> QED
  BY <1>1, OrderAfter

-------------------------------------------------------------------------------
(* The steps.                                                                *)
LEMMA OthersOrder ==
    ASSUME FeedInv, JudgeInv,
           \/ OwnerChanges \/ UNCHANGED vars
           \/ \E u \in Urls : Publish(u)
           \/ \E c \in Checks : Claim(c) \/ Queue(c) \/ ExpireEarly(c)
           \/ \E w \in Workers : \/ Lost(w) \/ Refused(w) \/ Fetch(w) \/ FetchFails(w)
                                 \/ Crash(w)
    PROVE  JudgeInv'
<1>1. UNCHANGED <<feed, check, saved, receipts, updates, assessed>>
  BY DEF OwnerChanges, Publish, Claim, Queue, Expire, Reconcile, ExpireEarly, Lost, Refused,
         Fetch, FetchFails, Crash, vars, rowVars, factVars, envVars
<1> QED
  BY <1>1, Records, Same, QuietOrder DEF Settled

LEMMA StatusOnly ==
    ASSUME FeedInv, NEW c \in Checks, NEW status,
           check' = [check EXCEPT ![c] = [check[c] EXCEPT !.status = status]]
    PROVE  /\ check'[feed.check].rev = check[feed.check].rev
           /\ check'[feed.check].scope = check[feed.check].scope
<1>1. /\ feed.check \in Checks /\ check \in [Checks -> CheckRows]
      /\ check[c] \in CheckRows
  BY Records
<1>2. /\ [check[c] EXCEPT !.status = status].rev = check[c].rev
      /\ [check[c] EXCEPT !.status = status].scope = check[c].scope
  BY <1>1 DEF CheckRows
<1> QED
  BY <1>1, <1>2

LEMMA DropOrder == ASSUME FeedInv, JudgeInv, NEW w \in Workers, Drop(w) PROVE JudgeInv'
<1> DEFINE c == exec[w].check
<1>1. c \in Checks
  BY WorkerTypes DEF Drop, At
<1>2. \/ check' = check
      \/ check' = [check EXCEPT ![c] = [check[c] EXCEPT !.status = "cancelled"]]
  BY DEF Drop
<1>3. Settled
  BY <1>1, <1>2, StatusOnly DEF Drop, Settled
<1>4. UNCHANGED <<saved, receipts, updates, assessed>>
  BY DEF Drop, factVars
<1> QED
  BY <1>3, <1>4, Records, Same, QuietOrder

LEMMA GateInOrder ==
    ASSUME FeedInv, NEW s \in States, InOrder(s)
    PROVE  InOrder(Prepared(NextGate(s)))
<1> DEFINE n == NextUnassessed(s.judged)
           open == {i \in DOMAIN updates : i > s.judged /\ i \notin decided}
           g == NextGate(s)
<1>1. Facts /\ DOMAIN updates \subseteq Nat /\ s.judged \in Nat
  BY Records, StateFields DEF Facts
<1>2. n # 0 => n \in open /\ \A k \in open : n <= k
  BY DEF NextUnassessed
<1>3. n # 0 => n \in Nat /\ JudgedTo(n - 1)
  <2> SUFFICES ASSUME n # 0, NEW i \in DOMAIN updates, i <= n - 1
               PROVE  n \in Nat /\ i \in assessed
    BY <1>1, <1>2 DEF JudgedTo
  <2>1. n \in Nat /\ i \in Nat /\ i \notin open
    BY <1>1, <1>2
  <2>2. CASE i <= s.judged
    BY <2>1, <2>2 DEF InOrder, JudgedTo
  <2>3. CASE i > s.judged
    BY <1>1, <2>1, <2>3 DEF Facts
  <2> QED
    BY <1>1, <2>1, <2>2, <2>3
<1>4. /\ [s EXCEPT !.turn = FALSE, !.gate = n].judged = s.judged
      /\ [s EXCEPT !.turn = FALSE, !.gate = n].gate = n
  BY StateShape
<1>5. InOrder(g)
  BY <1>3, <1>4 DEF InOrder, NextGate
<1> HIDE DEF g
<1>6. Prepared(g).judged = g.judged /\ Prepared(g).gate = g.gate
  BY DEF Prepared, Ahead, Resumed
<1> QED
  BY <1>5, <1>6 DEF InOrder, g

LEMMA OpenOrder == ASSUME FeedInv, JudgeInv, NEW w \in Workers, Open(w) PROVE JudgeInv'
<1> DEFINE c == exec[w].check
           t == Prepared(NextGate(saved[c]))
<1>1. c \in Checks
  BY WorkerTypes DEF Open, At
<1>2. /\ Current(w) /\ saved' = [saved EXCEPT ![c] = t]
      /\ check' = [check EXCEPT ![c] = [check[c] EXCEPT !.status = "running"]]
      /\ UNCHANGED <<receipts, updates, assessed, feed>>
  BY DEF Open, factVars
<1>3. feed.check = c
  BY <1>1, <1>2, CurrentCheck
<1>4. Settled
  BY <1>1, <1>2, StatusOnly DEF Settled
<1>5. t \in States /\ Sound(t)
  BY <1>3, Records, OpenedState DEF Facts
<1>6. InForce => InOrder(t)
  BY <1>3, Records, GateInOrder DEF JudgeInv
<1> HIDE DEF t
<1>7. saved'[c] = t
  BY <1>1, <1>2, Records
<1>8. InForce => InOrderAfter(t) /\ InOrderAfter(receipts[c])
  BY <1>2, <1>3, <1>5, <1>6, Records, Same, OrderGrows DEF JudgeInv, Sound
<1> QED
  BY <1>2, <1>3, <1>4, <1>7, <1>8, OrderAfter

(* A step that ends saves a checkpoint that is in order.                     *)
LEMMA SavedOrder ==
    ASSUME FeedInv, JudgeInv, NEW w \in Workers, NEW t \in States,
           Saves(w, t), exec[w].check \in Checks, Settled,
           InForce => InOrderAfter(t)
    PROVE  JudgeInv'
<1> DEFINE c == exec[w].check
<1>1. feed.check = c
  BY CurrentCheck DEF Saves
<1>2. saved'[c] = t /\ receipts'[c] = t
  BY Records DEF Saves
<1> QED
  BY <1>1, <1>2, OrderAfter

LEMMA HeldState ==
    ASSUME FeedInv, JudgeInv, NEW w \in Workers, Current(w), exec[w].pc \in Holding
    PROVE  /\ exec[w].check \in Checks /\ exec[w].state \in States /\ Sound(exec[w].state)
           /\ InForce /\ InOrder(exec[w].state)
<1>1. exec[w].check \in Checks /\ exec[w].state \in States /\ Sound(exec[w].state)
  BY WorkerTypes DEF Holding
<1>2. feed.check = exec[w].check /\ exec[w].state = saved[feed.check]
  BY <1>1, CurrentCheck
<1>3. InForce
  BY <1>2 DEF Current, Permitted, InForce
<1> QED
  BY <1>1, <1>2, <1>3 DEF JudgeInv

(* All steps but a verdict leave the cursor and the gate alone.              *)
LEMMA PassOrder ==
    ASSUME FeedInv, JudgeInv, NEW w \in Workers, NEW t \in States,
           exec[w].pc \in Holding, Saves(w, t), Settled, Added,
           t.judged = exec[w].state.judged, t.gate = exec[w].state.gate
    PROVE  JudgeInv'
<1>1. /\ exec[w].check \in Checks /\ exec[w].state \in States /\ Sound(exec[w].state)
      /\ InOrder(exec[w].state)
  BY HeldState DEF Saves
<1>2. InOrderAfter(exec[w].state)
  BY <1>1, Records, OrderGrows DEF Sound
<1>3. InOrderAfter(t)
  BY <1>2 DEF InOrderAfter
<1> QED
  BY <1>1, <1>3, SavedOrder

LEMMA JudgeOrder ==
    ASSUME FeedInv, JudgeInv, NEW w \in Workers, Judge(w) \/ JudgeFails(w)
    PROVE  JudgeInv'
<1> DEFINE s == exec[w].state
           t == [s EXCEPT !.judged = s.gate, !.gate = 0]
<1>1. /\ exec[w].pc \in Holding /\ exec[w].pc = "gate" /\ Saves(w, t)
      /\ UNCHANGED <<check, feed, updates>> /\ assessed' = assessed \cup {s.gate}
  BY DEF Judge, JudgeFails, Judged, Yields, At, Holding
<1>2. exec[w].check \in Checks /\ s \in States /\ Sound(s) /\ InOrder(s)
  BY <1>1, HeldState DEF Saves
<1>3. s.gate # 0
  BY <1>1, WorkerTypes DEF InStep, Due
<1>4. t \in States
  BY <1>2, <1>3, JudgedState
<1>5. t.judged = s.gate /\ t.gate = 0
  BY <1>2, StateShape
<1>6. Facts /\ s.gate \in DOMAIN updates /\ DOMAIN updates = 1..Len(updates) /\ Len(updates) \in Nat
  BY <1>2, <1>3, Records DEF Facts, Sound, GateOpen
<1>7. \A i \in DOMAIN updates : i <= s.gate => i \in assessed'
  BY <1>1, <1>2, <1>3, <1>6 DEF InOrder, JudgedTo
<1> HIDE DEF t
<1>8. InOrderAfter(t)
  BY <1>1, <1>5, <1>6, <1>7 DEF InOrderAfter
<1>9. Settled
  BY <1>1 DEF Settled
<1> QED
  BY <1>1, <1>2, <1>4, <1>8, <1>9, SavedOrder

LEMMA PlanOrder ==
    ASSUME FeedInv, JudgeInv, NEW w \in Workers, Plan(w) \/ PlanFails(w)
    PROVE  JudgeInv'
<1> DEFINE s == exec[w].state
           t == [s EXCEPT !.plan = TRUE]
<1>1. PICK held \in BOOLEAN :
          /\ exec[w].pc \in Holding /\ Saves(w, t) /\ UNCHANGED <<check, factVars>>
          /\ feed' = [feed EXCEPT !.plan = feed.plan \/ held]
  BY DEF Plan, PlanFails, PlanMade, Yields, At, Holding
<1>2. s \in States /\ Sound(s) /\ ~s.plan
  BY <1>1, HeldState, WorkerTypes DEF Saves, Plan, PlanFails, PlanMade, At, InStep, Due
<1>3. t \in States
  BY <1>2, PlanState
<1>4. t.judged = s.judged /\ t.gate = s.gate
  BY <1>2, StateShape
<1> HIDE DEF t
<1>5. Settled
  BY <1>1, Records DEF Settled, FeedRows
<1>6. Added
  BY <1>1, Records, Same DEF factVars
<1> QED
  BY <1>1, <1>3, <1>4, <1>5, <1>6, PassOrder

LEMMA SearchOrder ==
    ASSUME FeedInv, JudgeInv, NEW w \in Workers, Search(w) \/ SearchFails(w)
    PROVE  JudgeInv'
<1>1. PICK page \in Seq(Urls), next \in Cursors \cup {None} : Found(w, page, next)
  <2>1. CASE Search(w)
    BY <2>1, FeedAssumption DEF Search
  <2>2. CASE SearchFails(w)
    <3>1. <<>> \in Seq(Urls) /\ None \in Cursors \cup {None}
      OBVIOUS
    <3> QED
      BY <2>2, <3>1 DEF SearchFails
  <2> QED
    BY <2>1, <2>2
<1> DEFINE s == exec[w].state
           following == IF next # None /\ Repeated(s, page, next) THEN None ELSE next
           t == [s EXCEPT !.items = page, !.pending = following # None,
                          !.pages = s.pages \cup {page},
                          !.cursors = s.cursors \cup ({next} \ {None}), !.turn = TRUE]
<1>2. /\ exec[w].pc \in Holding /\ exec[w].pc = "search" /\ Saves(w, t)
      /\ UNCHANGED <<check, factVars, feed>>
  BY <1>1 DEF Found, Yields, At, Holding
<1>3. s \in States /\ Sound(s) /\ s.pending /\ s.items = <<>>
  BY <1>2, HeldState, WorkerTypes DEF Saves, InStep, Due
<1>4. t \in States
  BY <1>3, FoundState
<1>5. t.judged = s.judged /\ t.gate = s.gate
  BY <1>3, StateShape
<1> HIDE DEF t
<1>6. Settled /\ Added
  BY <1>2, Records, Same DEF Settled, factVars
<1> QED
  BY <1>2, <1>4, <1>5, <1>6, PassOrder

LEMMA ReadOrder ==
    ASSUME FeedInv, JudgeInv, NEW w \in Workers, At(w, "fetched"), NEW t \in States,
           Yields(w, t), feed' = feed, Added,
           t.judged = exec[w].state.judged, t.gate = exec[w].state.gate
    PROVE  JudgeInv'
<1>1. exec[w].pc \in Holding /\ Saves(w, t) /\ Settled
  BY DEF At, Holding, Yields, Settled
<1> QED
  BY <1>1, PassOrder

LEMMA FailOrder ==
    ASSUME FeedInv, JudgeInv, NEW w \in Workers, ReadFails(w) \/ Unreadable(w)
    PROVE  JudgeInv'
<1> DEFINE s == exec[w].state
           u == s.items[1]
           kept == Kept(s, exec[w].doc)
           read == [url |-> u, reading |-> kept]
           t == [Done(s) EXCEPT !.retry = Append(s.retry, read)]
<1>1. /\ At(w, "fetched") /\ Yields(w, t) /\ feed' = feed /\ UNCHANGED <<updates, assessed>>
      /\ exec[w].doc # 0 => u \notin Index
  BY DEF ReadFails, Unreadable, Fails
<1>2. s \in States /\ Sound(s) /\ Due("fetched", s) /\ exec[w].doc \in 0..Versions
  BY <1>1, FetchedTypes
<1>3. t \in States
  BY <1>1, <1>2, FailedState
<1>4. t.judged = s.judged /\ t.gate = s.gate
  BY <1>2, StateShape DEF Done
<1> HIDE DEF t
<1>5. Added
  BY <1>1, Records, Same
<1> QED
  BY <1>1, <1>3, <1>4, <1>5, ReadOrder

LEMMA IndexOrder ==
    ASSUME FeedInv, JudgeInv, NEW w \in Workers, NEW page \in Pages, ReadIndex(w, page)
    PROVE  JudgeInv'
<1> DEFINE s == exec[w].state
           t == [Done(s) EXCEPT !.items = Tail(s.items) \o page]
<1>1. /\ At(w, "fetched") /\ s.items[1] \in Index /\ Yields(w, t) /\ feed' = feed
      /\ UNCHANGED <<updates, assessed>>
  BY DEF ReadIndex, factVars
<1>2. s \in States /\ Sound(s) /\ Due("fetched", s) /\ page \in Seq(Urls)
  BY <1>1, FetchedTypes, FeedAssumption
<1>3. t \in States
  BY <1>1, <1>2, IndexState
<1>4. t.judged = s.judged /\ t.gate = s.gate
  BY <1>2, StateShape DEF Done
<1> HIDE DEF t
<1>5. Added
  BY <1>1, Records, Same
<1> QED
  BY <1>1, <1>3, <1>4, <1>5, ReadOrder

LEMMA PortionOrder ==
    ASSUME FeedInv, JudgeInv, NEW w \in Workers, ReadPortion(w)
    PROVE  JudgeInv'
<1> DEFINE s == exec[w].state
           doc == exec[w].doc
           t == [s EXCEPT !.reading = [version |-> doc, parts |-> s.reading.parts + 1]]
<1>1. /\ At(w, "fetched") /\ doc # 0 /\ s.items[1] \notin Index /\ s.reading.parts + 1 < Portions
      /\ Yields(w, t) /\ feed' = feed /\ UNCHANGED <<updates, assessed>>
  BY DEF ReadPortion
<1>2. /\ s \in States /\ Sound(s) /\ Due("fetched", s) /\ doc \in 1..Versions
      /\ s.reading.version # 0 => doc = s.reading.version
  BY <1>1, FetchedTypes
<1>3. t \in States
  BY <1>1, <1>2, PortionState
<1>4. t.judged = s.judged /\ t.gate = s.gate
  BY <1>2, StateShape
<1> HIDE DEF t
<1>5. Added
  BY <1>1, Records, Same
<1> QED
  BY <1>1, <1>3, <1>4, <1>5, ReadOrder

LEMMA RecordOrder ==
    ASSUME FeedInv, JudgeInv, NEW w \in Workers, RecordOriginal(w)
    PROVE  JudgeInv'
<1> DEFINE s == exec[w].state
           doc == exec[w].doc
           new == [url |-> s.items[1], version |-> doc]
           t == [Done(s) EXCEPT !.turn = TRUE]
<1>1. /\ At(w, "fetched") /\ doc # 0 /\ Yields(w, t) /\ feed' = feed /\ assessed' = assessed
      /\ updates' = updates \/ updates' = Append(updates, new)
  BY DEF RecordOriginal
<1>2. /\ s \in States /\ Sound(s) /\ Due("fetched", s) /\ doc \in 1..Versions
      /\ s.reading.version # 0 => doc = s.reading.version
  BY <1>1, FetchedTypes
<1>3. t \in States /\ s.items[1] \in Urls
  BY <1>2, RecordedState
<1>4. t.judged = s.judged /\ t.gate = s.gate
  BY <1>2, StateShape DEF Done
<1>5. Added
  <2>1. new \in [url: Urls, version: 1..Versions]
    BY <1>2, <1>3
  <2> QED
    BY <1>1, <2>1 DEF Added, Appended
<1> HIDE DEF t
<1> QED
  BY <1>1, <1>3, <1>4, <1>5, ReadOrder

LEMMA FinishOrder == ASSUME FeedInv, JudgeInv, NEW w \in Workers, Finish(w) PROVE JudgeInv'
<1> DEFINE c == exec[w].check
           s == exec[w].state
<1>1. /\ exec[w].pc \in Holding /\ Saves(w, s) /\ UNCHANGED <<updates, assessed, feed>>
      /\ check' = [check EXCEPT ![c] = [check[c] EXCEPT !.status = "completed"]]
  BY DEF Finish, At, Holding, factVars
<1>2. c \in Checks /\ s \in States
  BY <1>1, HeldState DEF Saves
<1>3. Settled
  BY <1>1, <1>2, StatusOnly DEF Settled
<1>4. Added
  BY <1>1, Records, Same
<1> HIDE DEF s
<1> QED
  BY <1>1, <1>2, <1>3, <1>4, PassOrder DEF s

-------------------------------------------------------------------------------
(* A new check starts at the beginning, or where a failed check under the    *)
(* same settings stopped.                                                    *)
LEMMA InheritedOrder ==
    ASSUME FeedInv, NEW rev, NEW scope, NEW plan, NEW status
    PROVE  LET t == Inherited(rev, scope, plan, status)
               old == receipts[feed.check] IN
           \/ t.judged = 0 /\ t.gate = 0
           \/ /\ t.judged = old.judged /\ t.gate = old.gate
              /\ check[feed.check].rev = rev /\ check[feed.check].scope = scope
<1>1. receipts[feed.check] \in States
  BY Records
<1> QED
  BY <1>1, StateShape, FreshState DEF Inherited, Fresh

LEMMA EnqueuedOrder ==
    ASSUME FeedInv, JudgeInv, NEW f \in FeedRows, NEW jobs, NEW status, f.check = feed.check,
           Enqueued(f, jobs, status), updates' = updates,
           \/ f.rev = feed.rev /\ f.scope = feed.scope /\ assessed' = assessed
           \/ f.rev > feed.rev
    PROVE  JudgeInv'
<1> DEFINE last == feed.check
           c == One(Unused)
           t == Inherited(f.rev, f.scope, f.plan, status)
           n == [status |-> "queued", rev |-> f.rev, scope |-> f.scope]
           k == [check[last] EXCEPT !.status = status]
<1>1. /\ feed' = [f EXCEPT !.check = c]
      /\ check' = [check EXCEPT ![c] = n, ![last] = k]
      /\ saved' = [saved EXCEPT ![c] = t, ![last] = Fresh]
      /\ receipts' = [receipts EXCEPT ![c] = t, ![last] = Fresh]
  BY DEF Enqueued
<1>2. c \in Checks /\ c # last
  <2>1. c \in Unused
    BY DEF Enqueued, One
  <2> QED
    BY <2>1 DEF Unused
<1> DEFINE old == receipts[last]
<1>3. \/ t.judged = 0 /\ t.gate = 0
      \/ /\ t.judged = old.judged /\ t.gate = old.gate
         /\ check[last].rev = f.rev /\ check[last].scope = f.scope
  BY InheritedOrder
<1> HIDE DEF c, t
<1>4. /\ feed'.check = c /\ feed'.rev = f.rev /\ feed'.scope = f.scope
      /\ f.rev \in Nat /\ f.scope \in Nat
  BY <1>1 DEF FeedRows
<1>5. check'[c].rev = f.rev /\ check'[c].scope = f.scope
  <2>1. check'[c] = n
    BY <1>1, <1>2, Records
  <2> QED
    BY <2>1
<1>6. saved'[c] = t /\ receipts'[c] = t
  BY <1>1, <1>2, Records
<1>7. InOrderAfter(t)
  <2>1. CASE t.judged = 0 /\ t.gate = 0
    <3>1. Len(updates') \in Nat /\ DOMAIN updates' = 1..Len(updates')
      BY Records DEF Facts
    <3> QED
      BY <2>1, <3>1 DEF InOrderAfter
  <2>2. CASE /\ t.judged = old.judged /\ t.gate = old.gate
             /\ check[last].rev = f.rev /\ check[last].scope = f.scope
    <3>1. feed.rev \in Nat /\ check[last].rev <= feed.rev
      BY Records DEF JudgeInv, FeedRows
    <3>2. f.rev = feed.rev /\ f.scope = feed.scope /\ assessed' = assessed
      BY <1>4, <2>2, <3>1
    <3>3. InOrder(old)
      BY <2>2, <3>2 DEF JudgeInv, InForce
    <3>4. InOrderAfter(old)
      BY <3>2, <3>3, Records, Same, OrderGrows DEF Sound
    <3> QED
      BY <2>2, <3>4 DEF InOrderAfter
  <2> QED
    BY <1>3, <2>1, <2>2
<1> QED
  BY <1>4, <1>5, <1>6, <1>7 DEF JudgeInv, InForce, InOrderAfter, InOrder, JudgedTo

LEMMA StartOrder == ASSUME FeedInv, JudgeInv, StartCheck PROVE JudgeInv'
<1>1. Enqueued(feed, job, Closed(feed.check)) /\ UNCHANGED <<updates, assessed>>
  BY DEF StartCheck, Enqueue, factVars
<1> QED
  BY <1>1, Records, EnqueuedOrder

LEMMA ChangeOrder ==
    ASSUME FeedInv, JudgeInv, NEW active \in BOOLEAN,
           NEW scope \in {feed.scope, feed.scope + 1}, Change(active, scope)
    PROVE  JudgeInv'
<1> DEFINE last == feed.check
           f == [feed EXCEPT !.active = active, !.rev = feed.rev + 1, !.scope = scope,
                             !.plan = FALSE]
           jobs == IF Live(last) THEN Cancelled(last) ELSE job
           status == IF Live(last) /\ Unfinished(last) THEN "cancelled" ELSE check[last].status
           closed == IF Live(last) THEN status ELSE Closed(last)
<1>1. feed \in FeedRows /\ feed.rev \in Nat /\ feed.scope \in Nat
  BY Records DEF FeedRows
<1>2. f \in FeedRows
  <2>1. scope \in Nat /\ feed.rev + 1 \in Nat
    BY <1>1
  <2>2. ASSUME NEW r \in FeedRows, NEW b \in BOOLEAN, NEW n \in Nat
        PROVE  /\ [r EXCEPT !.active = b] \in FeedRows /\ [r EXCEPT !.rev = n] \in FeedRows
               /\ [r EXCEPT !.scope = n] \in FeedRows /\ [r EXCEPT !.plan = b] \in FeedRows
    BY DEF FeedRows
  <2>3. [[feed EXCEPT !.active = active] EXCEPT !.rev = feed.rev + 1] \in FeedRows
    BY <1>1, <2>1, <2>2
  <2>4. [[[feed EXCEPT !.active = active] EXCEPT !.rev = feed.rev + 1] EXCEPT !.scope = scope]
            \in FeedRows
    BY <2>1, <2>2, <2>3
  <2> QED
    BY <2>2, <2>4
<1>3. f.rev = feed.rev + 1 /\ f.scope = scope /\ f.check = last
  BY <1>1 DEF FeedRows
<1>4. updates' = updates
  BY DEF Change, Resettled
<1>5. CASE active
  <2>1. Enqueued(f, jobs, closed)
    BY <1>5 DEF Change
  <2>2. f.rev > feed.rev
    BY <1>1, <1>3
  <2> HIDE DEF f, jobs, closed
  <2> QED
    BY <1>2, <1>3, <1>4, <2>1, <2>2, EnqueuedOrder
<1>6. CASE ~active
  <2>1. /\ feed' = f
        /\ check' = [check EXCEPT ![last] = [check[last] EXCEPT !.status = status]]
    BY <1>6 DEF Change
  <2> HIDE DEF f, status
  <2>2. check'[last].rev = check[last].rev /\ check'[last].scope = check[last].scope
    BY <2>1, Records, StatusOnly
  <2>3. /\ check[last].rev \in Nat /\ check[last].rev <= feed.rev
        /\ check[last].scope \in Nat /\ check[last].scope <= feed.scope
    BY Records DEF JudgeInv, CheckRows
  <2> QED
    BY <1>1, <1>3, <2>1, <2>2, <2>3 DEF JudgeInv, InForce
<1> QED
  BY <1>5, <1>6

LEMMA ContextOrder == ASSUME FeedInv, JudgeInv, ContextChanges PROVE JudgeInv'
<1> DEFINE f == [feed EXCEPT !.scope = feed.scope + 1, !.plan = FALSE]
<1>1. feed \in FeedRows /\ feed.rev \in Nat /\ feed.scope \in Nat
  BY Records DEF FeedRows
<1>2. feed' = f /\ check' = check
  BY DEF ContextChanges, rowVars
<1>3. f.rev = feed.rev /\ f.scope = feed.scope + 1 /\ f.check = feed.check
  BY <1>1 DEF FeedRows
<1>4. /\ check[feed.check].rev \in Nat /\ check[feed.check].rev <= feed.rev
      /\ check[feed.check].scope \in Nat /\ check[feed.check].scope <= feed.scope
  BY Records DEF JudgeInv, CheckRows
<1> HIDE DEF f
<1> QED
  BY <1>1, <1>2, <1>3, <1>4 DEF JudgeInv, InForce

-------------------------------------------------------------------------------
LEMMA InitOrder == Init => JudgeInv
<1> SUFFICES ASSUME Init PROVE JudgeInv
  OBVIOUS
<1>1. FeedInv
  BY InitKeeps
<1>2. /\ feed.check \in Checks /\ updates = <<>> /\ feed.rev = 1 /\ feed.scope = 1
      /\ saved[feed.check] = Fresh /\ receipts[feed.check] = Fresh
  BY <1>1, Records DEF Init
<1>3. check[feed.check].rev = 1 /\ check[feed.check].scope = 1
  <2>1. feed.check = One(Checks)
    BY DEF Init
  <2> QED
    BY <1>2, <2>1 DEF Init
<1>4. InOrder(Fresh)
  BY <1>2, FreshState DEF InOrder, JudgedTo
<1> QED
  BY <1>2, <1>3, <1>4 DEF JudgeInv

LEMMA StepOrder == FeedInv /\ JudgeInv /\ [Next]_vars => JudgeInv'
<1> SUFFICES ASSUME FeedInv, JudgeInv, [Next]_vars PROVE JudgeInv'
  OBVIOUS
<1>1. CASE \/ OwnerChanges \/ UNCHANGED vars
           \/ \E u \in Urls : Publish(u)
           \/ \E c \in Checks : Claim(c) \/ Queue(c) \/ ExpireEarly(c)
  BY <1>1, OthersOrder
<1>2. CASE \/ StartCheck \/ ContextChanges
           \/ \E active \in BOOLEAN, scope \in {feed.scope, feed.scope + 1} : Change(active, scope)
  BY <1>2, StartOrder, ContextOrder, ChangeOrder
<1>3. ASSUME NEW w \in Workers, Work(w) \/ Fail(w) \/ Crash(w) PROVE JudgeInv'
  <2>1. CASE Lost(w) \/ Refused(w) \/ Fetch(w) \/ FetchFails(w) \/ Crash(w)
    BY <2>1, OthersOrder
  <2>2. CASE Open(w) \/ Drop(w) \/ Finish(w)
    BY <2>2, OpenOrder, DropOrder, FinishOrder
  <2>3. CASE Plan(w) \/ PlanFails(w) \/ Judge(w) \/ JudgeFails(w) \/ Search(w) \/ SearchFails(w)
    BY <2>3, PlanOrder, JudgeOrder, SearchOrder
  <2>4. CASE \/ ReadFails(w) \/ Unreadable(w) \/ ReadPortion(w) \/ RecordOriginal(w)
             \/ \E page \in Pages : ReadIndex(w, page)
    BY <2>4, FailOrder, PortionOrder, RecordOrder, IndexOrder
  <2> QED
    BY <1>3, <2>1, <2>2, <2>3, <2>4 DEF Work, Remember, Fail
<1> QED
  BY <1>1, <1>2, <1>3 DEF Next, Administrator

(* Every update before the cursor of the newest check is assessed under the  *)
(* settings in force.                                                        *)
THEOREM HistoryIsJudgedInOrder == Spec => []JudgedInOrder
<1>1. JudgeInv => JudgedInOrder
  BY DEF JudgeInv, InForce, InOrder, JudgedTo, JudgedInOrder
<1>2. Spec => []JudgeInv
  BY InitOrder, StepOrder, FeedInvariant, PTL DEF Spec
<1> QED
  BY <1>1, <1>2, PTL

-------------------------------------------------------------------------------
(* Every address the user gave is behind a check or still ahead of it, and   *)
(* what is behind it has come to something.                                  *)
Listed(s, u) == \E k \in DOMAIN s.items : s.items[k] = u
Recorded(us, u) == \E k \in DOMAIN us : us[k].url = u
Complete(s, us) ==
    /\ \A i \in DOMAIN Sources : Sources[i] \in s.seen \/ Listed(s, Sources[i])
    /\ \A u \in s.seen : u \in Index \/ s.resumed \/ Waits(s, u) \/ Recorded(us, u)
(* A check is finished when nothing is ahead of it.                          *)
CompleteInv ==
    /\ Complete(saved[feed.check], updates) /\ Complete(receipts[feed.check], updates)
    /\ \A w \in Workers : exec[w].pc = "finish" => exec[w].state.items = <<>>
    /\ check[feed.check].status = "completed" => receipts[feed.check].items = <<>>

LEMMA RecordedGrows ==
    ASSUME Facts, Appended
    PROVE  \A u : Recorded(updates, u) => Recorded(updates', u)
<1> DEFINE U == [url: Urls, version: 1..Versions]
<1> SUFFICES ASSUME NEW k \in DOMAIN updates
             PROVE  k \in DOMAIN updates' /\ updates'[k] = updates[k]
  BY DEF Recorded
<1> HIDE DEF U
<1>1. updates \in Seq(U) /\ (updates' = updates \/ \E x \in U : updates' = Append(updates, x))
  BY DEF Facts, Appended, U
<1> QED
  BY <1>1

(* A checkpoint goes on from another: it loses no address that is ahead, and *)
(* what it puts behind has come to something.                                *)
Onward(s, t) ==
    /\ t.resumed = s.resumed /\ s.seen \subseteq t.seen
    /\ \A u : Listed(s, u) => u \in t.seen \/ Listed(t, u)
    /\ \A u : Waits(s, u) => Waits(t, u)
    /\ \A u \in t.seen \ s.seen : u \in Index \/ Waits(t, u) \/ Recorded(updates', u)

LEMMA CompleteOnward ==
    ASSUME Facts, Appended, NEW s, NEW t, Complete(s, updates), Onward(s, t)
    PROVE  Complete(t, updates')
<1>1. ASSUME NEW i \in DOMAIN Sources PROVE Sources[i] \in t.seen \/ Listed(t, Sources[i])
  BY DEF Complete, Onward
<1>2. ASSUME NEW u \in t.seen
      PROVE  u \in Index \/ t.resumed \/ Waits(t, u) \/ Recorded(updates', u)
  BY RecordedGrows DEF Complete, Onward
<1> QED
  BY <1>1, <1>2 DEF Complete

LEMMA SameOnward == \A s : Onward(s, s)
  BY DEF Onward

(* The records of the newest check, and what the worker that may end its     *)
(* step holds.                                                               *)
LEMMA CompleteAfter ==
    ASSUME Complete(saved'[feed'.check], updates'), Complete(receipts'[feed'.check], updates'),
           \A w \in Workers : exec'[w].pc = "finish" => exec'[w].state.items = <<>>,
           check'[feed'.check].status = "completed" => receipts'[feed'.check].items = <<>>
    PROVE  CompleteInv'
  BY DEF CompleteInv, Complete, Listed, Recorded, Waits

LEMMA HeldCheckpoint ==
    ASSUME FeedInv, NEW w \in Workers, Current(w), exec[w].pc \in Holding
    PROVE  /\ exec[w].check \in Checks /\ feed.check = exec[w].check
           /\ exec[w].state \in States /\ Sound(exec[w].state)
           /\ exec[w].state = saved[feed.check] /\ check[feed.check].status \in Waiting
           /\ job[feed.check].state = "running" /\ job[feed.check].holder = w
<1>1. exec[w].check \in Checks /\ exec[w].state \in States /\ Sound(exec[w].state)
  BY WorkerTypes DEF Holding
<1> QED
  BY <1>1, CurrentCheck

LEMMA LeavesIdle ==
    ASSUME FeedInv, NEW w \in Workers, Leaves(w)
    PROVE  \A v \in Workers : exec'[v] = IF v = w THEN Idle ELSE exec[v]
  BY LeavesTypes

LEMMA CompletePass ==
    ASSUME FeedInv, CompleteInv, NEW w \in Workers, NEW t \in States,
           exec[w].pc \in Holding, Saves(w, t), feed'.check = feed.check, Appended,
           check' = check \/ t.items = <<>>,
           Onward(exec[w].state, t)
    PROVE  CompleteInv'
<1>1. /\ Current(w) /\ Leaves(w)
      /\ saved' = [saved EXCEPT ![exec[w].check] = t]
      /\ receipts' = [receipts EXCEPT ![exec[w].check] = t]
  BY DEF Saves
<1>2. /\ feed.check = exec[w].check /\ exec[w].state = saved[feed.check]
      /\ check[feed.check].status \in Waiting
  BY <1>1, HeldCheckpoint
<1>3. saved'[feed.check] = t /\ receipts'[feed.check] = t
  BY <1>1, <1>2, Records
<1>4. Complete(t, updates')
  BY <1>2, Records, CompleteOnward DEF CompleteInv
<1>5. \A v \in Workers : exec'[v].pc = "finish" => exec'[v].state.items = <<>>
  BY <1>1, LeavesIdle DEF CompleteInv, Idle
<1>6. check'[feed.check].status = "completed" => t.items = <<>>
  BY <1>2 DEF Waiting
<1> QED
  BY <1>3, <1>4, <1>5, <1>6, CompleteAfter

LEMMA QuietComplete ==
    ASSUME FeedInv, CompleteInv, feed'.check = feed.check, Appended,
           UNCHANGED <<saved, receipts>>,
           \/ check'[feed.check].status # "completed"
           \/ check'[feed.check].status = check[feed.check].status,
           \A v \in Workers : exec'[v] = exec[v] \/ exec'[v].pc # "finish"
    PROVE  CompleteInv'
  BY Records, CompleteOnward, SameOnward, CompleteAfter DEF CompleteInv

-------------------------------------------------------------------------------
LEMMA OthersComplete ==
    ASSUME FeedInv, CompleteInv,
           \/ ContextChanges \/ OwnerChanges \/ UNCHANGED vars
           \/ \E u \in Urls : Publish(u)
           \/ \E c \in Checks : Queue(c) \/ ExpireEarly(c)
    PROVE  CompleteInv'
<1>1. feed'.check = feed.check /\ UNCHANGED <<check, saved, receipts, exec, updates>>
  BY Records DEF ContextChanges, OwnerChanges, Publish, Queue, Expire, Reconcile,
     ExpireEarly, Resettled, vars, rowVars, factVars, envVars, FeedRows
<1> QED
  BY <1>1, QuietComplete DEF Appended

LEMMA TurnsComplete ==
    ASSUME FeedInv, CompleteInv,
           \/ \E c \in Checks : Claim(c)
           \/ \E w \in Workers : \/ Lost(w) \/ Refused(w) \/ Fetch(w) \/ FetchFails(w)
                                 \/ Crash(w)
    PROVE  CompleteInv'
<1>1. UNCHANGED <<feed, check, saved, receipts, updates>>
  BY DEF Claim, Lost, Refused, Fetch, FetchFails, Crash, rowVars, factVars
<1>2. \E w \in Workers : \E e : exec' = [exec EXCEPT ![w] = e] /\ e.pc # "finish"
  <2>1. ASSUME NEW c \in Checks, Claim(c)
        PROVE  \E w \in Workers : \E e : exec' = [exec EXCEPT ![w] = e] /\ e.pc # "finish"
    <3>1. One(IdleWorkers) \in Workers
      BY <2>1 DEF Claim, One, IdleWorkers
    <3>2. [Idle EXCEPT !.pc = "claimed", !.check = c].pc # "finish"
      BY DEF Idle
    <3> QED
      BY <2>1, <3>1, <3>2 DEF Claim
  <2>2. ASSUME NEW w \in Workers, Lost(w) \/ Crash(w)
        PROVE  \E e : exec' = [exec EXCEPT ![w] = e] /\ e.pc # "finish"
    <3>1. exec' = [exec EXCEPT ![w] = Idle] /\ Idle.pc # "finish"
      BY <2>2 DEF Lost, Crash, Leaves, Idle
    <3> QED
      BY <3>1
  <2>3. ASSUME NEW w \in Workers, NEW pc, NEW doc
        PROVE  /\ [exec[w] EXCEPT !.pc = pc].pc = pc
               /\ [exec[w] EXCEPT !.pc = pc, !.doc = doc].pc = pc
    BY WorkerTypes DEF Executions
  <2>4. ASSUME NEW w \in Workers, Refused(w)
        PROVE  \E e : exec' = [exec EXCEPT ![w] = e] /\ e.pc # "finish"
    <3>1. exec' = [exec EXCEPT ![w] = [exec[w] EXCEPT !.pc = "drop"]]
      BY <2>4 DEF Refused
    <3>2. [exec[w] EXCEPT !.pc = "drop"].pc # "finish"
      BY <2>3
    <3> QED
      BY <3>1, <3>2
  <2>5. ASSUME NEW w \in Workers, Fetch(w) \/ FetchFails(w)
        PROVE  \E e : exec' = [exec EXCEPT ![w] = e] /\ e.pc # "finish"
    <3>1. PICK doc : exec' = [exec EXCEPT ![w] = [exec[w] EXCEPT !.pc = "fetched", !.doc = doc]]
      BY <2>5 DEF Fetch, FetchFails
    <3>2. [exec[w] EXCEPT !.pc = "fetched", !.doc = doc].pc # "finish"
      BY <2>3
    <3> QED
      BY <3>1, <3>2
  <2> QED
    BY <2>1, <2>2, <2>4, <2>5
<1>3. \A v \in Workers : exec'[v] = exec[v] \/ exec'[v].pc # "finish"
  BY <1>2, WorkerTypes
<1> QED
  BY <1>1, <1>3, QuietComplete DEF Appended

LEMMA DropComplete == ASSUME FeedInv, CompleteInv, NEW w \in Workers, Drop(w) PROVE CompleteInv'
<1> DEFINE c == exec[w].check
           k == [check[c] EXCEPT !.status = "cancelled"]
<1>1. c \in Checks
  BY WorkerTypes DEF Drop, At
<1>2. /\ check' = check \/ check' = [check EXCEPT ![c] = k]
      /\ UNCHANGED <<saved, receipts, updates, feed>> /\ Leaves(w)
  BY DEF Drop, factVars
<1>3. k.status = "cancelled"
  BY <1>1, Records DEF CheckRows
<1>4. \/ check'[feed.check].status # "completed"
      \/ check'[feed.check].status = check[feed.check].status
  BY <1>1, <1>2, <1>3, Records
<1>5. \A v \in Workers : exec'[v] = exec[v] \/ exec'[v].pc # "finish"
  BY <1>2, LeavesIdle DEF Idle
<1> QED
  BY <1>2, <1>4, <1>5, QuietComplete DEF Appended

(* A set of naturals that is not empty has a least one.                      *)
LEMMA LeastOf ==
    ASSUME NEW T \in SUBSET Nat, T # {}
    PROVE  \E k \in T : \A l \in T : k <= l
<1>1. IsWellFoundedOn(OpToRel(<, Nat), Nat)
  BY NatLessThanWellFounded
<1>2. PICK k \in T : \A l \in T : ~(<<l, k>> \in OpToRel(<, Nat))
  BY <1>1, WFMin
<1>3. \A l \in T : ~(l < k)
  BY <1>2 DEF OpToRel
<1>4. \A l \in T : l \in Nat /\ k \in Nat
  OBVIOUS
<1> QED
  BY <1>3, <1>4

(* What the preparation of a step does to the lists of a checkpoint.         *)
Abides(s, t) == t.resumed = s.resumed /\ t.seen = s.seen /\ t.retry = s.retry

LEMMA GateShape ==
    ASSUME NEW s \in States
    PROVE  LET t == NextGate(s) IN
           /\ Abides(s, t) /\ t.items = s.items /\ t.reading = s.reading /\ t.resume = s.resume
  BY StateShape DEF NextGate, Abides

LEMMA ResumedShape ==
    ASSUME NEW s \in States, s.reading.version = 0, s.resume # <<>>
    PROVE  LET t == Resumed(s)
               h == s.resume[1] IN
           /\ h.url \in Urls /\ h.reading \in Readings /\ Abides(s, t)
           /\ t.items = <<h.url>> \o s.items /\ t.reading = h.reading /\ t.resume = Tail(s.resume)
<1> DEFINE R == [url: Urls, reading: Readings]
<1>1. s.resume \in Seq(R)
  BY StateFields DEF Reads
<1> HIDE DEF R
<1>2. Head(s.resume) = s.resume[1] /\ s.resume[1] \in R
  BY <1>1
<1>3. s.resume[1].url \in Urls /\ s.resume[1].reading \in Readings
  BY <1>2 DEF R
<1> QED
  BY <1>2, <1>3, StateShape DEF Resumed, Abides

(* Only what was seen is passed over.                                        *)
LEMMA AheadShape ==
    ASSUME NEW s \in States
    PROVE  LET t == Ahead(s) IN
           /\ Abides(s, t) /\ t.reading = s.reading /\ t.resume = s.resume
           /\ s.reading.version # 0 => t.items = s.items
           /\ \A u : Listed(s, u) => u \in s.seen \/ Listed(t, u)
<1> DEFINE t == Ahead(s)
           least(k) == k \in Unseen(s) /\ \A l \in Unseen(s) : k <= l
           next == CHOOSE k \in Unseen(s) : \A l \in Unseen(s) : k <= l
<1>1. s.items \in Seq(Urls) /\ Len(s.items) \in Nat /\ DOMAIN s.items = 1..Len(s.items)
  BY StateFields
<1>2. Unseen(s) \in SUBSET Nat
  BY <1>1 DEF Unseen
<1>3. \A items : LET y == [s EXCEPT !.items = items] IN
          Abides(s, y) /\ y.reading = s.reading /\ y.resume = s.resume /\ y.items = items
  BY StateShape DEF Abides
<1>4. CASE s.reading.version # 0 \/ s.items = <<>>
  BY <1>4 DEF Ahead, Abides
<1>5. CASE /\ s.reading.version = 0 /\ s.items # <<>>
           /\ \E k \in Unseen(s) : \A l \in Unseen(s) : k <= l
  <2>1. next \in Unseen(s) /\ \A l \in Unseen(s) : next <= l
    BY <1>5
  <2>2. t = [s EXCEPT !.items = SubSeq(s.items, next, Len(s.items))]
    BY <1>5 DEF Ahead
  <2> HIDE DEF next, t
  <2>3. ASSUME NEW k \in DOMAIN s.items, s.items[k] \notin s.seen PROVE Listed(t, s.items[k])
    <3>1. k \in Unseen(s) /\ next \in 1..Len(s.items) /\ k \in 1..Len(s.items) /\ next <= k
      BY <1>1, <2>1, <2>3 DEF Unseen
    <3>2. /\ k - next + 1 \in DOMAIN SubSeq(s.items, next, Len(s.items))
          /\ SubSeq(s.items, next, Len(s.items))[k - next + 1] = s.items[k]
      BY <1>1, <3>1
    <3>3. t.items = SubSeq(s.items, next, Len(s.items))
      BY <1>3, <2>2
    <3> QED
      BY <3>2, <3>3 DEF Listed
  <2> QED
    BY <1>3, <1>5, <2>2, <2>3 DEF t, Listed
<1>6. CASE /\ s.reading.version = 0 /\ s.items # <<>>
           /\ ~\E k \in Unseen(s) : \A l \in Unseen(s) : k <= l
  <2>1. Unseen(s) = {}
    BY <1>2, <1>6, LeastOf
  <2>2. t = [s EXCEPT !.items = <<>>]
    BY <1>6 DEF Ahead
  <2>3. \A u : Listed(s, u) => u \in s.seen
    BY <2>1 DEF Listed, Unseen
  <2> QED
    BY <1>3, <1>6, <2>2, <2>3
<1> QED
  BY <1>4, <1>5, <1>6

(* A step goes on from where the last one stopped; what it passes over was   *)
(* seen.                                                                     *)
LEMMA OpenedOnward ==
    ASSUME FeedInv, NEW s \in States, Sound(s)
    PROVE  LET t == Prepared(NextGate(s)) IN
           /\ Onward(s, t)
           /\ Phase(t) = "finish" => t.items = <<>>
<1> DEFINE g == NextGate(s)
           r == Resumed(g)
           a == Ahead(r)
           t == Prepared(g)
<1>1. g \in States /\ Sound(g) /\ g.items = s.items /\ Abides(s, g)
  BY Records, NextGateState, GateShape DEF Facts
<1> HIDE DEF g
<1>2. r \in States /\ Abides(g, r) /\ \A u : Listed(g, u) => Listed(r, u)
  <2>1. r \in States
    BY <1>1, ResumedState
  <2>2. CASE g.reading.version = 0 /\ g.resume # <<>>
    <3> DEFINE h == g.resume[1]
    <3>1. h.url \in Urls /\ Abides(g, r) /\ r.items = <<h.url>> \o g.items
      BY <1>1, <2>2, ResumedShape
    <3>2. g.items \in Seq(Urls)
      BY <1>1, StateFields
    <3> HIDE DEF h, r
    <3>3. \A k \in DOMAIN g.items : k + 1 \in DOMAIN r.items /\ r.items[k + 1] = g.items[k]
      BY <3>1, <3>2
    <3> QED
      BY <2>1, <3>1, <3>3 DEF Listed, r
  <2>3. CASE ~(g.reading.version = 0 /\ g.resume # <<>>)
    BY <2>1, <2>3 DEF Resumed, Abides
  <2> QED
    BY <2>2, <2>3
<1>3. Abides(r, a) /\ \A u : Listed(r, u) => u \in r.seen \/ Listed(a, u)
  BY <1>2, AheadShape
<1> HIDE DEF r, a
<1>4. t = a \/ t = g
  BY DEF Prepared, a, r
<1>5. Onward(s, t)
  BY <1>1, <1>2, <1>3, <1>4 DEF Onward, Abides, Listed, Waits
<1>6. Phase(t) = "finish" => t.items = <<>>
  BY DEF Phase
<1> QED
  BY <1>5, <1>6 DEF g

LEMMA OpenComplete == ASSUME FeedInv, CompleteInv, NEW w \in Workers, Open(w) PROVE CompleteInv'
<1> DEFINE c == exec[w].check
           t == Prepared(NextGate(saved[c]))
           e == [exec[w] EXCEPT !.pc = Phase(t), !.state = t]
           k == [check[c] EXCEPT !.status = "running"]
<1>1. /\ Current(w) /\ saved' = [saved EXCEPT ![c] = t] /\ check' = [check EXCEPT ![c] = k]
      /\ exec' = [exec EXCEPT ![w] = e] /\ UNCHANGED <<receipts, updates, feed>>
  BY DEF Open, factVars
<1>2. c \in Checks /\ feed.check = c
  BY <1>1, WorkerTypes, CurrentCheck DEF Open, At
<1>3. Onward(saved[c], t) /\ (Phase(t) = "finish" => t.items = <<>>)
  BY <1>2, Records, OpenedOnward
<1>4. e.pc = Phase(t) /\ e.state = t
  BY WorkerTypes DEF Executions
<1> HIDE DEF t, e
<1>5. saved'[c] = t
  BY <1>1, <1>2, Records
<1>6. Complete(t, updates') /\ Complete(receipts'[c], updates')
  BY <1>1, <1>2, <1>3, Records, CompleteOnward, SameOnward DEF CompleteInv, Appended
<1>7. \A v \in Workers : exec'[v].pc = "finish" => exec'[v].state.items = <<>>
  BY <1>1, <1>3, <1>4, WorkerTypes DEF CompleteInv
<1>8. check'[c].status # "completed"
  BY <1>1, <1>2, Records DEF CheckRows
<1> QED
  BY <1>1, <1>2, <1>5, <1>6, <1>7, <1>8, CompleteAfter

-------------------------------------------------------------------------------
(* What the steps that end make of the lists of a checkpoint.                *)
Ends(w, t) ==
    /\ exec[w].pc \in Holding /\ Saves(w, t) /\ feed'.check = feed.check /\ UNCHANGED web
    /\ check' = check \/ exec[w].pc = "finish"
    /\ \E j : j.state # "running" /\ job' = [job EXCEPT ![exec[w].check] = j]
(* The head of the list is behind.                                           *)
Behind(s, t) ==
    /\ t.reading = NoReading /\ t.seen = s.seen \cup {s.items[1]}
    /\ t.resume = s.resume /\ t.resumed = s.resumed

(* A plan, a verdict, the end: nothing is read.                              *)
Rests(w, t) ==
    LET s == exec[w].state IN
    /\ Abides(s, t) /\ t.items = s.items /\ t.reading = s.reading /\ t.resume = s.resume
    /\ UNCHANGED updates
Finds(w, t) ==
    LET s == exec[w].state IN
    /\ At(w, "search") /\ s.items = <<>>
    /\ Abides(s, t) /\ t.reading = s.reading /\ t.resume = s.resume
    /\ UNCHANGED updates
PutsOff(w, t) ==
    LET s == exec[w].state IN
    /\ At(w, "fetched") /\ Behind(s, t) /\ t.items = Tail(s.items)
    /\ t.retry = Append(s.retry, [url |-> s.items[1], reading |-> Kept(s, exec[w].doc)])
    /\ UNCHANGED updates
FollowsIndex(w, t) ==
    LET s == exec[w].state IN
    /\ At(w, "fetched") /\ s.items[1] \in Index /\ Behind(s, t) /\ t.retry = s.retry
    /\ \E page \in Seq(Urls) : t.items = Tail(s.items) \o page
    /\ UNCHANGED updates
ReadsOn(w, t) ==
    LET s == exec[w].state IN
    /\ At(w, "fetched") /\ exec[w].doc # 0 /\ Abides(s, t) /\ t.items = s.items
    /\ t.resume = s.resume /\ t.reading.version = exec[w].doc
    /\ UNCHANGED updates
Enters(w, t) ==
    LET s == exec[w].state
        new == [url |-> s.items[1], version |-> exec[w].doc] IN
    /\ At(w, "fetched") /\ exec[w].doc # 0 /\ Behind(s, t) /\ t.items = Tail(s.items)
    /\ t.retry = s.retry
    /\ updates' = IF Unchanged(new.url, new.version) THEN updates ELSE Append(updates, new)

OutcomeOf(w, t) ==
    /\ Ends(w, t)
    /\ \/ Rests(w, t) \/ Finds(w, t) \/ PutsOff(w, t) \/ FollowsIndex(w, t) \/ ReadsOn(w, t)
       \/ Enters(w, t)

LEMMA StepEnds ==
    ASSUME NEW w \in Workers, NEW t, exec[w].pc \in Holding, Yields(w, t),
           feed'.check = feed.check
    PROVE  Ends(w, t)
<1>1. job' = [job EXCEPT ![exec[w].check] = NewJob] /\ NewJob.state # "running"
  BY DEF Yields, NewJob
<1>2. \E j : j.state # "running" /\ job' = [job EXCEPT ![exec[w].check] = j]
  BY <1>1
<1> QED
  BY <1>2 DEF Ends, Yields

LEMMA QuietOutcome ==
    ASSUME FeedInv, NEW w \in Workers,
           Plan(w) \/ PlanFails(w) \/ Judge(w) \/ JudgeFails(w) \/ Finish(w)
    PROVE  \E t \in States : OutcomeOf(w, t)
<1> DEFINE s == exec[w].state
           p == [s EXCEPT !.plan = TRUE]
           j == [s EXCEPT !.judged = s.gate, !.gate = 0]
<1>1. Plan(w) \/ PlanFails(w) => Ends(w, p) /\ UNCHANGED updates /\ ~s.plan
  BY Records, WorkerTypes, StepEnds DEF Plan, PlanFails, PlanMade, Holding, At, FeedRows,
     factVars, InStep, Due
<1>2. Judge(w) \/ JudgeFails(w) => Ends(w, j) /\ UNCHANGED updates /\ s.gate # 0
  BY WorkerTypes, StepEnds DEF Judge, JudgeFails, Judged, Holding, At, InStep, Due
<1>3. Finish(w) => Ends(w, s) /\ UNCHANGED updates
  <2> DEFINE j0 == [NewJob EXCEPT !.state = "succeeded"]
  <2>1. j0.state # "running"
    BY DEF NewJob
  <2>2. Finish(w) => job' = [job EXCEPT ![exec[w].check] = j0]
    BY DEF Finish
  <2> HIDE DEF j0
  <2>3. Finish(w) => \E x : x.state # "running" /\ job' = [job EXCEPT ![exec[w].check] = x]
    BY <2>1, <2>2
  <2> QED
    BY <2>3 DEF Finish, Ends, Holding, At, factVars, envVars
<1>4. s \in States /\ Sound(s)
  BY WorkerTypes
<1>5. /\ \A y \in {p, j, s} : /\ Abides(s, y) /\ y.items = s.items /\ y.reading = s.reading
                              /\ y.resume = s.resume
      /\ ~s.plan => p \in States
      /\ s.gate # 0 => j \in States
  BY <1>4, StateShape, PlanState, JudgedState DEF Abides
<1> HIDE DEF p, j
<1> QED
  BY <1>1, <1>2, <1>3, <1>4, <1>5 DEF OutcomeOf, Rests

LEMMA SearchOutcome ==
    ASSUME FeedInv, NEW w \in Workers, Search(w) \/ SearchFails(w)
    PROVE  \E t \in States : OutcomeOf(w, t)
<1>1. PICK page \in Seq(Urls), next \in Cursors \cup {None} : Found(w, page, next)
  <2>1. CASE Search(w)
    BY <2>1, FeedAssumption DEF Search
  <2>2. CASE SearchFails(w)
    <3>1. <<>> \in Seq(Urls) /\ None \in Cursors \cup {None}
      OBVIOUS
    <3> QED
      BY <2>2, <3>1 DEF SearchFails
  <2> QED
    BY <2>1, <2>2
<1> DEFINE s == exec[w].state
           following == IF next # None /\ Repeated(s, page, next) THEN None ELSE next
           t == [s EXCEPT !.items = page, !.pending = following # None,
                          !.pages = s.pages \cup {page},
                          !.cursors = s.cursors \cup ({next} \ {None}), !.turn = TRUE]
<1>2. Ends(w, t) /\ UNCHANGED updates /\ At(w, "search")
  BY <1>1, StepEnds DEF Found, At, Holding, factVars
<1>3. s \in States /\ Sound(s) /\ s.pending /\ s.items = <<>>
  BY <1>2, WorkerTypes DEF InStep, Due, At
<1>4. t \in States
  BY <1>3, FoundState
<1>5. Abides(s, t) /\ t.reading = s.reading /\ t.resume = s.resume
  BY <1>3, StateShape DEF Abides
<1> HIDE DEF t
<1> QED
  BY <1>2, <1>3, <1>4, <1>5 DEF OutcomeOf, Finds

LEMMA ReadOutcome ==
    ASSUME FeedInv, NEW w \in Workers,
           \/ ReadFails(w) \/ Unreadable(w) \/ ReadPortion(w) \/ RecordOriginal(w)
           \/ \E page \in Pages : ReadIndex(w, page)
    PROVE  \E t \in States : OutcomeOf(w, t)
<1> DEFINE s == exec[w].state
           u == s.items[1]
           doc == exec[w].doc
<1>1. /\ At(w, "fetched")
      /\ \A t : Yields(w, t) /\ feed' = feed => Ends(w, t)
  <2>1. At(w, "fetched")
    BY DEF ReadFails, Unreadable, Fails, ReadPortion, RecordOriginal, ReadIndex
  <2>2. exec[w].pc \in Holding
    BY <2>1 DEF At, Holding
  <2> QED
    BY <2>1, <2>2, StepEnds
<1>2. /\ s \in States /\ Sound(s) /\ Due("fetched", s) /\ doc \in 0..Versions
      /\ doc # 0 => /\ doc \in 1..Versions
                    /\ s.reading.version # 0 => doc = s.reading.version
  BY <1>1, FetchedTypes
<1>3. CASE ReadFails(w) \/ Unreadable(w)
  <2> DEFINE r == [url |-> u, reading |-> Kept(s, doc)]
             t == [Done(s) EXCEPT !.retry = Append(s.retry, r)]
  <2>1. Yields(w, t) /\ feed' = feed /\ UNCHANGED updates /\ (doc # 0 => u \notin Index)
    BY <1>3 DEF ReadFails, Unreadable, Fails
  <2>2. t \in States
    BY <1>2, <2>1, FailedState
  <2>3. Behind(s, t) /\ t.items = Tail(s.items) /\ t.retry = Append(s.retry, r)
    BY <1>2, StateShape DEF Done, Behind
  <2> HIDE DEF t
  <2> QED
    BY <1>1, <2>1, <2>2, <2>3 DEF OutcomeOf, PutsOff
<1>4. ASSUME NEW page \in Pages, ReadIndex(w, page) PROVE \E t \in States : OutcomeOf(w, t)
  <2> DEFINE t == [Done(s) EXCEPT !.items = Tail(s.items) \o page]
  <2>1. Yields(w, t) /\ feed' = feed /\ UNCHANGED updates /\ u \in Index /\ page \in Seq(Urls)
    BY <1>4, FeedAssumption DEF ReadIndex, factVars
  <2>2. t \in States
    BY <1>2, <2>1, IndexState
  <2>3. Behind(s, t) /\ t.items = Tail(s.items) \o page /\ t.retry = s.retry
    BY <1>2, StateShape DEF Done, Behind
  <2> HIDE DEF t
  <2> QED
    BY <1>1, <2>1, <2>2, <2>3 DEF OutcomeOf, FollowsIndex
<1>5. CASE ReadPortion(w)
  <2> DEFINE r == [version |-> doc, parts |-> s.reading.parts + 1]
             t == [s EXCEPT !.reading = r]
  <2>1. /\ Yields(w, t) /\ feed' = feed /\ UNCHANGED updates /\ doc # 0 /\ u \notin Index
        /\ s.reading.parts + 1 < Portions
    BY <1>5 DEF ReadPortion
  <2>2. t \in States
    BY <1>2, <2>1, PortionState
  <2>3. Abides(s, t) /\ t.items = s.items /\ t.resume = s.resume /\ t.reading = r
    BY <1>2, StateShape DEF Abides
  <2> HIDE DEF t
  <2> QED
    BY <1>1, <2>1, <2>2, <2>3 DEF OutcomeOf, ReadsOn
<1>6. CASE RecordOriginal(w)
  <2> DEFINE new == [url |-> u, version |-> doc]
             t == [Done(s) EXCEPT !.turn = TRUE]
  <2>1. /\ Yields(w, t) /\ feed' = feed /\ doc # 0
        /\ updates' = IF Unchanged(u, doc) THEN updates ELSE Append(updates, new)
    BY <1>6 DEF RecordOriginal
  <2>2. t \in States
    BY <1>2, <2>1, RecordedState
  <2>3. Behind(s, t) /\ t.items = Tail(s.items) /\ t.retry = s.retry
    BY <1>2, StateShape DEF Done, Behind
  <2> HIDE DEF t
  <2>4. Enters(w, t)
    BY <1>1, <2>1, <2>3 DEF Enters
  <2> QED
    BY <1>1, <2>1, <2>2, <2>4 DEF OutcomeOf
<1> QED
  BY <1>3, <1>4, <1>5, <1>6

-------------------------------------------------------------------------------
LEMMA Appends ==
    ASSUME NEW R, NEW q \in Seq(R), NEW x \in R
    PROVE  LET a == Append(q, x) IN
           /\ a \in Seq(R) /\ Len(q) \in Nat /\ Len(q) + 1 \in DOMAIN a /\ a[Len(q) + 1] = x
           /\ \A k \in DOMAIN q : k \in Nat /\ k <= Len(q) /\ k \in DOMAIN a /\ a[k] = q[k]
           /\ \A k \in DOMAIN a : k \in Nat /\ (k \in DOMAIN q \/ k = Len(q) + 1)
  OBVIOUS

LEMMA TailLists ==
    ASSUME NEW s \in States, s.items # <<>>
    PROVE  /\ s.items[1] \in Urls
           /\ Tail(s.items) \in Seq(Urls)
           /\ \A u : Listed(s, u) =>
                  u = s.items[1] \/ \E k \in DOMAIN Tail(s.items) : Tail(s.items)[k] = u
<1>1. s.items \in Seq(Urls)
  BY StateFields
<1>2. Tail(s.items) \in Seq(Urls) /\ s.items[1] \in Urls
  BY <1>1
<1>3. ASSUME NEW k \in DOMAIN s.items, k # 1
      PROVE  k - 1 \in DOMAIN Tail(s.items) /\ Tail(s.items)[k - 1] = s.items[k]
  BY <1>1, <1>3
<1> QED
  BY <1>2, <1>3 DEF Listed

(* The head of the list is left behind.                                      *)
LEMMA BehindOnward ==
    ASSUME NEW s \in States, NEW t \in States, s.items # <<>>, Behind(s, t),
           \E page \in Seq(Urls) : t.items = Tail(s.items) \o page,
           \A u : Waits(s, u) => Waits(t, u),
           s.items[1] \in Index \/ Waits(t, s.items[1]) \/ Recorded(updates', s.items[1])
    PROVE  Onward(s, t)
<1>1. PICK page \in Seq(Urls) : t.items = Tail(s.items) \o page
  OBVIOUS
<1>2. \A k \in DOMAIN Tail(s.items) : k \in DOMAIN t.items /\ t.items[k] = Tail(s.items)[k]
  BY <1>1, TailLists
<1>3. ASSUME NEW u, Listed(s, u) PROVE u \in t.seen \/ Listed(t, u)
  <2>1. CASE u = s.items[1]
    BY <2>1 DEF Behind
  <2>2. CASE \E k \in DOMAIN Tail(s.items) : Tail(s.items)[k] = u
    BY <1>2, <2>2 DEF Listed
  <2> QED
    BY <1>3, <2>1, <2>2, TailLists
<1> QED
  BY <1>3 DEF Onward, Behind

LEMMA OutcomeOnward ==
    ASSUME FeedInv, NEW w \in Workers, NEW t \in States, OutcomeOf(w, t)
    PROVE  Onward(exec[w].state, t) /\ Appended
<1> DEFINE s == exec[w].state
           doc == exec[w].doc
<1>1. s \in States
  BY WorkerTypes
<1>2. CASE Rests(w, t) \/ Finds(w, t) \/ ReadsOn(w, t)
  <2>1. Abides(s, t) /\ UNCHANGED updates /\ (t.items = s.items \/ s.items = <<>>)
    BY <1>2 DEF Rests, Finds, ReadsOn
  <2>2. \A u : Listed(s, u) => Listed(t, u)
    BY <2>1 DEF Listed
  <2> QED
    BY <2>1, <2>2 DEF Onward, Abides, Waits, Appended
<1>3. ASSUME At(w, "fetched")
      PROVE  /\ s.items # <<>> /\ s.items[1] \in Urls /\ Tail(s.items) \in Seq(Urls)
             /\ doc # 0 => doc \in 1..Versions
             /\ \E page \in Seq(Urls) : Tail(s.items) = Tail(s.items) \o page
  <2>1. s.items # <<>> /\ (doc # 0 => doc \in 1..Versions)
    BY <1>3, FetchedTypes DEF Due
  <2>2. s.items[1] \in Urls /\ Tail(s.items) \in Seq(Urls)
    BY <1>1, <2>1, TailLists
  <2>3. ASSUME NEW q \in Seq(Urls) PROVE <<>> \in Seq(Urls) /\ q = q \o <<>>
    OBVIOUS
  <2> QED
    BY <2>1, <2>2, <2>3
<1>4. CASE PutsOff(w, t)
  <2> DEFINE r == [url |-> s.items[1], reading |-> Kept(s, doc)]
             R == [url: Urls, reading: Readings]
  <2>1. /\ At(w, "fetched") /\ Behind(s, t) /\ t.items = Tail(s.items)
        /\ t.retry = Append(s.retry, r) /\ UNCHANGED updates
    BY <1>4 DEF PutsOff
  <2>2. s.retry \in Seq(R) /\ r.url = s.items[1] /\ r \in R
    <3>1. Kept(s, doc) \in Readings
      BY <1>1, <1>3, <2>1, StateFields, ReadingFields, FeedAssumption DEF Kept
    <3> QED
      BY <1>1, <1>3, <2>1, <3>1, StateFields DEF Reads
  <2> HIDE DEF r, R
  <2>3. /\ \A k \in DOMAIN s.retry : k \in DOMAIN t.retry /\ t.retry[k] = s.retry[k]
        /\ Len(s.retry) + 1 \in DOMAIN t.retry /\ t.retry[Len(s.retry) + 1] = r
    BY <2>1, <2>2, Appends
  <2>4. (\A u : Waits(s, u) => Waits(t, u)) /\ Waits(t, s.items[1])
    BY <2>2, <2>3 DEF Waits
  <2> QED
    BY <1>1, <1>3, <2>1, <2>4, BehindOnward DEF Appended
<1>5. CASE FollowsIndex(w, t)
  BY <1>1, <1>3, <1>5, BehindOnward DEF FollowsIndex, Waits, Appended
<1>6. CASE Enters(w, t)
  <2> DEFINE new == [url |-> s.items[1], version |-> doc]
             U == [url: Urls, version: 1..Versions]
  <2>1. /\ At(w, "fetched") /\ doc # 0 /\ Behind(s, t) /\ t.items = Tail(s.items)
        /\ t.retry = s.retry
        /\ updates' = IF Unchanged(new.url, new.version) THEN updates ELSE Append(updates, new)
    BY <1>6 DEF Enters
  <2>2. new \in U /\ updates \in Seq(U) /\ new.url = s.items[1]
    BY <1>3, <2>1, Records DEF Facts
  <2>3. Appended
    BY <2>1, <2>2 DEF Appended
  <2>4. Recorded(updates', s.items[1])
    <3>1. CASE Unchanged(new.url, new.version)
      BY <2>1, <2>2, <3>1 DEF Unchanged, Recorded
    <3>2. CASE ~Unchanged(new.url, new.version)
      <4> HIDE DEF new, U
      <4>1. updates' = Append(updates, new)
        BY <2>1, <3>2
      <4>2. Len(updates) + 1 \in DOMAIN updates' /\ updates'[Len(updates) + 1] = new
        BY <2>2, <4>1
      <4> QED
        BY <2>2, <4>2 DEF Recorded
    <3> QED
      BY <3>1, <3>2
  <2> QED
    BY <1>1, <1>3, <2>1, <2>3, <2>4, BehindOnward DEF Waits
<1> QED
  BY <1>2, <1>4, <1>5, <1>6 DEF OutcomeOf

LEMMA OutcomeComplete ==
    ASSUME FeedInv, CompleteInv, NEW w \in Workers, NEW t \in States, OutcomeOf(w, t)
    PROVE  CompleteInv'
<1>1. Onward(exec[w].state, t) /\ Appended
  BY OutcomeOnward
<1>2. Ends(w, t)
  BY DEF OutcomeOf
<1>3. check' = check \/ t.items = <<>>
  <2>1. CASE exec[w].pc = "finish"
    <3>1. exec[w].state.items = <<>>
      BY <2>1 DEF CompleteInv
    <3>2. Rests(w, t)
      BY <2>1 DEF OutcomeOf, Finds, PutsOff, FollowsIndex, ReadsOn, Enters, At
    <3> QED
      BY <3>1, <3>2 DEF Rests
  <2> QED
    BY <1>2, <2>1 DEF Ends
<1> QED
  BY <1>1, <1>2, <1>3, CompletePass DEF Ends

-------------------------------------------------------------------------------
(* A new check starts with the addresses the user gave, or goes on as one    *)
(* that carries a failed check on.                                           *)
LEMMA InheritedComplete ==
    ASSUME FeedInv, CompleteInv, NEW rev, NEW scope, NEW plan, NEW status
    PROVE  Complete(Inherited(rev, scope, plan, status), updates)
<1> DEFINE t == Inherited(rev, scope, plan, status)
           old == receipts[feed.check]
<1>1. old \in States /\ Complete(old, updates)
  BY Records DEF CompleteInv
<1>2. \/ t.seen = {} /\ t.items = Sources
      \/ t.seen = old.seen /\ t.items = old.items /\ t.resumed
  BY <1>1, StateShape DEF Inherited, Fresh
<1> HIDE DEF t
<1>3. ASSUME t.seen = {} /\ t.items = Sources PROVE Complete(t, updates)
  BY <1>3 DEF Complete, Listed
<1>4. ASSUME t.seen = old.seen /\ t.items = old.items /\ t.resumed PROVE Complete(t, updates)
  BY <1>1, <1>4 DEF Complete, Listed
<1> QED
  BY <1>2, <1>3, <1>4 DEF t

LEMMA EnqueuedComplete ==
    ASSUME FeedInv, CompleteInv, NEW f, NEW jobs, NEW status,
           Enqueued(f, jobs, status), f \in FeedRows, f.check = feed.check,
           UNCHANGED <<updates, exec>>
    PROVE  CompleteInv'
<1> DEFINE last == feed.check
           c == One(Unused)
           t == Inherited(f.rev, f.scope, f.plan, status)
           n == [status |-> "queued", rev |-> f.rev, scope |-> f.scope]
           k == [check[last] EXCEPT !.status = status]
<1>1. /\ feed' = [f EXCEPT !.check = c]
      /\ check' = [check EXCEPT ![c] = n, ![last] = k]
      /\ saved' = [saved EXCEPT ![c] = t, ![last] = Fresh]
      /\ receipts' = [receipts EXCEPT ![c] = t, ![last] = Fresh]
  BY DEF Enqueued
<1>2. c \in Checks /\ c # last
  <2>1. c \in Unused
    BY DEF Enqueued, One
  <2> QED
    BY <2>1 DEF Unused
<1>3. Complete(t, updates)
  BY InheritedComplete
<1> HIDE DEF c, t
<1>4. feed'.check = c /\ check'[c] = n /\ saved'[c] = t /\ receipts'[c] = t
  BY <1>1, <1>2, Records DEF FeedRows
<1>5. \A w \in Workers : exec'[w].pc = "finish" => exec'[w].state.items = <<>>
  BY DEF CompleteInv
<1> QED
  BY <1>3, <1>4, <1>5, CompleteAfter

LEMMA StartComplete == ASSUME FeedInv, CompleteInv, StartCheck PROVE CompleteInv'
<1>1. Enqueued(feed, job, Closed(feed.check)) /\ UNCHANGED <<updates, exec>>
  BY DEF StartCheck, Enqueue, factVars
<1> QED
  BY <1>1, Records, EnqueuedComplete

LEMMA ChangeComplete ==
    ASSUME FeedInv, CompleteInv, NEW active \in BOOLEAN,
           NEW scope \in {feed.scope, feed.scope + 1}, Change(active, scope)
    PROVE  CompleteInv'
<1>1. Replaced \/ Paused \/ Around
  BY ChangeStep
<1>2. CASE Replaced
  BY <1>2, EnqueuedComplete DEF Replaced, Settings
<1>3. CASE Paused
  <2>1. check'[feed.check].status = "cancelled"
    BY <1>3, Records DEF Paused, CheckRows
  <2> QED
    BY <1>3, <2>1, QuietComplete DEF Paused, Settings, Appended
<1>4. CASE Around
  BY <1>4, QuietComplete DEF Around, rowVars, Appended
<1> QED
  BY <1>1, <1>2, <1>3, <1>4

LEMMA InitComplete == Init => CompleteInv
<1> SUFFICES ASSUME Init PROVE CompleteInv
  OBVIOUS
<1>1. feed.check \in Checks
  BY InitKeeps, Records
<1>2. /\ saved[feed.check] = Fresh /\ receipts[feed.check] = Fresh
      /\ check[feed.check].status = "queued" /\ \A w \in Workers : exec[w] = Idle
  BY <1>1 DEF Init
<1>3. Complete(Fresh, updates)
  BY DEF Complete, Fresh, Listed
<1> QED
  BY <1>2, <1>3 DEF CompleteInv, Idle

LEMMA StepComplete == FeedInv /\ CompleteInv /\ [Next]_vars => CompleteInv'
<1> SUFFICES ASSUME FeedInv, CompleteInv, [Next]_vars PROVE CompleteInv'
  OBVIOUS
<1>1. CASE \/ OwnerChanges \/ ContextChanges \/ UNCHANGED vars
           \/ \E u \in Urls : Publish(u)
           \/ \E c \in Checks : Claim(c) \/ Queue(c) \/ ExpireEarly(c)
  BY <1>1, OthersComplete, TurnsComplete
<1>2. CASE \/ StartCheck
           \/ \E active \in BOOLEAN, scope \in {feed.scope, feed.scope + 1} : Change(active, scope)
  BY <1>2, StartComplete, ChangeComplete
<1>3. ASSUME NEW w \in Workers, Work(w) \/ Fail(w) \/ Crash(w) PROVE CompleteInv'
  <2>1. CASE Lost(w) \/ Refused(w) \/ Fetch(w) \/ FetchFails(w) \/ Crash(w)
    BY <2>1, TurnsComplete
  <2>2. CASE Open(w) \/ Drop(w)
    BY <2>2, OpenComplete, DropComplete
  <2>3. CASE \/ Plan(w) \/ PlanFails(w) \/ Judge(w) \/ JudgeFails(w) \/ Finish(w)
             \/ Search(w) \/ SearchFails(w)
    BY <2>3, QuietOutcome, SearchOutcome, OutcomeComplete
  <2>4. CASE \/ ReadFails(w) \/ Unreadable(w) \/ ReadPortion(w) \/ RecordOriginal(w)
             \/ \E page \in Pages : ReadIndex(w, page)
    BY <2>4, ReadOutcome, OutcomeComplete
  <2> QED
    BY <1>3, <2>1, <2>2, <2>3, <2>4 DEF Work, Remember, Fail
<1> QED
  BY <1>1, <1>2, <1>3 DEF Next, Administrator

(* A check that completed has read every address the user gave; what it read *)
(* is an update or waits for the next check, unless it carried on a failed   *)
(* one.                                                                      *)
THEOREM EverySourceIsRead == Spec => []NothingPassedOver
<1>1. FeedInv /\ CompleteInv => NothingPassedOver
  <2> SUFFICES ASSUME FeedInv, CompleteInv, Finished(feed.check)
               PROVE  NothingPassedOver
    BY DEF NothingPassedOver
  <2>1. receipts[feed.check].items = <<>> /\ Complete(receipts[feed.check], updates)
    BY DEF CompleteInv, Finished
  <2>2. \A i \in DOMAIN Sources : Sources[i] \in receipts[feed.check].seen
    BY <2>1 DEF Complete, Listed
  <2> QED
    BY <2>1, <2>2 DEF Complete, Recorded, NothingPassedOver
<1>2. Spec => []CompleteInv
  BY InitComplete, StepComplete, FeedInvariant, PTL DEF Spec
<1> QED
  BY <1>1, <1>2, FeedInvariant, PTL

-------------------------------------------------------------------------------
(* The versions of an address are recorded in their order.                   *)

(* The addresses of reads that are left over.                                *)
Addresses(reads) == {reads[i].url : i \in DOMAIN reads}
Apart(reads) == \A i, k \in DOMAIN reads : i # k => reads[i].url # reads[k].url
(* Those that were seen come after those that were not.                      *)
SeenLast(reads, seen) ==
    \A i, k \in DOMAIN reads : i < k /\ reads[i].url \in seen => reads[k].url \in seen

(* No later version of an address is recorded, and it was published.         *)
Newest(u, v, us, pub) ==
    /\ \A k \in DOMAIN us : us[k].url = u => us[k].version <= v
    /\ v <= pub[u]
UpToDate(reads, us, pub) ==
    \A i \in DOMAIN reads :
        reads[i].reading.version # 0 =>
            Newest(reads[i].url, reads[i].reading.version, us, pub)

(* An address is retained in one place only, and nothing reads it meanwhile. *)
Tidy(s, us, pub) ==
    /\ Apart(s.resume) /\ Apart(s.retry)
    /\ Addresses(s.resume) \cap Addresses(s.retry) = {}
    /\ Addresses(s.retry) \subseteq s.seen /\ SeenLast(s.resume, s.seen)
    /\ UpToDate(s.resume, us, pub) /\ UpToDate(s.retry, us, pub)
    /\ s.reading.version # 0 => /\ s.items[1] \notin Addresses(s.resume) \cup Addresses(s.retry)
                                /\ Newest(s.items[1], s.reading.version, us, pub)

Reading == {"read", "fetched"}
(* The claim of w on a check is in force.                                    *)
Claims(w, c) == exec[w].check = c /\ job[c].state = "running" /\ job[c].holder = w

OrderInv ==
    /\ VersionsInOrder
    /\ \A k \in DOMAIN updates : updates[k].version <= web[updates[k].url]
    /\ Tidy(saved[feed.check], updates, web) /\ Tidy(receipts[feed.check], updates, web)
    /\ \A w \in Workers : exec[w].pc \in Reading =>
          exec[w].state.items[1] \notin Addresses(exec[w].state.resume)
    /\ \A w \in Workers, c \in Checks :
          Claims(w, c) /\ exec[w].pc = "fetched" /\ exec[w].doc # 0 =>
              Newest(exec[w].state.items[1], exec[w].doc, updates, web)

-------------------------------------------------------------------------------
(* Lists of reads.                                                           *)
LEMMA ReadsTail ==
    ASSUME NEW reads \in Reads, reads # <<>>, Apart(reads)
    PROVE  LET rest == Tail(reads) IN
           /\ Apart(rest) /\ Addresses(rest) \subseteq Addresses(reads)
           /\ reads[1].url \in Addresses(reads) \ Addresses(rest)
           /\ \A seen : SeenLast(reads, seen) =>
                  /\ SeenLast(rest, seen)
                  /\ reads[1].url \in seen => Addresses(rest) \subseteq seen
           /\ \A us, pub : UpToDate(reads, us, pub) =>
                  /\ UpToDate(rest, us, pub)
                  /\ reads[1].reading.version # 0 =>
                         Newest(reads[1].url, reads[1].reading.version, us, pub)
<1> DEFINE R == [url: Urls, reading: Readings]
           rest == Tail(reads)
<1>1. reads \in Seq(R)
  BY DEF Reads
<1> HIDE DEF R
<1>2. /\ 1 \in DOMAIN reads
      /\ \A k \in DOMAIN rest : k \in Nat /\ k > 0 /\ k + 1 \in DOMAIN reads /\ rest[k] = reads[k + 1]
  BY <1>1
<1> HIDE DEF rest
<1>3. Apart(rest) /\ Addresses(rest) \subseteq Addresses(reads)
  <2>1. ASSUME NEW i \in DOMAIN rest, NEW k \in DOMAIN rest, i # k
        PROVE  rest[i].url # rest[k].url
    BY <1>2, <2>1 DEF Apart
  <2> QED
    BY <1>2, <2>1 DEF Apart, Addresses
<1>4. reads[1].url \in Addresses(reads) \ Addresses(rest)
  BY <1>2 DEF Apart, Addresses
<1>5. ASSUME NEW seen, SeenLast(reads, seen)
      PROVE  /\ SeenLast(rest, seen)
             /\ reads[1].url \in seen => Addresses(rest) \subseteq seen
  <2>1. ASSUME NEW i \in DOMAIN rest, NEW k \in DOMAIN rest, i < k, rest[i].url \in seen
        PROVE  rest[k].url \in seen
    BY <1>2, <1>5, <2>1 DEF SeenLast
  <2>2. ASSUME reads[1].url \in seen, NEW k \in DOMAIN rest PROVE rest[k].url \in seen
    BY <1>2, <1>5, <2>2 DEF SeenLast
  <2> QED
    BY <2>1, <2>2 DEF SeenLast, Addresses
<1>6. ASSUME NEW us, NEW pub, UpToDate(reads, us, pub)
      PROVE  /\ UpToDate(rest, us, pub)
             /\ reads[1].reading.version # 0 =>
                    Newest(reads[1].url, reads[1].reading.version, us, pub)
  BY <1>2, <1>6 DEF UpToDate
<1> QED
  BY <1>3, <1>4, <1>5, <1>6 DEF rest

LEMMA ReadsJoined ==
    ASSUME NEW a \in Reads, NEW b \in Reads
    PROVE  LET j == a \o b IN
           /\ j \in Reads /\ Addresses(j) = Addresses(a) \cup Addresses(b)
           /\ Apart(a) /\ Apart(b) /\ Addresses(a) \cap Addresses(b) = {} => Apart(j)
           /\ \A seen : SeenLast(a, seen) /\ Addresses(b) \subseteq seen => SeenLast(j, seen)
           /\ \A us, pub : UpToDate(a, us, pub) /\ UpToDate(b, us, pub) => UpToDate(j, us, pub)
<1> DEFINE R == [url: Urls, reading: Readings]
           j == a \o b
<1>1. a \in Seq(R) /\ b \in Seq(R) /\ Reads = Seq(R)
  BY DEF Reads
<1> HIDE DEF R
<1>2. /\ j \in Seq(R) /\ Len(a) \in Nat /\ Len(b) \in Nat
      /\ DOMAIN a = 1..Len(a) /\ DOMAIN b = 1..Len(b) /\ DOMAIN j = 1..(Len(a) + Len(b))
  BY <1>1
<1>3. /\ \A i \in DOMAIN a : i \in DOMAIN j /\ j[i] = a[i]
      /\ \A i \in DOMAIN b : Len(a) + i \in DOMAIN j /\ j[Len(a) + i] = b[i]
  BY <1>1
<1> HIDE DEF j
<1>4. \A i \in DOMAIN j : (i \in DOMAIN a /\ j[i] = a[i])
                          \/ (i > Len(a) /\ i - Len(a) \in DOMAIN b /\ j[i] = b[i - Len(a)])
  <2> TAKE i \in DOMAIN j
  <2>1. CASE i <= Len(a)
    BY <1>2, <1>3, <2>1
  <2>2. CASE i > Len(a)
    <3>1. i - Len(a) \in DOMAIN b /\ Len(a) + (i - Len(a)) = i
      BY <1>2, <2>2
    <3> QED
      BY <1>3, <2>2, <3>1
  <2> QED
    BY <1>2, <2>1, <2>2
<1>5. Addresses(j) = Addresses(a) \cup Addresses(b)
  <2>1. \A i \in DOMAIN j : j[i].url \in Addresses(a) \cup Addresses(b)
    BY <1>4 DEF Addresses
  <2>2. \A i \in DOMAIN a : a[i].url \in Addresses(j)
    BY <1>3 DEF Addresses
  <2>3. \A i \in DOMAIN b : b[i].url \in Addresses(j)
    BY <1>3 DEF Addresses
  <2> QED
    BY <2>1, <2>2, <2>3 DEF Addresses
<1>6. ASSUME Apart(a), Apart(b), Addresses(a) \cap Addresses(b) = {},
             NEW i \in DOMAIN j, NEW k \in DOMAIN j, i # k
      PROVE  j[i].url # j[k].url
  <2>1. CASE i \in DOMAIN a /\ k \in DOMAIN a
    BY <1>3, <1>6, <2>1 DEF Apart
  <2>2. CASE i \notin DOMAIN a /\ k \notin DOMAIN a
    <3>1. i - Len(a) # k - Len(a)
      BY <1>2, <1>6
    <3> QED
      BY <1>4, <1>6, <2>2, <3>1 DEF Apart
  <2>3. CASE i \in DOMAIN a /\ k \notin DOMAIN a
    BY <1>3, <1>4, <1>6, <2>3 DEF Addresses
  <2>4. CASE i \notin DOMAIN a /\ k \in DOMAIN a
    BY <1>3, <1>4, <1>6, <2>4 DEF Addresses
  <2> QED
    BY <2>1, <2>2, <2>3, <2>4
<1>7. ASSUME NEW seen, SeenLast(a, seen), Addresses(b) \subseteq seen,
             NEW i \in DOMAIN j, NEW k \in DOMAIN j, i < k, j[i].url \in seen
      PROVE  j[k].url \in seen
  <2>1. CASE k \in DOMAIN a
    <3>1. i \in DOMAIN a
      BY <1>2, <1>7, <2>1
    <3> QED
      BY <1>3, <1>7, <2>1, <3>1 DEF SeenLast
  <2>2. CASE k \notin DOMAIN a
    BY <1>4, <1>7, <2>2 DEF Addresses
  <2> QED
    BY <2>1, <2>2
<1>8. ASSUME NEW us, NEW pub, UpToDate(a, us, pub), UpToDate(b, us, pub)
      PROVE  UpToDate(j, us, pub)
  BY <1>4, <1>8 DEF UpToDate
<1>9. Apart(a) /\ Apart(b) /\ Addresses(a) \cap Addresses(b) = {} => Apart(j)
  BY <1>6 DEF Apart
<1>10. \A seen : SeenLast(a, seen) /\ Addresses(b) \subseteq seen => SeenLast(j, seen)
  BY <1>7 DEF SeenLast
<1> QED
  BY <1>1, <1>2, <1>5, <1>8, <1>9, <1>10 DEF j

LEMMA OneRead ==
    ASSUME NEW r \in [url: Urls, reading: Readings]
    PROVE  /\ <<r>> \in Reads /\ Addresses(<<r>>) = {r.url} /\ Apart(<<r>>)
           /\ \A us, pub : (r.reading.version # 0 => Newest(r.url, r.reading.version, us, pub))
                           => UpToDate(<<r>>, us, pub)
           /\ \A reads \in Reads : Append(reads, r) = reads \o <<r>>
<1> DEFINE R == [url: Urls, reading: Readings]
<1>1. r \in R /\ Reads = Seq(R)
  BY DEF Reads
<1> HIDE DEF R
<1>2. <<r>> \in Seq(R) /\ DOMAIN <<r>> = {1} /\ <<r>>[1] = r
  BY <1>1
<1>3. \A reads \in Seq(R) : Append(reads, r) = reads \o <<r>>
  BY <1>1
<1> QED
  BY <1>1, <1>2, <1>3 DEF Addresses, Apart, UpToDate

LEMMA NoRead ==
    /\ <<>> \in Reads /\ Addresses(<<>>) = {} /\ Apart(<<>>)
    /\ \A seen : SeenLast(<<>>, seen)
    /\ \A us, pub : UpToDate(<<>>, us, pub)
  BY DEF Reads, Addresses, Apart, SeenLast, UpToDate

-------------------------------------------------------------------------------
(* The order survives a step.                                                *)
LEMMA OrderlyAfter ==
    ASSUME VersionsInOrder',
           \A k \in DOMAIN updates' : updates'[k].version <= web'[updates'[k].url],
           Tidy(saved'[feed'.check], updates', web'), Tidy(receipts'[feed'.check], updates', web'),
           \A w \in Workers : exec'[w].pc \in Reading =>
               exec'[w].state.items[1] \notin Addresses(exec'[w].state.resume),
           \A w \in Workers, c \in Checks :
               Claims(w, c)' /\ exec'[w].pc = "fetched" /\ exec'[w].doc # 0 =>
                   Newest(exec'[w].state.items[1], exec'[w].doc, updates', web')
    PROVE  OrderInv'
  BY DEF OrderInv, Tidy, Newest, UpToDate, Addresses, Apart, SeenLast

(* Publishing only adds versions.                                            *)
Published ==
    web \in [Urls -> 1..Versions] /\ web' \in [Urls -> 1..Versions]
    /\ \A u \in Urls : web[u] <= web'[u]

LEMMA TidyPublished ==
    ASSUME Published, NEW us, NEW s \in States, Sound(s), Tidy(s, us, web)
    PROVE  Tidy(s, us, web')
<1>1. ASSUME NEW u \in Urls, NEW v \in Nat, Newest(u, v, us, web) PROVE Newest(u, v, us, web')
  BY <1>1 DEF Published, Newest
<1>2. ASSUME NEW reads \in Reads, UpToDate(reads, us, web) PROVE UpToDate(reads, us, web')
  <2>1. \A i \in DOMAIN reads : reads[i].url \in Urls /\ reads[i].reading.version \in Nat
    BY ReadFields, ReadingFields, FeedAssumption
  <2> QED
    BY <1>1, <1>2, <2>1 DEF UpToDate
<1>3. s.resume \in Reads /\ s.retry \in Reads /\ s.reading.version \in Nat
  BY StateFields, ReadingFields, FeedAssumption
<1>4. s.reading.version # 0 => s.items[1] \in Urls
  BY StateFields DEF Sound, WellRead
<1> QED
  BY <1>1, <1>2, <1>3, <1>4 DEF Tidy

LEMMA QuietOrderly ==
    ASSUME FeedInv, OrderInv, feed'.check = feed.check, UNCHANGED <<saved, receipts, updates>>,
           Published,
           \A w \in Workers :
               \/ exec'[w].pc \notin Reading
               \/ /\ exec'[w] = exec[w]
                  /\ \A c \in Checks : Claims(w, c)' => Claims(w, c)
    PROVE  OrderInv'
<1>1. VersionsInOrder'
  BY DEF OrderInv, VersionsInOrder
<1>2. /\ \A k \in DOMAIN updates : updates[k].url \in Urls /\ updates[k].version \in Nat
      /\ \A w \in Workers : exec[w].doc \in Nat
  <2> DEFINE U == [url: Urls, version: 1..Versions]
  <2>1. updates \in Seq(U)
    BY Records DEF Facts
  <2> HIDE DEF U
  <2>2. \A k \in DOMAIN updates : updates[k] \in U
    BY <2>1
  <2> QED
    BY <2>2, WorkerTypes, FeedAssumption DEF U
<1>3. \A k \in DOMAIN updates' : updates'[k].version <= web'[updates'[k].url]
  BY <1>2 DEF OrderInv, Published
<1>4. Tidy(saved'[feed'.check], updates', web') /\ Tidy(receipts'[feed'.check], updates', web')
  BY Records, TidyPublished DEF OrderInv
<1>5. \A w \in Workers : exec'[w].pc \in Reading =>
          exec'[w].state.items[1] \notin Addresses(exec'[w].state.resume)
  BY DEF OrderInv
<1>6. ASSUME NEW w \in Workers, NEW c \in Checks, Claims(w, c)', exec'[w].pc = "fetched",
             exec'[w].doc # 0
      PROVE  Newest(exec'[w].state.items[1], exec'[w].doc, updates', web')
  <2>1. exec'[w] = exec[w] /\ Claims(w, c)
    BY <1>6 DEF Reading
  <2>2. Newest(exec[w].state.items[1], exec[w].doc, updates, web)
    BY <1>6, <2>1 DEF OrderInv
  <2>3. exec[w].state.items[1] \in Urls
    BY <1>6, <2>1, WorkerTypes, StateFields DEF InStep, Due
  <2> QED
    BY <1>2, <2>1, <2>2, <2>3 DEF Newest, Published
<1> QED
  BY <1>1, <1>3, <1>4, <1>5, <1>6, OrderlyAfter

LEMMA SameWeb == FeedInv /\ web' = web => Published
<1> SUFFICES ASSUME FeedInv, web' = web PROVE Published
  OBVIOUS
<1>1. web \in [Urls -> 1..Versions]
  BY InvTypes DEF Rows
<1> QED
  BY <1>1, FeedAssumption DEF Published

LEMMA OthersOrderly ==
    ASSUME FeedInv, OrderInv,
           \/ ContextChanges \/ OwnerChanges \/ UNCHANGED vars
           \/ \E u \in Urls : Publish(u)
           \/ \E c \in Checks : Queue(c) \/ ExpireEarly(c)
    PROVE  OrderInv'
<1>1. feed'.check = feed.check /\ UNCHANGED <<saved, receipts, exec, updates>>
  BY Records DEF ContextChanges, OwnerChanges, Publish, Queue, Expire, Reconcile,
     ExpireEarly, Resettled, vars, rowVars, factVars, envVars, FeedRows
<1>2. Published
  <2>1. CASE \E u \in Urls : Publish(u)
    <3>1. PICK u \in Urls : web[u] < Versions /\ web' = [web EXCEPT ![u] = web[u] + 1]
      BY <2>1 DEF Publish
    <3>2. web \in [Urls -> 1..Versions] /\ Versions \in Nat
      BY InvTypes, FeedAssumption DEF Rows
    <3> QED
      BY <3>1, <3>2 DEF Published
  <2>2. CASE ~\E u \in Urls : Publish(u)
    BY <2>2, SameWeb DEF ContextChanges, OwnerChanges, Queue, Expire, Reconcile, ExpireEarly,
       vars, envVars
  <2> QED
    BY <2>1, <2>2
<1>3. \A c \in Checks : job'[c].state = "running" =>
          job[c].state = "running" /\ job'[c].holder = job[c].holder
  <2>1. CASE job' = job
    BY <2>1
  <2>2. ASSUME NEW c \in Checks, Expire(c) \/ ExpireEarly(c) \/ Reconcile(c)
        PROVE  \A d \in Checks : job'[d].state = "running" =>
                   job[d].state = "running" /\ job'[d].holder = job[d].holder
    <3>1. PICK j : /\ job' = [job EXCEPT ![c] = j]
                   /\ j.state = "running" => job[c].state = "running" /\ j.holder = job[c].holder
      <4>1. job[c] \in JobRows
        BY InvTypes DEF Rows
      <4>2. /\ [job[c] EXCEPT !.fresh = FALSE].state = job[c].state
            /\ [job[c] EXCEPT !.fresh = FALSE].holder = job[c].holder
            /\ [NewJob EXCEPT !.state = Recovered(c), !.attempts = job[c].attempts].state # "running"
        BY <4>1 DEF JobRows, NewJob, Recovered
      <4>3. CASE Expire(c) \/ ExpireEarly(c)
        BY <4>2, <4>3 DEF Expire, ExpireEarly
      <4>4. CASE Reconcile(c)
        BY <4>2, <4>4 DEF Reconcile
      <4> QED
        BY <2>2, <4>3, <4>4
    <3>2. job \in [Checks -> JobRows]
      BY InvTypes DEF Rows
    <3> QED
      BY <3>1, <3>2
  <2> QED
    BY <2>1, <2>2 DEF ContextChanges, OwnerChanges, Publish, Queue, vars, rowVars
<1>4. \A w \in Workers, c \in Checks : Claims(w, c)' => Claims(w, c)
  BY <1>1, <1>3 DEF Claims
<1> QED
  BY <1>1, <1>2, <1>4, QuietOrderly

LEMMA TurnsOrderly ==
    ASSUME FeedInv, OrderInv,
           \/ \E c \in Checks : Claim(c)
           \/ \E w \in Workers : Lost(w) \/ Refused(w) \/ Crash(w) \/ Drop(w)
    PROVE  OrderInv'
<1>1. UNCHANGED <<feed, saved, receipts, updates, web>>
  BY DEF Claim, Lost, Refused, Crash, Drop, rowVars, factVars, envVars
<1>2. /\ exec \in [Workers -> Executions] /\ job \in [Checks -> JobRows]
      /\ Idle.pc \notin Reading
      /\ \A c : [Idle EXCEPT !.pc = "claimed", !.check = c].pc \notin Reading
      /\ \A w \in Workers : [exec[w] EXCEPT !.pc = "drop"].pc \notin Reading
  BY InvTypes, WorkerTypes DEF Rows, Executions, Idle, Reading
<1>3. ASSUME NEW v \in Workers
      PROVE  \/ exec'[v].pc \notin Reading
             \/ /\ exec'[v] = exec[v]
                /\ \A c \in Checks : Claims(v, c)' => Claims(v, c)
  <2>1. ASSUME NEW c \in Checks, Claim(c)
        PROVE  \/ exec'[v].pc \notin Reading
               \/ exec'[v] = exec[v] /\ \A d \in Checks : Claims(v, d)' => Claims(v, d)
    <3> DEFINE w == One(IdleWorkers)
               j == [state |-> "running", attempts |-> job[c].attempts + 1, holder |-> w,
                     fresh |-> TRUE]
    <3>1. w \in Workers
      BY <2>1 DEF Claim, One, IdleWorkers
    <3>2. /\ job' = [job EXCEPT ![c] = j] /\ j.holder = w
          /\ exec' = [exec EXCEPT ![w] = [Idle EXCEPT !.pc = "claimed", !.check = c]]
      BY <2>1 DEF Claim
    <3> HIDE DEF w, j
    <3>3. CASE v = w
      BY <1>2, <3>1, <3>2, <3>3
    <3>4. CASE v # w
      BY <1>2, <3>1, <3>2, <3>4 DEF Claims
    <3> QED
      BY <3>3, <3>4
  <2>2. ASSUME NEW w \in Workers, Lost(w) \/ Refused(w) \/ Crash(w) \/ Drop(w)
        PROVE  \/ exec'[v].pc \notin Reading
               \/ exec'[v] = exec[v] /\ \A d \in Checks : Claims(v, d)' => Claims(v, d)
    <3>1. PICK e : exec' = [exec EXCEPT ![w] = e] /\ e.pc \notin Reading
      <4>1. CASE Refused(w)
        BY <1>2, <4>1 DEF Refused
      <4>2. CASE Lost(w) \/ Crash(w) \/ Drop(w)
        <5>1. exec' = [exec EXCEPT ![w] = Idle]
          BY <4>2 DEF Lost, Crash, Drop, Leaves
        <5> QED
          BY <1>2, <5>1
      <4> QED
        BY <2>2, <4>1, <4>2
    <3>2. \A d \in Checks : job'[d].state = "running" =>
              job[d].state = "running" /\ job'[d].holder = job[d].holder
      <4>1. CASE job' = job
        BY <4>1
      <4>2. CASE Drop(w) /\ job' # job
        <5>1. /\ job' = [job EXCEPT ![exec[w].check] = [NewJob EXCEPT !.state = "cancelled"]]
              /\ [NewJob EXCEPT !.state = "cancelled"].state # "running"
          BY <4>2 DEF Drop, Cancelled, NewJob
        <5> QED
          BY <1>2, <5>1
      <4> QED
        BY <2>2, <4>1, <4>2 DEF Lost, Refused, Crash, rowVars
    <3> QED
      BY <1>2, <3>1, <3>2 DEF Claims
  <2> QED
    BY <2>1, <2>2
<1> QED
  BY <1>1, <1>3, SameWeb, QuietOrderly

(* A worker whose claim is in force works on the newest check, on what it    *)
(* saved.                                                                    *)
LEMMA ClaimedCheck ==
    ASSUME FeedInv, NEW w \in Workers, NEW c \in Checks, Claims(w, c)
    PROVE  /\ feed.check = c
           /\ exec[w].pc \in Holding => exec[w].state = saved[feed.check]
<1>1. Live(c) /\ Unfinished(c) /\ feed.check = c
  BY DEF Claims, Live, FeedInv, Bookkeeping, UnfinishedIsCurrent
<1> QED
  BY <1>1 DEF Claims, FeedInv, Copies, Holding

LEMMA FetchOrderly ==
    ASSUME FeedInv, OrderInv, NEW w \in Workers, Fetch(w) \/ FetchFails(w)
    PROVE  OrderInv'
<1> DEFINE s == exec[w].state
           u == s.items[1]
<1>1. PICK n : /\ At(w, "read") /\ UNCHANGED <<feed, job, saved, receipts, updates, web>>
               /\ exec' = [exec EXCEPT ![w] = [exec[w] EXCEPT !.pc = "fetched", !.doc = n]]
               /\ n # 0 => n = IF s.reading.version # 0 THEN s.reading.version ELSE web[u]
  BY DEF Fetch, FetchFails, rowVars, factVars, envVars
<1> DEFINE e == [exec[w] EXCEPT !.pc = "fetched", !.doc = n]
<1>2. exec[w] \in Executions /\ exec \in [Workers -> Executions] /\ s \in States /\ Sound(s)
  BY WorkerTypes
<1>3. e.pc = "fetched" /\ e.doc = n /\ e.state = s /\ e.check = exec[w].check
  BY <1>2 DEF Executions
<1> HIDE DEF e
<1>4. VersionsInOrder' /\ \A k \in DOMAIN updates' : updates'[k].version <= web'[updates'[k].url]
  BY <1>1 DEF OrderInv, VersionsInOrder
<1>5. ASSUME NEW v \in Workers, exec'[v].pc \in Reading
      PROVE  exec'[v].state.items[1] \notin Addresses(exec'[v].state.resume)
  <2>1. CASE v = w
    BY <1>1, <1>2, <1>3, <2>1 DEF OrderInv, At, Reading, e
  <2>2. CASE v # w
    BY <1>1, <1>2, <1>5, <2>2 DEF OrderInv
  <2> QED
    BY <2>1, <2>2
<1>6. ASSUME NEW v \in Workers, NEW c \in Checks, Claims(v, c)', exec'[v].pc = "fetched",
             exec'[v].doc # 0
      PROVE  Newest(exec'[v].state.items[1], exec'[v].doc, updates, web)
  <2>1. CASE v = w
    <3>1. exec'[w] = e
      BY <1>1, <1>2 DEF e
    <3>2. Claims(w, c)
      BY <1>1, <1>3, <1>6, <2>1, <3>1 DEF Claims
    <3>3. Tidy(s, updates, web)
      BY <1>1, <3>2, ClaimedCheck DEF OrderInv, At, Holding
    <3>4. u \in Urls /\ web[u] \in Nat
      <4>1. u \in Urls
        BY <1>1, <1>2, WorkerTypes, StateFields DEF InStep, Due, At
      <4> QED
        BY <4>1, InvTypes, FeedAssumption DEF Rows
    <3>5. Newest(u, web[u], updates, web)
      BY <3>4 DEF OrderInv, Newest
    <3>6. s.reading.version # 0 => Newest(u, s.reading.version, updates, web)
      BY <3>3 DEF Tidy
    <3> QED
      BY <1>1, <1>3, <1>6, <2>1, <3>1, <3>5, <3>6
  <2>2. CASE v # w
    <3>1. exec'[v] = exec[v]
      BY <1>1, <1>2, <2>2
    <3> QED
      BY <1>1, <1>6, <3>1 DEF OrderInv, Claims
  <2> QED
    BY <2>1, <2>2
<1> QED
  BY <1>1, <1>4, <1>5, <1>6, OrderlyAfter DEF OrderInv

(* The head of the list stays where it is unless it was seen.                *)
LEMMA AheadHead ==
    ASSUME NEW s \in States, s.items # <<>>, s.items[1] \notin s.seen
    PROVE  Ahead(s).items[1] = s.items[1]
<1> DEFINE next == CHOOSE k \in Unseen(s) : \A l \in Unseen(s) : k <= l
<1>1. /\ s.items \in Seq(Urls) /\ 1 \in DOMAIN s.items /\ Len(s.items) \in Nat
      /\ DOMAIN s.items = 1..Len(s.items)
  BY StateFields
<1>2. CASE s.reading.version # 0
  BY <1>2 DEF Ahead
<1>3. CASE s.reading.version = 0
  <2>1. 1 \in Unseen(s) /\ \A l \in Unseen(s) : 1 <= l
    BY <1>1 DEF Unseen
  <2>2. next = 1
    <3>1. next \in Unseen(s) /\ \A l \in Unseen(s) : next <= l
      BY <2>1
    <3> HIDE DEF next
    <3> QED
      BY <1>1, <2>1, <3>1 DEF Unseen
  <2>3. Ahead(s) = [s EXCEPT !.items = SubSeq(s.items, 1, Len(s.items))]
    BY <1>3, <2>1, <2>2 DEF Ahead
  <2>4. Ahead(s).items = SubSeq(s.items, 1, Len(s.items))
    BY <2>3, StateShape
  <2>5. SubSeq(s.items, 1, Len(s.items))[1] = s.items[1]
    BY <1>1
  <2> QED
    BY <2>4, <2>5
<1> QED
  BY <1>2, <1>3

(* What is opened is tidy, and nothing is read that is left over.            *)
LEMMA OpenedTidy ==
    ASSUME FeedInv, NEW s \in States, Sound(s), NEW us, NEW pub, Tidy(s, us, pub)
    PROVE  LET t == Prepared(NextGate(s)) IN
           /\ Tidy(t, us, pub)
           /\ Phase(t) = "read" => t.items[1] \notin Addresses(t.resume)
<1> DEFINE g == NextGate(s)
           r == Resumed(g)
           a == Ahead(r)
           t == Prepared(g)
<1>1. g \in States /\ Sound(g) /\ Tidy(g, us, pub)
  <2>1. g \in States /\ Sound(g)
    BY Records, NextGateState DEF Facts
  <2> HIDE DEF g
  <2>2. Abides(s, g) /\ g.items = s.items /\ g.reading = s.reading /\ g.resume = s.resume
    BY GateShape DEF g
  <2> QED
    BY <2>1, <2>2 DEF Tidy, Abides
<1> HIDE DEF g
<1>2. r \in States /\ Sound(r)
  BY <1>1, ResumedState
<1>3. ASSUME g.reading.version = 0, g.resume # <<>>
      PROVE  /\ Tidy(r, us, pub)
             /\ r.items # <<>> /\ r.items[1] \notin Addresses(r.resume)
             /\ r.items[1] \in r.seen => Addresses(r.resume) \subseteq r.seen
  <2> DEFINE h == g.resume[1]
             rest == Tail(g.resume)
  <2>1. /\ h.url \in Urls /\ Abides(g, r) /\ r.items = <<h.url>> \o g.items
        /\ r.reading = h.reading /\ r.resume = rest
    BY <1>1, <1>3, ResumedShape
  <2>2. g.resume \in Reads /\ Apart(g.resume)
    BY <1>1, StateFields DEF Tidy
  <2>3. /\ Apart(rest) /\ Addresses(rest) \subseteq Addresses(g.resume)
        /\ h.url \in Addresses(g.resume) \ Addresses(rest)
        /\ SeenLast(rest, g.seen) /\ (h.url \in g.seen => Addresses(rest) \subseteq g.seen)
        /\ UpToDate(rest, us, pub)
        /\ h.reading.version # 0 => Newest(h.url, h.reading.version, us, pub)
    BY <1>1, <1>3, <2>2, ReadsTail DEF Tidy
  <2>4. r.items # <<>> /\ r.items[1] = h.url
    <3>1. g.items \in Seq(Urls)
      BY <1>1, StateFields
    <3> HIDE DEF h, r
    <3> QED
      BY <2>1, <3>1
  <2> HIDE DEF h, rest, r
  <2> QED
    BY <1>1, <2>1, <2>3, <2>4 DEF Tidy, Abides
<1>4. ASSUME ~(g.reading.version = 0 /\ g.resume # <<>>)
      PROVE  r = g
  BY <1>4 DEF Resumed
<1>5. Tidy(r, us, pub)
  BY <1>1, <1>3, <1>4
<1>6. /\ Abides(r, a) /\ a.reading = r.reading /\ a.resume = r.resume
      /\ r.reading.version # 0 => a.items = r.items
      /\ a.items # <<>> => a.reading.version # 0 \/ a.items[1] \notin a.seen
  BY <1>2, AheadShape, AheadState
<1>7. r.items # <<>> /\ r.items[1] \notin r.seen => a.items[1] = r.items[1]
  BY <1>2, AheadHead
<1> HIDE DEF r, a
<1>8. Tidy(a, us, pub)
  BY <1>5, <1>6 DEF Tidy, Abides
<1>9. a.items # <<>> => a.items[1] \notin Addresses(a.resume)
  <2> SUFFICES ASSUME a.items # <<>> PROVE a.items[1] \notin Addresses(a.resume)
    OBVIOUS
  <2>1. CASE a.reading.version # 0
    BY <1>8, <2>1 DEF Tidy
  <2>2. CASE a.reading.version = 0 /\ g.reading.version = 0 /\ g.resume # <<>>
    <3>1. CASE r.items[1] \in r.seen
      BY <1>3, <1>6, <2>2, <3>1 DEF Abides
    <3>2. CASE r.items[1] \notin r.seen
      BY <1>3, <1>6, <1>7, <2>2, <3>2
    <3> QED
      BY <3>1, <3>2
  <2>3. CASE a.reading.version = 0 /\ ~(g.reading.version = 0 /\ g.resume # <<>>)
    <3>1. r = g /\ g.resume = <<>>
      BY <1>4, <1>6, <2>3
    <3> QED
      BY <1>6, <3>1, NoRead
  <2> QED
    BY <2>1, <2>2, <2>3
<1>10. t = IF g.plan /\ g.gate = 0 THEN a ELSE g
  BY DEF Prepared, a, r
<1> HIDE DEF t
<1>11. Phase(t) = "read" => t = a /\ a.items # <<>>
  BY <1>10 DEF Phase
<1> QED
  BY <1>1, <1>8, <1>9, <1>10, <1>11 DEF t, g

LEMMA OpenOrderly == ASSUME FeedInv, OrderInv, NEW w \in Workers, Open(w) PROVE OrderInv'
<1> DEFINE c == exec[w].check
           t == Prepared(NextGate(saved[c]))
           e == [exec[w] EXCEPT !.pc = Phase(t), !.state = t]
<1>1. /\ Current(w) /\ saved' = [saved EXCEPT ![c] = t]
      /\ exec' = [exec EXCEPT ![w] = e] /\ UNCHANGED <<job, receipts, updates, feed, web>>
  BY DEF Open, factVars, envVars
<1>2. c \in Checks /\ feed.check = c
  BY <1>1, WorkerTypes, CurrentCheck DEF Open, At
<1>3. /\ Tidy(t, updates, web)
      /\ Phase(t) = "read" => t.items[1] \notin Addresses(t.resume)
  BY <1>2, Records, OpenedTidy DEF OrderInv
<1>4. e.pc = Phase(t) /\ e.state = t /\ e.check = c /\ exec \in [Workers -> Executions]
  BY WorkerTypes DEF Executions
<1>5. Phase(t) # "fetched"
  BY DEF Phase
<1> HIDE DEF t, e
<1>6. saved'[c] = t
  BY <1>1, <1>2, Records
<1>7. VersionsInOrder' /\ \A k \in DOMAIN updates' : updates'[k].version <= web'[updates'[k].url]
  BY <1>1 DEF OrderInv, VersionsInOrder
<1>8. ASSUME NEW v \in Workers, exec'[v].pc \in Reading
      PROVE  exec'[v].state.items[1] \notin Addresses(exec'[v].state.resume)
  <2>1. CASE v = w
    BY <1>1, <1>3, <1>4, <1>5, <1>8, <2>1 DEF Reading
  <2>2. CASE v # w
    BY <1>1, <1>4, <1>8, <2>2 DEF OrderInv
  <2> QED
    BY <2>1, <2>2
<1>9. ASSUME NEW v \in Workers, NEW d \in Checks, Claims(v, d)', exec'[v].pc = "fetched",
             exec'[v].doc # 0
      PROVE  Newest(exec'[v].state.items[1], exec'[v].doc, updates, web)
  <2>1. v # w /\ exec'[v] = exec[v]
    BY <1>1, <1>4, <1>5, <1>9
  <2> QED
    BY <1>1, <1>9, <2>1 DEF OrderInv, Claims
<1> QED
  BY <1>1, <1>2, <1>3, <1>6, <1>7, <1>8, <1>9, OrderlyAfter DEF OrderInv

-------------------------------------------------------------------------------
(* What was read is retained nowhere else, and is the newest of its address. *)
LEMMA FetchedNewest ==
    ASSUME FeedInv, OrderInv, NEW w \in Workers, Current(w), At(w, "fetched")
    PROVE  LET s == exec[w].state
               u == s.items[1] IN
           /\ s \in States /\ Sound(s) /\ Tidy(s, updates, web)
           /\ u \in Urls /\ s.items # <<>>
           /\ u \notin Addresses(s.resume) \cup Addresses(s.retry)
           /\ exec[w].doc # 0 => exec[w].doc \in 1..Versions /\ Newest(u, exec[w].doc, updates, web)
<1> DEFINE s == exec[w].state
           u == s.items[1]
<1>1. exec[w].pc \in Holding /\ exec[w].pc \in Reading
  BY DEF At, Holding, Reading
<1>2. /\ s \in States /\ Sound(s) /\ s = saved[feed.check] /\ Tidy(s, updates, web)
      /\ exec[w].check \in Checks /\ Claims(w, exec[w].check)
  BY <1>1, HeldCheckpoint DEF OrderInv, Claims
<1>3. /\ s.items # <<>> /\ (s.reading.version # 0 \/ u \notin s.seen)
      /\ exec[w].doc # 0 => exec[w].doc \in 1..Versions
  BY FetchedTypes DEF Due
<1>4. u \in Urls
  BY <1>2, <1>3, TailLists
<1>5. u \notin Addresses(s.resume)
  BY <1>1 DEF OrderInv
<1>6. u \notin Addresses(s.retry)
  BY <1>2, <1>3 DEF Tidy
<1>7. exec[w].doc # 0 => Newest(u, exec[w].doc, updates, web)
  BY <1>2 DEF OrderInv, At
<1> QED
  BY <1>2, <1>3, <1>4, <1>5, <1>6, <1>7

(* A step that ends leaves no claim in force.                                *)
LEMMA EndsOrderly ==
    ASSUME FeedInv, OrderInv, NEW w \in Workers, NEW t \in States, Ends(w, t),
           VersionsInOrder',
           \A k \in DOMAIN updates' : updates'[k].version <= web'[updates'[k].url],
           Tidy(t, updates', web)
    PROVE  OrderInv'
<1> DEFINE c == exec[w].check
<1>1. /\ Current(w) /\ Leaves(w) /\ saved' = [saved EXCEPT ![c] = t]
      /\ receipts' = [receipts EXCEPT ![c] = t] /\ feed'.check = feed.check /\ web' = web
      /\ \E j : j.state # "running" /\ job' = [job EXCEPT ![c] = j]
  BY DEF Ends, Saves
<1>2. c \in Checks /\ feed.check = c
  BY <1>1, HeldCheckpoint DEF Ends
<1>3. saved'[c] = t /\ receipts'[c] = t
  BY <1>1, <1>2, Records
<1>4. \A v \in Workers : exec'[v] = IF v = w THEN Idle ELSE exec[v]
  BY <1>1, LeavesIdle
<1>5. \A v \in Workers : exec'[v].pc \in Reading =>
          exec'[v].state.items[1] \notin Addresses(exec'[v].state.resume)
  BY <1>4 DEF OrderInv, Idle, Reading
<1>6. \A v \in Workers, d \in Checks : ~Claims(v, d)'
  <2> SUFFICES ASSUME NEW v \in Workers, NEW d \in Checks, Claims(v, d)' PROVE FALSE
    OBVIOUS
  <2>1. job \in [Checks -> JobRows]
    BY InvTypes DEF Rows
  <2>2. d # c /\ job'[d] = job[d]
    BY <1>1, <1>2, <2>1 DEF Claims
  <2>3. Live(d)
    BY <2>2 DEF Claims, Live
  <2>4. feed.check = d
    BY <2>3 DEF FeedInv, Bookkeeping, UnfinishedIsCurrent
  <2> QED
    BY <1>2, <2>2, <2>4
<1> QED
  BY <1>1, <1>2, <1>3, <1>5, <1>6, OrderlyAfter

LEMMA OutcomeOrderly ==
    ASSUME FeedInv, OrderInv, NEW w \in Workers, NEW t \in States, OutcomeOf(w, t)
    PROVE  OrderInv'
<1> DEFINE s == exec[w].state
           u == s.items[1]
           doc == exec[w].doc
           R == [url: Urls, reading: Readings]
<1>1. Ends(w, t) /\ Current(w) /\ web' = web
  BY DEF OutcomeOf, Ends, Saves
<1>2. s \in States /\ Sound(s) /\ Tidy(s, updates, web)
  BY <1>1, HeldCheckpoint DEF Ends, OrderInv
<1>3. ASSUME At(w, "fetched")
      PROVE  /\ u \in Urls /\ s.items # <<>>
             /\ u \notin Addresses(s.resume) \cup Addresses(s.retry)
             /\ doc # 0 => doc \in 1..Versions /\ Newest(u, doc, updates, web)
             /\ SeenLast(s.resume, s.seen \cup {u})
  <2>1. u \notin Addresses(s.resume) \cup Addresses(s.retry)
    BY <1>1, <1>3, FetchedNewest
  <2>2. SeenLast(s.resume, s.seen \cup {u})
    BY <1>2, <2>1 DEF Tidy, SeenLast, Addresses
  <2> QED
    BY <1>1, <1>3, <2>1, <2>2, FetchedNewest
<1>4. ASSUME UNCHANGED updates, Tidy(t, updates, web) PROVE OrderInv'
  <2>1. VersionsInOrder' /\ \A k \in DOMAIN updates' : updates'[k].version <= web'[updates'[k].url]
    BY <1>1, <1>4 DEF OrderInv, VersionsInOrder
  <2> QED
    BY <1>1, <1>4, <2>1, EndsOrderly
<1>5. CASE Rests(w, t)
  BY <1>2, <1>4, <1>5 DEF Rests, Tidy, Abides
<1>6. CASE Finds(w, t)
  <2>1. s.reading.version = 0
    BY <1>2, <1>6 DEF Finds, Sound, WellRead
  <2> QED
    BY <1>2, <1>4, <1>6, <2>1 DEF Finds, Tidy, Abides
<1>7. CASE PutsOff(w, t)
  <2> DEFINE kept == Kept(s, doc)
             r == [url |-> u, reading |-> kept]
  <2>1. /\ At(w, "fetched") /\ Behind(s, t) /\ t.retry = Append(s.retry, r) /\ UNCHANGED updates
    BY <1>7 DEF PutsOff
  <2>2. /\ kept \in Readings
        /\ kept.version # 0 => Newest(u, kept.version, updates, web)
    <3>1. CASE s.reading.version # 0 \/ doc = 0
      BY <1>2, <3>1, StateFields DEF Kept, Tidy
    <3>2. CASE s.reading.version = 0 /\ doc # 0
      <4>1. kept = [version |-> doc, parts |-> 0] /\ doc \in 1..Versions
        BY <1>3, <2>1, <3>2 DEF Kept
      <4>2. 0 \in 0..Portions
        BY FeedAssumption
      <4> QED
        BY <1>3, <2>1, <3>2, <4>1, <4>2, ReadingFields
    <3> QED
      BY <3>1, <3>2
  <2> HIDE DEF kept
  <2>3. r \in R /\ r.url = u /\ r.reading = kept /\ s.retry \in Reads
    BY <1>2, <1>3, <2>1, <2>2, StateFields
  <2> HIDE DEF r
  <2>4. t.retry = s.retry \o <<r>> /\ <<r>> \in Reads /\ Addresses(<<r>>) = {u}
    BY <2>1, <2>3, OneRead
  <2>5. /\ Addresses(t.retry) = Addresses(s.retry) \cup {u}
        /\ Apart(t.retry) /\ UpToDate(t.retry, updates, web)
    <3>1. Apart(<<r>>) /\ UpToDate(<<r>>, updates, web)
      BY <2>2, <2>3, OneRead
    <3>2. /\ Apart(s.retry) /\ UpToDate(s.retry, updates, web)
          /\ Addresses(s.retry) \cap Addresses(<<r>>) = {}
      BY <1>2, <1>3, <2>1, <2>4 DEF Tidy
    <3> QED
      BY <2>3, <2>4, <3>1, <3>2, ReadsJoined
  <2>6. Tidy(t, updates, web)
    BY <1>2, <1>3, <2>1, <2>5, ReadingFields DEF Tidy, Behind
  <2> QED
    BY <1>4, <2>1, <2>6
<1>8. CASE FollowsIndex(w, t)
  <2>1. Tidy(t, updates, web)
    BY <1>2, <1>3, <1>8, ReadingFields DEF FollowsIndex, Tidy, Behind
  <2> QED
    BY <1>4, <1>8, <2>1 DEF FollowsIndex
<1>9. CASE ReadsOn(w, t)
  <2>1. Tidy(t, updates, web)
    BY <1>2, <1>3, <1>9 DEF ReadsOn, Tidy, Abides
  <2> QED
    BY <1>4, <1>9, <2>1 DEF ReadsOn
<1>10. CASE Enters(w, t)
  <2> DEFINE new == [url |-> u, version |-> doc]
             U == [url: Urls, version: 1..Versions]
  <2>1. /\ At(w, "fetched") /\ doc # 0 /\ Behind(s, t) /\ t.retry = s.retry
        /\ updates' = IF Unchanged(u, doc) THEN updates ELSE Append(updates, new)
    BY <1>10 DEF Enters
  <2>2. /\ u \in Urls /\ doc \in 1..Versions /\ Newest(u, doc, updates, web)
        /\ u \notin Addresses(s.resume) \cup Addresses(s.retry)
        /\ SeenLast(s.resume, s.seen \cup {u})
    BY <1>3, <2>1
  <2>3. Tidy(t, updates, web)
    BY <1>2, <2>1, <2>2, ReadingFields DEF Tidy, Behind
  <2>4. CASE Unchanged(u, doc)
    BY <1>4, <2>1, <2>3, <2>4
  <2>5. CASE ~Unchanged(u, doc)
    <3>1. new \in U /\ updates \in Seq(U) /\ new.url = u /\ new.version = doc
      BY <2>2, Records DEF Facts
    <3> HIDE DEF U, new
    <3>2. /\ Len(updates) \in Nat /\ Len(updates) + 1 \in DOMAIN updates'
          /\ updates'[Len(updates) + 1] = new
          /\ \A k \in DOMAIN updates : /\ k \in Nat /\ k <= Len(updates) /\ k \in DOMAIN updates'
                                       /\ updates'[k] = updates[k] /\ updates[k] \in U
          /\ \A k \in DOMAIN updates' : k \in Nat /\ (k \in DOMAIN updates \/ k = Len(updates) + 1)
      BY <2>1, <2>5, <3>1, Appends DEF new
    <3>3. \A k \in DOMAIN updates : updates[k].url = u => updates[k].version < doc
      <4> SUFFICES ASSUME NEW k \in DOMAIN updates, updates[k].url = u, ~(updates[k].version < doc)
                   PROVE  FALSE
        OBVIOUS
      <4>1. updates[k].version \in Nat /\ doc \in Nat /\ updates[k].version <= doc
        BY <2>2, <3>2, FeedAssumption DEF Newest, U
      <4>2. updates[k] = [url |-> u, version |-> doc]
        BY <3>2, <4>1 DEF U
      <4>3. \A i \in DOMAIN updates : updates[i].url = u => i <= k
        <5> SUFFICES ASSUME NEW i \in DOMAIN updates, updates[i].url = u, i > k PROVE FALSE
          BY <3>2
        <5>1. updates[k].version < updates[i].version
          BY <4>2, <3>2 DEF OrderInv, VersionsInOrder
        <5>2. updates[i].version \in Nat /\ updates[i].version <= doc
          BY <2>2, <3>2, FeedAssumption DEF Newest, U
        <5> QED
          BY <4>1, <4>2, <5>1, <5>2
      <4> QED
        BY <2>5, <4>2, <4>3 DEF Unchanged
    <3>4. VersionsInOrder'
      <4> SUFFICES ASSUME NEW i \in DOMAIN updates', NEW k \in DOMAIN updates', i < k,
                          updates'[i].url = updates'[k].url
                   PROVE  updates'[i].version < updates'[k].version
        BY DEF VersionsInOrder
      <4>1. i \in DOMAIN updates
        BY <3>2
      <4>2. CASE k \in DOMAIN updates
        BY <3>2, <4>1, <4>2 DEF OrderInv, VersionsInOrder
      <4>3. CASE k = Len(updates) + 1
        BY <3>1, <3>2, <3>3, <4>1, <4>3
      <4> QED
        BY <3>2, <4>2, <4>3
    <3>5. \A k \in DOMAIN updates' : updates'[k].version <= web'[updates'[k].url]
      <4>1. doc <= web[u]
        BY <2>2 DEF Newest
      <4> QED
        BY <1>1, <3>1, <3>2, <4>1 DEF OrderInv
    <3>6. Tidy(t, updates', web)
      <4>1. ASSUME NEW x, NEW v, x # u, Newest(x, v, updates, web)
            PROVE  Newest(x, v, updates', web)
        BY <3>1, <3>2, <4>1 DEF Newest
      <4>2. ASSUME NEW reads, UpToDate(reads, updates, web), u \notin Addresses(reads)
            PROVE  UpToDate(reads, updates', web)
        BY <4>1, <4>2 DEF UpToDate, Addresses
      <4> QED
        BY <2>1, <2>2, <2>3, <4>2, ReadingFields DEF Tidy, Behind
    <3> QED
      BY <1>1, <3>4, <3>5, <3>6, EndsOrderly
  <2> QED
    BY <2>4, <2>5
<1> QED
  BY <1>5, <1>6, <1>7, <1>8, <1>9, <1>10 DEF OutcomeOf

-------------------------------------------------------------------------------
(* A new check takes the order over.                                         *)
LEMMA InheritedTidy ==
    ASSUME FeedInv, OrderInv, NEW f, Settings(f), NEW status
    PROVE  Tidy(Inherited(f.rev, f.scope, f.plan, status), updates, web)
<1> DEFINE last == feed.check
           old == receipts[last]
           fresh == [Fresh EXCEPT !.plan = f.plan]
           more == old.resume \o old.retry
           carried == [old EXCEPT !.resume = more, !.retry = <<>>, !.resumed = TRUE]
           rest == old.resume \o UnreadTail(old) \o old.retry
           left == [fresh EXCEPT !.resume = rest]
           x == [url |-> old.items[1], reading |-> old.reading]
<1>1. /\ old \in States /\ WellRead(old) /\ Tidy(old, updates, web)
      /\ old.resume \in Reads /\ old.retry \in Reads
  BY Records, StateFields DEF Sound, OrderInv
<1> HIDE DEF old
<1>2. /\ more \in Reads /\ Addresses(more) = Addresses(old.resume) \cup Addresses(old.retry)
      /\ Apart(more) /\ SeenLast(more, old.seen) /\ UpToDate(more, updates, web)
  BY <1>1, ReadsJoined DEF Tidy
<1> HIDE DEF more
<1>3. Tidy(carried, updates, web)
  <2>1. /\ carried.items = old.items /\ carried.reading = old.reading /\ carried.seen = old.seen
        /\ carried.resume = more /\ carried.retry = <<>>
    BY <1>1, StateShape
  <2> HIDE DEF carried
  <2> QED
    BY <1>1, <1>2, <2>1, NoRead DEF Tidy
<1>4. /\ fresh.items = Sources /\ fresh.reading.version = 0 /\ fresh.seen = {}
      /\ fresh.resume = <<>> /\ fresh.retry = <<>>
      /\ left.reading.version = 0 /\ left.seen = {} /\ left.resume = rest /\ left.retry = <<>>
  BY DEF Fresh, NoReading
<1>5. Tidy(fresh, updates, web)
  BY <1>4, NoRead DEF Tidy
<1>6. UnreadTail(old) \in Reads
  BY <1>1, UnreadTailReads
<1>7. /\ Apart(UnreadTail(old)) /\ UpToDate(UnreadTail(old), updates, web)
      /\ Addresses(UnreadTail(old)) \cap (Addresses(old.resume) \cup Addresses(old.retry)) = {}
  <2>1. CASE old.reading.version # 0
    <3>1. old.items # <<>> /\ old.items[1] \in Urls /\ old.reading \in Readings
      BY <1>1, <2>1, StateFields, TailLists DEF WellRead
    <3>2. UnreadTail(old) = <<x>>
      BY <2>1, <3>1 DEF UnreadTail
    <3>3. x \in [url: Urls, reading: Readings] /\ x.url = old.items[1] /\ x.reading = old.reading
      BY <3>1
    <3> HIDE DEF x
    <3>4. Addresses(<<x>>) = {old.items[1]} /\ Apart(<<x>>)
      BY <3>3, OneRead
    <3>5. UpToDate(<<x>>, updates, web)
      BY <1>1, <2>1, <3>3, OneRead DEF Tidy
    <3> QED
      BY <1>1, <2>1, <3>2, <3>4, <3>5 DEF Tidy
  <2>2. CASE old.reading.version = 0
    BY <2>2, NoRead DEF UnreadTail
  <2> QED
    BY <2>1, <2>2
<1>8. Apart(rest) /\ UpToDate(rest, updates, web)
  <2> DEFINE m == old.resume \o UnreadTail(old)
  <2>1. /\ m \in Reads /\ Apart(m) /\ UpToDate(m, updates, web)
        /\ Addresses(m) = Addresses(old.resume) \cup Addresses(UnreadTail(old))
    BY <1>1, <1>6, <1>7, ReadsJoined DEF Tidy
  <2> HIDE DEF m
  <2>2. Apart(m \o old.retry) /\ UpToDate(m \o old.retry, updates, web)
    BY <1>1, <1>7, <2>1, ReadsJoined DEF Tidy
  <2> QED
    BY <2>2 DEF m
<1> HIDE DEF rest, left, fresh
<1>9. Tidy(left, updates, web)
  BY <1>4, <1>8, NoRead DEF Tidy, SeenLast
<1>10. Inherited(f.rev, f.scope, f.plan, status) \in {carried, left, fresh}
  BY DEF Inherited, old, fresh, more, carried, rest, left
<1> QED
  BY <1>3, <1>5, <1>9, <1>10

LEMMA ReplacedOrderly ==
    ASSUME FeedInv, OrderInv, Replaced
    PROVE  OrderInv'
<1>1. PICK f, jobs, status : Settings(f) /\ Closes(jobs, status) /\ Enqueued(f, jobs, status)
  BY DEF Replaced
<1> DEFINE last == feed.check
           c == One(Unused)
           t == Inherited(f.rev, f.scope, f.plan, status)
<1>2. /\ feed' = [f EXCEPT !.check = c] /\ job' = [jobs EXCEPT ![c] = NewJob]
      /\ saved' = [saved EXCEPT ![c] = t, ![last] = Fresh]
      /\ receipts' = [receipts EXCEPT ![c] = t, ![last] = Fresh]
      /\ UNCHANGED <<exec, updates, web>>
  BY <1>1 DEF Enqueued, Replaced
<1>3. c \in Checks /\ c # last
  <2>1. c \in Unused
    BY <1>1 DEF Enqueued, One
  <2> QED
    BY <2>1 DEF Unused
<1>4. Tidy(t, updates, web)
  BY <1>1, InheritedTidy
<1> HIDE DEF c, t
<1>5. feed'.check = c /\ saved'[c] = t /\ receipts'[c] = t
  BY <1>1, <1>2, <1>3, Records DEF Settings, FeedRows
<1>6. \A d \in Checks : job'[d].state = "running" =>
          job[d].state = "running" /\ job'[d].holder = job[d].holder
  <2>1. job \in [Checks -> JobRows] /\ last \in Checks
    BY InvTypes, Records DEF Rows
  <2>2. NewJob.state # "running" /\ [NewJob EXCEPT !.state = "cancelled"].state # "running"
    BY DEF NewJob
  <2>3. CASE jobs = job
    BY <1>2, <1>3, <2>1, <2>2, <2>3
  <2>4. CASE jobs = Cancelled(last)
    BY <1>2, <1>3, <2>1, <2>2, <2>4 DEF Cancelled
  <2> QED
    BY <1>1, <2>3, <2>4 DEF Closes
<1>7. \A w \in Workers, d \in Checks : Claims(w, d)' => Claims(w, d)
  BY <1>2, <1>6 DEF Claims
<1>8. VersionsInOrder' /\ \A k \in DOMAIN updates' : updates'[k].version <= web'[updates'[k].url]
  BY <1>2 DEF OrderInv, VersionsInOrder
<1>9. \A w \in Workers, d \in Checks :
          Claims(w, d)' /\ exec'[w].pc = "fetched" /\ exec'[w].doc # 0 =>
              Newest(exec'[w].state.items[1], exec'[w].doc, updates', web')
  BY <1>2, <1>7 DEF OrderInv
<1>10. \A w \in Workers : exec'[w].pc \in Reading =>
           exec'[w].state.items[1] \notin Addresses(exec'[w].state.resume)
  BY <1>2 DEF OrderInv
<1> QED
  BY <1>2, <1>4, <1>5, <1>8, <1>9, <1>10, OrderlyAfter

LEMMA ChangeOrderly ==
    ASSUME FeedInv, OrderInv, NEW active \in BOOLEAN,
           NEW scope \in {feed.scope, feed.scope + 1}, Change(active, scope)
    PROVE  OrderInv'
<1>1. web' = web
  BY DEF Change
<1>2. Replaced \/ Paused \/ Around
  BY ChangeStep
<1>3. CASE Paused
  <2>1. /\ feed'.check = feed.check /\ UNCHANGED <<saved, receipts, exec, updates>>
        /\ job' = [job EXCEPT ![feed.check] = [NewJob EXCEPT !.state = "cancelled"]]
    BY <1>3 DEF Paused, Settings, Cancelled
  <2>2. [NewJob EXCEPT !.state = "cancelled"].state # "running" /\ job \in [Checks -> JobRows]
    BY InvTypes DEF NewJob, Rows
  <2>3. \A w \in Workers, d \in Checks : Claims(w, d)' => Claims(w, d)
    BY <2>1, <2>2 DEF Claims
  <2> QED
    BY <1>1, <2>1, <2>3, SameWeb, QuietOrderly
<1>4. CASE Around
  <2>1. feed'.check = feed.check /\ UNCHANGED <<saved, receipts, exec, job, updates>>
    BY <1>4 DEF Around, rowVars
  <2>2. \A w \in Workers, d \in Checks : Claims(w, d)' => Claims(w, d)
    BY <2>1 DEF Claims
  <2> QED
    BY <1>1, <2>1, <2>2, SameWeb, QuietOrderly
<1> QED
  BY <1>2, <1>3, <1>4, ReplacedOrderly

LEMMA InitOrderly == Init => OrderInv
<1> SUFFICES ASSUME Init PROVE OrderInv
  OBVIOUS
<1>1. feed.check \in Checks
  BY InitKeeps, Records
<1>2. /\ saved[feed.check] = Fresh /\ receipts[feed.check] = Fresh /\ updates = <<>>
      /\ \A w \in Workers : exec[w] = Idle
  BY <1>1 DEF Init
<1>3. Tidy(Fresh, updates, web)
  BY NoRead DEF Tidy, Fresh, NoReading
<1> QED
  BY <1>2, <1>3 DEF OrderInv, VersionsInOrder, Idle, Reading

LEMMA StepOrderly == FeedInv /\ OrderInv /\ [Next]_vars => OrderInv'
<1> SUFFICES ASSUME FeedInv, OrderInv, [Next]_vars PROVE OrderInv'
  OBVIOUS
<1>1. CASE \/ OwnerChanges \/ ContextChanges \/ UNCHANGED vars
           \/ \E u \in Urls : Publish(u)
           \/ \E c \in Checks : Claim(c) \/ Queue(c) \/ ExpireEarly(c)
  BY <1>1, OthersOrderly, TurnsOrderly
<1>2. CASE \/ StartCheck
           \/ \E active \in BOOLEAN, scope \in {feed.scope, feed.scope + 1} : Change(active, scope)
  BY <1>2, StartCheckStep, ReplacedOrderly, ChangeOrderly
<1>3. ASSUME NEW w \in Workers, Work(w) \/ Fail(w) \/ Crash(w) PROVE OrderInv'
  <2>1. CASE Lost(w) \/ Refused(w) \/ Crash(w) \/ Drop(w)
    BY <2>1, TurnsOrderly
  <2>2. CASE Open(w) \/ Fetch(w) \/ FetchFails(w)
    BY <2>2, OpenOrderly, FetchOrderly
  <2>3. CASE \/ Plan(w) \/ PlanFails(w) \/ Judge(w) \/ JudgeFails(w) \/ Finish(w)
             \/ Search(w) \/ SearchFails(w)
    BY <2>3, QuietOutcome, SearchOutcome, OutcomeOrderly
  <2>4. CASE \/ ReadFails(w) \/ Unreadable(w) \/ ReadPortion(w) \/ RecordOriginal(w)
             \/ \E page \in Pages : ReadIndex(w, page)
    BY <2>4, ReadOutcome, OutcomeOrderly
  <2> QED
    BY <1>3, <2>1, <2>2, <2>3, <2>4 DEF Work, Remember, Fail
<1> QED
  BY <1>1, <1>2, <1>3 DEF Next, Administrator

(* What an earlier check half read is never recorded after what a later one  *)
(* found: the updates of an address follow each other as its versions did.   *)
THEOREM UpdatesFollowVersions == Spec => []VersionsInOrder
<1>1. OrderInv => VersionsInOrder
  BY DEF OrderInv
<1>2. Spec => []OrderInv
  BY InitOrderly, StepOrderly, FeedInvariant, PTL DEF Spec
<1> QED
  BY <1>1, <1>2, PTL

================================================================================
