----------------------------- MODULE KevProofs -----------------------------
(***************************************************************************)
(* Theorems about the daily re-scoring, for any articles, catalogue and    *)
(* number of goroutines, and whatever fails or restarts.                   *)
(***************************************************************************)
EXTENDS KevRescore, TLAPS

TaskState  == {IdleTask} \cup Checked \cup Scored
LoopState == [pc : {"boot", "refresh", "query", "rescore"},
              todo : SUBSET [url : Url, score : 0..100]]

LEMMA LoopShape ==
  TypeOK <=> /\ cisa \subseteq Cve /\ kevMap \subseteq Cve
             /\ Stored \subseteq Url /\ row \in [Stored -> Row]
             /\ task \in [Task -> TaskState]
             /\ daily \in LoopState
  BY DEF TypeOK, TaskState, LoopState

LEMMA InitKInv == Init => KInv
  <1>1. SUFFICES ASSUME Init PROVE KInv
    OBVIOUS
  <1>2. Stored = {} /\ row \in [Stored -> Row]
    BY <1>1 DEF Init, Stored
  <1>3. task \in [Task -> TaskState] /\ \A t \in Task : task[t] = IdleTask
    BY <1>1 DEF Init, TaskState
  <1>4. daily \in LoopState /\ daily.todo = {}
    BY <1>1 DEF Init, LoopState
  <1>5. TypeOK
    BY <1>1, <1>2, <1>3, <1>4, LoopShape DEF Init
  <1>6. \A t \in Task : task[t].pc # "scored"
    BY <1>3 DEF IdleTask
  <1>7. QED
    BY <1>1, <1>2, <1>3, <1>4, <1>5, <1>6
    DEF KInv, KevTagIsTrue, CarriedIsTrue, OneTaskEach, HandledIsNew, KnownToLoop,
        Handles, Init

-----------------------------------------------------------------------------
(* The scorer *)

\* A score never leaves its range, and a tag comes with 100 points.
LEMMA Scoring ==
  ASSUME TypeOK, NEW u \in Url
  PROVE  /\ ScoreOf(u) \in 0..100 /\ KevOf(u) \subseteq kevMap /\ KevOf(u) \subseteq Cve
         /\ KevOf(u) # {} => ScoreOf(u) = 100
         /\ Larger(Given[u], ScoreOf(u)) \in 0..100
         /\ KevOf(u) # {} => Larger(Given[u], ScoreOf(u)) = 100
  BY KevAssumption DEF TypeOK, ScoreOf, KevOf, Larger

-----------------------------------------------------------------------------
(* The goroutines *)

LEMMA CheckKInv ==
  ASSUME KInv, NEW t \in Task, NEW u \in Url, Check(t, u)
  PROVE  KInv'
  <1> DEFINE c == [pc |-> "checked", url |-> u]
  <1>1. c \in Checked /\ c.url = u /\ c.pc = "checked"
    BY DEF Checked
  <1>2. task' = [task EXCEPT ![t] = c] /\ UNCHANGED <<cisa, kevMap, row, daily>>
    BY DEF Check
  <1> HIDE DEF c
  <1>3. task \in [Task -> TaskState]
    BY LoopShape DEF KInv
  <1>4. task'[t] = c /\ \A t2 \in Task \ {t} : task'[t2] = task[t2]
    BY <1>2, <1>3
  <1>5. TypeOK'
    BY <1>1, <1>2, <1>3, LoopShape DEF KInv, TaskState, TypeOK, Stored
  <1>6. u \notin Stored /\ (u \in Shared \/ \A t2 \in Task : ~Handles(t2, u))
    BY DEF Check, Handles
  <1>7. \A t2 \in Task, v \in Url : Handles(t2, v)' => Handles(t2, v) \/ (t2 = t /\ v = u)
    BY <1>1, <1>4 DEF Handles
  <1>8. OneTaskEach'
    BY <1>6, <1>7 DEF KInv, OneTaskEach
  <1>9. HandledIsNew'
    BY <1>2, <1>6, <1>7 DEF KInv, HandledIsNew, Stored
  <1>10. KevTagIsTrue' /\ CarriedIsTrue' /\ KnownToLoop'
    BY <1>1, <1>2, <1>4 DEF KInv, KevTagIsTrue, CarriedIsTrue, KnownToLoop, Stored
  <1>11. QED
    BY <1>5, <1>8, <1>9, <1>10 DEF KInv

LEMMA ScoreItemKInv ==
  ASSUME KInv, NEW t \in Task, ScoreItem(t)
  PROVE  KInv'
  <1> DEFINE u == task[t].url
             s == Larger(Given[u], ScoreOf(u))
             c == IF s = 0 THEN IdleTask
                  ELSE [pc |-> "scored", url |-> u, score |-> s, kev |-> KevOf(u)]
  <1>1. task \in [Task -> TaskState] /\ task[t].pc = "checked"
    BY LoopShape DEF KInv, ScoreItem
  <1>2. u \in Url /\ task[t] # IdleTask
    BY <1>1 DEF TaskState, Checked, Scored, IdleTask
  <1>3. s \in 0..100 /\ KevOf(u) \subseteq Cve /\ KevOf(u) \subseteq kevMap
        /\ (KevOf(u) # {} => s = 100)
    BY <1>2, Scoring DEF KInv
  <1>4. c \in TaskState
    BY <1>2, <1>3 DEF TaskState, Scored
  <1>5. c # IdleTask => c.url = u
    OBVIOUS
  <1>6. c.pc = "scored" => c.kev \subseteq kevMap /\ (c.kev # {} => c.score = 100)
    BY <1>3 DEF IdleTask
  <1>7. task' = [task EXCEPT ![t] = c] /\ UNCHANGED <<cisa, kevMap, row, daily>>
    BY DEF ScoreItem
  <1> HIDE DEF c, s
  <1>8. task'[t] = c /\ \A t2 \in Task \ {t} : task'[t2] = task[t2]
    BY <1>1, <1>7
  <1>9. TypeOK'
    BY <1>1, <1>4, <1>7, LoopShape DEF KInv, TypeOK, TaskState, Stored
  <1>10. \A t2 \in Task, v \in Url : Handles(t2, v)' => Handles(t2, v)
    BY <1>2, <1>5, <1>8 DEF Handles
  <1>11. OneTaskEach' /\ HandledIsNew'
    BY <1>7, <1>10 DEF KInv, OneTaskEach, HandledIsNew, Stored
  <1>12. CarriedIsTrue'
    BY <1>6, <1>7, <1>8 DEF KInv, CarriedIsTrue, Stored
  <1>13. QED
    BY <1>7, <1>9, <1>11, <1>12 DEF KInv, KevTagIsTrue, KnownToLoop, Stored

\* The end of an item: nobody else comes to handle one.
LEMMA Released ==
  ASSUME KInv, NEW t \in Task, task' = [task EXCEPT ![t] = IdleTask]
  PROVE  /\ task' \in [Task -> TaskState]
         /\ \A t2 \in Task, v \in Url : Handles(t2, v)' => Handles(t2, v) /\ t2 # t
         /\ \A t2 \in Task : task'[t2].pc = "scored" => t2 # t /\ task'[t2] = task[t2]
  BY LoopShape DEF KInv, TaskState, Handles, IdleTask

\* What the goroutines that are still at it carry was true before.
LEMMA StillCarried ==
  ASSUME KInv, NEW t \in Task, task' = [task EXCEPT ![t] = IdleTask], UNCHANGED cisa,
         NEW t2 \in Task, task'[t2].pc = "scored", task'[t2].kev # {}
  PROVE  task'[t2].kev \subseteq cisa' /\ task'[t2].score = 100
  <1>1. task'[t2] = task[t2]
    BY Released
  <1>2. QED
    BY <1>1 DEF KInv, CarriedIsTrue

LEMMA StoreFailsKInv ==
  ASSUME KInv, NEW t \in Task, StoreFails(t)
  PROVE  KInv'
  <1>1. task' = [task EXCEPT ![t] = IdleTask] /\ UNCHANGED <<cisa, kevMap, row, daily>>
    BY DEF StoreFails
  <1>2. TypeOK'
    BY <1>1, Released, LoopShape DEF KInv, TypeOK, TaskState, Stored
  <1>3. OneTaskEach' /\ HandledIsNew'
    BY <1>1, Released DEF KInv, OneTaskEach, HandledIsNew, Stored
  <1>4. CarriedIsTrue'
    BY <1>1, StillCarried DEF KInv, CarriedIsTrue, Stored
  <1>5. QED
    BY <1>1, <1>2, <1>3, <1>4 DEF KInv, KevTagIsTrue, KnownToLoop, Stored

LEMMA StoreItemKInv ==
  ASSUME KInv, NEW t \in Task, NEW shown \in BOOLEAN, StoreItem(t, shown)
  PROVE  KInv'
  <1> DEFINE w == task[t].url
             new == [score |-> task[t].score, kev |-> task[t].kev, shown |-> shown,
                     recent |-> TRUE]
  <1>1. task[t] \in Scored /\ w \in Url /\ Handles(t, w)
    BY LoopShape DEF KInv, StoreItem, TaskState, Checked, Scored, IdleTask, Handles
  <1>2. new \in Row /\ new.kev = task[t].kev /\ new.score = task[t].score
    BY <1>1 DEF Scored, Row
  <1>3. task[t].kev # {} => task[t].kev \subseteq cisa /\ task[t].score = 100
    BY DEF KInv, CarriedIsTrue, StoreItem
  <1>4. /\ Stored' = Stored \cup {w} /\ row'[w] = new
        /\ \A u \in Stored \ {w} : row'[u] = row[u]
        /\ row' \in [Stored' -> Row]
    BY <1>2 DEF StoreItem, Stored, KInv, TypeOK
  <1>5. task' = [task EXCEPT ![t] = IdleTask] /\ UNCHANGED <<cisa, kevMap, daily>>
    BY DEF StoreItem
  <1> HIDE DEF new
  <1>6. TypeOK'
    BY <1>1, <1>4, <1>5, Released, LoopShape DEF KInv, TypeOK, TaskState
  <1>7. OneTaskEach'
    BY <1>5, Released DEF KInv, OneTaskEach
  <1>8. HandledIsNew'
    <2>1. SUFFICES ASSUME NEW u \in Url \ Shared, NEW t2 \in Task, Handles(t2, u)'
                   PROVE  u \notin Stored'
      BY DEF HandledIsNew
    <2>2. Handles(t2, u) /\ t2 # t
      BY <1>5, <2>1, Released
    <2>3. u \notin Stored /\ u # w
      BY <1>1, <2>2 DEF KInv, HandledIsNew, OneTaskEach
    <2>4. QED
      BY <1>4, <2>3
  <1>9. CarriedIsTrue'
    BY <1>4, <1>5, StillCarried DEF KInv, CarriedIsTrue
  <1>10. KevTagIsTrue'
    BY <1>2, <1>3, <1>4, <1>5 DEF KInv, KevTagIsTrue
  <1>11. KnownToLoop'
    BY <1>1, <1>4, <1>5 DEF KInv, KnownToLoop, HandledIsNew, CarriedIsTrue
  <1>12. QED
    BY <1>6, <1>7, <1>8, <1>9, <1>10, <1>11 DEF KInv

-----------------------------------------------------------------------------
(* The daily loop *)

\* Steps that leave goroutines and table alone only answer for the loop.
LEMMA LoopKInv ==
  ASSUME KInv, UNCHANGED <<row, task>>, daily' \in LoopState,
         kevMap \subseteq cisa, kevMap' \subseteq cisa', cisa \subseteq cisa',
         cisa' \subseteq Cve,
         \A a \in daily'.todo : /\ a.url \in Stored
                                /\ a.url \notin Shared =>
                                     row[a.url].kev = {} /\ row[a.url].score = a.score
  PROVE  KInv'
  <1>1. TypeOK'
    BY LoopShape DEF KInv, TypeOK, LoopState, Stored
  <1>2. CarriedIsTrue' /\ KnownToLoop'
    BY DEF KInv, CarriedIsTrue, KnownToLoop, Stored
  <1>3. KevTagIsTrue'
    BY DEF KInv, KevTagIsTrue, Stored
  <1>4. QED
    BY <1>1, <1>2, <1>3 DEF KInv, OneTaskEach, HandledIsNew, Handles, Stored

LEMMA UpdateKEVKInv ==
  ASSUME KInv, UpdateKEV
  PROVE  KInv'
  <1>1. daily' \in LoopState /\ daily'.todo = daily.todo
    BY LoopShape DEF KInv, UpdateKEV, LoopState
  <1>2. kevMap \subseteq cisa /\ kevMap' \subseteq cisa /\ cisa \subseteq Cve
    BY DEF KInv, CarriedIsTrue, UpdateKEV, TypeOK
  <1>3. \A a \in daily.todo : /\ a.url \in Stored
                              /\ a.url \notin Shared =>
                                   row[a.url].kev = {} /\ row[a.url].score = a.score
    BY DEF KInv, CarriedIsTrue, KnownToLoop
  <1>4. QED
    BY <1>1, <1>2, <1>3, LoopKInv DEF UpdateKEV

LEMMA QueryKInv ==
  ASSUME KInv, Query
  PROVE  KInv'
  <1> DEFINE found == {[url |-> u, score |-> row[u].score] :
                         u \in {v \in Stored : Candidate(v)}}
  <1>1. \A a \in found : /\ a \in [url : Url, score : 0..100] /\ a.url \in Stored
                         /\ row[a.url].kev = {} /\ row[a.url].score = a.score
    BY DEF KInv, TypeOK, Row, Candidate
  <1>2. daily' \in {[pc |-> "rescore", todo |-> found], [pc |-> "refresh", todo |-> {}]}
    BY DEF Query
  <1> HIDE DEF found
  <1>3. daily' \in LoopState /\ daily'.todo \subseteq found
    BY <1>1, <1>2 DEF LoopState
  <1>4. kevMap \subseteq cisa /\ cisa \subseteq Cve /\ UNCHANGED <<cisa, kevMap, row, task>>
    BY DEF KInv, CarriedIsTrue, TypeOK, Query
  <1>5. QED
    BY <1>1, <1>3, <1>4, LoopKInv

LEMMA RestKInv ==
  ASSUME KInv, Rest \/ Restart
  PROVE  KInv'
  <1>1. daily' \in LoopState /\ daily'.todo = {}
    BY LoopShape DEF KInv, Rest, Restart, LoopState
  <1>2. kevMap \subseteq cisa /\ kevMap' \subseteq cisa /\ cisa \subseteq Cve
    BY DEF KInv, CarriedIsTrue, Rest, Restart, TypeOK
  <1>3. CASE Rest
    BY <1>1, <1>2, <1>3, LoopKInv DEF Rest
  <1>4. CASE Restart
    <2>1. \A t \in Task : task'[t] = IdleTask /\ task'[t].pc # "scored"
      BY <1>4 DEF Restart, IdleTask
    <2>2. task' \in [Task -> TaskState] /\ UNCHANGED <<cisa, row>>
      BY <1>4 DEF Restart, TaskState
    <2>3. TypeOK'
      BY <1>1, <1>2, <2>2, LoopShape DEF KInv, TypeOK, TaskState, LoopState, Stored
    <2>4. QED
      BY <1>1, <1>2, <2>1, <2>2, <2>3
      DEF KInv, KevTagIsTrue, CarriedIsTrue, OneTaskEach, HandledIsNew, KnownToLoop,
          Handles, Stored
  <1>5. QED
    BY <1>3, <1>4

\* What the loop writes is true, and not below what was there.
LEMMA RescoreWrites ==
  ASSUME KInv, NEW a \in daily.todo, Rescore(a)
  PROVE  /\ Stored' = Stored /\ row' \in [Stored -> Row]
         /\ \A u \in Stored \ {a.url} : row'[u] = row[u]
         /\ row'[a.url] = row[a.url] \/ (/\ row'[a.url].score = ScoreOf(a.url)
                                         /\ row'[a.url].kev = KevOf(a.url)
                                         /\ ScoreOf(a.url) > a.score)
  <1>1. a.url \in Stored /\ a.url \in Url /\ row[a.url] \in Row
    BY LoopShape DEF KInv, CarriedIsTrue, TypeOK
  <1>2. row \in [Stored -> Row]
    BY DEF KInv, TypeOK
  <1>3. CASE UNCHANGED row
    BY <1>2, <1>3 DEF Stored
  <1>4. CASE ~UNCHANGED row
    <2> DEFINE r == [row[a.url] EXCEPT !.score = ScoreOf(a.url), !.kev = KevOf(a.url)]
    <2>1. r \in Row /\ r.score = ScoreOf(a.url) /\ r.kev = KevOf(a.url)
      BY <1>1, Scoring DEF KInv, Row
    <2>2. row' = [row EXCEPT ![a.url] = r] /\ ScoreOf(a.url) > a.score
      BY <1>4 DEF Rescore, Worth
    <2> HIDE DEF r
    <2>3. QED
      BY <1>1, <1>2, <2>1, <2>2 DEF Stored
  <1>5. QED
    BY <1>3, <1>4

LEMMA RescoreKInv ==
  ASSUME KInv, NEW a \in daily.todo, Rescore(a)
  PROVE  KInv'
  <1>1. /\ Stored' = Stored /\ row' \in [Stored -> Row]
        /\ \A u \in Stored \ {a.url} : row'[u] = row[u]
        /\ row'[a.url] = row[a.url] \/ (/\ row'[a.url].score = ScoreOf(a.url)
                                        /\ row'[a.url].kev = KevOf(a.url))
    BY RescoreWrites
  <1>2. UNCHANGED <<cisa, kevMap, task>> /\ daily' \in LoopState
        /\ daily'.todo = daily.todo \ {a}
    BY LoopShape DEF KInv, Rescore, LoopState
  <1>3. TypeOK'
    BY <1>1, <1>2, LoopShape DEF KInv, TypeOK, LoopState
  <1>4. a.url \in Url /\ a.url \in Stored
    BY DEF KInv, CarriedIsTrue, TypeOK
  <1>5. KevTagIsTrue'
    BY <1>1, <1>2, <1>4, Scoring DEF KInv, KevTagIsTrue, CarriedIsTrue
  <1>6. CarriedIsTrue'
    BY <1>1, <1>2 DEF KInv, CarriedIsTrue
  <1>7. KnownToLoop'
    <2>1. SUFFICES ASSUME NEW b \in daily.todo, b # a, b.url \notin Shared
                   PROVE  row'[b.url].kev = {} /\ row'[b.url].score = b.score
      BY <1>2 DEF KnownToLoop
    <2>2. row[b.url].kev = {} /\ row[b.url].score = b.score /\ b.url \in Stored
      BY <2>1 DEF KInv, KnownToLoop, CarriedIsTrue
    <2>3. b.url # a.url
      BY <2>1, <2>2 DEF KInv, KnownToLoop, TypeOK
    <2>4. QED
      BY <1>1, <2>2, <2>3
  <1>8. QED
    BY <1>1, <1>2, <1>3, <1>5, <1>6, <1>7
    DEF KInv, OneTaskEach, HandledIsNew, Handles

-----------------------------------------------------------------------------
(* The world *)

LEMMA CisaListsKInv ==
  ASSUME KInv, NEW c \in Cve, CisaLists(c)
  PROVE  KInv'
  <1>1. daily \in LoopState /\ kevMap \subseteq cisa /\ cisa \subseteq Cve
    BY LoopShape DEF KInv, CarriedIsTrue
  <1>2. \A a \in daily.todo : /\ a.url \in Stored
                              /\ a.url \notin Shared =>
                                   row[a.url].kev = {} /\ row[a.url].score = a.score
    BY DEF KInv, CarriedIsTrue, KnownToLoop
  <1>3. QED
    BY <1>1, <1>2, LoopKInv DEF CisaLists

\* Neither age nor reappearance touches score and tags.
LEMMA RowKInv ==
  ASSUME KInv, NEW u \in Url, GrowOld(u) \/ Reappear(u)
  PROVE  /\ KInv' /\ Stored' = Stored
         /\ \A v \in Stored : row'[v].score = row[v].score /\ row'[v].kev = row[v].kev
  <1>1. u \in Stored /\ row[u] \in Row /\ row \in [Stored -> Row]
    BY DEF GrowOld, Reappear, KInv, TypeOK
  <1>2. \E r \in Row : /\ r.score = row[u].score /\ r.kev = row[u].kev
                       /\ row' = [row EXCEPT ![u] = r]
    <2> DEFINE old == [row[u] EXCEPT !.recent = FALSE]
               seen == [row[u] EXCEPT !.shown = TRUE]
    <2>1. /\ old \in Row /\ old.score = row[u].score /\ old.kev = row[u].kev
          /\ seen \in Row /\ seen.score = row[u].score /\ seen.kev = row[u].kev
      BY <1>1 DEF Row
    <2>2. row' = [row EXCEPT ![u] = old] \/ row' = [row EXCEPT ![u] = seen]
      BY DEF GrowOld, Reappear
    <2> HIDE DEF old, seen
    <2>3. QED
      BY <2>1, <2>2
  <1>3. /\ Stored' = Stored /\ row' \in [Stored -> Row]
        /\ \A v \in Stored : row'[v].score = row[v].score /\ row'[v].kev = row[v].kev
    BY <1>1, <1>2 DEF Stored
  <1>4. UNCHANGED <<cisa, kevMap, task, daily>>
    BY DEF GrowOld, Reappear
  <1>5. TypeOK'
    BY <1>3, <1>4 DEF KInv, TypeOK
  <1>6. KevTagIsTrue'
    BY <1>3, <1>4 DEF KInv, KevTagIsTrue
  <1>7. CarriedIsTrue'
    BY <1>3, <1>4 DEF KInv, CarriedIsTrue
  <1>8. KnownToLoop'
    <2>1. \A a \in daily.todo : a.url \in Stored
      BY DEF KInv, CarriedIsTrue
    <2>2. \A a \in daily.todo : a.url \notin Shared =>
            row[a.url].kev = {} /\ row[a.url].score = a.score
      BY DEF KInv, KnownToLoop
    <2>3. \A a \in daily.todo : a.url \notin Shared =>
            row'[a.url].kev = {} /\ row'[a.url].score = a.score
      BY <1>3, <2>1, <2>2, Zenon
    <2>4. QED
      BY <1>4, <2>3 DEF KnownToLoop
  <1>9. QED
    BY <1>3, <1>4, <1>5, <1>6, <1>7, <1>8 DEF KInv, OneTaskEach, HandledIsNew, Handles

LEMMA StillKInv ==
  ASSUME KInv, UNCHANGED vars
  PROVE  KInv'
  BY DEF KInv, vars, TypeOK, KevTagIsTrue, CarriedIsTrue, OneTaskEach, HandledIsNew,
         KnownToLoop, Handles, Stored

LEMMA StepKInv == KInv /\ [Next]_vars => KInv'
  BY CheckKInv, ScoreItemKInv, StoreItemKInv, StoreFailsKInv, UpdateKEVKInv, QueryKInv,
     RestKInv, RescoreKInv, CisaListsKInv, RowKInv, StillKInv
  DEF Next, TaskStep, DailyStep

LEMMA AlwaysKInv == Spec => []KInv
  BY InitKInv, StepKInv, PTL DEF Spec

\* The scorer, the goroutines and the loop keep their form.
THEOREM TypeCorrect == Spec => []TypeOK
  <1>1. KInv => TypeOK
    BY DEF KInv
  <1>2. QED
    BY <1>1, AlwaysKInv, PTL

\* A kev: tag is only ever shown on an article of 100 points and for a CVE that CISA
\* lists, even when two goroutines handle it.
THEOREM TagsAreTrue == Spec => []KevTagIsTrue
  <1>1. KInv => KevTagIsTrue
    BY DEF KInv
  <1>2. QED
    BY <1>1, AlwaysKInv, PTL

LEMMA StepOnlyRises ==
  ASSUME KInv, [Next]_vars, NEW u \in (Stored \cap Stored') \ Shared
  PROVE  row'[u].score >= row[u].score /\ row[u].kev \subseteq row'[u].kev
  <1>1. u \in Url /\ row[u].score \in 0..100
    BY DEF KInv, TypeOK, Row
  <1>2. CASE UNCHANGED row
    BY <1>1, <1>2
  <1>3. ASSUME NEW t \in Task, NEW shown \in BOOLEAN, StoreItem(t, shown)
        PROVE  UNCHANGED row[u]
    <2>1. Handles(t, task[t].url)
      BY <1>3 DEF StoreItem, Handles, IdleTask
    <2>2. task[t].url # u
      BY <1>1, <2>1 DEF KInv, HandledIsNew
    <2>3. QED
      BY <1>3, <2>2 DEF StoreItem, Stored
  <1>4. ASSUME NEW a \in daily.todo, Rescore(a)
        PROVE  row'[u].score >= row[u].score /\ row[u].kev \subseteq row'[u].kev
    <2>1. CASE row'[u] = row[u]
      BY <1>1, <2>1
    <2>2. CASE row'[u] # row[u]
      <3>1. a.url = u /\ row'[u].score = ScoreOf(u) /\ ScoreOf(u) > a.score
        BY <1>4, <2>2, RescoreWrites
      <3>2. row[u].kev = {} /\ row[u].score = a.score
        BY <3>1 DEF KInv, KnownToLoop
      <3>3. ScoreOf(u) \in 0..100
        BY <1>1, Scoring DEF KInv
      <3>4. QED
        BY <1>1, <3>1, <3>2, <3>3
    <2>3. QED
      BY <2>1, <2>2
  <1>5. ASSUME NEW v \in Url, GrowOld(v) \/ Reappear(v)
        PROVE  row'[u].score >= row[u].score /\ row[u].kev \subseteq row'[u].kev
    BY <1>1, <1>5, RowKInv
  <1>6. QED
    BY <1>1, <1>2, <1>3, <1>4, <1>5
    DEF Next, vars, TaskStep, Check, ScoreItem, StoreFails, DailyStep, UpdateKEV, Query,
        Rest, CisaLists, Restart

\* An article that no two goroutines handle at a time keeps its marks and its points.
THEOREM MarksAreKept == Spec => OnlyRises
  <1>1. KInv /\ [Next]_vars =>
          [\A u \in (Stored \cap Stored') \ Shared :
             row'[u].score >= row[u].score /\ row[u].kev \subseteq row'[u].kev]_vars
    BY StepOnlyRises
  <1>2. QED
    BY <1>1, AlwaysKInv, PTL DEF Spec, OnlyRises
=============================================================================
