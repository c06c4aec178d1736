---------------------------- MODULE AlertsProofs ----------------------------
(***************************************************************************)
(* Theorems about the alert worker, for any rules and articles, any        *)
(* interval, overlap and retention that fit together, and whatever fails,  *)
(* restarts or is answered too late.                                       *)
(***************************************************************************)
EXTENDS Alerts, FiniteSetTheorems, TLAPS

\* An age stays one, grows by at most one tick and keeps its order with others.
LEMMA OlderFacts ==
  /\ \A x \in Ages : Older(x) \in Ages /\ x <= Older(x) /\ Older(x) <= x + 1
                     /\ (Older(x) = -1 <=> x = -1) /\ (x = Old => Older(x) = Old)
  /\ \A x, y \in Ages : x <= y => Older(x) <= Older(y)
  /\ Old \in Nat \ {0} /\ -1 \in Ages /\ 0 \in Ages /\ 0..MaxLag \subseteq Ages
  /\ 0..MaxGap \subseteq Ages
  <1>1. Old \in Nat \ {0} /\ MaxLag < Old /\ MaxGap < Old
    BY AlertsAssumption DEF Old
  <1>2. \A x \in Ages : Older(x) \in Ages /\ x <= Older(x) /\ Older(x) <= x + 1
                        /\ (Older(x) = -1 <=> x = -1) /\ (x = Old => Older(x) = Old)
    BY <1>1 DEF Older, Ages
  <1>3. \A x, y \in Ages : x <= y => Older(x) <= Older(y)
    BY <1>1 DEF Older, Ages
  <1>4. -1 \in Ages /\ 0 \in Ages
    BY <1>1 DEF Ages
  <1>5. 0..MaxLag \subseteq Ages /\ 0..MaxGap \subseteq Ages
    BY <1>1, AlertsAssumption DEF Ages
  <1>6. QED
    BY <1>1, <1>2, <1>3, <1>4, <1>5

LEMMA MatchesAreCandidates ==
  ASSUME NEW rs \in SUBSET Rule, NEW as \in SUBSET Article
  PROVE  /\ MatchingPairs(rs, as) \subseteq Pair
         /\ \A p \in MatchingPairs(rs, as) :
              p[1] \in rs /\ p[2] \in as /\ ArticleMatchesRule(p[2], p[1])
         /\ \A p \in Pair : p[1] \in rs /\ p[2] \in as /\ ArticleMatchesRule(p[2], p[1])
                              => p \in MatchingPairs(rs, as)
  BY DEF MatchingPairs, Pair

LEMMA QueryShape ==
  /\ ListEnabledAlertRules \subseteq Rule
  /\ ArticlesForAlerts(Cutoff) \subseteq Article
  /\ \A a \in ArticlesForAlerts(Cutoff) : a \in Known /\ age[a] <= Cutoff
  BY DEF ListEnabledAlertRules, ArticlesForAlerts, scanArticles, Known

-----------------------------------------------------------------------------
(* Types *)

LEMMA InitAInv == Init => AInv
  <1>1. SUFFICES ASSUME Init PROVE AInv
    OBVIOUS
  <1>2. TypeOK
    BY <1>1, AlertsAssumption, OlderFacts DEF Init, TypeOK, Known
  <1>3. SweepInReach
    BY <1>1 DEF Init, SweepInReach
  <1>4. \A p \in Pair : p # None /\ p[2] \in Article
    BY AlertsAssumption DEF Pair
  <1>5. EverySendAccounted
    BY <1>1, <1>4 DEF Init, EverySendAccounted
  <1>6. QED
    BY <1>2, <1>3, <1>5 DEF AInv

\* The worker's own steps.
LEMMA WorkerTypeOK ==
  ASSUME AInv, WorkerStep \/ Start \/ Stop
  PROVE  TypeOK'
  <1> USE AlertsAssumption, OlderFacts DEF TypeOK, Known
  <1>1. CASE Start
    BY <1>1 DEF Start, AInv, history
  <1>2. CASE Stop
    <2>1. \A p \in Pair : lost[p] + (IF cur = p THEN 1 ELSE 0) \in 0..MaxSends
      BY DEF AInv, EverySendAccounted
    <2>2. lost' \in [Pair -> 0..MaxSends]
      BY <1>2, <2>1 DEF Stop, AInv
    <2>3. QED
      BY <1>2, <2>2 DEF Stop, AInv
  <1>3. CASE Tick
    BY <1>3, QueryShape, MatchesAreCandidates DEF Tick, AInv, history
  <1>4. CASE TickEnds
    <2>1. query \in 0..MaxGap
      BY <1>4 DEF TickEnds, AInv, SweepInReach, Ages
    <2>2. QED
      BY <1>4, <2>1 DEF TickEnds, AInv, history
  <1>5. CASE RecordFire
    <2>1. \A p \in Pair : lost[p] + (IF cur = p THEN 1 ELSE 0) \in 0..MaxSends
      BY DEF AInv, EverySendAccounted
    <2>2. lost' \in [Pair -> 0..MaxSends] /\ fires' \in [Pair -> Ages]
      BY <1>5, <2>1 DEF RecordFire, AInv
    <2>3. QED
      BY <1>5, <2>2 DEF RecordFire, AInv
  <1>6. ASSUME NEW p \in Pair, Skip(p)
        PROVE  TypeOK'
    BY <1>6 DEF Skip, AInv
  <1>7. ASSUME NEW p \in Pair, Send(p)
        PROVE  TypeOK'
    <2>1. lost[p] + 1 \in 0..MaxSends /\ sends[p] + 1 \in 0..MaxSends
      BY <1>7 DEF Send, AInv, EverySendAccounted
    <2>2. lost' \in [Pair -> 0..MaxSends] /\ sends' \in [Pair -> 0..MaxSends]
      BY <1>7, <2>1 DEF Send, AInv
    <2>3. p # None
      BY DEF Pair
    <2>4. QED
      BY <1>7, <2>2, <2>3 DEF Send, AInv
  <1>8. QED
    BY <1>1, <1>2, <1>3, <1>4, <1>5, <1>6, <1>7 DEF WorkerStep

OthersStep ==
  \/ \E a \in Article : StoreArticle(a) \/ MarkDuplicate(a)
  \/ \E r \in Rule : CreateAlertRule(r) \/ UpdateAlertRule(r) \/ DeleteAlertRule(r)
  \/ CleanupOldAlertFires \/ TimePasses

\* What the fetch loop, the deduplication, the accounts and the clock do.
LEMMA OthersTypeOK ==
  ASSUME AInv, OthersStep
  PROVE  TypeOK'
  <1> USE AlertsAssumption, OlderFacts DEF TypeOK, Known
  <1>1. ASSUME NEW a \in Article, StoreArticle(a)
        PROVE  TypeOK'
    <2>1. 0..MaxLag \subseteq Ages
      BY DEF Ages, Old
    <2>2. age' \in [Article -> Ages] /\ age'[a] >= 0
          /\ \A b \in Article \ {a} : age'[b] = age[b]
      BY <1>1, <2>1 DEF StoreArticle, AInv
    <2>3. due' \subseteq Pair
      BY <1>1, QueryShape, MatchesAreCandidates DEF StoreArticle, AInv
    <2>4. QED
      BY <1>1, <2>2, <2>3 DEF StoreArticle, AInv, worker
  <1>2. ASSUME NEW a \in Article, MarkDuplicate(a)
        PROVE  TypeOK'
    BY <1>2 DEF MarkDuplicate, AInv, worker
  <1>3. ASSUME NEW r \in Rule, CreateAlertRule(r) \/ UpdateAlertRule(r) \/ DeleteAlertRule(r)
        PROVE  TypeOK'
    BY <1>3 DEF CreateAlertRule, UpdateAlertRule, DeleteAlertRule, AInv, worker, history
  <1>4. CASE CleanupOldAlertFires
    BY <1>4 DEF CleanupOldAlertFires, AInv, worker, history
  <1>5. CASE TimePasses
    <2>1. age' \in [Article -> Ages] /\ fires' \in [Pair -> Ages]
      BY <1>5 DEF TimePasses, AInv
    <2>2. Known' = Known
      BY <1>5, <2>1 DEF TimePasses, AInv, Ages
    <2>3. last' \in Ages /\ query' \in Ages /\ (query' = -1 <=> query = -1)
      BY <1>5 DEF TimePasses, AInv
    <2>4. gap' \in 0..MaxGap
      BY <1>5 DEF TimePasses, AInv
    <2>5. QED
      BY <1>5, <2>1, <2>2, <2>3, <2>4 DEF TimePasses, AInv, history
  <1>6. QED
    BY <1>1, <1>2, <1>3, <1>4, <1>5 DEF OthersStep

LEMMA StepTypeOK == AInv /\ [Next]_vars => TypeOK'
  <1>1. CASE UNCHANGED vars
    BY <1>1 DEF AInv, TypeOK, Known, vars, worker, history
  <1>2. QED
    BY <1>1, WorkerTypeOK, OthersTypeOK DEF Next, OthersStep

-----------------------------------------------------------------------------
(* What a tick works from *)

LEMMA WorkerInReach ==
  ASSUME AInv, WorkerStep \/ Start \/ Stop
  PROVE  SweepInReach'
  <1> USE DEF SweepInReach
  <1>1. age' = age
    BY DEF WorkerStep, Start, Stop, Tick, TickEnds, RecordFire, Skip, Send
  <1>2. \A p \in Pair : p[2] \in Article
    BY DEF Pair
  <1>3. gap \in Nat /\ query \in Int /\ last \in Int /\ Overlap \in Nat
    BY AlertsAssumption DEF AInv, TypeOK, Ages, Old
  <1>4. CASE Start \/ Stop
    BY <1>1, <1>3, <1>4 DEF Start, Stop, AInv
  <1>5. CASE Tick
    <2>1. \A p \in todo' : p[2] \in Known /\ age[p[2]] <= Cutoff
      BY <1>5, QueryShape, MatchesAreCandidates DEF Tick
    <2>2. Cutoff <= Overlap + gap
      BY <1>3 DEF Cutoff, AInv
    <2>3. \A p \in todo' : age[p[2]] \in 0..(Overlap + gap)
      BY <1>3, <2>1, <2>2 DEF Known, AInv, TypeOK, Ages, Cutoff
    <2>4. QED
      BY <1>1, <1>3, <1>5, <2>3 DEF Tick, AInv
  <1>6. CASE TickEnds
    <2>1. query >= 0
      BY <1>6 DEF TickEnds, AInv, TypeOK, Ages
    <2>2. QED
      BY <1>1, <1>3, <1>6, <2>1 DEF TickEnds, AInv, TypeOK
  <1>7. CASE RecordFire
    BY <1>1, <1>7 DEF RecordFire, AInv
  <1>8. ASSUME NEW p \in Pair, Skip(p) \/ Send(p)
        PROVE  SweepInReach'
    BY <1>1, <1>8 DEF Skip, Send, AInv
  <1>9. QED
    BY <1>4, <1>5, <1>6, <1>7, <1>8 DEF WorkerStep

LEMMA OthersInReach ==
  ASSUME AInv, OthersStep
  PROVE  SweepInReach'
  <1> USE DEF SweepInReach
  <1>1. \A p \in Pair : p[1] \in Rule /\ p[2] \in Article
    BY DEF Pair
  <1>2. todo \subseteq Pair /\ (cur # None => cur \in Pair)
    BY DEF AInv, TypeOK
  <1>3. ASSUME NEW a \in Article, StoreArticle(a)
        PROVE  SweepInReach'
    <2>1. \A b \in Article : age[b] >= 0 => age'[b] = age[b]
      BY <1>3 DEF StoreArticle, AInv, TypeOK
    <2>2. \A p \in todo : age[p[2]] >= 0
      BY DEF AInv
    <2>3. QED
      BY <1>1, <1>2, <1>3, <2>1, <2>2 DEF StoreArticle, AInv, worker
  <1>4. CASE TimePasses
    <2>1. age' = [a \in Article |-> Older(age[a])]
      BY <1>4 DEF TimePasses
    <2>2. \A a \in Article : age[a] >= 0 => age'[a] \in Int /\ age'[a] >= 0 /\ age'[a] <= age[a] + 1
      BY <2>1, OlderFacts DEF AInv, TypeOK, Ages
    <2>3. gap \in Nat /\ Overlap \in Nat /\ gap' = gap + 1 /\ query' <= gap' /\ last' <= gap'
      BY <1>4, OlderFacts, AlertsAssumption DEF TimePasses, AInv, TypeOK, Ages
    <2>4. \A p \in todo : age[p[2]] \in Int /\ age[p[2]] >= 0 /\ age[p[2]] <= Overlap + gap
      BY <2>3 DEF AInv
    <2>5. \A p \in todo : age'[p[2]] \in 0..(Overlap + gap')
      BY <1>1, <1>2, <2>2, <2>3, <2>4
    <2>6. QED
      BY <1>1, <1>2, <1>4, <2>2, <2>3, <2>5 DEF TimePasses, AInv
  <1>5. CASE UNCHANGED <<age, worker>>
    BY <1>5 DEF AInv, worker
  <1>6. QED
    BY <1>3, <1>4, <1>5
    DEF OthersStep, MarkDuplicate, CreateAlertRule, UpdateAlertRule, DeleteAlertRule,
        CleanupOldAlertFires

LEMMA StepInReach == AInv /\ [Next]_vars => SweepInReach'
  <1>1. CASE UNCHANGED vars
    BY <1>1 DEF AInv, SweepInReach, vars, worker
  <1>2. QED
    BY <1>1, WorkerInReach, OthersInReach DEF Next, OthersStep
-----------------------------------------------------------------------------
(* What becomes of a webhook *)

\* EverySendAccounted says of one pair ...
Accounted(p) ==
  /\ fires[p] <= age[p[2]]
  /\ lost[p] + (IF cur = p THEN 1 ELSE 0) <= sends[p]
  /\ \/ sends[p] <= lost[p]
     \/ sends[p] = lost[p] + 1 /\ (cur = p \/ AlreadyFired(p) \/ age[p[2]] = Old)

LEMMA PairTypes ==
  ASSUME TypeOK, NEW p \in Pair
  PROVE  /\ p[1] \in Rule /\ p[2] \in Article /\ p # None
         /\ age[p[2]] \in Ages /\ fires[p] \in Ages
         /\ sends[p] \in Nat /\ lost[p] \in Nat
  BY AlertsAssumption DEF TypeOK, Pair

\* ... and only a pair whose article is in reach is sent, so that a pair
\* recorded before is either still recorded or not listed.
LEMMA SendAccounted ==
  ASSUME AInv, NEW q \in Pair, Send(q), NEW p \in Pair
  PROVE  Accounted(p)'
  <1>1. Accounted(p) /\ TypeOK /\ SweepInReach
    BY DEF AInv, EverySendAccounted, Accounted
  <1>2. cur = None /\ age' = age /\ fires' = fires
    BY <1>1 DEF Send, TypeOK
  <1>3. CASE p # q
    <2>1. sends'[p] = sends[p] /\ lost'[p] = lost[p] /\ cur' # p
      BY <1>1, <1>2, <1>3, PairTypes DEF Send, TypeOK
    <2>2. QED
      BY <1>1, <1>2, <2>1, PairTypes DEF Accounted, AlreadyFired
  <1>4. CASE p = q
    <2>1. age[p[2]] <= Overlap + gap /\ ~ AlreadyFired(p)
      BY <1>1, <1>4 DEF Send, SweepInReach
    <2>2. age[p[2]] # Old
      BY <1>1, <2>1, AlertsAssumption DEF TypeOK, Old
    <2>3. sends[p] <= lost[p]
      BY <1>1, <1>2, <2>1, <2>2, PairTypes DEF Accounted
    <2>4. lost[p] <= sends[p]
      BY <1>1, <1>2, PairTypes DEF Accounted
    <2>5. sends'[p] = sends[p] + 1
      BY <1>1, <1>4 DEF Send, TypeOK
    <2>6. \/ cur' = p /\ lost'[p] = lost[p]
          \/ cur' = None /\ lost'[p] = lost[p] + 1
      BY <1>1, <1>2, <1>4 DEF Send, TypeOK
    <2>7. QED
      BY <1>1, <1>2, <2>3, <2>4, <2>5, <2>6, PairTypes DEF Accounted
  <1>5. QED
    BY <1>3, <1>4

\* The row is written, or what was sent counts as lost.
LEMMA RecordAccounted ==
  ASSUME AInv, RecordFire, NEW p \in Pair
  PROVE  Accounted(p)'
  <1>1. Accounted(p) /\ TypeOK /\ SweepInReach
    BY DEF AInv, EverySendAccounted, Accounted
  <1>2. cur \in Pair /\ age[cur[2]] >= 0 /\ cur' = None /\ age' = age /\ sends' = sends
    BY <1>1 DEF RecordFire, TypeOK, SweepInReach
  <1>3. \/ fires' = [fires EXCEPT ![cur] = 0] /\ lost' = lost
        \/ fires' = fires /\ lost' = [lost EXCEPT ![cur] = @ + 1]
    BY DEF RecordFire
  <1>4. CASE p # cur
    <2>1. fires'[p] = fires[p] /\ lost'[p] = lost[p] /\ p # None
      BY <1>1, <1>3, <1>4, PairTypes DEF TypeOK
    <2>2. QED
      BY <1>1, <1>2, <1>4, <2>1 DEF Accounted, AlreadyFired
  <1>5. CASE p = cur
    <2>1. lost[p] + 1 = sends[p]
      BY <1>1, <1>5, PairTypes DEF Accounted
    <2>2. \/ fires'[p] = 0 /\ lost'[p] = lost[p]
          \/ fires'[p] = fires[p] /\ lost'[p] = lost[p] + 1
      BY <1>1, <1>3, <1>5 DEF TypeOK
    <2>3. QED
      BY <1>1, <1>2, <1>5, <2>1, <2>2, PairTypes DEF Accounted, AlreadyFired
  <1>6. QED
    BY <1>4, <1>5

LEMMA StopAccounted ==
  ASSUME AInv, Stop, NEW p \in Pair
  PROVE  Accounted(p)'
  <1>1. Accounted(p) /\ TypeOK
    BY DEF AInv, EverySendAccounted, Accounted
  <1>2. lost'[p] = lost[p] + (IF cur = p THEN 1 ELSE 0)
    BY <1>1, PairTypes DEF Stop, TypeOK
  <1>3. cur' = None /\ age' = age /\ fires' = fires /\ sends' = sends
    BY DEF Stop
  <1>4. QED
    BY <1>1, <1>2, <1>3, PairTypes DEF Accounted, AlreadyFired

\* The cleanup takes the rows whose articles are out of reach; time takes both
\* further, and never the row further than its article.
LEMMA AgingAccounted ==
  ASSUME AInv, CleanupOldAlertFires \/ TimePasses, NEW p \in Pair
  PROVE  Accounted(p)'
  <1>1. Accounted(p) /\ TypeOK
    BY DEF AInv, EverySendAccounted, Accounted
  <1>2. cur' = cur /\ sends' = sends /\ lost' = lost
    BY DEF CleanupOldAlertFires, TimePasses, worker, history
  <1>3. CASE CleanupOldAlertFires
    <2>1. age' = age /\ fires'[p] = IF fires[p] > FireLife THEN -1 ELSE fires[p]
      BY <1>3 DEF CleanupOldAlertFires
    <2>2. FireLife \in Nat
      BY AlertsAssumption
    <2>3. fires[p] \in -1..(FireLife + 1) /\ age[p[2]] \in -1..(FireLife + 1)
          /\ fires[p] <= age[p[2]]
      BY <1>1, PairTypes DEF Accounted, Ages, Old
    <2>4. fires[p] > FireLife => age[p[2]] = Old
      BY <2>2, <2>3 DEF Old
    <2>5. fires'[p] <= age[p[2]] /\ (fires[p] >= 0 => fires'[p] >= 0 \/ age[p[2]] = Old)
      BY <2>1, <2>2, <2>3, <2>4
    <2>6. QED
      BY <1>1, <1>2, <2>1, <2>5 DEF Accounted, AlreadyFired
  <1>4. CASE TimePasses
    <2>1. age'[p[2]] = Older(age[p[2]]) /\ fires'[p] = Older(fires[p])
      BY <1>1, <1>4, PairTypes DEF TimePasses
    <2>2. fires'[p] <= age'[p[2]]
      BY <1>1, <2>1, PairTypes, OlderFacts DEF Accounted
    <2>3. (age[p[2]] = Old => age'[p[2]] = Old) /\ (fires[p] >= 0 => fires'[p] >= 0)
      BY <1>1, <2>1, PairTypes, OlderFacts DEF Ages
    <2>4. QED
      BY <1>1, <1>2, <2>2, <2>3 DEF Accounted, AlreadyFired
  <1>5. QED
    BY <1>3, <1>4

LEMMA StoreAccounted ==
  ASSUME AInv, NEW a \in Article, StoreArticle(a), NEW p \in Pair
  PROVE  Accounted(p)'
  <1>1. Accounted(p) /\ TypeOK
    BY DEF AInv, EverySendAccounted, Accounted
  <1>2. cur' = cur /\ sends' = sends /\ lost' = lost /\ fires' = fires
    BY DEF StoreArticle, worker
  <1>3. \/ age'[p[2]] = age[p[2]]
        \/ age[p[2]] = -1 /\ age'[p[2]] \in Nat
    BY <1>1, PairTypes, AlertsAssumption DEF StoreArticle, TypeOK
  <1>4. CASE age'[p[2]] = age[p[2]]
    BY <1>1, <1>2, <1>4 DEF Accounted, AlreadyFired
  <1>5. CASE age[p[2]] = -1 /\ age'[p[2]] \in Nat
    <2>1. fires[p] = -1 /\ age[p[2]] # Old
      BY <1>1, <1>5, PairTypes, OlderFacts DEF Accounted, Ages
    <2>2. QED
      BY <1>1, <1>2, <1>5, <2>1 DEF Accounted, AlreadyFired
  <1>6. QED
    BY <1>3, <1>4, <1>5

LEMMA StepAccounted == AInv /\ [Next]_vars => EverySendAccounted'
  <1>1. SUFFICES ASSUME AInv, [Next]_vars, NEW p \in Pair PROVE Accounted(p)'
    BY DEF EverySendAccounted, Accounted
  <1>2. CASE UNCHANGED <<age, fires, cur, sends, lost>>
    <2>1. Accounted(p)
      BY <1>1 DEF AInv, EverySendAccounted, Accounted
    <2>2. QED
      BY <1>2, <2>1 DEF Accounted, AlreadyFired
  <1>3. CASE \E q \in Pair : Send(q)
    BY <1>1, <1>3, SendAccounted
  <1>4. CASE RecordFire \/ Stop
    BY <1>1, <1>4, RecordAccounted, StopAccounted
  <1>5. CASE CleanupOldAlertFires \/ TimePasses \/ \E a \in Article : StoreArticle(a)
    BY <1>1, <1>5, AgingAccounted, StoreAccounted
  <1>6. QED
    BY <1>1, <1>2, <1>3, <1>4, <1>5
    DEF Next, WorkerStep, vars, worker, history, Start, Tick, TickEnds, Skip, MarkDuplicate,
        CreateAlertRule, UpdateAlertRule, DeleteAlertRule

\* What holds in every state the alert worker reaches.
LEMMA AlwaysAInv == Spec => []AInv
  <1>1. AInv /\ [Next]_vars => AInv'
    BY StepTypeOK, StepInReach, StepAccounted DEF AInv
  <1>2. QED
    BY <1>1, InitAInv, PTL DEF Spec

\* Every variable of the worker, of the tables and of the histories keeps its
\* type, and the worker has a pair posted exactly between send and RecordFire.
THEOREM TypeCorrect == Spec => []TypeOK
  <1>1. AInv => TypeOK
    BY DEF AInv
  <1>2. QED
    BY <1>1, AlwaysAInv, PTL

\* A receiver gets a webhook for a pair again only as often as one was lost: the
\* row of alert_fires outlives the reach of every later query (AlreadyFired and
\* CleanupOldAlertFires of internal/storage/alerts.go).
THEOREM WebhooksAreNotRepeated == Spec => []AtMostOnce
  <1>1. ASSUME AInv PROVE AtMostOnce
    <2>1. SUFFICES ASSUME NEW p \in Pair PROVE sends[p] <= lost[p] + 1
      BY DEF AtMostOnce
    <2>2. QED
      BY <1>1, PairTypes DEF AInv, EverySendAccounted
  <1>2. QED
    BY <1>1, AlwaysAInv, PTL
-----------------------------------------------------------------------------
(* What is due *)

\* With the columns it scans and room under its LIMIT, the query of a tick has
\* every shown article that is young enough.
LEMMA QueryFinds ==
  ASSUME Columns = 12, WithinLimit, TypeOK, NEW a \in Known \cap shown, age[a] <= Cutoff
  PROVE  a \in ArticlesForAlerts(Cutoff)
  <1> DEFINE rows == {b \in Known \cap shown : age[b] <= Cutoff}
             newer == {b \in rows : age[b] < age[a]}
  <1>1. IsFiniteSet(rows) /\ Cardinality(rows) <= Limit
    BY DEF WithinLimit
  <1>2. a \in rows /\ a \notin newer /\ newer \subseteq rows
    BY DEF Known, TypeOK, Ages
  <1>3. IsFiniteSet(newer) /\ Cardinality(newer) < Cardinality(rows)
    BY <1>1, <1>2, FS_Subset, FS_CardinalityType
  <1>4. Cardinality(newer) < Limit
    BY <1>1, <1>3, FS_CardinalityType, AlertsAssumption
  <1>5. QED
    BY <1>2, <1>4 DEF ArticlesForAlerts, scanArticles

DInv == AInv /\ DueInReach

\* The tick lists whatever is due.
LEMMA TickListsDue ==
  ASSUME Columns = 12, WithinLimit, DInv, Tick
  PROVE  DueInReach'
  <1>1. UNCHANGED <<age, shown, rule, gap, due>> /\ query' = 0
    BY DEF Tick, history
  <1>2. ASSUME NEW p \in due
        PROVE  p \in todo'
    <2>1. p \in Pair /\ p[1] \in ListEnabledAlertRules /\ ArticleMatchesRule(p[2], p[1])
      BY DEF DInv, AInv, TypeOK, DueInReach, ListEnabledAlertRules, Pair
    <2>2. p[2] \in Known \cap shown /\ age[p[2]] <= MaxLag + gap
      BY DEF DInv, AInv, TypeOK, DueInReach
    <2>3. age[p[2]] <= Cutoff
      BY <2>2, AlertsAssumption DEF DInv, AInv, TypeOK, Known, Ages, Cutoff, Old
    <2>4. p[2] \in ArticlesForAlerts(Cutoff)
      BY <2>2, <2>3, QueryFinds DEF DInv, AInv
    <2>5. QED
      BY <2>1, <2>4, QueryShape, MatchesAreCandidates DEF Tick
  <1>3. QED
    BY <1>1, <1>2 DEF DInv, DueInReach
LEMMA WorkerDue ==
  ASSUME Columns = 12, WithinLimit, DInv, WorkerStep \/ Start \/ Stop
  PROVE  DueInReach'
  <1>1. CASE Tick
    BY <1>1, TickListsDue
  <1>2. CASE Start \/ RecordFire
    BY <1>2 DEF Start, RecordFire, DInv, DueInReach, history
  <1>3. CASE Stop
    BY <1>3 DEF Stop, DInv, DueInReach
  <1>4. CASE TickEnds
    <2>1. query # -1
      BY <1>4 DEF TickEnds, DInv, AInv, TypeOK
    <2>2. QED
      BY <1>4, <2>1 DEF TickEnds, DInv, DueInReach, history
  <1>5. ASSUME NEW p \in Pair, Skip(p) \/ Send(p)
        PROVE  DueInReach'
    BY <1>5 DEF Skip, Send, DInv, DueInReach
  <1>6. QED
    BY <1>1, <1>2, <1>3, <1>4, <1>5 DEF WorkerStep

LEMMA OthersDue ==
  ASSUME DInv, OthersStep
  PROVE  DueInReach'
  <1>1. TypeOK /\ DueInReach
    BY DEF DInv, AInv
  <1>2. \A p \in due : p \in Pair /\ p[1] \in Rule /\ p[2] \in Article /\ age[p[2]] >= 0
    BY <1>1 DEF TypeOK, DueInReach, Pair, Known
  <1>3. gap \in Nat /\ MaxLag \in Nat /\ query \in Int /\ query >= -1
    BY <1>1, AlertsAssumption DEF TypeOK, Ages, Old
  <1>4. ASSUME NEW a \in Article, StoreArticle(a)
        PROVE  DueInReach'
    <2>1. /\ age[a] = -1 /\ age'[a] \in 0..MaxLag
          /\ \A b \in Article \ {a} : age'[b] = age[b]
          /\ shown' = shown \cup {a} /\ UNCHANGED <<rule, todo, query, gap>>
      BY <1>1, <1>4, AlertsAssumption DEF StoreArticle, TypeOK, worker
    <2>2. \A p \in due : p[2] # a
      BY <1>2, <2>1
    <2>3. \A p \in MatchingPairs(ListEnabledAlertRules, {a}) :
            p[2] = a /\ rule[p[1]] = "on" /\ ArticleMatchesRule(p[2], p[1])
      BY DEF MatchingPairs, ListEnabledAlertRules
    <2>4. due' = due \cup MatchingPairs(ListEnabledAlertRules, {a})
      BY <1>4 DEF StoreArticle
    <2>5. age'[a] <= MaxLag + gap /\ (query # -1 => age'[a] <= MaxLag + query)
      BY <1>3, <2>1
    <2>6. QED
      BY <1>1, <1>2, <2>1, <2>2, <2>3, <2>4, <2>5 DEF DueInReach
  <1>5. ASSUME NEW a \in Article, MarkDuplicate(a)
        PROVE  DueInReach'
    BY <1>1, <1>5 DEF MarkDuplicate, DueInReach, worker
  <1>6. ASSUME NEW r \in Rule, CreateAlertRule(r) \/ UpdateAlertRule(r) \/ DeleteAlertRule(r)
        PROVE  DueInReach'
    <2>1. UNCHANGED <<age, shown, todo, query, gap>>
      BY <1>6 DEF CreateAlertRule, UpdateAlertRule, DeleteAlertRule, worker
    <2>2. \A p \in due' : p \in due /\ p[1] # r
      BY <1>1, <1>2, <1>6
      DEF CreateAlertRule, UpdateAlertRule, DeleteAlertRule, DueInReach, history
    <2>3. \A q \in Rule \ {r} : rule'[q] = rule[q]
      BY <1>1, <1>6 DEF CreateAlertRule, UpdateAlertRule, DeleteAlertRule, TypeOK
    <2>4. QED
      BY <1>1, <1>2, <2>1, <2>2, <2>3 DEF DueInReach
  <1>7. CASE CleanupOldAlertFires
    BY <1>1, <1>7 DEF CleanupOldAlertFires, DueInReach, worker, history
  <1>8. CASE TimePasses
    <2>1. UNCHANGED <<shown, rule, todo, due>> /\ gap' = gap + 1 /\ query' = Older(query)
      BY <1>8 DEF TimePasses, history
    <2>2. \A a \in Article : age'[a] <= age[a] + 1 /\ age[a] \in Int /\ age'[a] \in Int
      BY <1>1, <1>8, OlderFacts DEF TimePasses, TypeOK, Ages
    <2>3. query' = -1 <=> query = -1
      BY <1>1, <2>1, OlderFacts DEF TypeOK
    <2>4. query # -1 => query' = query + 1
      BY <1>3, <1>8, AlertsAssumption DEF TimePasses, Older, Old, DInv, AInv, SweepInReach
    <2>5. QED
      BY <1>1, <1>2, <1>3, <2>1, <2>2, <2>3, <2>4 DEF DueInReach
  <1>9. QED
    BY <1>4, <1>5, <1>6, <1>7, <1>8 DEF OthersStep

LEMMA StepDue == Columns = 12 /\ WithinLimit /\ DInv /\ [Next]_vars => DueInReach'
  <1>1. CASE UNCHANGED vars
    BY <1>1 DEF DInv, DueInReach, vars, worker, history
  <1>2. QED
    BY <1>1, WorkerDue, OthersDue DEF Next, OthersStep

\* Where the query selects what scanArticles scans and has room for what there is,
\* every article that an enabled rule matches when it is stored is listed by a
\* tick before it is out of reach, through restarts, failures and sweeps that
\* take time (tick of internal/alerts/alerts.go).  The first hypothesis is what
\* the code lacks: ArticlesForAlerts selects ten columns.
THEOREM NothingOverlooked ==
  ASSUME Columns = 12
  PROVE  Spec /\ []WithinLimit => []NoneMissed
  <1>1. Init => DueInReach
    BY DEF Init, DueInReach
  <1>2. AInv /\ DueInReach /\ WithinLimit /\ [Next]_vars => DueInReach'
    BY StepDue DEF DInv
  <1>3. ASSUME AInv, DueInReach PROVE NoneMissed
    <2>1. SUFFICES ASSUME NEW p \in due, query = -1 PROVE age[p[2]] <= Cutoff
      BY DEF NoneMissed
    <2>2. age[p[2]] <= MaxLag + gap /\ age[p[2]] \in Int
      BY <1>3 DEF AInv, TypeOK, DueInReach, Known, Ages
    <2>3. gap \in Nat /\ gap <= MaxGap /\ last \in Int /\ last >= -1
      BY <1>3, AlertsAssumption DEF AInv, TypeOK, Ages, Old
    <2>4. QED
      BY <2>2, <2>3, AlertsAssumption DEF Cutoff
  <1>4. QED
    BY <1>1, <1>2, <1>3, AlwaysAInv, PTL DEF Spec

=============================================================================
