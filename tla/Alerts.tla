------------------------------- MODULE Alerts -------------------------------
(***************************************************************************)
(* Webhook alerts: the worker of internal/alerts and its queries in        *)
(* internal/storage/alerts.go.                                             *)
(*                                                                         *)
(* Every interval the worker lists the enabled rules and the articles      *)
(* fetched since its last tick, less an overlap; for each pair that        *)
(* matches and has no row in alert_fires it posts the webhook, then        *)
(* records the row.  What it did last is in memory only.                   *)
(*                                                                         *)
(* Time is kept as ages in ticks of the interval: an age that has passed   *)
(* every bound compared with it stops at Old.                              *)
(***************************************************************************)
EXTENDS Integers, FiniteSets

CONSTANTS
  Rule, Article, None,
  Kind, Pattern,       \* of each rule
  Tags, Title, Body,   \* of each article: tags; patterns found in the texts
  KevTags,             \* the tags with prefix kev:
  Columns,             \* how many columns ArticlesForAlerts selects
  Limit,               \* its LIMIT
  Overlap,             \* lookbackOverlap
  MaxLag,              \* bound: age of fetched_at when the row is inserted
  MaxGap,              \* bound: age of the last completed sweep's query
  FireLife,            \* age at which CleanupOldAlertFires drops a row
  MaxSends             \* bound: webhooks per pair

Pair == Rule \X Article
Old  == FireLife + 1

ASSUME AlertsAssumption ==
  /\ {Overlap, MaxLag, MaxGap, FireLife, MaxSends, Limit, Columns} \subseteq Nat
  /\ MaxGap + MaxLag <= Overlap      \* ticks come well within the overlap
  /\ MaxGap + Overlap <= FireLife    \* 14 days
  /\ None \notin Rule \X Article

VARIABLES
  age,        \* articles: how long ago fetched_at is; -1: no such row
  shown,      \* articles with duplicate_of NULL
  rule,       \* "none", "on", "off": user_alert_rules
  fires,      \* alert_fires: how long ago each pair fired; -1: no row
  pc,         \* the worker: "down", "idle", "sweep", "sent"
  todo, cur,  \* pairs this tick has to go through; the pair just posted
  last,       \* how long ago the last tick ended; -1: w.last is zero
  query,      \* how long ago this tick ran its queries
  gap,        \* history: ... and the last one that came to its end
  due,        \* history: pairs nobody has looked at and somebody should
  sends, lost \* history: webhooks a receiver got, and those never recorded

worker == <<pc, todo, cur, last, query, gap>>
history == <<due, sends, lost>>
vars == <<age, shown, rule, fires, worker, history>>

Known == {a \in Article : age[a] >= 0}
Ages  == -1..Old

-----------------------------------------------------------------------------
(* Queries *)

\* scanArticles: a row is dropped unless it has the 12 columns it scans.
scanArticles(rows) == IF Columns = 12 THEN rows ELSE {}

ArticlesForAlerts(cutoff) ==
  LET rows == {a \in Known \cap shown : age[a] <= cutoff}
  IN  scanArticles({a \in rows : Cardinality({b \in rows : age[b] < age[a]}) < Limit})

ListEnabledAlertRules == {r \in Rule : rule[r] = "on"}

\* Variant: a disabled rule is listed, too.
ListAllRules == {r \in Rule : rule[r] # "none"}

ArticleMatchesRule(a, r) ==
  CASE Kind[r] = "kev"     -> Tags[a] \cap KevTags # {}
    [] Kind[r] = "keyword" -> Pattern[r] \in Title[a] \cup Body[a]
    [] Kind[r] = "cve"     -> Pattern[r] \in Tags[a] \cup Title[a]
    [] OTHER               -> Pattern[r] \in Tags[a]

MatchingPairs(rs, as) == {p \in rs \X as : ArticleMatchesRule(p[2], p[1])}

AlreadyFired(p) == fires[p] >= 0

\* Variant: the overlap is only used after a restart.
CutoffAtLast == IF last = -1 THEN Overlap ELSE last

\* How far the next tick looks back.
Cutoff == Overlap + (IF last = -1 THEN 0 ELSE last)

-----------------------------------------------------------------------------
(* The worker *)

Start == pc = "down" /\ pc' = "idle" /\ last' = -1
         /\ UNCHANGED <<age, shown, rule, fires, todo, cur, query, gap, history>>

\* Variant: the pair being recorded is still there after the restart.
StopMidway ==
  /\ pc # "down" /\ pc' = "down"
  /\ lost' = IF pc = "sent" THEN [lost EXCEPT ![cur] = @ + 1] ELSE lost
  /\ todo' = {} /\ last' = -1 /\ query' = -1
  /\ UNCHANGED <<age, shown, rule, fires, cur, gap, due, sends>>

Stop ==
  /\ pc # "down" /\ pc' = "down"
  /\ lost' = IF pc = "sent" THEN [lost EXCEPT ![cur] = @ + 1] ELSE lost
  /\ todo' = {} /\ cur' = None /\ last' = -1 /\ query' = -1
  /\ UNCHANGED <<age, shown, rule, fires, gap, due, sends>>

\* The ticker fires and both queries answer.
Tick ==
  /\ pc = "idle" /\ pc' = "sweep"
  /\ todo' = MatchingPairs(ListEnabledAlertRules, ArticlesForAlerts(Cutoff))
  /\ query' = 0
  /\ UNCHANGED <<age, shown, rule, fires, cur, last, gap, history>>

\* The loop is through; with no rules or no articles it has nothing to do.
TickEnds ==
  /\ pc = "sweep" /\ todo = {} /\ pc' = "idle"
  /\ last' = 0
  /\ gap' = query /\ query' = -1
  /\ UNCHANGED <<age, shown, rule, fires, todo, cur, history>>

\* It has fired before, or AlreadyFired or the webhook answers an error.
Skip(p) ==
  /\ pc = "sweep" /\ p \in todo
  /\ todo' = todo \ {p} /\ due' = due \ {p}
  /\ UNCHANGED <<age, shown, rule, fires, pc, cur, last, query, gap, sends, lost>>

\* send: the receiver gets the POST; its answer may still be lost or late.
Send(p) ==
  /\ pc = "sweep" /\ p \in todo /\ ~AlreadyFired(p) /\ sends[p] < MaxSends
  /\ todo' = todo \ {p} /\ due' = due \ {p} /\ sends' = [sends EXCEPT ![p] = @ + 1]
  /\ \/ pc' = "sent" /\ cur' = p /\ lost' = lost
     \/ pc' = pc /\ cur' = cur /\ lost' = [lost EXCEPT ![p] = @ + 1]
  /\ UNCHANGED <<age, shown, rule, fires, last, query, gap>>

RecordFire ==
  /\ pc = "sent" /\ pc' = "sweep" /\ cur' = None
  /\ \/ fires' = [fires EXCEPT ![cur] = 0] /\ lost' = lost
     \/ fires' = fires /\ lost' = [lost EXCEPT ![cur] = @ + 1]
  /\ UNCHANGED <<age, shown, rule, todo, last, query, gap, due, sends>>

-----------------------------------------------------------------------------
(* The others *)

\* The fetch loop stores an article, with the time it was fetched at.
StoreArticle(a) ==
  /\ age[a] = -1
  /\ \E lag \in 0..MaxLag : age' = [age EXCEPT ![a] = lag]
  /\ shown' = shown \cup {a}
  /\ due' = due \cup MatchingPairs(ListEnabledAlertRules, {a})
  /\ UNCHANGED <<rule, fires, worker, sends, lost>>

\* The semantic dedup files it under another.
MarkDuplicate(a) ==
  /\ a \in shown
  /\ shown' = shown \ {a} /\ due' = {p \in due : p[2] # a}
  /\ UNCHANGED <<age, rule, fires, worker, sends, lost>>

\* POST /api/me/alerts, and DELETE.  A rule that is on again starts anew.
CreateAlertRule(r) ==
  /\ rule[r] = "none" /\ rule' = [rule EXCEPT ![r] = "on"]
  /\ UNCHANGED <<age, shown, fires, worker, history>>

UpdateAlertRule(r) ==
  /\ rule[r] \in {"on", "off"}
  /\ rule' = [rule EXCEPT ![r] = IF @ = "on" THEN "off" ELSE "on"]
  /\ due' = {p \in due : p[1] # r}
  /\ UNCHANGED <<age, shown, fires, worker, sends, lost>>

\* The rows of alert_fires stay: they have no foreign key.  The id is a
\* UUID, so the rule does not come back.
DeleteAlertRule(r) ==
  /\ rule[r] \in {"on", "off"} /\ rule' = [rule EXCEPT ![r] = "gone"]
  /\ due' = {p \in due : p[1] # r}
  /\ UNCHANGED <<age, shown, fires, worker, sends, lost>>

\* Variant: rows go after one tick.
CleanupEarly ==
  /\ \E p \in Pair : fires[p] > 0
  /\ fires' = [p \in Pair |-> IF fires[p] > 0 THEN -1 ELSE fires[p]]
  /\ UNCHANGED <<age, shown, rule, worker, history>>

CleanupOldAlertFires ==
  /\ \E p \in Pair : fires[p] > FireLife
  /\ fires' = [p \in Pair |-> IF fires[p] > FireLife THEN -1 ELSE fires[p]]
  /\ UNCHANGED <<age, shown, rule, worker, history>>

Older(x) == IF x \in {-1, Old} THEN x ELSE x + 1

TimePasses ==
  /\ gap < MaxGap
  /\ age' = [a \in Article |-> Older(age[a])]
  /\ fires' = [p \in Pair |-> Older(fires[p])]
  /\ last' = Older(last) /\ query' = Older(query) /\ gap' = gap + 1
  /\ UNCHANGED <<shown, rule, pc, todo, cur, history>>

-----------------------------------------------------------------------------
Init ==
  /\ age = [a \in Article |-> -1] /\ shown = {}
  /\ rule = [r \in Rule |-> "none"]
  /\ fires = [p \in Pair |-> -1]
  /\ pc = "down" /\ todo = {} /\ cur = None /\ last = -1 /\ query = -1 /\ gap = 0
  /\ due = {} /\ sends = [p \in Pair |-> 0] /\ lost = [p \in Pair |-> 0]

WorkerStep ==
  \/ Tick \/ TickEnds \/ RecordFire
  \/ \E p \in Pair : Skip(p) \/ Send(p)

Next ==
  \/ WorkerStep \/ Start \/ Stop
  \/ \E a \in Article : StoreArticle(a) \/ MarkDuplicate(a)
  \/ \E r \in Rule : CreateAlertRule(r) \/ UpdateAlertRule(r) \/ DeleteAlertRule(r)
  \/ CleanupOldAlertFires \/ TimePasses

Spec == Init /\ [][Next]_vars

\* The ticker goes on, a stopped process is started again, and stops do not
\* always come just before the same pair.
Fairness ==
  /\ WF_vars(Start) /\ SF_vars(Tick) /\ WF_vars(TickEnds) /\ WF_vars(RecordFire)
  /\ \A p \in Pair : SF_vars(Skip(p) \/ Send(p))

FairSpec == Spec /\ Fairness

-----------------------------------------------------------------------------
(* Properties *)

\* Every variable keeps its type; a pair posted is being recorded.
TypeOK ==
  /\ age \in [Article -> Ages] /\ shown \subseteq Known
  /\ rule \in [Rule -> {"none", "on", "off", "gone"}]
  /\ fires \in [Pair -> Ages]
  /\ pc \in {"down", "idle", "sweep", "sent"}
  /\ todo \subseteq Pair /\ cur \in Pair \cup {None}
  /\ last \in Ages /\ query \in Ages /\ gap \in 0..MaxGap
  /\ due \subseteq Pair
  /\ sends \in [Pair -> 0..MaxSends] /\ lost \in [Pair -> 0..MaxSends]
  /\ pc = "sent" <=> cur # None
  /\ pc \in {"sweep", "sent"} <=> query # -1

\* Every article that a rule matched when it was stored is looked at while
\* the worker still sees it: through failed queries (which leave last where
\* it was), restarts and sweeps that take time, as long as one sweep comes to
\* its end every MaxGap.
NoneMissed == \A p \in due : p \in todo \/ age[p[2]] <= Cutoff \/ query # -1

\* A receiver gets a second webhook for a pair only if the first was never
\* recorded: the worker was stopped in between, the transaction of RecordFire
\* failed, or the answer was lost.
AtMostOnce == \A p \in Pair : sends[p] <= lost[p] + 1

\* And it is looked at in the end.
EveryMatchIsTried == \A p \in Pair : p \in due ~> p \notin due

-----------------------------------------------------------------------------
(* What the theorems of AlertsProofs rest on *)

\* The query never has more rows than its LIMIT.
WithinLimit ==
  LET rows == {a \in Known \cap shown : age[a] <= Cutoff}
  IN  IsFiniteSet(rows) /\ Cardinality(rows) <= Limit

\* A tick works from what its queries returned, which grows no older than the
\* overlap and the time since the sweep before.
SweepInReach ==
  /\ query <= gap /\ last <= gap
  /\ pc \in {"down", "idle"} => todo = {}
  /\ \A p \in todo : age[p[2]] \in 0..(Overlap + gap)
  /\ cur # None => age[cur[2]] >= 0

\* A webhook is lost, or being recorded, or recorded; or its row is gone, and
\* by then its article is out of reach for good.
EverySendAccounted ==
  \A p \in Pair :
    /\ fires[p] <= age[p[2]]
    /\ lost[p] + (IF cur = p THEN 1 ELSE 0) <= sends[p]
    /\ \/ sends[p] <= lost[p]
       \/ sends[p] = lost[p] + 1 /\ (cur = p \/ AlreadyFired(p) \/ age[p[2]] = Old)

\* A pair that is due would be found by any query, and no query has missed it.
DueInReach ==
  \A p \in due :
    /\ p[2] \in shown /\ rule[p[1]] = "on" /\ ArticleMatchesRule(p[2], p[1])
    /\ age[p[2]] <= MaxLag + gap
    /\ query # -1 => p \in todo \/ age[p[2]] <= MaxLag + query

AInv == TypeOK /\ SweepInReach /\ EverySendAccounted

=============================================================================
