----------------------------- MODULE KevRescore -----------------------------
(***************************************************************************)
(* CISA's catalogue of exploited vulnerabilities and the articles that     *)
(* name them.                                                              *)
(*                                                                         *)
(* The scorer keeps the catalogue in memory.  An article is scored once,   *)
(* by the goroutine that fetched it, between a look whether it is stored   *)
(* and the INSERT; a CVE that CISA lists later is caught by a daily loop,  *)
(* which refreshes the catalogue, reads the recent articles that have no   *)
(* kev: tag, and scores them again one by one.  Nothing synchronises the   *)
(* loop with the goroutines.                                               *)
(***************************************************************************)
EXTENDS Integers

CONSTANTS
  Url,        \* articles
  Cve,        \* vulnerabilities
  Task,       \* goroutines that may run at the same time
  Mentions,   \* the CVEs an article names
  Keywords,   \* the score its words earn it, at most 100
  Given,      \* the score its source gave it
  Shared,     \* articles that two goroutines may handle at a time
  MayFail     \* may downloads, queries and statements fail?

ASSUME KevAssumption ==
  /\ Mentions \in [Url -> SUBSET Cve]
  /\ Keywords \in [Url -> 0..100] /\ Given \in [Url -> 0..100]
  /\ Shared \subseteq Url /\ MayFail \in BOOLEAN

VARIABLES
  cisa,    \* the catalogue as CISA publishes it
  kevMap,  \* Scorer.kevMap
  row,     \* the articles table: stored article -> row
  task,    \* the goroutines of fetchGroup
  daily    \* the daily loop, and the articles it has still to score

vars == <<cisa, kevMap, row, task, daily>>

\* kev: the CVEs with a kev: tag; recent: fetched in the last 30 days.
Row == [score : 0..100, kev : SUBSET Cve, shown : BOOLEAN, recent : BOOLEAN]

IdleTask == [pc |-> "idle"]
Checked  == [pc : {"checked"}, url : Url]
Scored   == [pc : {"scored"}, url : Url, score : 0..100, kev : SUBSET Cve]

Stored == DOMAIN row

\* Variant: the points are added.
Added(a, b)  == a + b
Larger(a, b) == IF a > b THEN a ELSE b

Init ==
  /\ cisa \in SUBSET Cve
  /\ kevMap = {}
  /\ row = [u \in {} |-> 0]
  /\ task = [t \in Task |-> IdleTask]
  /\ daily = [pc |-> "boot", todo |-> {}]

-----------------------------------------------------------------------------
(* The scorer *)

KevOf(u) == Mentions[u] \cap kevMap

\* Scorer.Score: a listed CVE makes it 100.
ScoreOf(u) == IF KevOf(u) # {} THEN 100 ELSE Keywords[u]

-----------------------------------------------------------------------------
(* A goroutine of fetchGroup, for one item *)

\* Variant: Exists is not asked.
CheckNothing(t, u) ==
  /\ daily.pc # "boot" /\ task[t] = IdleTask
  /\ task' = [task EXCEPT ![t] = [pc |-> "checked", url |-> u]]
  /\ UNCHANGED <<cisa, kevMap, row, daily>>

\* Exists answered false; the process is past its start.
Check(t, u) ==
  /\ daily.pc # "boot" /\ task[t] = IdleTask
  /\ u \notin Stored
  /\ u \in Shared \/ \A t2 \in Task : task[t2] # IdleTask => task[t2].url # u
  /\ task' = [task EXCEPT ![t] = [pc |-> "checked", url |-> u]]
  /\ UNCHANGED <<cisa, kevMap, row, daily>>

\* An article without a score is dropped.
ScoreItem(t) ==
  /\ task[t].pc = "checked"
  /\ LET u == task[t].url
         s == Larger(Given[u], ScoreOf(u))
     IN  task' = [task EXCEPT ![t] =
                    IF s = 0 THEN IdleTask
                    ELSE [pc |-> "scored", url |-> u, score |-> s, kev |-> KevOf(u)]]
  /\ UNCHANGED <<cisa, kevMap, row, daily>>

\* Upsert, which overwrites score and tags of a row that appeared meanwhile.
StoreItem(t, shown) ==
  /\ task[t].pc = "scored"
  /\ LET new == [score |-> task[t].score, kev |-> task[t].kev, shown |-> shown,
                 recent |-> TRUE]
     IN  row' = [u \in Stored \cup {task[t].url} |->
                   IF u = task[t].url THEN new ELSE row[u]]
  /\ task' = [task EXCEPT ![t] = IdleTask]
  /\ UNCHANGED <<cisa, kevMap, daily>>

StoreFails(t) ==
  /\ MayFail /\ task[t].pc = "scored"
  /\ task' = [task EXCEPT ![t] = IdleTask]
  /\ UNCHANGED <<cisa, kevMap, row, daily>>

TaskStep(t) ==
  \/ ScoreItem(t) \/ StoreFails(t)
  \/ \E shown \in BOOLEAN : StoreItem(t, shown)

-----------------------------------------------------------------------------
(* The daily loop; at the start of the process it begins with a download, too *)

\* UpdateKEV.  When it fails the map stays; an answer that is JSON but no
\* catalogue, whatever its status code, empties it.
UpdateKEV ==
  /\ daily.pc \in {"boot", "refresh"}
  /\ kevMap' \in {cisa} \cup (IF MayFail THEN {kevMap, {}} ELSE {})
  /\ daily' = [daily EXCEPT !.pc = "query"]
  /\ UNCHANGED <<cisa, row, task>>

\* Its tags name a CVE and none is marked as listed.
Candidate(u) ==
  row[u].recent /\ row[u].shown /\ Mentions[u] # {} /\ row[u].kev = {}

Query ==
  /\ daily.pc = "query"
  /\ \/ daily' = [pc |-> "rescore", todo |-> {[url |-> u, score |-> row[u].score] :
                                                u \in {v \in Stored : Candidate(v)}}]
     \/ MayFail /\ daily' = [pc |-> "refresh", todo |-> {}]
  /\ UNCHANGED <<cisa, kevMap, row, task>>

\* Score and UpdateScoreTags, of the article as the query returned it.
Worth(a) == ScoreOf(a.url) > a.score

\* Variant: only the tags are written.
RescoreTags(a) ==
  /\ daily.pc = "rescore" /\ a \in daily.todo
  /\ row' = [row EXCEPT ![a.url].kev = KevOf(a.url)]
  /\ daily' = [daily EXCEPT !.todo = @ \ {a}]
  /\ UNCHANGED <<cisa, kevMap, task>>

Rescore(a) ==
  /\ daily.pc = "rescore" /\ a \in daily.todo
  /\ \/ /\ Worth(a)
        /\ row' = [row EXCEPT ![a.url] = [@ EXCEPT !.score = ScoreOf(a.url),
                                                   !.kev = KevOf(a.url)]]
     \/ (Worth(a) => MayFail) /\ UNCHANGED row
  /\ daily' = [daily EXCEPT !.todo = @ \ {a}]
  /\ UNCHANGED <<cisa, kevMap, task>>

\* Variant: a timer that is not set again.
RestForGood == daily.pc = "rescore" /\ daily.todo = {} /\ UNCHANGED vars

\* Back to waiting for the ticker.
Rest ==
  /\ daily.pc = "rescore" /\ daily.todo = {}
  /\ daily' = [daily EXCEPT !.pc = "refresh"]
  /\ UNCHANGED <<cisa, kevMap, row, task>>

DailyStep == UpdateKEV \/ Query \/ (\E a \in daily.todo : Rescore(a)) \/ Rest

-----------------------------------------------------------------------------
(* The world *)

CisaLists(c) ==
  /\ c \notin cisa
  /\ cisa' = cisa \cup {c}
  /\ UNCHANGED <<kevMap, row, task, daily>>

GrowOld(u) ==
  /\ u \in Stored /\ row[u].recent
  /\ row' = [row EXCEPT ![u].recent = FALSE]
  /\ UNCHANGED <<cisa, kevMap, task, daily>>

\* The article it duplicated is purged.
Reappear(u) ==
  /\ u \in Stored /\ ~row[u].shown
  /\ row' = [row EXCEPT ![u].shown = TRUE]
  /\ UNCHANGED <<cisa, kevMap, task, daily>>

\* The process stops and starts; only the table survives.
Restart ==
  /\ daily.pc # "boot"
  /\ kevMap' = {}
  /\ task' = [t \in Task |-> IdleTask]
  /\ daily' = [pc |-> "boot", todo |-> {}]
  /\ UNCHANGED <<cisa, row>>

Next ==
  \/ \E t \in Task : TaskStep(t) \/ \E u \in Url : Check(t, u)
  \/ DailyStep
  \/ \E c \in Cve : CisaLists(c)
  \/ \E u \in Url : GrowOld(u) \/ Reappear(u)
  \/ Restart

Spec == Init /\ [][Next]_vars

\* The ticker fires for ever; a download works, and a query after one that did,
\* again and again, whatever fails and however often the process restarts; so
\* does the UPDATE of an article that is due again and again.
Fairness ==
  /\ WF_vars(DailyStep)
  /\ SF_vars(UpdateKEV /\ kevMap' = cisa)
  /\ SF_vars(Query /\ kevMap = cisa /\ daily'.pc = "rescore")
  /\ \A u \in Url :
       SF_vars(\E a \in daily.todo : a.url = u /\ Rescore(a) /\ row' # row)

FairSpec == Spec /\ Fairness

-----------------------------------------------------------------------------
(* Properties *)

TypeOK ==
  /\ cisa \subseteq Cve /\ kevMap \subseteq Cve
  /\ Stored \subseteq Url /\ row \in [Stored -> Row]
  /\ task \in [Task -> {IdleTask} \cup Checked \cup Scored]
  /\ daily.pc \in {"boot", "refresh", "query", "rescore"}
  /\ daily.todo \subseteq [url : Url, score : 0..100]
  /\ daily = [pc |-> daily.pc, todo |-> daily.todo]

\* A kev: tag is never shown on an article that has not the score of one, nor for
\* a CVE that CISA does not list: score and tags are computed in memory, and the
\* catalogue may have changed, or the row, before they are written.
KevTagIsTrue ==
  \A u \in Stored : row[u].kev # {} => row[u].kev \subseteq cisa /\ row[u].score = 100

(* What the goroutines and the loop carry with them is as true, and as long as  *)
(* no two goroutines handle an article, it is not overwritten, and the loop      *)
(* knows its score.                                                              *)

CarriedIsTrue ==
  /\ kevMap \subseteq cisa
  /\ \A t \in Task : (task[t].pc = "scored" /\ task[t].kev # {}) =>
       task[t].kev \subseteq cisa /\ task[t].score = 100
  /\ \A a \in daily.todo : a.url \in Stored

Handles(t, u) == task[t] # IdleTask /\ task[t].url = u

OneTaskEach ==
  \A u \in Url \ Shared : \A t, t2 \in Task : Handles(t, u) /\ Handles(t2, u) => t = t2

HandledIsNew == \A u \in Url \ Shared : (\E t \in Task : Handles(t, u)) => u \notin Stored

KnownToLoop ==
  \A a \in daily.todo : a.url \notin Shared =>
    row[a.url].kev = {} /\ row[a.url].score = a.score

KInv ==
  /\ TypeOK /\ KevTagIsTrue /\ CarriedIsTrue
  /\ OneTaskEach /\ HandledIsNew /\ KnownToLoop

\* The score of an article that no two goroutines handle at a time never falls and
\* its kev: tags stay, although the loop writes what it read earlier and a restart
\* may leave the scorer without a catalogue.
OnlyRises ==
  [][\A u \in (Stored \cap Stored') \ Shared :
       row'[u].score >= row[u].score /\ row[u].kev \subseteq row'[u].kev]_vars

\* An article in the loop's reach: shown, of the last 30 days, below 100 points.
InReach(u) == u \in Stored /\ row[u].shown /\ row[u].recent /\ row[u].score < 100

\* No article in reach stays unmarked for ever once CISA lists a CVE it names.
ListedIsMarked ==
  \A u \in Url : []<>(InReach(u) => Mentions[u] \cap cisa = {})

=============================================================================
