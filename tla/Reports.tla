------------------------------ MODULE Reports -------------------------------
(***************************************************************************)
(* The reports that are computed from the stored articles: leaderboards,   *)
(* the consensus and the timeline of a CVE (internal/storage/storage.go)   *)
(* and the ATT&CK dashboard (buildMitreLiveResponse of                     *)
(* internal/server/server.go).  Each runs one query and counts in memory.  *)
(* Ages are in hours.  Reads are of one moment, so time need not pass.     *)
(***************************************************************************)
EXTENDS Listing, Sequences, SequencesExt, FiniteSetsExt, TLC

CONSTANTS
  Art,             \* articles
  Shape,           \* what an article may be: outlet, CVEs, techniques, score, poc,
                   \* and how long after its publication it was fetched
  Ages,            \* how old an article may be when it is stored
  Cve, Technique,
  SubOf,           \* pairs of a sub-technique and its technique
  Psirt,           \* outlets that count as a vendor's own
  Pull,            \* articles fetched for the modal of a technique, 150
  Windows          \* the hours the reports are asked for

ASSUME ReportsAssumption ==
  /\ IsFiniteSet(Art) /\ IsFiniteSet(Cve) /\ IsFiniteSet(Technique)
  /\ \A s \in Shape : /\ s.cves \subseteq Cve /\ s.ttps \subseteq Technique
                      /\ s.score \in Nat /\ s.lag \in Nat /\ s.poc \in BOOLEAN
  /\ Ages \subseteq Nat /\ IsFiniteSet(Ages) /\ Ages # {}
  /\ Windows \subseteq Nat \ {0} /\ Windows # {} /\ Pull \in Nat \ {0}

VARIABLES
  corpus,          \* the stored articles
  hours            \* the window the reports are asked for

reportVars == <<corpus, hours>>

Absent == [age |-> -1]
Stored == {a \in Art : corpus[a] # Absent}
age(a) == corpus[a].age
LongAgo == Max(Ages)

-----------------------------------------------------------------------------
\* published_at >= datetime('now', ...) AND duplicate_of IS NULL
Shown(n) == {a \in Stored : ~ corpus[a].dup /\ age(a) <= n}
Mentions(c, n) == {a \in Shown(n) : c \in corpus[a].cves}
Oldest(as) == CHOOSE a \in as : \A b \in as : age(b) <= age(a)
Newest(as) == CHOOSE a \in as : \A b \in as : age(a) <= age(b)
Top(seq, limit) == SubSeq(seq, 1, IF Len(seq) < limit THEN Len(seq) ELSE limit)

\* By mentions, then by recency.
HottestCVEs(n, limit) ==
  LET row(c) == [cve |-> c, mentions |-> Cardinality(Mentions(c, n)),
                 latest |-> Newest(Mentions(c, n))]
      rows == {row(c) : c \in {d \in Cve : Mentions(d, n) # {}}}
  IN Top(SortBy(rows, [r \in rows |-> r.mentions], [r \in rows |-> -age(r.latest)]), limit)

\* What each outlet has on a CVE, the most recent first, then the busiest.
CVEConsensus(c, n) ==
  LET of(o) == {a \in Mentions(c, n) : corpus[a].outlet = o}
      row(o) == [outlet |-> o, count |-> Cardinality(of(o)), latest |-> Newest(of(o))]
      rows == {row(o) : o \in {corpus[a].outlet : a \in Mentions(c, n)}}
  IN SortBy(rows, [r \in rows |-> -age(r.latest)], [r \in rows |-> r.count])

\* The milestones of a CVE, in the order of time; "latest" unless it is the first.
CVETimeline(c) ==
  LET all == Mentions(c, LongAgo)
      event(kind, as, pick(_)) == IF as = {} THEN {} ELSE {[kind |-> kind, art |-> pick(as)]}
      first == event("first_mention", all, Oldest)
      last  == event("latest", all \ {e.art : e \in first}, Newest)
      events == first \cup last
                  \cup event("advisory", {a \in all : corpus[a].outlet \in Psirt}, Oldest)
                  \cup event("first_poc", {a \in all : corpus[a].poc}, Oldest)
  IN SortBy(events, [e \in events |-> age(e.art)], [e \in events |-> 0])

\* CVEs that min outlets have mentioned; the callers leave out the listed ones.
PreKEVCandidates(n, min) ==
  LET outlets(c) == {corpus[a].outlet : a \in Mentions(c, n)}
  IN [c \in {d \in Cve : Cardinality(outlets(d)) >= min} |-> Cardinality(outlets(c))]

-----------------------------------------------------------------------------
Tagged(t, n) == {a \in Shown(n) : t \in corpus[a].ttps}

\* handleMitreLive.
BaselineDays(n) ==
  IF n <= 168 THEN 30 ELSE IF (n \div 24) * 2 > 180 THEN 180 ELSE (n \div 24) * 2

\* Variant: an article as old as the window is in it.
WindowClosed(n) == {a \in Stored : age(a) <= n}

\* After(cutoff): an article as old as the window is not in it.
After(n) == {a \in Stored : age(a) < n}

MitreRawCounts(t, n, days) ==
  LET base   == Tagged(t, 24 * days)
      window == base \cap After(n)
  IN [baseline |-> base, window |-> window,
      previous |-> (base \cap After(2 * n)) \ window,
      buckets  |-> [b \in 0 .. 6 |-> Cardinality({a \in base : age(a) \div 24 = 6 - b})],
      firstSeen |-> {age(Oldest(base)) : a \in base}]

\* buildMitreLiveResponse: first seen this week, and mentioned in the window.
IsFresh(t, n) ==
  LET raw == MitreRawCounts(t, n, BaselineDays(n)) IN
  raw.window # {} /\ \A f \in raw.firstSeen : f < 7 * 24

\* tags LIKE '%T1059%' finds the sub-techniques too.
Like(t, n) == {a \in Shown(n) : \E u \in corpus[a].ttps : u = t \/ <<u, t>> \in SubOf}

BySeverity(as) == SortBy(as, [a \in as |-> corpus[a].score], [a \in as |-> -age(a)])
NewestFirst(as) == SortBy(as, [a \in as |-> -age(a)], [a \in as |-> 0])

\* The newest articles that match, of those the ones with the tag, by severity.
ArticlesForTechnique(t, n, limit) ==
  LET newest == Top(NewestFirst(Like(t, n)), Pull)
  IN Top(BySeverity(ToSet(newest) \cap Tagged(t, n)), limit)

MitreTechniqueCoMentions(t, n) ==
  LET with(c) == {a \in Tagged(t, n) : c \in corpus[a].cves}
  IN [c \in {d \in Cve : with(d) # {}} |-> Cardinality(with(c))]

-----------------------------------------------------------------------------
StoreArticle(a, shape, old) ==
  /\ corpus[a] = Absent /\ shape.lag < old
  /\ corpus' = [corpus EXCEPT ![a] =
       [outlet |-> shape.outlet, cves |-> shape.cves, ttps |-> shape.ttps, score |-> shape.score,
        poc |-> shape.poc, lag |-> shape.lag, age |-> old, dup |-> FALSE]]
  /\ hours' = hours

FileAsDuplicate(a) ==
  /\ a \in Stored /\ ~ corpus[a].dup /\ corpus' = [corpus EXCEPT ![a].dup = TRUE]
  /\ hours' = hours

ReportsInit ==
  /\ corpus = [a \in Art |-> Absent] /\ hours \in Windows

ReportsNext ==
  \E a \in Art : FileAsDuplicate(a) \/ \E s \in Shape, old \in Ages : StoreArticle(a, s, old)

-----------------------------------------------------------------------------
\* Articles have an age, a shape and no more than the tags of it.
ReportsTypeOK ==
  hours \in Windows /\ \A a \in Stored : corpus[a].outlet \in {s.outlet : s \in Shape} /\ age(a) \in Ages

\* The leaderboards agree with the page of a CVE: as many mentions as its outlets
\* have together, a candidate for KEV with as many outlets as the page lists, the
\* same latest article; whoever is left out has no more mentions than the last.
LeaderboardsAgree ==
  LET hot == HottestCVEs(hours, Cardinality(Cve) - 1)
      candidates == PreKEVCandidates(hours, 2)
  IN \A c \in Cve :
       LET rows == CVEConsensus(c, hours)
           total == Total([i \in DOMAIN rows |-> rows[i].count])
           place == {i \in DOMAIN hot : hot[i].cve = c}
       IN /\ \A i \in place : /\ hot[i].mentions = total
                              /\ age(hot[i].latest) = age(rows[1].latest)
          /\ place = {} => \A i \in DOMAIN hot : total <= hot[i].mentions
          /\ c \in DOMAIN candidates <=> Len(rows) >= 2
          /\ c \in DOMAIN candidates => candidates[c] = Len(rows)

\* The timeline of a CVE goes from its first mention to the one that is the
\* newest on its page, which is a milestone of its own unless it is the only one,
\* and has a vendor's advisory just if the page lists an outlet of a vendor.
TimelineAgrees ==
  \A c \in Cve :
    LET events == CVETimeline(c)
        rows   == CVEConsensus(c, LongAgo)
        of(kind) == {i \in DOMAIN events : events[i].kind = kind}
    IN /\ events = << >> <=> rows = << >>
       /\ \A i, j \in DOMAIN events : i < j => age(events[i].art) >= age(events[j].art)
       /\ \A i \in of("first_mention"), j \in DOMAIN events : age(events[j].art) <= age(events[i].art)
       /\ of("latest") # {} <=> Cardinality(Mentions(c, LongAgo)) > 1
       /\ \A i \in of("latest") : age(events[i].art) = age(rows[1].latest)
       /\ of("advisory") # {} <=> \E i \in DOMAIN rows : rows[i].outlet \in Psirt

\* The points of a sparkline are whole days: the last is the window of a day, the
\* seven are that of a week, and a technique marked as fresh is nowhere else, where
\* its baseline is the month of the sparkline or longer.
SparklineAgrees ==
  \A t \in Technique :
    LET day  == MitreRawCounts(t, 24, BaselineDays(24))
        week == MitreRawCounts(t, 168, BaselineDays(168))
        points == Total(day.buckets)
    IN /\ day.buckets[6] = Cardinality(day.window)
       /\ points = Cardinality(week.window)
       /\ IsFresh(t, hours) /\ BaselineDays(hours) >= 30 =>
            points = Cardinality(week.baseline)

\* What the window is compared with is as long as the window, for a window of up
\* to a week and for one of whole days, of those the endpoint takes: the baseline
\* reaches far enough back.
PreviousIsWhole ==
  hours <= 168 \/ (hours % 24 = 0 /\ hours <= 2160) =>
    \A t \in Technique :
      MitreRawCounts(t, hours, BaselineDays(hours)).previous =
        {a \in Tagged(t, LongAgo) : age(a) \in hours .. 2 * hours - 1}

\* The modal of a technique shows the worst articles and counts the CVEs of all,
\* unless more than Pull articles match its prefix.
SeverityFirst ==
  \A t \in Technique : Cardinality(Like(t, hours)) <= Pull =>
    LET shown == ToSet(ArticlesForTechnique(t, hours, Pull - 1))
        all   == ToSet(ArticlesForTechnique(t, hours, Pull))
    IN /\ \A a \in shown, b \in Tagged(t, hours) \ shown : corpus[a].score >= corpus[b].score
       /\ MitreTechniqueCoMentions(t, hours) =
            [c \in UNION {corpus[a].cves : a \in all} |-> Cardinality({a \in all : c \in corpus[a].cves})]

-----------------------------------------------------------------------------
(* What the theorems of ServerProofs rest on *)

\* Every stored article is one of the shapes, of an age and perhaps a duplicate.
ArticleRow == [outlet : {s.outlet : s \in Shape}, cves : SUBSET Cve, ttps : SUBSET Technique,
               score : Nat, poc : BOOLEAN, lag : Nat, age : Ages, dup : BOOLEAN]

ReportsInv == ReportsTypeOK /\ corpus \in [Art -> ArticleRow \cup {Absent}]

=============================================================================
