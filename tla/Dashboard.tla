------------------------------ MODULE Dashboard -----------------------------
(***************************************************************************)
(* What the endpoints of internal/server/server.go make of the reports:    *)
(* the feed, the CVEs that may soon be listed as exploited, the movers of  *)
(* the week, the sub-techniques of a technique's modal and the layers for  *)
(* the ATT&CK navigator.  Of the feed, the filters that every request      *)
(* meets are kept; of the rows, what is counted and what they are sorted   *)
(* by, where equal rows are in any order.                                  *)
(***************************************************************************)
EXTENDS Reports

CONSTANTS
  Reader,          \* who asks: whether they pay, and the authors they follow
  Author,          \* outlets that are author feeds, "Bluesky:@handle"
  Baseline,        \* those of the operator and the curated list
  FreeHours,       \* the archive of those who do not pay, 30 days
  Listed,          \* CVEs known to be exploited
  Percentile,      \* EPSS of a CVE
  CrossHours, Crossing,   \* the hours and outlets of a badge in the feed, 72 and 3
  Week,            \* the hours of the movers, 168
  Least            \* mentions that make a mover, 3

ASSUME DashboardAssumption ==
  /\ Baseline \subseteq Author /\ Listed \subseteq Cve /\ Percentile \in [Cve -> Nat]
  /\ \A r \in Reader : r.pro \in BOOLEAN /\ r.follows \subseteq Author
  /\ FreeHours \in Nat /\ CrossHours \in Nat /\ Crossing \in Nat \ {0}
  /\ Week \in Nat \ {0} /\ Least \in Nat \ {0}

-----------------------------------------------------------------------------
\* One's own authors are there for whoever is signed in.
VisibleBskySources(r) == Baseline \cup r.follows

\* since is LongAgo for a request without one.
FeedHours(r, since) == IF r.pro \/ since < FreeHours THEN since ELSE FreeHours

\* handleArticles of a hosted server, as List sorts.
Feed(r, since, limit) ==
  LET visible == {a \in Shown(FeedHours(r, since)) :
                    corpus[a].outlet \in Author => corpus[a].outlet \in VisibleBskySources(r)}
  IN Top(SortBy(visible, [a \in visible |-> -age(a)], [a \in visible |-> corpus[a].score]), limit)

\* getPreKEVSet, and the badges handleArticles adds.
PreKEVSet == DOMAIN PreKEVCandidates(CrossHours, Crossing) \ Listed
Badges(a) == corpus[a].cves \cap PreKEVSet

\* handlePreKEV: the latest article is that of the hottest CVEs of the window.
PreKEVRows(n, min) ==
  LET raw == PreKEVCandidates(n, min)
      hot == ToSet(HottestCVEs(n, Cardinality(Cve)))
      row(c) == [cve |-> c, outlets |-> raw[c],
                 latest |-> {h.latest : h \in {g \in hot : g.cve = c}}]
      rows == {row(c) : c \in DOMAIN raw \ Listed}
  IN SortBy(rows, [r \in rows |-> r.outlets], [r \in rows |-> Percentile[r.cve]])

-----------------------------------------------------------------------------
\* Momentum goes by when an article was fetched.
fetched(a) == age(a) - corpus[a].lag

\* From so many hours ago, to before so many hours ago.
CountTags(t, from, to) ==
  Cardinality({a \in Stored : ~ corpus[a].dup /\ t \in corpus[a].cves \cup corpus[a].ttps
                              /\ fetched(a) \in to + 1 .. from})

isMomentumTag(t) == t \notin Cve

\* Per cent, rounded towards zero.
DeltaPct(new, old) ==
  IF old = 0 THEN 999
  ELSE IF new >= old THEN ((new - old) * 100) \div old ELSE -(((old - new) * 100) \div old)

Move(r) == LET d == DeltaPct(r.new, r.old) IN IF d < 0 THEN -d ELSE d

\* The largest moves of either sign, then the most mentions.
TagMomentum(n, limit) ==
  LET row(t) == [tag |-> t, new |-> CountTags(t, n, 0), old |-> CountTags(t, 2 * n, n)]
      movers == {r \in {row(t) : t \in Technique \cup Cve} : r.new >= Least /\ isMomentumTag(r.tag)}
  IN Top(SortBy(movers, [r \in movers |-> Move(r)], [r \in movers |-> r.new]), limit)

-----------------------------------------------------------------------------
\* handleMitreTechniqueArticles: the sub-techniques tagged on the articles listed.
SubTechniques(t, n, limit) ==
  LET tagged(u) == {a \in ToSet(ArticlesForTechnique(t, n, limit)) : u \in corpus[a].ttps}
  IN [u \in {v \in Technique : <<v, t>> \in SubOf /\ tagged(v) # {}} |-> Cardinality(tagged(u))]

\* Techniques with a score, the highest first, and the top of the colour scale.
Layer(freq) ==
  [techniques |-> LET used == {t \in Technique : freq[t] > 0}
                  IN SortBy(used, [t \in used |-> freq[t]], [t \in used |-> 0]),
   score      |-> freq,
   max        |-> Max({freq[t] : t \in Technique} \cup {1})]

\* handleMitreNavigator: its scale starts at 0, where an empty layer has nothing to colour.
NavigatorLayer(n) ==
  Layer([t \in Technique |-> Cardinality(MitreRawCounts(t, n, BaselineDays(n)).window)])

TTPFrequency(days) == [t \in Technique |-> Cardinality(Tagged(t, 24 * days))]

\* handleAttackExport for everybody.
AttackExport(days) == Layer(TTPFrequency(days))

-----------------------------------------------------------------------------
\* Who does not pay sees the feed of the last 30 days of one who follows the same
\* authors and pays; to follow one more author adds that author's articles to the
\* feed and takes none away; a badge in the feed is a row of the list it is of.
FeedAgrees ==
  \A since \in {hours, LongAgo} :
    LET feed(r) == ToSet(Feed(r, since, Cardinality(Art))) IN
    /\ \A r, s \in Reader :
         /\ r.follows = s.follows /\ ~ r.pro /\ s.pro =>
              feed(r) = {a \in feed(s) : age(a) <= FreeHours}
         /\ r.follows \subseteq s.follows /\ r.pro = s.pro =>
              feed(r) = {a \in feed(s) : corpus[a].outlet \notin (s.follows \ r.follows) \ Baseline}
    /\ LET rows == PreKEVRows(CrossHours, Crossing) IN
       \A a \in UNION {feed(r) : r \in Reader} :
         Badges(a) = corpus[a].cves \cap {rows[i].cve : i \in DOMAIN rows}

\* Each CVE that may soon be listed has a latest article, the one first on its page,
\* and none with fewer outlets comes before one with more.
PreKEVAgrees ==
  LET rows == PreKEVRows(hours, 2) IN
  \A i \in DOMAIN rows :
    LET page == CVEConsensus(rows[i].cve, hours) IN
    /\ {age(a) : a \in rows[i].latest} = {age(page[1].latest)}
    /\ Len(page) >= 2 /\ rows[i].cve \notin Listed
    /\ \A j \in 1 .. i - 1 : Len(CVEConsensus(rows[j].cve, hours)) >= Len(page)

\* An article is counted in one of the two weeks that the movers compare, the one
\* it was fetched in, and nobody who was left out has moved more than the last.
MomentumCountsOnce ==
  LET all  == TagMomentum(Week, Cardinality(Technique))
      some == TagMomentum(Week, 1)
  IN \A i \in DOMAIN all :
       /\ all[i].new + all[i].old =
            Cardinality({a \in Stored : /\ ~ corpus[a].dup /\ all[i].tag \in corpus[a].ttps
                                        /\ fetched(a) \in 1 .. 2 * Week})
       /\ \A j \in DOMAIN some : Move(all[i]) <= Move(some[j])

\* The modal of a technique counts for a sub-technique no more articles than the
\* modal of the sub-technique lists, unless more than Pull articles match it.
ModalsAgree ==
  \A t, u \in Technique :
    LET subs == SubTechniques(t, hours, Pull) IN
    u \in DOMAIN subs /\ Cardinality(Like(u, hours)) <= Pull =>
      subs[u] <= Len(ArticlesForTechnique(u, hours, Pull))

\* The two layers of a month differ by the articles that are as old as the month,
\* and each has the top of its scale at its first technique.
LayersAgree ==
  /\ \A t \in Technique :
       AttackExport(30).score[t] - NavigatorLayer(720).score[t] =
         Cardinality({a \in Tagged(t, 720) : age(a) = 720})
  /\ \A layer \in {AttackExport(30), NavigatorLayer(hours)} :
       layer.techniques # << >> => layer.max = layer.score[layer.techniques[1]]

=============================================================================
