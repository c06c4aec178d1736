\* Two articles, two goroutines, the daily loop; downloads, queries and statements
\* fail and the process restarts.
CONSTANTS
  u1 = u1  u2 = u2
  c1 = c1  c2 = c2
  t1 = t1  t2 = t2
  Url = {u1, u2}
  Cve = {c1, c2}
  Task = {t1, t2}
  Mentions <- Names
  Keywords <- Words
  Given <- Source
  Shared = {u2}
  MayFail = TRUE
SPECIFICATION FairSpec
INVARIANTS
  TypeOK
  KevTagIsTrue
PROPERTIES
  OnlyRises
  ListedIsMarked
