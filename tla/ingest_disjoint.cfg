\* Disjoint feeds, no two polls of one feed at a time: two goroutines, the
\* reader and the purge interleave freely.
CONSTANTS
  s1 = s1  s2 = s2
  u1 = u1  u2 = u2  u3 = u3  u4 = u4
  t1 = t1  t2 = t2
  i1 = i1  i2 = i2  i3 = i3  i4 = i4  i5 = i5
  None = None
  Source = {s1, s2}
  Url = {u1, u2, u3, u4}
  Task = {t1, t2}
  Id = {i1, i2, i3, i4, i5}
  ListedBy <- TwoFeeds
  NormOf <- Norms
  Similar <- Titles
  Score <- Scores
  Safe = {u1, u2, u3, u4}
  Published <- Dates
  DedupWindow = 2
  TitleLimit = 2
  PurgeAge = 1
  MaxTime = 3
  Overlap = FALSE
  Faults = {}
SPECIFICATION Spec
SYMMETRY Symmetric
INVARIANTS TypeOK PrimaryIsVisible TrueDuplicate
PROPERTIES ImplementsCorpus
