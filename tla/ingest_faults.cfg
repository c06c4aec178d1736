\* Polls of one feed that overlap, a purge of whatever has been read, and statements
\* that fail now and then.
CONSTANTS
  s1 = s1  s2 = s2
  u1 = u1  u2 = u2  u3 = u3  u4 = u4
  t1 = t1  t2 = t2
  i1 = i1  i2 = i2  i3 = i3  i4 = i4  i5 = i5
  None = None
  NormOf <- Norms
  Similar <- Titles
  Score <- Neutral
  Published <- AllOld
  Safe = {u1, u2, u4}
  Source = {s1, s2}
  Url = {u1, u2, u4}
  Task = {t1, t2}
  Id = {i1, i2, i3}
  ListedBy <- TinyFeeds
  DedupWindow = 2
  TitleLimit = 2
  PurgeAge = 0
  MaxTime = 1
  Overlap = TRUE
  Faults = {"exists", "match", "store"}
SPECIFICATION FairSpec
INVARIANTS
  NoDanglingDuplicate
PROPERTIES
  ListedIsStored
