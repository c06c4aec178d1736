\* Two Mastodon instances relay one post and are polled in the same cycle.
CONSTANTS
  s1 = s1  s2 = s2
  u1 = u1  u2 = u2  u3 = u3  u4 = u4
  t1 = t1  t2 = t2
  i1 = i1  i2 = i2  i3 = i3  i4 = i4  i5 = i5
  None = None
  NormOf <- Norms
  Similar <- Titles
  Score <- Scores
  Published <- Dates
  Safe = {u1, u2, u3, u4}
  Source = {s1, s2}
  Url = {u1, u2, u3, u4}
  Task = {t1, t2}
  Id = {i1, i2, i3}
  ListedBy <- SharedFeeds
  DedupWindow = 2
  TitleLimit = 2
  PurgeAge = 9
  MaxTime = 1
  Overlap = FALSE
  Faults = {}
SPECIFICATION Spec
INVARIANTS
  NothingHidden
