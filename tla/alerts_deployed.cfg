SPECIFICATION Spec
CONSTANTS
  None = None
  Rule <- MCRule
  Article <- MCArticle
  Kind <- MCKind
  Pattern <- MCPattern
  Tags <- MCTags
  Title <- MCTitle
  Body <- MCBody
  KevTags <- MCKevTags
  Columns = 10
  Limit = 2
  Overlap = 2
  MaxLag = 1
  MaxGap = 1
  FireLife = 3
  MaxSends = 2
INVARIANTS NoneMissed
CHECK_DEADLOCK FALSE
