SPECIFICATION FairSpec
CONSTANTS
  None = None
  Rule <- MCRule
  Article <- MCArticle
  Kind <- MCKind
  Pattern <- MCPattern
  Tags <- MCTags
  Title <- MCTitle
  Body <- MCBody
  KevTags <- MCKevTags
  Columns = 12
  Limit = 2
  Overlap = 2
  MaxLag = 1
  MaxGap = 1
  FireLife = 3
  MaxSends = 2
INVARIANTS TypeOK NoneMissed 
PROPERTIES EveryMatchIsTried
