SPECIFICATION Spec
CONSTANTS
  None = None
  Article <- MCArticle
  Score <- MCScore
  KindOf <- MCKindOf
  SourceOf <- MCSource
  Dup <- MCDup
  Words <- MCWords
  Techniques <- MCTech
  CveOf <- MCCve
  Kinds <- MCKinds
  Term <- MCTerm
  Ioc <- MCIoc
  IocMatches <- MCMatches
  Patterns <- MCPatterns
  ScoreKeys <- MCDigits
  Window <- MCWindow
  Recent <- MCRecent
  RowLimit = 2
  Heights = {5, 6}
  Touched <- MCTouched
  MaxAsked = 2
  Habits <- MCHabits
  HasNVD = TRUE
  HasAI = TRUE
  MayFail = TRUE
INVARIANTS TypeOK 
PROPERTIES KeysKeepTheirWord LoadingEnds
