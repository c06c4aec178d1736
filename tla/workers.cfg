SPECIFICATION Spec
CONSTANTS
  Subscriber <- MCSubscriber
  Nobody = "nobody"
  Cooldown <- MCCooldown
  SecondTuesday <- MCSecond
  QuarterTuesday <- MCQuarter
  Months <- MCMonths
  Days <- MCDays
  Asleep = "asleep"
  MaxWrites = 2
  Story <- MCStory
  Batch = 2
  Stubborn <- MCStubborn
  Item <- MCItem
  NULL = NULL
  BatchColumns = 12
  BatchSize = 3
  MinBatch = 2
  Apart = TRUE
  MaxMarks = 2
  Feed = {"f1", "f2"}
  Page = {"p1", "p2"}
  NoFeed = "none"
  Buffer = 2
  MaxPolls = 2
  Account = {"a1"}
  TokenLife = 2
  BadSkip = 2
  MaxRefusals = 2
INVARIANTS TypeOK  
PROPERTIES  NobodyIsForgotten
CHECK_DEADLOCK FALSE
