SPECIFICATION Spec
CONSTANTS
  u1 = u1  u2 = u2  t1 = t1  k1 = k1  c1 = c1  x1 = x1  x2 = x2  x3 = x3  y1 = y1  y2 = y2  z1 = z1  z2 = z2  mi = mi
  User <- MCUser
  Article <- MCArticle
  Handle <- MCHandle
  Token <- MCToken
  Pro <- MCUser
  Call <- MCCall
  Nobody = Nobody
  BskyCap = 2
  MaxChannels = 3
  Ask = {k1}
  Quiet = 2
  Lookback = 3
  SummaryTTL = 1
  MaxSaves = 1
  LastClock = 2
  Key <- MCKey
  Limit = 2
  Window = 2
  MaxGrants = 3
  CVE <- MCCVE
  Request <- MCRequest
  Route = k1
  Deadline = 2
  Patience = 3
  PulseTTL = 1
  MaxTime = 3
  MaxStarts = 3
  CvePage <- MCCvePage
  Answer <- MCAnswer
  Unswept <- MCUnswept
  Forced <- MCForced
  Certain <- MCCvePage
  Visitor <- MCVisitor
  TTL <- MCTTL
  Cap = 2
  Build = 1
  LastHour = 3
  Watchable <- MCHandles
  Admin <- MCAdmin
  ScoredCVE = {"c1", "c2"}
  MaxDay = 2
  Art <- MCArt
  Shape <- MCShape
  Ages <- MCAges
  Cve = {"c1", "c2", "c3"}
  Technique = {"T1059", "T1059.001"}
  SubOf <- MCSubOf
  Psirt = {"Fortinet PSIRT"}
  Pull = 2
  Windows <- MCWindows
  Reader <- MCReader
  Author <- MCAuthor
  Baseline = {"Bluesky:@op"}
  FreeHours = 720
  Listed = {"c3"}
  Percentile <- MCPercentile
  CrossHours = 72
  Crossing = 2
  Week = 168
  Least = 2
SYMMETRY Alike
INVARIANTS TypeOK SettingsKept LimitsHold WatchlistSaved 
PROPERTIES AccountsSound  
CHECK_DEADLOCK FALSE
