\* One subscription, events in order; calls fail, answers get lost, renewals are
\* declined and the account may be deleted.
CONSTANTS
  alice = alice  bob = bob
  x1 = x1  x2 = x2
  h1 = h1  h2 = h2
  None = None
  User = {alice}
  Sub = {x1}
  Handler = {h1}
  Grace = 1
  MaxPeriod = 3
  InOrder = TRUE
  MayDecline = TRUE
  MayFail = TRUE
  MayDelete = TRUE
SPECIFICATION FairSpec
INVARIANTS AgreesWithStripe
PROPERTIES CheckoutHonoured
CHECK_DEADLOCK FALSE
