\* Events late, twice and in any order, two requests at a time, two users and two
\* subscriptions.
CONSTANTS
  alice = alice  bob = bob
  x1 = x1  x2 = x2
  h1 = h1  h2 = h2
  None = None
  User = {alice, bob}
  Sub = {x1, x2}
  Handler = {h1, h2}
  Grace = 1
  MaxPeriod = 1
  InOrder = FALSE
  MayDecline = FALSE
  MayFail = FALSE
  MayDelete = FALSE
SPECIFICATION Spec
CHECK_DEADLOCK FALSE
SYMMETRY Symmetric
INVARIANTS
  TypeOK
  NeverBeyondStripe
  OneUserPerCustomer
