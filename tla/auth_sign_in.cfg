SPECIFICATION Spec
CONSTANTS
  a1 = a1
  a2 = a2
  g1 = g1
  u1 = u1
  u2 = u2
  l1 = l1
  l2 = l2
  h1 = h1
  h2 = h2
  None = None
  Address <- MCAddress
  Google <- MCGoogle
  User <- MCUser
  Link <- MCLink
  Handler <- MCHandler
  IpCap = 2
  MayFail = TRUE
  MayDelete = TRUE
SYMMETRY Interchangeable
INVARIANTS TypeOK OwnAccount OneAccountEach
PROPERTIES LinkUsedOnce
