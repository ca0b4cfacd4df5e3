SPECIFICATION FairSpec
CONSTANTS
  c1 = c1
  c2 = c2
  c3 = c3
  u1 = u1
  u2 = u2
  Call = {c1, c2, c3}
  NoCall = NoCall
  User = {u1, u2}
  NoUser = NoUser
  UserOf <- MCUserOf
  MaxAttempts = 2
  MaxId = 7
  Seeded = TRUE
INVARIANTS
  OnlyErasureBreaksChain
  OneRowPerReturn
PROPERTIES
  EveryCallEnds
  ImplementsChain
CHECK_DEADLOCK FALSE
