SPECIFICATION MCSpec
CONSTANTS
  c1 = c1
  c2 = c2
  e1 = e1
  e2 = e2
  u1 = u1
  u2 = u2
  Call = {c1, c2}
  Email = {e1, e2}
  Lower <- MCLower
  Max = 2
  Window = 2
  MaxUser = 2
  MaxLink = 3
  Member = {u1, u2}
  Deletable = {u1, u2}
  Address = {e1, u1}
  LowerAddress <- MCLowerAddress
  Key <- MCKey
  Grace = 1
  MaxDay = 3
INVARIANT LapsedKeyShowsFree
CHECK_DEADLOCK FALSE
