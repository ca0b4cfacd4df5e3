SPECIFICATION Spec
CONSTANTS
  c1 = c1
  c2 = c2
  e1 = e1
  e2 = e2
  Call = {c1, c2}
  Email = {e1, e2}
  Scaled = FALSE
  MaxUser = 2
  MaxToken = 4
  MaxLink = 1
SYMMETRY Symmetry
INVARIANTS
  TokensHaveOwners
  OneLiveTokenPerFamily
  ResetEndsSessions
PROPERTY ImplementsSessions
CHECK_DEADLOCK FALSE
