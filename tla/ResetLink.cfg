SPECIFICATION Spec
CONSTANTS
  c1 = c1
  c2 = c2
  e1 = e1
  e2 = e2
  Call = {c1, c2}
  Email = {e1}
  Scaled = FALSE
  MaxUser = 1
  MaxToken = 2
  MaxLink = 1
PROPERTY ResetLinkIsSingleUse
CHECK_DEADLOCK FALSE
