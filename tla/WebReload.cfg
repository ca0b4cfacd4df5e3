SPECIFICATION Spec
CONSTANTS
  t1 = t1
  t2 = t2
  o1 = o1
  o2 = o2
  a1 = a1
  a2 = a2
  Tab = {t1, t2}
  Op = {o1, o2}
  Account = {a1, a2}
  None = None
  MaxToken = 3
SYMMETRY Symmetry
PROPERTY ReloadRestoresTheUser
CHECK_DEADLOCK FALSE
