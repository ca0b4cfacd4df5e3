SPECIFICATION Spec
CONSTANTS
  c1 = c1
  c2 = c2
  c3 = c3
  u1 = u1
  u2 = u2
  Call = {c1, c2, c3}
  User = {u1, u2}
  Nobody = Nobody
  ForeignKeys = TRUE
  MaxId = 3
SYMMETRY Symmetry
INVARIANTS
  EveryItemHasItsFile
  DeletedAccountsStayEmpty
  FilesAreAccountedFor
CHECK_DEADLOCK FALSE
