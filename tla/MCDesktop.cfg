SPECIFICATION MCSpec
CONSTANTS
  o1 = o1
  o2 = o2
  a1 = a1
  a2 = a2
  i1 = i1
  i2 = i2
  Op = {o1, o2}
  Account = {a1, a2}
  None = None
  Torn = Torn
  MaxToken = 3
  Instance = {i1, i2}
  Finding <- MCFinding
  Frameworks = 2
  Name = {"log"}
  MaxNumber = 4
  MaxCalls = 2
SYMMETRY Symmetry
INVARIANTS
  SettingsAreWhole
  StoredTokenIsCurrent
  RowsKeepTheirFiles
  RecordsMatchRows
PROPERTY SyncsKeepTheSession
CHECK_DEADLOCK FALSE
