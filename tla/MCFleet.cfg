SPECIFICATION MCSpec
CONSTANTS
  c1 = c1
  c2 = c2
  h1 = h1
  h2 = h2
  h3 = h3
  i1 = i1
  i2 = i2
  Call = {c1, c2}
  Host = {h1, h2, h3}
  Limit = 1
  Scaled = TRUE
  Instance = {i1, i2}
  DayTicks = 2
  WeekDays = 2
  Times = {1}
  Frameworks = 2
  Never = Never
INVARIANTS
  BoundedOvershoot
  NextIsTheNextSlot
  SlotRunsOnce
PROPERTIES
  
  SyncsAreAnswered
  ServedMeansCollected
  KeepsCollecting
CHECK_DEADLOCK FALSE
