SPECIFICATION MCSpec
CONSTANTS
  r1 = r1
  r2 = r2
  Call = {r1, r2}
  User = {"a"}
  Value = {"v1", "v2"}
  RegionOf <- MCRegionOf
  Secret = {"s1", "s2"}
  Dedicated = {"s1", "d1"}
  None = None
  Scaled = FALSE
  MaxSecond = 1
  Catalogue <- Shipped
  Uploadable <- MCUploadable
  MaxUploads = 2
  MaxGaps = 1
  MaxFailed = 2
  Owner = {"a", "b"}
  Type = {"iam_policy", "system_configs"}
  Provided <- MCProvided
  Evaluated <- MCEvaluated
  Old <- MCOld
  HistoryLimit = 2
  MaxEvaluations = 2
SYMMETRY Symmetry
INVARIANTS
  EnginesAgree
  ManualNeedsUpload
  MoreEvidenceNeverHurts
  HistoryClaimsNoMore
  ReadingsAreFaithful
  EvaluationsAreWhole
  KeySeparationLosesNothing
  CompliantMeansClean
  CredentialsAreOneSave
CHECK_DEADLOCK FALSE
