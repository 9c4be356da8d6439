CONSTANTS
  None = None
  Languages = {"go", "python", "shell"}
  ExcludedLanguages = {"shell"}
  Workers = {"w1", "w2"}
  Findings = {"f1", "f2"}
  Statuses = {"low", "high"}
  Harmless = {"low"}
  Sources = {"x1", "x2"}
  Documents <- TwoSources
  Roots <- TwoRoots
  Vulnerabilities = {"f1"}
  Allowed <- OneDay
  Effects <- ThreeEffects
  MaxVersions = 1
  TicksPerDay = 2
  MaxTime = 6
  Limit <- OnceOrTwice
  MaxFaults = 4
SPECIFICATION Spec
CHECK_DEADLOCK FALSE
INVARIANTS
  AcceptedWasCovered
  ScannedIsComplete
  BlobsMatchSboms
  RecordsAreRight
PROPERTIES
  AnalysesSettle
  FindingsFollowEngine
  FindingsFollowAlerts
  FindingsFollowFacts
  SbomsAreCleanedUp
  SlaIsReported
