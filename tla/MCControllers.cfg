CONSTANTS
  None = None
  BackupVersions = {1, 2, 3, 4, 5, 6}
  Retention = 2
  Artefacts = {"a1"}
  Scanners = {"s1"}
  Serves <- ServesAll
  Replicator = "issues"
  Interval <- OneOrTwoTicks
  Grace = 2
  Members = {"m1", "m2"}
  Sprints = {"q1"}
  Replicas = {"w1", "w2"}
  Groups <- OneOrTwoGroups
  ClosedIssues = 1
  Places <- ThreePlaces
  Unversioned <- TwoVersions
  Categories <- ByFourth
  Due <- ThreeSprints
  Offset <- MinusOne
  Limit <- OnceOrOften
  MaxFaults = 8
SPECIFICATION Spec
CHECK_DEADLOCK FALSE
INVARIANTS
  BackupsAreComplete
  InactiveIsReported
  OneOpenIssue
  RescoringsAgree
PROPERTIES
  BackupsAreKept
  UsedIsServed
  IssuesSettle
  RescoredIsShown
  CacheIsSound
  RecordsAreStored
  OdgSettles
