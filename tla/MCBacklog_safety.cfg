CONSTANTS
  n1 = n1
  n2 = n2
  p1 = p1
  p2 = p2
  c1 = c1
  c2 = c2
  None = None
  Names <- OneName
  Pods <- TwoPods
  Creators <- TwoCreators
  Priorities <- ThreePriorities
  MaxReplicas = 2
  ItemsPerReplica = 1
  Budget <- AllBudget
  WatchExpires = TRUE
SPECIFICATION Spec
SYMMETRY Symmetry
CONSTRAINT AtMostTwo
PROPERTIES PriorityOnlyRaised ClaimReleasedOnlyIfStale
