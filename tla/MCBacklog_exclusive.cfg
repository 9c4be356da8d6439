CONSTANTS
  n1 = n1
  n2 = n2
  p1 = p1
  p2 = p2
  c1 = c1
  c2 = c2
  None = None
  Names <- TwoNames
  Pods <- TwoPods
  Creators <- OneCreator
  Priorities <- TwoPriorities
  MaxReplicas = 2
  ItemsPerReplica = 1
  Budget <- ExclusiveBudget
  WatchExpires = TRUE
SPECIFICATION Spec
SYMMETRY Symmetry
INVARIANT ClaimHeld
PROPERTY ImplementsQueue
