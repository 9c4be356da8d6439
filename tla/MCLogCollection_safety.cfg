CONSTANTS
  p1 = p1
  p2 = p2
  None = None
  Pods <- TwoPods
  MaxRecords = 1
  MaxStored = 2
  MaxRetries = 1
  LogsWhileMoving = TRUE
  Exits = TRUE
  Budget <- FailureBudget
SPECIFICATION Spec
SYMMETRY Symmetry
CONSTRAINT OneEnds
CHECK_DEADLOCK FALSE
INVARIANTS
  StoredFits
PROPERTY ImplementsBoundedLog
