CONSTANTS
  p1 = p1
  p2 = p2
  None = None
  Pods <- TwoPods
  MaxRecords = 2
  MaxStored = 9
  MaxRetries = 1
  LogsWhileMoving = FALSE
  Exits = FALSE
  Budget <- NoBudget
SPECIFICATION Spec
INVARIANT StoredOnce
