CONSTANTS
  None = None
  n1 = n1
  e1 = e1
  e2 = e2
  both = both
  one = one
  Odgs <- OneOdg
  Extensions <- TwoExtensions
  Specs <- BothOnly
  Requested <- RequestedDef
  Indices <- UpToTwo
  Chunks <- ChunksDef
  Broken <- NoneBroken
  MaxGeneration = 1
  Budget <- KilledOnce
SPECIFICATION FairSpec
CHECK_DEADLOCK FALSE
PROPERTY DeletionCompletes
