CONSTANTS
  None = None
  n1 = n1
  e1 = e1
  e2 = e2
  both = both
  one = one
  Odgs <- OneOdg
  Extensions <- TwoExtensions
  Specs <- BothOnly
  Requested <- RequestedDef
  Indices <- UpToTwo
  Chunks <- ChunksDef
  Broken <- SecondBroken
  MaxGeneration = 1
  Budget <- NoFailure
SPECIFICATION Spec
CHECK_DEADLOCK FALSE
PROPERTY ErrorIsReported
