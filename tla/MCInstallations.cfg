CONSTANTS
  None = None
  n1 = n1
  e1 = e1
  e2 = e2
  both = both
  one = one
  Odgs <- OneOdg
  Extensions <- TwoExtensions
  Specs <- TwoSpecs
  Requested <- RequestedDef
  Indices <- UpToTwo
  Chunks <- ChunksDef
  Broken <- BrokenInOne
  MaxGeneration = 2
  Budget <- Rough
SPECIFICATION PartsSpec
CHECK_DEADLOCK FALSE
INVARIANTS
  InstalledMatches
  GoneIsUninstalled
PROPERTIES
  EveryItemLeaves
  IdleIsScaledDown
  LookupsAreSound
  AccessIsReliable
