CONSTANTS
  None = None
  Users = {"u1"}
  Clients = {"c1", "c2"}
  UserOf <- OneUser
  MaxTokens = 3
  Versions = {"v1", "v2"}
  ArtefactOf <- OneArtefactEach
  Keys = {"k1"}
  Bdba = {"v2"}
  TimeToLive = 1
  Scopes <- ThreeScopes
  Assignable = {"u1", "u2"}
  Contributors = {{"u1", "u3"}, {"u2"}}
  Labels <- FourLabels
  Overwrites <- TwoOverwrites
  Configurations <- ThreeConfigurations
  DefaultMode = "skip"
  Sprints = 2
  MaxPolls = 2
  Rows <- SixRows
  Requests <- FourRequests
  References <- OneReference
  KeysOfComponent <- OneKeyEach
  CategoryValue <- HighOrEol
  UpperCase = {"HIGH"}
  PageSize = 2
  Batch = 2
  MaxRounds = 2
  Limit <- OnceOrOften
  MaxFaults = 4
SPECIFICATION Spec
CHECK_DEADLOCK FALSE
INVARIANTS
  TokensAreSound
  OneDiscoveryDate
  AnswersAreReal
  PagesAreTheResult
PROPERTIES
  RolesStayRight
  SummariesConverge
  AssigneesSettle
