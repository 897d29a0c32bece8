SPECIFICATION FairSpec
CONSTANTS
  console = console
  locator = locator
  v1 = v1
  v2 = v2
  Agents = {console, locator}
  Value = {v1, v2}
  Bad = Bad
  Empty = Empty
  ServerModes = {v2}
  DhcpModes = {v2}
  None = None
  Web = Web
  Config <- PacketOptions
  BatchesOf <- MixedBatches
  Pages <- PacketPage
  CommitLimit = 2
  Repeat = TRUE
INVARIANTS
  AnswersInOrder
  OkHolds
PROPERTIES
  OwnSaved
  Answered
