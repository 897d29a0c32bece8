SPECIFICATION MCSpec
CONSTANTS
  console = console
  locator = locator
  v1 = v1
  v2 = v2
  Agents = {console}
  Value = {v1, v2}
  Bad = Bad
  Empty = Empty
  ServerModes = {v2}
  DhcpModes = {v2}
  None = None
  Web = Web
  Config <- TableOptions
  BatchesOf <- TableBatches
  Pages <- NoPages
  CommitLimit = 2
  Repeat = FALSE
  HexTexts <- MCHexTexts
  HexSize = 4
  LeadMax = 4
  Room = 11
  Width = 2
  Contents = {1, 10, 11, 12, 100, 120}
  Answers <- MCAnswers
  MaxAnswers = 2
  Configured <- MCConfigured
  Requested <- MCRequested
  Speeds = {9600, 19200}
  MaxPackets = 2
INVARIANTS
  
  ErrorLeavesPrefix
  TextsRight
  LineAsAsked
CHECK_DEADLOCK FALSE
