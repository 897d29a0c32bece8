CONSTANTS
  Size = 3
  Word = 8
  MaxBytes = 6
  MaxChunk = 2
  MaxFlushes = 2
  Interruptible = TRUE
  CallerChecks = FALSE
  Flushers = {"writer", "reader"}
  ContractBytes = 6
  ApiSize = 4
  Byte = {"none", "x", "y"}
  NoByte = "none"
SPECIFICATION MCSpec
 
PROPERTIES ContractFIFO CallsAreQueue
CHECK_DEADLOCK FALSE
