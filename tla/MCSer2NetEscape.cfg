CONSTANTS
  Size = 5
  SocketB = "none"
  PackLen = 1
  CommBuffer = FALSE
  Paced = TRUE
  MaxBytes = 1
  MaxChunk = 1
  MaxPlus = 3
  MaxLines = 1
  MaxLosses = 0
  Byte <- MCByte
  NoByte = NoByte
  Plus = Plus
  Letter = Letter
  Command = Command
  Entm = Entm
SPECIFICATION Spec
INVARIANTS LeakBound 
