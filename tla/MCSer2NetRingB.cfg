CONSTANTS
  Size = 4
  SocketB = "tcpc"
  PackLen = 2
  CommBuffer = FALSE
  Paced = TRUE
  MaxBytes = 2
  MaxChunk = 2
  MaxPlus = 0
  MaxLines = 0
  MaxLosses = 0
  Byte <- MCByte
  NoByte = NoByte
  Plus = Plus
  Letter = Letter
  Command = Command
  Entm = Entm
SPECIFICATION Spec
INVARIANTS ReadAssert
