CONSTANTS
  Size = 3
  SocketB = "udp"
  PackLen = 2
  CommBuffer = FALSE
  Paced = TRUE
  MaxBytes = 3
  MaxChunk = 2
  MaxPlus = 0
  MaxLines = 0
  MaxLosses = 1
  Byte <- MCByte
  NoByte = NoByte
  Plus = Plus
  Letter = Letter
  Command = Command
  Entm = Entm
SPECIFICATION FairSpec
INVARIANTS NoLostWakeup StrandedOnlyBehindA Conserved
 
