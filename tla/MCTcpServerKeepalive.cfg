CONSTANTS
  Slots = 3
  ClientMax = 2
  PackLen = 1
  MaxUsed = 2
  MaxConnects = 2
SPECIFICATION Spec
INVARIANTS KeepaliveSet
