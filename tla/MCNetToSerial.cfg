CONSTANTS
  Threads = {"A", "B"}
  Modbus = TRUE
  Forms = {"baud", "poll", "other"}
  MaxNet = 3
  MaxHearts = 2
  MaxSessions = 2
SPECIFICATION FairSpec
INVARIANTS LateBounded ReceivedOnce AckMatchesAlone
PROPERTY LockReleased
CHECK_DEADLOCK FALSE
