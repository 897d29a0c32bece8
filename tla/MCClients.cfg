CONSTANTS
  Thread <- MCThread
  Settings <- MCSettings
  ResetTimeout = 3
  ReconnectTimeout = 2
  LongSleep = 2
  Room = 1
  MaxFaults = 1
  MaxData = 1
  MaxDrops = 1
  MaxBytes = 2
  Configs <- MCConfigs
  HeartTime = 2
  CloudLen = 2
SPECIFICATION MCSpec
INVARIANTS StatusTruthful RebootOnlyIfSilent NoLostWakeup SentOnce OwnPackets
PROPERTY SilenceReported
CHECK_DEADLOCK FALSE
