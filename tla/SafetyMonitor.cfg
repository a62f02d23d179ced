CONSTANTS
  WordSize = 9
  COMM_TIMEOUT_MS = 3
  TWDT_FEED_INTERVAL_MS = 2
  TWDT_TIMEOUT_MS = 7
  RoundMax = 2
  RxMax = 1
  SensorGap = 4
  Traffic = {"FRAMES", "SENSORS"}
SPECIFICATION Spec
INVARIANTS
  TypeOK
  SilenceReported
  ContradictionReported
  WatchdogFed
PROPERTIES
  TimeoutOnlyOnSilence
  ContradictionWasReal
