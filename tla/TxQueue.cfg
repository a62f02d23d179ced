CONSTANTS
  Callers = {"ControlTask", "HAL_RX"}
  UART_TX_QUEUE_DEPTH = 2
  Parts = 2
  MaxCalls = 3
SPECIFICATION Spec
INVARIANTS
  TypeOK
  AloneWhole
  RefusedMet
  StaleGoesFirst
PROPERTIES
  CallsReturn
  NewestWritten
CHECK_DEADLOCK FALSE
