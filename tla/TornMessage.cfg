CONSTANTS
  Callers = {"ControlTask", "HAL_RX"}
  UART_TX_QUEUE_DEPTH = 2
  Parts = 2
  MaxCalls = 1
SPECIFICATION Spec
INVARIANT QueuesItsMessage
CHECK_DEADLOCK FALSE
