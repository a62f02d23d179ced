CONSTANTS
  DISPATCHER_QUEUE_DEPTH = 3
  Inputs = {"EVT_COMM_TIMEOUT", "EVT_CMD_RESET"}
  MaxInputs = 2
  MaxReboots = 1
SPECIFICATION Spec
PROPERTY RecordKeptUntilHomed
CHECK_DEADLOCK FALSE
