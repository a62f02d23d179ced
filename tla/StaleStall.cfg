CONSTANTS
  DISPATCHER_QUEUE_DEPTH = 3
  Inputs = {"EVT_SENSOR_FULLY_CLOSED", "EVT_CMD_OPEN"}
  MaxInputs = 2
  MaxReboots = 0
SPECIFICATION Spec
PROPERTY StallOfThisMotion
CHECK_DEADLOCK FALSE
