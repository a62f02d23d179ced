CONSTANTS
  DISPATCHER_QUEUE_DEPTH = 2
  Inputs = {"EVT_CMD_EMERGENCY_OPEN", "EVT_CMD_RESET", "EVT_CMD_OPEN", "EVT_SENSOR_FULLY_CLOSED", "EVT_COMM_TIMEOUT"}
  MaxInputs = 3
  MaxReboots = 1
SPECIFICATION Spec
INVARIANT QueuesOK
PROPERTIES
  FsmSpec
  LineSpec
  MotionEnds
  BootFaultLatched
CHECK_DEADLOCK FALSE
