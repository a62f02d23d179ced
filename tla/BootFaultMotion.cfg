CONSTANTS
  DISPATCHER_QUEUE_DEPTH = 3
  Inputs = {"EVT_COMM_TIMEOUT"}
  MaxInputs = 1
  MaxReboots = 1
SPECIFICATION Spec
INVARIANT MotorStoppedInFault
CHECK_DEADLOCK FALSE
