CONSTANTS
  Travel = 2
  Inputs = {"EVT_COMM_TIMEOUT", "EVT_CMD_RESET"}
  Sticky = {}
  MaxBounces = 0
SPECIFICATION Spec
PROPERTY StallMeansNotAtLimit
