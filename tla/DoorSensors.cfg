CONSTANTS
  Travel = 2
  Inputs = {"EVT_CMD_EMERGENCY_OPEN", "EVT_CMD_RESET", "EVT_CMD_OPEN", "EVT_CMD_CLOSE"}
  Sticky = {"closed"}
  MaxBounces = 1
SPECIFICATION Spec
INVARIANTS
  TypeOK
  RestsAtLimit
  SpofExplained
  ObstructionObeyed
PROPERTIES
  StallExplained
  HomingEnds
  ContradictionStops
