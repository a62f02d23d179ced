CONSTANT MaxStalls = 2
SPECIFICATION Spec
INVARIANTS
  TypeOK
  MotorMatchesState
  MotionGuarded
  TimerWithMotion
  EmergencyHolds
  NoCloseOnObstruction
  HomedBeforeService
  ReversalStopsFirst
  FaultRecorded
  RecordedFaultBlocks
PROPERTIES
  RecordClearedByReset
  SafeDoorSpec
