---------------------------- MODULE MCDoorSensors ----------------------------
EXTENDS DoorSensors
=============================================================================
