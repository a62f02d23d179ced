--------------------------- MODULE MCDoorPipeline ---------------------------
EXTENDS DoorPipeline
=============================================================================
