----------------------------- MODULE MCDoorFsm -----------------------------
EXTENDS DoorFsm
=============================================================================
