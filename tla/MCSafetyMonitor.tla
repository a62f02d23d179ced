--------------------------- MODULE MCSafetyMonitor ---------------------------
EXTENDS SafetyMonitor
=============================================================================
