------------------------------ MODULE SafeDoor ------------------------------
(***************************************************************************)
(* What the controller promises about the door, whatever events arrive and *)
(* in whatever order: the abstract specification module DoorFsm is checked *)
(* against.  Six phases, the command the motor is under, and the fault     *)
(* that start-up has found and not delivered yet:                          *)
(*                                                                         *)
(*   off      no control task is running                                   *)
(*   homing   finding the closed limit; no command is taken                *)
(*   service  passenger commands move the door                             *)
(*   held     EMERGENCY_OPEN was received and no RESET since               *)
(*   fault    latched until RESET or EMERGENCY_OPEN, the motor at rest     *)
(*   boot     the same for the fault found at boot, which alone may leave  *)
(*            the motor running                                            *)
(***************************************************************************)
VARIABLES
  phase,      \* one of the six above
  actuator,   \* "STOP", "OPEN" or "CLOSE"
  boot_fault  \* "NONE", "PENDING", or "REFUSED" for one that was given up

vars == <<phase, actuator, boot_fault>>

Init == phase = "off" /\ actuator = "STOP" /\ boot_fault = "NONE"

\* SR-4: the only way out of "off", and on RESET out of the two faults and
\* "held".
StartHoming ==
  /\ phase \in {"off", "fault", "boot", "held"}
  /\ actuator # "OPEN"
  /\ phase' = "homing"
  /\ actuator' = "CLOSE"
  /\ UNCHANGED boot_fault

\* The same RESET while the door opens: the one step that turns an opening
\* into a closing.
ResetTurnsOpening ==
  /\ phase \in {"boot", "held"}
  /\ actuator = "OPEN"
  /\ phase' = "homing"
  /\ actuator' = "CLOSE"
  /\ UNCHANGED boot_fault

Homed ==
  /\ phase = "homing"
  /\ phase' = "service"
  /\ actuator' = "STOP"
  /\ UNCHANGED boot_fault

\* Opening may preempt anything in service, closing only a door at rest.
Open == phase = "service" /\ actuator' = "OPEN" /\ UNCHANGED <<phase, boot_fault>>

Close ==
  /\ phase = "service"
  /\ actuator = "STOP"
  /\ actuator' = "CLOSE"
  /\ UNCHANGED <<phase, boot_fault>>

LimitReached ==
  /\ phase \in {"service", "held"}
  /\ actuator' = "STOP"
  /\ UNCHANGED <<phase, boot_fault>>

\* SR-6: from any phase, and then the door opens and is never closed.
Emergency ==
  /\ phase # "off"
  /\ phase' = "held"
  /\ actuator' = "OPEN"
  /\ UNCHANGED boot_fault

\* SR-2: a fault stops the motor in the same step.
Fail ==
  /\ phase # "off"
  /\ phase' = "fault"
  /\ actuator' = "STOP"
  /\ UNCHANGED boot_fault

\* The fault that was pending is latched, once a boot; the motor is left as
\* it is.
LatchBootFault ==
  /\ phase # "off"
  /\ boot_fault = "PENDING"
  /\ boot_fault' = "NONE"
  /\ phase' = "boot"
  /\ UNCHANGED actuator

GiveUpBootFault ==
  /\ boot_fault = "PENDING"
  /\ boot_fault' = "REFUSED"
  /\ UNCHANGED <<phase, actuator>>

PowerCycle ==
  /\ phase' = "off"
  /\ actuator' = "STOP"
  /\ boot_fault' \in {"NONE", "PENDING"}

Next ==
  \/ StartHoming
  \/ ResetTurnsOpening
  \/ Homed
  \/ Open
  \/ Close
  \/ LimitReached
  \/ Emergency
  \/ Fail
  \/ LatchBootFault
  \/ GiveUpBootFault
  \/ PowerCycle

Spec == Init /\ [][Next]_vars
=============================================================================
