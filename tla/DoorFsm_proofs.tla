--------------------------- MODULE DoorFsm_proofs ---------------------------
(***************************************************************************)
(* Proofs about DoorFsm, for every value of MaxStalls: type correctness,   *)
(* the safety invariants, and that the state machine implements SafeDoor.  *)
(***************************************************************************)
EXTENDS DoorFsm, TLAPS

-----------------------------------------------------------------------------
(* The fault record.                                                       *)

\* A write of a persistable code leaves a store, and when it reports success
\* both keys are committed (fault_nvs.c:27-56).
LEMMA WriteOutcomes ==
  ASSUME NEW s \in Store, NEW c \in PersistedCodes,
         NEW o \in fault_nvs_write(s, c)
  PROVE  /\ o.nvs \in Store
         /\ o.ret \in {"ESP_OK", "ESP_FAIL"}
         /\ o.ret = "ESP_OK" =>
              /\ o.nvs.flash.fault_state = "ACTIVE"
              /\ o.nvs.flash.fault_code = c
  BY DEF fault_nvs_write, ActiveSet, CodeSet, nvs_set, nvs_commit, Ok, Fail,
         Store, Record

\* A clear leaves a store, and when it reports success no fault is committed
\* (fault_nvs.c:94-109).
LEMMA ClearOutcomes ==
  ASSUME NEW s \in Store, NEW o \in fault_nvs_clear(s)
  PROVE  /\ o.nvs \in Store
         /\ o.ret \in {"ESP_OK", "ESP_FAIL"}
         /\ o.ret = "ESP_OK" => o.nvs.flash.fault_state = "CLEAR"
  BY DEF fault_nvs_clear, ClearedSet, nvs_set, nvs_commit, Ok, Fail, Store, Record

\* A boot finds a store whose two copies agree, so a committed fault is one
\* that fault_nvs_read sees.
LEMMA BootFinds ==
  ASSUME NEW s \in Store, NEW r \in Survivors(s) \cup {BlankStore}
  PROVE  /\ r \in Store
         /\ r.flash.fault_state = "ACTIVE" => BootEvent(r) = "PENDING"
         /\ BootEvent(r) \in {"NONE", "PENDING"}
<1>1. r \in Store /\ r.live = r.flash
  BY DEF Survivors, BlankStore, BlankRecord, Store, Record
<1>2. r.live.fault_state = "ACTIVE" => fault_nvs_read(r) # "NONE"
  BY <1>1 DEF fault_nvs_read, Store, Record, PersistedCodes
<1>. QED
  BY <1>1, <1>2 DEF BootEvent

-----------------------------------------------------------------------------
(* Type correctness.                                                       *)

\* fsm_enter_fault keeps every variable it writes in its type.
LEMMA EnterFaultType ==
  ASSUME TypeOK, NEW c \in PersistedCodes, fsm_enter_fault(c)
  PROVE  /\ state' \in States
         /\ fault_code' \in FaultCodes
         /\ emergency_lock' \in {"ON", "OFF"}
         /\ obstruction_active' \in {0, 1}
         /\ homing_complete' \in {0, 1}
         /\ motor' \in {"STOP", "OPEN", "CLOSE"}
         /\ hot_reversal' \in {0, 1}
         /\ stall_timer' \in {"STOPPED"} \cup Moving
         /\ stall_lost' \in {0, 1}
         /\ nvs' \in Store
         /\ nvs_ret' \in {"ESP_OK", "ESP_FAIL"}
<1>1. nvs' \in Store /\ nvs_ret' \in {"ESP_OK", "ESP_FAIL"}
  BY WriteOutcomes DEF fsm_enter_fault, TypeOK
<1>. QED
  BY <1>1 DEF fsm_enter_fault, MotorStopThen, fsm_transition, stall_timer_cancel,
              TypeOK, States, FaultCodes, PersistedCodes

\* Every step keeps the types.
LEMMA TypeStep == TypeOK /\ [Next]_vars => TypeOK'
<1>. SUFFICES ASSUME TypeOK, [Next]_vars
              PROVE  TypeOK'
  OBVIOUS
<1>. USE DEF fsm_transition, Motor, MotorStopThen, stall_timer_start,
             stall_timer_cancel, fsm, ctx, drive, timer, store, env,
             States, FaultCodes, Moving
<1>1. CASE ControlTaskStarts
  BY <1>1 DEF ControlTaskStarts, fsm_start_homing, Opposite, TypeOK
<1>2. CASE ExternalEvent
  <2>. UNCHANGED <<stalls, boot_event>>
    BY <1>2 DEF ExternalEvent
  <2>1. CASE EVT_CMD_EMERGENCY_OPEN
    BY <2>1 DEF EVT_CMD_EMERGENCY_OPEN, TypeOK
  <2>2. CASE EVT_CMD_RESET
    <3>1. nvs' \in Store /\ nvs_ret' \in {"ESP_OK", "ESP_FAIL"}
      BY <2>2, ClearOutcomes DEF EVT_CMD_RESET, TypeOK
    <3>. QED
      BY <2>2, <3>1 DEF EVT_CMD_RESET, fsm_start_homing, Opposite, TypeOK
  <2>3. CASE EVT_CMD_OPEN
    BY <2>3 DEF EVT_CMD_OPEN, OpenAccepted, Opposite, TypeOK
  <2>4. CASE EVT_CMD_CLOSE
    BY <2>4 DEF EVT_CMD_CLOSE, CloseAccepted, Opposite, TypeOK
  <2>5. CASE EVT_SENSOR_FULLY_OPEN
    BY <2>5 DEF EVT_SENSOR_FULLY_OPEN, Opposite, TypeOK
  <2>6. CASE EVT_SENSOR_FULLY_CLOSED
    BY <2>6 DEF EVT_SENSOR_FULLY_CLOSED, Opposite, TypeOK
  <2>7. CASE EVT_OBSTRUCTION_DETECTED
    BY <2>7 DEF EVT_OBSTRUCTION_DETECTED, TypeOK
  <2>8. CASE EVT_OBSTRUCTION_CLEAR
    BY <2>8 DEF EVT_OBSTRUCTION_CLEAR, TypeOK
  <2>9. CASE EVT_SPOF_DETECTED
    BY <2>9, EnterFaultType DEF EVT_SPOF_DETECTED, PersistedCodes, TypeOK
  <2>10. CASE EVT_COMM_TIMEOUT
    BY <2>10, EnterFaultType DEF EVT_COMM_TIMEOUT, PersistedCodes, TypeOK
  <2>. QED
    BY <1>2, <2>1, <2>2, <2>3, <2>4, <2>5, <2>6, <2>7, <2>8, <2>9, <2>10
       DEF ExternalEvent
<1>3. CASE StallTimerExpires
  BY <1>3, MaxStallsAssumption DEF StallTimerExpires, TypeOK
<1>4. CASE StallDropped
  BY <1>4, MaxStallsAssumption DEF StallDropped, TypeOK
<1>5. CASE StallHandled
  <2>1. stalls' \in 0..MaxStalls
    BY <1>5, MaxStallsAssumption DEF StallHandled, TypeOK
  <2>. QED
    BY <1>5, <2>1, EnterFaultType
       DEF StallHandled, EVT_MOTOR_STALL, PersistedCodes, TypeOK
<1>6. CASE BootFaultHandled
  BY <1>6 DEF BootFaultHandled, EVT_FAULT_PERSIST, TypeOK
<1>7. CASE BootFaultRefused
  BY <1>7 DEF BootFaultRefused, TypeOK
<1>8. CASE Reboot
  <2>1. nvs' \in Store /\ boot_event' \in {"NONE", "PENDING", "REFUSED"}
    BY <1>8, BootFinds DEF Reboot, TypeOK
  <2>. QED
    BY <1>8, <2>1, MaxStallsAssumption DEF Reboot, TypeOK
<1>9. CASE UNCHANGED vars
  BY <1>9 DEF vars, TypeOK
<1>. QED
  BY <1>1, <1>2, <1>3, <1>4, <1>5, <1>6, <1>7, <1>8, <1>9 DEF Next

\* Every variable of the state machine keeps its type, for any number of
\* stall events in flight.
THEOREM TypeCorrect == Spec => []TypeOK
<1>1. Init => TypeOK
  BY MaxStallsAssumption
     DEF Init, TypeOK, States, FaultCodes, Moving, BlankStore, BlankRecord, Store, Record
<1>. QED
  BY <1>1, TypeStep, PTL DEF Spec

-----------------------------------------------------------------------------
(* The inductive invariant.  The safety invariants of DoorFsm.tla lean on  *)
(* one another within three groups, and each group is inductive: the motor *)
(* and its timer; the service conditions, which need the first group's     *)
(* account of the motor; the fault record.                                 *)

MotionInv ==
  /\ MotorMatchesState
  /\ MotionGuarded
  /\ TimerWithMotion
  /\ ReversalStopsFirst

ServiceInv ==
  /\ EmergencyHolds
  /\ ClosingUnobstructed
  /\ HomedBeforeService

RecordInv ==
  /\ FaultRecorded
  /\ RecordedFaultBlocks

IInv == TypeOK /\ MotionInv /\ ServiceInv /\ RecordInv

\* Motor, timer and state change together in every handler.
LEMMA MotionStep == TypeOK /\ MotionInv /\ TypeOK' /\ [Next]_vars => MotionInv'
<1>. SUFFICES ASSUME TypeOK /\ MotionInv, TypeOK', [Next]_vars
              PROVE  MotionInv'
  OBVIOUS
<1>. USE DEF MotionInv, MotorMatchesState, MotionGuarded, TimerWithMotion,
             ReversalStopsFirst, Direction, fsm_transition, Motor, MotorStopThen, Opposite, stall_timer_start,
             stall_timer_cancel, Running, fsm, ctx, drive, timer, store, env, Moving, TypeOK
<1>1. CASE ControlTaskStarts
  BY <1>1 DEF ControlTaskStarts, fsm_start_homing
<1>2. CASE ExternalEvent
  <2>. Running /\ UNCHANGED <<stalls, boot_event>>
    BY <1>2 DEF ExternalEvent
  <2>1. CASE EVT_CMD_EMERGENCY_OPEN
    BY <2>1 DEF EVT_CMD_EMERGENCY_OPEN
  <2>2. CASE EVT_CMD_RESET
    BY <2>2 DEF EVT_CMD_RESET, ResetAccepted, fsm_start_homing
  <2>3. CASE EVT_CMD_OPEN
    BY <2>3 DEF EVT_CMD_OPEN, OpenAccepted
  <2>4. CASE EVT_CMD_CLOSE
    BY <2>4 DEF EVT_CMD_CLOSE, CloseAccepted
  <2>5. CASE EVT_SENSOR_FULLY_OPEN
    BY <2>5 DEF EVT_SENSOR_FULLY_OPEN
  <2>6. CASE EVT_SENSOR_FULLY_CLOSED
    BY <2>6 DEF EVT_SENSOR_FULLY_CLOSED
  <2>7. CASE EVT_OBSTRUCTION_DETECTED
    BY <2>7 DEF EVT_OBSTRUCTION_DETECTED
  <2>8. CASE EVT_OBSTRUCTION_CLEAR
    BY <2>8 DEF EVT_OBSTRUCTION_CLEAR
  <2>9. CASE EVT_SPOF_DETECTED
    BY <2>9 DEF EVT_SPOF_DETECTED, fsm_enter_fault
  <2>10. CASE EVT_COMM_TIMEOUT
    BY <2>10 DEF EVT_COMM_TIMEOUT, fsm_enter_fault
  <2>. QED
    BY <1>2, <2>1, <2>2, <2>3, <2>4, <2>5, <2>6, <2>7, <2>8, <2>9, <2>10
       DEF ExternalEvent
<1>3. CASE StallTimerExpires
  BY <1>3 DEF StallTimerExpires
<1>4. CASE StallDropped
  BY <1>4 DEF StallDropped
<1>5. CASE StallHandled
  BY <1>5 DEF StallHandled, EVT_MOTOR_STALL, fsm_enter_fault
<1>6. CASE BootFaultHandled
  BY <1>6 DEF BootFaultHandled, EVT_FAULT_PERSIST
<1>7. CASE BootFaultRefused
  BY <1>7 DEF BootFaultRefused
<1>8. CASE Reboot
  BY <1>8 DEF Reboot
<1>9. CASE UNCHANGED vars
  BY <1>9 DEF vars
<1>. QED
  BY <1>1, <1>2, <1>3, <1>4, <1>5, <1>6, <1>7, <1>8, <1>9 DEF Next

\* No handler leaves the emergency lock, the obstruction flag or the homing
\* flag behind the state.
LEMMA ServiceStep == TypeOK /\ ServiceInv /\ TypeOK' /\ [Next]_vars => ServiceInv'
<1>. SUFFICES ASSUME TypeOK /\ ServiceInv, TypeOK', [Next]_vars
              PROVE  ServiceInv'
  OBVIOUS
<1>. USE DEF ServiceInv, EmergencyHolds, ClosingUnobstructed, HomedBeforeService,
             fsm_transition, Motor, MotorStopThen, Opposite, stall_timer_start,
             stall_timer_cancel, Running, fsm, ctx, drive, timer, store, env, Moving, TypeOK
<1>1. CASE ControlTaskStarts
  BY <1>1 DEF ControlTaskStarts, fsm_start_homing
<1>2. CASE ExternalEvent
  <2>. Running /\ UNCHANGED <<stalls, boot_event>>
    BY <1>2 DEF ExternalEvent
  <2>1. CASE EVT_CMD_EMERGENCY_OPEN
    BY <2>1 DEF EVT_CMD_EMERGENCY_OPEN
  <2>2. CASE EVT_CMD_RESET
    BY <2>2 DEF EVT_CMD_RESET, ResetAccepted, fsm_start_homing
  <2>3. CASE EVT_CMD_OPEN
    BY <2>3 DEF EVT_CMD_OPEN, OpenAccepted
  <2>4. CASE EVT_CMD_CLOSE
    BY <2>4 DEF EVT_CMD_CLOSE, CloseAccepted
  <2>5. CASE EVT_SENSOR_FULLY_OPEN
    BY <2>5 DEF EVT_SENSOR_FULLY_OPEN
  <2>6. CASE EVT_SENSOR_FULLY_CLOSED
    BY <2>6 DEF EVT_SENSOR_FULLY_CLOSED
  <2>7. CASE EVT_OBSTRUCTION_DETECTED
    BY <2>7 DEF EVT_OBSTRUCTION_DETECTED
  <2>8. CASE EVT_OBSTRUCTION_CLEAR
    BY <2>8 DEF EVT_OBSTRUCTION_CLEAR
  <2>9. CASE EVT_SPOF_DETECTED
    BY <2>9 DEF EVT_SPOF_DETECTED, fsm_enter_fault
  <2>10. CASE EVT_COMM_TIMEOUT
    BY <2>10 DEF EVT_COMM_TIMEOUT, fsm_enter_fault
  <2>. QED
    BY <1>2, <2>1, <2>2, <2>3, <2>4, <2>5, <2>6, <2>7, <2>8, <2>9, <2>10
       DEF ExternalEvent
<1>3. CASE StallTimerExpires
  BY <1>3 DEF StallTimerExpires
<1>4. CASE StallDropped
  BY <1>4 DEF StallDropped
<1>5. CASE StallHandled
  BY <1>5 DEF StallHandled, EVT_MOTOR_STALL, fsm_enter_fault
<1>6. CASE BootFaultHandled
  BY <1>6 DEF BootFaultHandled, EVT_FAULT_PERSIST
<1>7. CASE BootFaultRefused
  BY <1>7 DEF BootFaultRefused
<1>8. CASE Reboot
  BY <1>8 DEF Reboot
<1>9. CASE UNCHANGED vars
  BY <1>9 DEF vars
<1>. QED
  BY <1>1, <1>2, <1>3, <1>4, <1>5, <1>6, <1>7, <1>8, <1>9 DEF Next

\* The fault record follows the fault state, over failing writes and reboots.
LEMMA RecordStep == TypeOK /\ RecordInv /\ TypeOK' /\ [Next]_vars => RecordInv'
<1>. SUFFICES ASSUME TypeOK /\ RecordInv, TypeOK', [Next]_vars
              PROVE  RecordInv'
  OBVIOUS
<1>. USE DEF RecordInv, FaultRecorded, RecordedFaultBlocks,
             fsm_transition, Motor, MotorStopThen, Opposite, stall_timer_start,
             stall_timer_cancel, Running, fsm, ctx, drive, timer, store, env, Moving, TypeOK
<1>1. CASE ControlTaskStarts
  BY <1>1 DEF ControlTaskStarts, fsm_start_homing
<1>2. CASE ExternalEvent
  <2>. Running /\ UNCHANGED <<stalls, boot_event>>
    BY <1>2 DEF ExternalEvent
  <2>1. CASE EVT_CMD_EMERGENCY_OPEN
    BY <2>1 DEF EVT_CMD_EMERGENCY_OPEN
  <2>2. CASE EVT_CMD_RESET
    BY <2>2, ClearOutcomes DEF EVT_CMD_RESET, ResetAccepted, fsm_start_homing
  <2>3. CASE EVT_CMD_OPEN
    BY <2>3 DEF EVT_CMD_OPEN, OpenAccepted
  <2>4. CASE EVT_CMD_CLOSE
    BY <2>4 DEF EVT_CMD_CLOSE, CloseAccepted
  <2>5. CASE EVT_SENSOR_FULLY_OPEN
    BY <2>5 DEF EVT_SENSOR_FULLY_OPEN
  <2>6. CASE EVT_SENSOR_FULLY_CLOSED
    BY <2>6 DEF EVT_SENSOR_FULLY_CLOSED
  <2>7. CASE EVT_OBSTRUCTION_DETECTED
    BY <2>7 DEF EVT_OBSTRUCTION_DETECTED
  <2>8. CASE EVT_OBSTRUCTION_CLEAR
    BY <2>8 DEF EVT_OBSTRUCTION_CLEAR
  <2>9. CASE EVT_SPOF_DETECTED
    BY <2>9, WriteOutcomes DEF EVT_SPOF_DETECTED, fsm_enter_fault, PersistedCodes
  <2>10. CASE EVT_COMM_TIMEOUT
    BY <2>10, WriteOutcomes DEF EVT_COMM_TIMEOUT, fsm_enter_fault, PersistedCodes
  <2>. QED
    BY <1>2, <2>1, <2>2, <2>3, <2>4, <2>5, <2>6, <2>7, <2>8, <2>9, <2>10
       DEF ExternalEvent
<1>3. CASE StallTimerExpires
  BY <1>3 DEF StallTimerExpires
<1>4. CASE StallDropped
  BY <1>4 DEF StallDropped
<1>5. CASE StallHandled
  BY <1>5, WriteOutcomes DEF StallHandled, EVT_MOTOR_STALL, fsm_enter_fault, PersistedCodes
<1>6. CASE BootFaultHandled
  BY <1>6 DEF BootFaultHandled, EVT_FAULT_PERSIST
<1>7. CASE BootFaultRefused
  BY <1>7 DEF BootFaultRefused
<1>8. CASE Reboot
  BY <1>8, BootFinds DEF Reboot
<1>9. CASE UNCHANGED vars
  BY <1>9 DEF vars
<1>. QED
  BY <1>1, <1>2, <1>3, <1>4, <1>5, <1>6, <1>7, <1>8, <1>9 DEF Next

\* The three groups hold in every reachable state.
THEOREM Invariance == Spec => []IInv
<1>1. Init => IInv
  <2>. SUFFICES ASSUME Init PROVE IInv
    OBVIOUS
  <2>. USE DEF Init, IInv, MotionInv, ServiceInv, RecordInv, BlankStore, BlankRecord
  <2>1. TypeOK
    BY MaxStallsAssumption DEF TypeOK, States, FaultCodes, Moving, Store, Record
  <2>2. MotionInv
    BY DEF MotorMatchesState, MotionGuarded, TimerWithMotion, ReversalStopsFirst,
           Direction, Moving
  <2>3. ServiceInv
    BY DEF EmergencyHolds, ClosingUnobstructed, HomedBeforeService
  <2>4. RecordInv
    BY DEF FaultRecorded, RecordedFaultBlocks
  <2>. QED
    BY <2>1, <2>2, <2>3, <2>4
<1>2. IInv /\ [Next]_vars => IInv'
  BY TypeStep, MotionStep, ServiceStep, RecordStep DEF IInv
<1>. QED
  BY <1>1, <1>2, PTL DEF Spec

\* The motor runs as the state says, except in a FAULT entered at boot
\* (EVT_FAULT_PERSIST).
THEOREM MotorIsKnown == Spec => []MotorMatchesState
<1>1. IInv => MotorMatchesState
  BY DEF IInv, MotionInv
<1>. QED
  BY <1>1, Invariance, PTL

\* A moving door always has a stall timer of its own running or a stall on the
\* way to the FSM, unless its expiry was lost to a full queue with no other stall
\* to come (stall_timer_start, stall_timer_callback).
THEOREM MotionIsGuarded == Spec => []MotionGuarded
<1>1. IInv => MotionGuarded
  BY DEF IInv, MotionInv
<1>. QED
  BY <1>1, Invariance, PTL

\* No handler leaves the stall timer running past the motion it was armed for.
THEOREM TimerEndsWithMotion == Spec => []TimerWithMotion
<1>1. IInv => TimerWithMotion
  BY DEF IInv, MotionInv
<1>. QED
  BY <1>1, Invariance, PTL

\* The running motor is reversed without a STOP only by the homing of a RESET.
THEOREM ReversalsStop == Spec => []ReversalStopsFirst
<1>1. IInv => ReversalStopsFirst
  BY DEF IInv, MotionInv
<1>. QED
  BY <1>1, Invariance, PTL

\* Under the emergency lock the motor is never driven closed (SR-6).
THEOREM EmergencyIsHeld == Spec => []EmergencyHolds
<1>1. IInv => EmergencyHolds
  BY DEF IInv, ServiceInv
<1>. QED
  BY <1>1, Invariance, PTL

\* The motor closes the door while obstruction_active is set in a homing only, or in
\* the boot fault after one (SR-1).
THEOREM ClosingIsClear == Spec => []NoCloseOnObstruction
<1>1. IInv => NoCloseOnObstruction
  BY DEF IInv, MotionInv, ServiceInv, MotorMatchesState, ClosingUnobstructed, Direction,
         NoCloseOnObstruction, TypeOK, States
<1>. QED
  BY <1>1, Invariance, PTL

\* Commands move the door only after a homing in this session (SR-4).
THEOREM ServiceIsHomed == Spec => []HomedBeforeService
<1>1. IInv => HomedBeforeService
  BY DEF IInv, ServiceInv
<1>. QED
  BY <1>1, Invariance, PTL

\* The fault the controller is in is committed, or its write failed (NFR-3).
THEOREM FaultIsRecorded == Spec => []FaultRecorded
<1>1. IInv => FaultRecorded
  BY DEF IInv, RecordInv
<1>. QED
  BY <1>1, Invariance, PTL

\* While a fault is committed the door is not in normal service, over any
\* number of reboots (SR-4, NFR-3).
THEOREM RecordIsObeyed == Spec => []RecordedFaultBlocks
<1>1. IInv => RecordedFaultBlocks
  BY DEF IInv, RecordInv
<1>. QED
  BY <1>1, Invariance, PTL

-----------------------------------------------------------------------------
(* Refinement.                                                             *)

\* Entering a fault is SafeDoor's Fail: the motor stops in the same step.
LEMMA EnterFaultFails ==
  ASSUME Running, NEW c \in PersistedCodes, fsm_enter_fault(c), UNCHANGED boot_event
  PROVE  Safe!Next
<1>1. state' = "FAULT" /\ motor' = "STOP" /\ fault_code' = c
  BY DEF fsm_enter_fault, fsm_transition, MotorStopThen, PersistedCodes
<1>2. Phase' = "fault"
  BY <1>1 DEF Phase, PersistedCodes
<1>3. Phase # "off"
  BY DEF Running, Phase
<1>. QED
  BY <1>1, <1>2, <1>3 DEF Safe!Next, Safe!Fail

\* Under the invariant, every step of the state machine is a step of SafeDoor
\* or leaves its variables alone.
LEMMA SafeStep == IInv /\ [Next]_vars => [Safe!Next]_(Safe!vars)
<1>. SUFFICES ASSUME IInv, [Next]_vars
              PROVE  Safe!Next \/ UNCHANGED Safe!vars
  OBVIOUS
<1>. state \in States
  BY DEF IInv, TypeOK
<1>. USE DEF fsm_transition, Motor, MotorStopThen, Running, fsm, ctx, drive,
             env, Moving, States, Phase, Safe!Next, Safe!vars
<1>1. CASE ControlTaskStarts
  <2>1. Phase = "off"
    BY <1>1 DEF ControlTaskStarts
  <2>2. state' = "HOMING" /\ motor' = "CLOSE"
    BY <1>1 DEF ControlTaskStarts, fsm_start_homing
  <2>3. Phase' = "homing"
    BY <2>2
  <2>4. motor = "STOP"
    BY <1>1 DEF ControlTaskStarts, IInv, MotionInv, MotorMatchesState, Direction
  <2>. QED
    BY <1>1, <2>1, <2>2, <2>3, <2>4 DEF ControlTaskStarts, Safe!StartHoming
<1>2. CASE ExternalEvent
  <2>. Running /\ UNCHANGED boot_event
    BY <1>2 DEF ExternalEvent
  <2>1. CASE EVT_CMD_EMERGENCY_OPEN
    BY <2>1 DEF EVT_CMD_EMERGENCY_OPEN, Safe!Emergency
  <2>2. CASE EVT_CMD_RESET
    <3>1. CASE ResetAccepted
      <4>1. Phase \in {"fault", "boot", "held"}
        BY <3>1 DEF ResetAccepted, IInv, ServiceInv, EmergencyHolds
      <4>2. Phase = "fault" => motor = "STOP"
        BY DEF IInv, MotionInv, MotorMatchesState, Direction
      <4>3. Phase' = "homing" /\ motor' = "CLOSE"
        BY <2>2, <3>1 DEF EVT_CMD_RESET, fsm_start_homing
      <4>. QED
        BY <4>1, <4>2, <4>3 DEF Safe!StartHoming, Safe!ResetTurnsOpening
    <3>2. CASE ~ResetAccepted
      BY <2>2, <3>2 DEF EVT_CMD_RESET
    <3>. QED
      BY <3>1, <3>2
  <2>3. CASE EVT_CMD_OPEN
    BY <2>3 DEF EVT_CMD_OPEN, OpenAccepted, Safe!Open
  <2>4. CASE EVT_CMD_CLOSE
    <3>1. CloseAccepted => motor = "STOP"
      BY DEF CloseAccepted, IInv, MotionInv, MotorMatchesState, Direction
    <3>. QED
      BY <2>4, <3>1 DEF EVT_CMD_CLOSE, CloseAccepted, Safe!Close
  <2>5. CASE EVT_SENSOR_FULLY_OPEN
    BY <2>5 DEF EVT_SENSOR_FULLY_OPEN, Safe!LimitReached
  <2>6. CASE EVT_SENSOR_FULLY_CLOSED
    <3>1. state \in {"CLOSING", "HOMING"} => emergency_lock # "ON"
      BY DEF IInv, ServiceInv, EmergencyHolds
    <3>. QED
      BY <2>6, <3>1 DEF EVT_SENSOR_FULLY_CLOSED, Safe!LimitReached, Safe!Homed
  <2>7. CASE EVT_OBSTRUCTION_DETECTED
    <3>1. state = "CLOSING" => emergency_lock # "ON"
      BY DEF IInv, ServiceInv, EmergencyHolds
    <3>. QED
      BY <2>7, <3>1 DEF EVT_OBSTRUCTION_DETECTED, Safe!Open
  <2>8. CASE EVT_OBSTRUCTION_CLEAR
    BY <2>8 DEF EVT_OBSTRUCTION_CLEAR
  <2>9. CASE EVT_SPOF_DETECTED
    BY <2>9, EnterFaultFails DEF EVT_SPOF_DETECTED, PersistedCodes
  <2>10. CASE EVT_COMM_TIMEOUT
    BY <2>10, EnterFaultFails DEF EVT_COMM_TIMEOUT, PersistedCodes
  <2>. QED
    BY <1>2, <2>1, <2>2, <2>3, <2>4, <2>5, <2>6, <2>7, <2>8, <2>9, <2>10
       DEF ExternalEvent
<1>3. CASE StallTimerExpires
  BY <1>3 DEF StallTimerExpires
<1>4. CASE StallDropped
  BY <1>4 DEF StallDropped
<1>5. CASE StallHandled
  BY <1>5, EnterFaultFails DEF StallHandled, EVT_MOTOR_STALL, PersistedCodes
<1>6. CASE BootFaultHandled
  BY <1>6 DEF BootFaultHandled, EVT_FAULT_PERSIST, Safe!LatchBootFault
<1>7. CASE BootFaultRefused
  BY <1>7 DEF BootFaultRefused, Safe!GiveUpBootFault
<1>8. CASE Reboot
  BY <1>8 DEF Reboot, BootEvent, Safe!PowerCycle
<1>9. CASE UNCHANGED vars
  BY <1>9 DEF vars
<1>. QED
  BY <1>1, <1>2, <1>3, <1>4, <1>5, <1>6, <1>7, <1>8, <1>9 DEF Next

\* The state machine implements SafeDoor: faults are latched and stop the motor,
\* the fault found at boot alone excepted, service starts with a homing, and an
\* opening door is turned round by a RESET under the lock, or in the fault of a
\* boot, and by nothing else.
THEOREM ImplementsSafeDoor == Spec => SafeDoorSpec
<1>1. Init => Safe!Init
  BY DEF Init, Safe!Init, Phase
<1>. QED
  BY <1>1, SafeStep, Invariance, PTL DEF Spec, SafeDoorSpec, Safe!Spec

-----------------------------------------------------------------------------
(* The committed record.                                                   *)

\* A write never takes a committed fault away, whichever of its calls fails
\* (fault_nvs.c:27-56).
LEMMA WriteKeepsRecord ==
  ASSUME NEW s \in Store, NEW c \in PersistedCodes, NEW o \in fault_nvs_write(s, c),
         s.flash.fault_state = "ACTIVE"
  PROVE  o.nvs.flash.fault_state = "ACTIVE"
  BY DEF fault_nvs_write, ActiveSet, CodeSet, nvs_set, nvs_commit, Ok, Fail,
         Store, Record

\* A boot finds a committed flag, or one that was set after it.
LEMMA SurvivorsKeepRecord ==
  ASSUME NEW s \in Store, NEW r \in Survivors(s)
  PROVE  r.flash.fault_state \in {s.live.fault_state, s.flash.fault_state}
  BY DEF Survivors

\* The live flag of a committed fault is ACTIVE or CLEAR: nothing removes a key.
FlagKept == nvs.flash.fault_state # "ABSENT" => nvs.live.fault_state # "ABSENT"

\* Who touches the record: fsm_enter_fault, an accepted RESET, a boot.
LEMMA NextOnRecord ==
  ASSUME [Next]_vars
  PROVE  \/ \E c \in PersistedCodes : fsm_enter_fault(c)
         \/ UNCHANGED nvs
         \/ EVT_CMD_RESET
         \/ Reboot
<1>1. CASE ControlTaskStarts
  BY <1>1 DEF ControlTaskStarts, store
<1>2. CASE ExternalEvent
  BY <1>2 DEF ExternalEvent, EVT_CMD_EMERGENCY_OPEN, EVT_CMD_OPEN, EVT_CMD_CLOSE,
              EVT_SENSOR_FULLY_OPEN, EVT_SENSOR_FULLY_CLOSED, EVT_OBSTRUCTION_DETECTED,
              EVT_OBSTRUCTION_CLEAR, EVT_SPOF_DETECTED, EVT_COMM_TIMEOUT,
              PersistedCodes, fsm, store
<1>3. CASE StallTimerExpires \/ StallDropped \/ BootFaultRefused
  BY <1>3 DEF StallTimerExpires, StallDropped, BootFaultRefused, fsm, store
<1>4. CASE StallHandled
  BY <1>4 DEF StallHandled, EVT_MOTOR_STALL, PersistedCodes, fsm, store
<1>5. CASE BootFaultHandled
  BY <1>5 DEF BootFaultHandled, EVT_FAULT_PERSIST, store
<1>6. CASE UNCHANGED vars
  BY <1>6 DEF vars, fsm, store
<1>. QED
  BY <1>1, <1>2, <1>3, <1>4, <1>5, <1>6 DEF Next

\* No step removes the key.
LEMMA FlagKeptStep == TypeOK /\ FlagKept /\ [Next]_vars => FlagKept'
<1>. SUFFICES ASSUME TypeOK, FlagKept, [Next]_vars
              PROVE  FlagKept'
  OBVIOUS
<1>1. ASSUME NEW c \in PersistedCodes, fsm_enter_fault(c)
      PROVE  FlagKept'
  <2>1. PICK o \in fault_nvs_write(nvs, c) : nvs' = o.nvs
    BY <1>1 DEF fsm_enter_fault
  <2>. QED
    BY <2>1 DEF FlagKept, TypeOK, fault_nvs_write, ActiveSet, CodeSet, nvs_set,
                nvs_commit, Ok, Fail, Store, Record
<1>2. CASE UNCHANGED nvs
  BY <1>2 DEF FlagKept
<1>3. CASE EVT_CMD_RESET
  <2>1. CASE ResetAccepted
    <3>1. PICK o \in fault_nvs_clear(nvs) : nvs' = o.nvs
      BY <1>3, <2>1 DEF EVT_CMD_RESET
    <3>. QED
      BY <3>1 DEF FlagKept, TypeOK, fault_nvs_clear, ClearedSet, nvs_set, nvs_commit,
                  Ok, Fail, Store, Record
  <2>2. CASE ~ResetAccepted
    BY <1>2, <1>3, <2>2 DEF EVT_CMD_RESET, fsm, store
  <2>. QED
    BY <2>1, <2>2
<1>4. CASE Reboot
  BY <1>4 DEF Reboot, FlagKept, Survivors, BlankStore, BlankRecord
<1>. QED
  BY <1>1, <1>2, <1>3, <1>4, NextOnRecord

\* A committed fault is cleared by an accepted RESET only, at the moment it is
\* accepted, for any number of reboots and failing record operations.
THEOREM RecordIsKept == Spec => RecordClearedByReset
<1>1. Init => FlagKept
  BY DEF Init, FlagKept, BlankStore, BlankRecord
<1>2. ASSUME TypeOK, FlagKept, [Next]_vars, Recorded, ~Recorded'
      PROVE  \/ ResetAccepted /\ state' = "HOMING"
             \/ nvs' = BlankStore
             \/ state' = "INIT" /\ nvs.live.fault_state = "CLEAR"
  <2>1. ~(UNCHANGED nvs)
    BY <1>2 DEF Recorded
  <2>2. ASSUME NEW c \in PersistedCodes, fsm_enter_fault(c)
        PROVE  FALSE
    BY <1>2, <2>2, WriteKeepsRecord DEF fsm_enter_fault, Recorded, TypeOK
  <2>3. CASE EVT_CMD_RESET
    BY <2>1, <2>3 DEF EVT_CMD_RESET, fsm_start_homing, fsm, store
  <2>4. CASE Reboot
    <3>1. CASE nvs' \in Survivors(nvs)
      <4>1. nvs'.flash.fault_state = nvs.live.fault_state
        BY <1>2, <3>1, SurvivorsKeepRecord DEF Recorded, TypeOK
      <4>2. nvs.live.fault_state \in {"ABSENT", "CLEAR", "ACTIVE"}
        BY <1>2 DEF TypeOK, Store, Record
      <4>. QED
        BY <1>2, <2>4, <4>1, <4>2 DEF Recorded, FlagKept, Reboot
    <3>. QED
      BY <2>4, <3>1 DEF Reboot
  <2>. QED
    BY <1>2, <2>1, <2>2, <2>3, <2>4, NextOnRecord
<1>. QED
  BY <1>1, <1>2, FlagKeptStep, TypeCorrect, PTL DEF Spec, RecordClearedByReset
=============================================================================
