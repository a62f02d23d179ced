------------------------------ MODULE DoorFsm ------------------------------
(***************************************************************************)
(* The door state machine (src/src/fsm/door_fsm.c): the context structure, *)
(* one action per event of fsm_process_event, the motor it commands, the   *)
(* one-shot stall timer it arms, the fault record it persists, and the     *)
(* reboots between which only that record survives.                        *)
(*                                                                         *)
(* Only ControlTask writes the context and it handles one event at a time, *)
(* so a handler is one step.  Here any event may be the next one: the      *)
(* queues in front of the handler are module DoorPipeline's, which         *)
(* implements this specification.  Two events need an earlier cause even   *)
(* here: a stall needs the timer to have expired, and EVT_FAULT_PERSIST    *)
(* needs app_main to have found a fault at boot.                           *)
(***************************************************************************)
EXTENDS FaultNvs

CONSTANT
  MaxStalls   \* how many EVT_MOTOR_STALL the two queues can hold at a time

ASSUME MaxStallsAssumption == MaxStalls \in Nat

VARIABLES
  state,               \* s_fsm_ctx.state
  fault_code,          \* s_fsm_ctx.fault_code
  emergency_lock,      \* s_fsm_ctx.emergency_lock
  obstruction_active,  \* s_fsm_ctx.obstruction_active
  homing_complete,     \* s_fsm_ctx.homing_complete
  motor,               \* last hal_motor_* command
  hot_reversal,        \* 1: it reversed the running motor, no STOP between
  stall_timer,         \* "STOPPED", or the moving state it was armed for
  stall_lost,          \* 1: its expiry was dropped and no other stall is due
  nvs,                 \* the fault record, live and committed
  nvs_ret,             \* result of the last fault_nvs_write or _clear
  stalls,              \* EVT_MOTOR_STALL posted and not yet handled
  boot_event           \* EVT_FAULT_PERSIST of this boot: to come, or refused

ctx   == <<state, fault_code, emergency_lock, obstruction_active, homing_complete>>
drive == <<motor, hot_reversal>>
timer == <<stall_timer, stall_lost>>
store == <<nvs, nvs_ret>>
fsm   == <<ctx, drive, timer, store>>
env   == <<stalls, boot_event>>
vars  == <<fsm, env>>

States == {"INIT", "HOMING", "IDLE", "OPENING", "OPEN", "CLOSING", "CLOSED", "FAULT"}

\* The states in which a handler has started the motor and armed the timer.
Moving == {"HOMING", "OPENING", "CLOSING"}

FaultCodes == {"NONE", "NVS_BOOT"} \cup PersistedCodes

-----------------------------------------------------------------------------
(* Calls made by the handlers.                                             *)

fsm_transition(new_state, code) ==
  /\ state' = new_state
  /\ fault_code' = IF code = "NONE" THEN fault_code ELSE code

Opposite(a, b) == {a, b} = {"OPEN", "CLOSE"}

\* hal_motor_open, _close or _stop as the only motor call of a handler.
Motor(cmd) ==
  /\ motor' = cmd
  /\ hot_reversal' = IF Opposite(motor, cmd) THEN 1 ELSE 0

\* hal_motor_stop followed by cmd.
MotorStopThen(cmd) ==
  /\ motor' = cmd
  /\ hot_reversal' = 0

\* esp_timer_start_once refuses a timer that is running, and the result is
\* ignored.  `t` is the timer after any cancel made earlier by the handler.
stall_timer_start(t, s) ==
  /\ stall_timer' = IF t = "STOPPED" THEN s ELSE t
  /\ stall_lost' = 0

stall_timer_cancel ==
  /\ stall_timer' = "STOPPED"
  /\ UNCHANGED stall_lost

\* Mutant: the motor is left as it is.
EnterFaultDriving(code) ==
  /\ fsm_transition("FAULT", code)
  /\ \E o \in fault_nvs_write(nvs, code) : nvs' = o.nvs /\ nvs_ret' = o.ret
  /\ stall_timer_cancel
  /\ UNCHANGED <<emergency_lock, obstruction_active, homing_complete, motor, hot_reversal>>

fsm_enter_fault(code) ==
  /\ MotorStopThen("STOP")
  /\ fsm_transition("FAULT", code)
  /\ \E o \in fault_nvs_write(nvs, code) : nvs' = o.nvs /\ nvs_ret' = o.ret
  /\ stall_timer_cancel
  /\ UNCHANGED <<emergency_lock, obstruction_active, homing_complete>>

fsm_start_homing(t) ==
  /\ state' = "HOMING"
  /\ Motor("CLOSE")
  /\ stall_timer_start(t, "HOMING")

-----------------------------------------------------------------------------
(* fsm_process_event: one operator per case of the switch.  A rejected     *)
(* event is consumed without a change.                                     *)

\* Mutant: the timer of the motion being overridden is not cancelled.
EmergencyKeepsTimer ==
  /\ MotorStopThen("OPEN")
  /\ fsm_transition("OPENING", "NONE")
  /\ emergency_lock' = "ON"
  /\ obstruction_active' = 0
  /\ stall_timer_start(stall_timer, "OPENING")
  /\ UNCHANGED <<homing_complete, store>>

\* Mutant: opening the door is taken for dealing with the fault.
EmergencyClearsRecord ==
  /\ MotorStopThen("OPEN")
  /\ fsm_transition("OPENING", "NONE")
  /\ emergency_lock' = "ON"
  /\ obstruction_active' = 0
  /\ stall_timer_start("STOPPED", "OPENING")
  /\ \E o \in fault_nvs_clear(nvs) : nvs' = o.nvs /\ nvs_ret' = o.ret
  /\ UNCHANGED homing_complete

EVT_CMD_EMERGENCY_OPEN ==
  /\ MotorStopThen("OPEN")
  /\ fsm_transition("OPENING", "NONE")
  /\ emergency_lock' = "ON"
  /\ obstruction_active' = 0
  /\ stall_timer_start("STOPPED", "OPENING")
  /\ UNCHANGED <<homing_complete, store>>

\* Mutant: FAULT is left without clearing the homing flag or the record, as
\* if RESET simply resumed service.
ResetWithoutHoming ==
  /\ state = "FAULT"
  /\ fsm_transition("IDLE", "NONE")
  /\ emergency_lock' = "OFF"
  /\ MotorStopThen("STOP")
  /\ stall_timer_cancel
  /\ UNCHANGED <<obstruction_active, homing_complete, store>>

ResetAccepted == state = "FAULT" \/ emergency_lock = "ON"

EVT_CMD_RESET ==
  \/ /\ ResetAccepted
     /\ emergency_lock' = "OFF"
     /\ obstruction_active' = 0
     /\ fault_code' = "NONE"
     /\ homing_complete' = 0
     /\ \E o \in fault_nvs_clear(nvs) : nvs' = o.nvs /\ nvs_ret' = o.ret
     /\ fsm_start_homing("STOPPED")
  \/ /\ ~ResetAccepted
     /\ UNCHANGED fsm

OpenAccepted ==
  /\ emergency_lock = "OFF"
  /\ obstruction_active = 0
  /\ state \in {"IDLE", "CLOSING", "CLOSED"}

\* Mutant: a CLOSING door is reversed without stopping the motor.
OpenReversesHot ==
  \/ /\ OpenAccepted
     /\ fsm_transition("OPENING", "NONE")
     /\ Motor("OPEN")
     /\ stall_timer_start("STOPPED", "OPENING")
     /\ UNCHANGED <<emergency_lock, obstruction_active, homing_complete, store>>
  \/ /\ ~OpenAccepted
     /\ UNCHANGED fsm

EVT_CMD_OPEN ==
  \/ /\ OpenAccepted
     /\ fsm_transition("OPENING", "NONE")
     /\ IF state = "CLOSING"
          THEN /\ MotorStopThen("OPEN")
               /\ stall_timer_start("STOPPED", "OPENING")
          ELSE /\ Motor("OPEN")
               /\ stall_timer_start(stall_timer, "OPENING")
     /\ UNCHANGED <<emergency_lock, obstruction_active, homing_complete, store>>
  \/ /\ ~OpenAccepted
     /\ UNCHANGED fsm

\* Mutants: the emergency lock is not consulted; the obstruction flag is not;
\* an opening door is turned round.
CloseAcceptedUnlocked ==
  /\ obstruction_active = 0
  /\ state \in {"IDLE", "OPEN"}

CloseAcceptedObstructed ==
  /\ emergency_lock = "OFF"
  /\ state \in {"IDLE", "OPEN"}

CloseAcceptedOpening ==
  /\ emergency_lock = "OFF"
  /\ obstruction_active = 0
  /\ state \in {"IDLE", "OPENING", "OPEN"}

CloseAccepted ==
  /\ emergency_lock = "OFF"
  /\ obstruction_active = 0
  /\ state \in {"IDLE", "OPEN"}

EVT_CMD_CLOSE ==
  \/ /\ CloseAccepted
     /\ fsm_transition("CLOSING", "NONE")
     /\ Motor("CLOSE")
     /\ stall_timer_start(stall_timer, "CLOSING")
     /\ UNCHANGED <<emergency_lock, obstruction_active, homing_complete, store>>
  \/ /\ ~CloseAccepted
     /\ UNCHANGED fsm

\* Mutant: the timer keeps running once the door is open.
OpenLimitKeepsTimer ==
  \/ /\ state = "OPENING"
     /\ Motor("STOP")
     /\ fsm_transition("OPEN", "NONE")
     /\ UNCHANGED <<emergency_lock, obstruction_active, homing_complete, timer, store>>
  \/ /\ state # "OPENING"
     /\ UNCHANGED fsm

EVT_SENSOR_FULLY_OPEN ==
  \/ /\ state = "OPENING"
     /\ stall_timer_cancel
     /\ Motor("STOP")
     /\ fsm_transition("OPEN", "NONE")
     /\ UNCHANGED <<emergency_lock, obstruction_active, homing_complete, store>>
  \/ /\ state # "OPENING"
     /\ UNCHANGED fsm

\* Mutant: the closed limit is taken for the end of CLOSING only.
ClosedLimitEndsClosing ==
  \/ /\ state = "CLOSING"
     /\ stall_timer_cancel
     /\ Motor("STOP")
     /\ fsm_transition("CLOSED", "NONE")
     /\ UNCHANGED <<emergency_lock, obstruction_active, homing_complete, store>>
  \/ /\ state # "CLOSING"
     /\ UNCHANGED fsm

EVT_SENSOR_FULLY_CLOSED ==
  \/ /\ state \in {"CLOSING", "HOMING"}
     /\ stall_timer_cancel
     /\ Motor("STOP")
     /\ IF state = "HOMING"
          THEN /\ homing_complete' = 1
               /\ fsm_transition("IDLE", "NONE")
          ELSE /\ fsm_transition("CLOSED", "NONE")
               /\ UNCHANGED homing_complete
     /\ UNCHANGED <<emergency_lock, obstruction_active, store>>
  \/ /\ state \notin {"CLOSING", "HOMING"}
     /\ UNCHANGED fsm

\* Mutant: the obstruction is remembered only if it turned the door round.
DetectedWhileClosing ==
  \/ /\ state = "CLOSING"
     /\ obstruction_active' = 1
     /\ MotorStopThen("OPEN")
     /\ fsm_transition("OPENING", "NONE")
     /\ stall_timer_start("STOPPED", "OPENING")
     /\ UNCHANGED <<emergency_lock, homing_complete, store>>
  \/ /\ state # "CLOSING"
     /\ UNCHANGED fsm

EVT_OBSTRUCTION_DETECTED ==
  /\ obstruction_active' = 1
  /\ \/ /\ state = "CLOSING"
        /\ MotorStopThen("OPEN")
        /\ fsm_transition("OPENING", "NONE")
        /\ stall_timer_start("STOPPED", "OPENING")
     \/ /\ state # "CLOSING"
        /\ UNCHANGED <<state, fault_code, drive, timer>>
  /\ UNCHANGED <<emergency_lock, homing_complete, store>>

EVT_OBSTRUCTION_CLEAR ==
  /\ obstruction_active' = 0
  /\ UNCHANGED <<state, fault_code, emergency_lock, homing_complete, drive, timer, store>>

\* Mutant: homing is not guarded.
StallOutsideHoming ==
  \/ /\ state \in {"OPENING", "CLOSING"}
     /\ fsm_enter_fault("MOTOR_STALL")
  \/ /\ state \notin {"OPENING", "CLOSING"}
     /\ UNCHANGED fsm

EVT_MOTOR_STALL ==
  \/ /\ state \in Moving
     /\ fsm_enter_fault("MOTOR_STALL")
  \/ /\ state \notin Moving
     /\ UNCHANGED fsm

EVT_SPOF_DETECTED == fsm_enter_fault("SPOF")

EVT_COMM_TIMEOUT ==
  \/ /\ state # "FAULT"
     /\ fsm_enter_fault("COMM_TIMEOUT")
  \/ /\ state = "FAULT"
     /\ UNCHANGED fsm

\* Mutant: the boot fault goes through fsm_enter_fault, which writes it.
PersistRewritten == fsm_enter_fault("NVS_BOOT")

EVT_FAULT_PERSIST ==
  /\ fsm_transition("FAULT", "NVS_BOOT")
  /\ UNCHANGED <<emergency_lock, obstruction_active, homing_complete, drive, timer, store>>

\* fsm_process_event: the switch on evt->type.
fsm_process_event(evt) ==
  \/ evt = "EVT_CMD_EMERGENCY_OPEN"   /\ EVT_CMD_EMERGENCY_OPEN
  \/ evt = "EVT_CMD_RESET"            /\ EVT_CMD_RESET
  \/ evt = "EVT_CMD_OPEN"             /\ EVT_CMD_OPEN
  \/ evt = "EVT_CMD_CLOSE"            /\ EVT_CMD_CLOSE
  \/ evt = "EVT_SENSOR_FULLY_OPEN"    /\ EVT_SENSOR_FULLY_OPEN
  \/ evt = "EVT_SENSOR_FULLY_CLOSED"  /\ EVT_SENSOR_FULLY_CLOSED
  \/ evt = "EVT_OBSTRUCTION_DETECTED" /\ EVT_OBSTRUCTION_DETECTED
  \/ evt = "EVT_OBSTRUCTION_CLEAR"    /\ EVT_OBSTRUCTION_CLEAR
  \/ evt = "EVT_MOTOR_STALL"          /\ EVT_MOTOR_STALL
  \/ evt = "EVT_SPOF_DETECTED"        /\ EVT_SPOF_DETECTED
  \/ evt = "EVT_COMM_TIMEOUT"         /\ EVT_COMM_TIMEOUT
  \/ evt = "EVT_FAULT_PERSIST"        /\ EVT_FAULT_PERSIST

-----------------------------------------------------------------------------
(* What surrounds the handlers.                                            *)

\* The loop of fsm_control_task has been entered.
Running == state # "INIT"

Init ==
  /\ state = "INIT"
  /\ fault_code = "NONE"
  /\ emergency_lock = "OFF"
  /\ obstruction_active = 0
  /\ homing_complete = 0
  /\ motor = "STOP"
  /\ hot_reversal = 0
  /\ stall_timer = "STOPPED"
  /\ stall_lost = 0
  /\ nvs = BlankStore
  /\ nvs_ret = "ESP_OK"
  /\ stalls = 0
  /\ boot_event = "NONE"

\* fsm_control_task up to its loop.
ControlTaskStarts ==
  /\ state = "INIT"
  /\ fsm_start_homing(stall_timer)
  /\ UNCHANGED <<fault_code, emergency_lock, obstruction_active, homing_complete, store, env>>

\* An event that needs no cause inside the controller: a frame from the
\* supervisor, or a verdict of the safety monitor or of the receive task.
ExternalEvent ==
  /\ Running
  /\ \/ EVT_CMD_EMERGENCY_OPEN
     \/ EVT_CMD_RESET
     \/ EVT_CMD_OPEN
     \/ EVT_CMD_CLOSE
     \/ EVT_SENSOR_FULLY_OPEN
     \/ EVT_SENSOR_FULLY_CLOSED
     \/ EVT_OBSTRUCTION_DETECTED
     \/ EVT_OBSTRUCTION_CLEAR
     \/ EVT_SPOF_DETECTED
     \/ EVT_COMM_TIMEOUT
  /\ UNCHANGED env

\* stall_timer_callback: the one-shot timer posts, or finds the queue full.
\* A motion that has a stale stall to come is stopped by that one.
StallTimerExpires ==
  /\ stall_timer # "STOPPED"
  /\ stall_timer' = "STOPPED"
  /\ \/ /\ stalls < MaxStalls
        /\ stalls' = stalls + 1
        /\ UNCHANGED stall_lost
     \/ /\ stall_lost' = IF stalls = 0 THEN 1 ELSE stall_lost
        /\ UNCHANGED stalls
  /\ UNCHANGED <<ctx, drive, store, boot_event>>

\* A posted stall is dropped by the dispatcher: the FSM queue was full.
StallDropped ==
  /\ stalls > 0
  /\ stalls' = stalls - 1
  /\ stall_lost' = IF stalls = 1 /\ stall_timer = "STOPPED" THEN 1 ELSE stall_lost
  /\ UNCHANGED <<ctx, drive, stall_timer, store, boot_event>>

StallHandled ==
  /\ Running
  /\ stalls > 0
  /\ stalls' = stalls - 1
  /\ EVT_MOTOR_STALL
  /\ UNCHANGED boot_event

BootFaultHandled ==
  /\ Running
  /\ boot_event = "PENDING"
  /\ boot_event' = "NONE"
  /\ EVT_FAULT_PERSIST
  /\ UNCHANGED stalls

\* app_main gives up after waiting 100 ms for room in the FSM queue.
BootFaultRefused ==
  /\ boot_event = "PENDING"
  /\ boot_event' = "REFUSED"
  /\ UNCHANGED <<fsm, stalls>>

\* Mutant: app_main does not look at the record.
BootIgnoresRecord(store_found) == "NONE"

BootEvent(store_found) ==
  IF fault_nvs_read(store_found) = "NONE" THEN "NONE" ELSE "PENDING"

\* Power loss, brown-out or task-watchdog panic, then app_main up to the
\* creation of the tasks.  A damaged partition is erased.  The motor outputs
\* are taken to come up disabled.
Reboot ==
  /\ nvs' \in Survivors(nvs) \cup {BlankStore}
  /\ boot_event' = BootEvent(nvs')
  /\ state' = "INIT"
  /\ fault_code' = "NONE"
  /\ emergency_lock' = "OFF"
  /\ obstruction_active' = 0
  /\ homing_complete' = 0
  /\ motor' = "STOP"
  /\ hot_reversal' = 0
  /\ stall_timer' = "STOPPED"
  /\ stall_lost' = 0
  /\ nvs_ret' = "ESP_OK"
  /\ stalls' = 0

Next ==
  \/ ControlTaskStarts
  \/ ExternalEvent
  \/ StallTimerExpires
  \/ StallDropped
  \/ StallHandled
  \/ BootFaultHandled
  \/ BootFaultRefused
  \/ Reboot

Spec == Init /\ [][Next]_vars

-----------------------------------------------------------------------------
(* Properties.                                                             *)

\* Every variable keeps its type (fsm_ctx_t in door_fsm.c and the enums of
\* door_fsm.h).
TypeOK ==
  /\ state \in States
  /\ fault_code \in FaultCodes
  /\ emergency_lock \in {"ON", "OFF"}
  /\ obstruction_active \in {0, 1}
  /\ homing_complete \in {0, 1}
  /\ motor \in {"STOP", "OPEN", "CLOSE"}
  /\ hot_reversal \in {0, 1}
  /\ stall_timer \in {"STOPPED"} \cup Moving
  /\ stall_lost \in {0, 1}
  /\ nvs \in Store
  /\ nvs_ret \in {"ESP_OK", "ESP_FAIL"}
  /\ stalls \in 0..MaxStalls
  /\ boot_event \in {"NONE", "PENDING", "REFUSED"}

Direction(s) ==
  CASE s = "OPENING" -> "OPEN"
    [] s \in {"CLOSING", "HOMING"} -> "CLOSE"
    [] OTHER -> "STOP"

\* The motor runs in the direction the state says, and stands still in every
\* other state.  The one exception is a FAULT entered through
\* EVT_FAULT_PERSIST, whose handler issues no motor command.
MotorMatchesState ==
  motor = Direction(state) \/ (state = "FAULT" /\ fault_code = "NVS_BOOT")

\* Motion is guarded: while the door moves, the timer armed for this very
\* motion is running, or it has expired and a stall is on its way to the FSM.
\* The exception, an expiry lost to a full queue with no other stall to come,
\* is marked by stall_lost, which is never set on a motion that is guarded.
MotionGuarded ==
  state \in Moving =>
    \/ stall_timer = state /\ stall_lost = 0
    \/ stall_timer = "STOPPED" /\ (stalls > 0 <=> stall_lost = 0)

\* The timer never outlives the motion it was armed for (again except in a
\* boot fault, whose handler cancels nothing).
TimerWithMotion ==
  stall_timer # "STOPPED" =>
    stall_timer = state \/ (state = "FAULT" /\ fault_code = "NVS_BOOT")

\* SR-6: under the emergency lock the door only opens, stands open or has
\* failed, and the motor is never driven closed, whatever was in flight when
\* EMERGENCY_OPEN arrived.
EmergencyHolds ==
  emergency_lock = "ON" =>
    /\ state \in {"OPENING", "OPEN", "FAULT"}
    /\ motor # "CLOSE"

\* What the handlers keep of NoCloseOnObstruction: a command or reversal never leaves
\* the door CLOSING with obstruction_active set.
ClosingUnobstructed == state = "CLOSING" => obstruction_active = 0

\* SR-1: the motor never drives the door closed on an obstruction that the FSM knows
\* of, whenever it was reported, with one exception: the homing, which an obstruction
\* does not stop (README.md:98 makes none), and a boot fault that has left it running.
NoCloseOnObstruction ==
  motor = "CLOSE" /\ obstruction_active = 1 =>
    state = "HOMING" \/ (state = "FAULT" /\ fault_code = "NVS_BOOT")

\* SR-4: a door that takes commands has been homed since the last boot or
\* RESET, also after an emergency opening that interrupted the homing.
HomedBeforeService ==
  state \in {"IDLE", "OPENING", "OPEN", "CLOSING", "CLOSED"} /\ emergency_lock = "OFF"
    => homing_complete = 1

\* The running motor is reversed without a STOP in one place only, the start
\* of homing on a RESET.
ReversalStopsFirst == hot_reversal = 1 => state \in {"HOMING", "FAULT"} /\ motor = "CLOSE"

\* NFR-3: a fault the controller is in is the one a reboot will find, unless
\* the write reported a failure.
FaultRecorded ==
  state = "FAULT" /\ fault_code # "NVS_BOOT" /\ nvs_ret = "ESP_OK" =>
    /\ nvs.flash.fault_state = "ACTIVE"
    /\ nvs.flash.fault_code = fault_code

\* SR-4, NFR-3: while a fault is committed the door is not in normal service:
\* the FSM is in FAULT, or starting, or held by the emergency lock, or app_main
\* has yet to deliver the boot fault (or was refused), or the clear failed.
RecordedFaultBlocks ==
  nvs.flash.fault_state = "ACTIVE" =>
    \/ state = "FAULT"
    \/ emergency_lock = "ON"
    \/ boot_event \in {"PENDING", "REFUSED"}
    \/ nvs_ret = "ESP_FAIL"

Recorded == nvs.flash.fault_state = "ACTIVE"

\* NFR-3: a committed fault goes with an accepted RESET, in the handler itself and
\* before the homing it starts, and with nothing else: no command, limit, fault or
\* reboot removes it, except that a boot erases a damaged partition, or finds the
\* clear of a RESET whose commit had failed.  (fault_nvs.h:29 has it go only after
\* that homing: RecordKeptUntilHomed in DoorPipeline shows that it does not.)
RecordClearedByReset ==
  [][ Recorded /\ ~Recorded' =>
        \/ ResetAccepted /\ state' = "HOMING"
        \/ nvs' = BlankStore
        \/ state' = "INIT" /\ nvs.live.fault_state = "CLEAR" ]_vars

-----------------------------------------------------------------------------
(* The abstract specification.                                             *)

Phase ==
  IF state = "INIT" THEN "off"
  ELSE IF state = "HOMING" THEN "homing"
  ELSE IF state = "FAULT" THEN IF fault_code = "NVS_BOOT" THEN "boot" ELSE "fault"
  ELSE IF emergency_lock = "ON" THEN "held"
  ELSE "service"

Safe == INSTANCE SafeDoor WITH
          phase <- Phase, actuator <- motor, boot_fault <- boot_event

\* Every step of the FSM is one that SafeDoor allows: a fault is latched, the
\* emergency lock is released by RESET or a fault alone, service starts with a
\* homing, an opening is turned into a closing by one step only (a RESET under the
\* lock, or in the fault of a boot), and a fault stops the motor in the same
\* step, except the one found at boot, which is latched at most once a boot and
\* only if it was found.
SafeDoorSpec == Safe!Spec
=============================================================================
