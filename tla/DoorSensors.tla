------------------------------ MODULE DoorSensors ------------------------------
(***************************************************************************)
(* The loop through the door: the motor that ControlTask commands moves    *)
(* the door, the door works the limit switches, the supervisor sends their *)
(* samples as $SENSOR frames, and parse_frame (hal/hal_uart_mock.c)        *)
(* debounces them into the events of the state machine, module DoorFsm.    *)
(*                                                                         *)
(* The queues are left to DoorPipeline: an event is handled in the step    *)
(* that makes it.  The door, its switches and the supervisor are outside   *)
(* the repository.  Time is abstract, under two assumptions that the       *)
(* constants of config.h make: the stall timer outlasts a free travel and  *)
(* a debounce window, and a travel outlasts a debounce window.             *)
(***************************************************************************)
EXTENDS Naturals

CONSTANTS
  Travel,     \* positions of the door: 0 is closed, Travel is open
  Inputs,     \* commands and verdicts that reach the FSM from elsewhere
  Sticky,     \* the limit switches that may get stuck closed
  MaxBounces  \* bound: bouncing samples in a behaviour

ASSUME DoorAssumption ==
  /\ Travel \in Nat \ {0, 1}
  /\ MaxBounces \in Nat
  /\ Sticky \subseteq {"open", "closed"}

\* The events of the debouncers, the monitor and the timer are made here.
ASSUME InputsAssumption ==
  Inputs \subseteq { "EVT_CMD_EMERGENCY_OPEN", "EVT_CMD_RESET", "EVT_CMD_OPEN",
                     "EVT_CMD_CLOSE", "EVT_COMM_TIMEOUT" }

VARIABLES
  state, fault_code, emergency_lock, obstruction_active, homing_complete,
  motor, hot_reversal, stall_timer, stall_lost, nvs, nvs_ret,
  position,    \* where the door is
  obstructed,  \* 1: something is in the doorway
  jammed,      \* 1: the door does not follow the motor
  stuck,       \* the limit switch that reads 1 whatever the door does
  dbc,         \* s_dbc_fully_open, s_dbc_fully_closed, s_dbc_obstruction
  bounces,     \* bouncing samples so far
  began_on,    \* history: 1 if this motion's limit was reported when it began
  forgotten    \* history: 1 if the FSM dropped an obstruction still reported

\* No event waits: the timer's is handled when it is made, and app_main's boot
\* fault is left to DoorPipeline.
Fsm == INSTANCE DoorFsm WITH MaxStalls <- 0, stalls <- 0, boot_event <- "NONE"

fsm   == <<state, fault_code, emergency_lock, obstruction_active, homing_complete,
           motor, hot_reversal, stall_timer, stall_lost, nvs, nvs_ret>>
door  == <<position, obstructed, jammed, stuck>>
input == <<dbc, bounces>>
hist  == <<began_on, forgotten>>
vars  == <<fsm, door, input, hist>>

Limits == {"open", "closed"}

Sensors == Limits \cup {"obstruction"}

\* `window`: no change pending, its debounce window running, or passed.
Debouncer == [raw : {0, 1}, stable : {0, 1}, window : {"NONE", "OPEN", "PASSED"}]

LimitPosition(s) == IF s = "open" THEN Travel ELSE 0

Opposite(s) == IF s = "open" THEN "closed" ELSE "open"

Bit(b) == IF b THEN 1 ELSE 0

\* What a sensor reads.
Reading(s) ==
  IF s = "obstruction" THEN obstructed
  ELSE Bit(stuck = s \/ position = LimitPosition(s))

\* The limit a moving state is heading for.
TargetOf(st) == IF st = "OPENING" THEN "open" ELSE "closed"

AtLimit == position = LimitPosition(TargetOf(state))

\* A sensor whose reading the debouncer has taken over, nothing pending.
Settled(s) == dbc[s].window = "NONE" /\ dbc[s].raw = Reading(s)

-----------------------------------------------------------------------------
(* The state machine's side of a step.                                     *)

\* A handler runs, its record operations succeeding (their failures are
\* DoorFsm's), and the history follows.
Handle(evt) ==
  /\ Fsm!Running
  /\ Fsm!fsm_process_event(evt)
  /\ nvs_ret' = "ESP_OK"
  /\ began_on' = IF state' \notin Fsm!Moving THEN 0
                 ELSE IF state' # state THEN dbc'[TargetOf(state')].stable
                 ELSE began_on

\* The flag is what the debouncer says unless a handler has dropped it since.
ForgetsObstruction ==
  forgotten' = IF obstruction_active = 1 /\ obstruction_active' = 0 THEN 1 ELSE forgotten

Init ==
  /\ Fsm!Init
  /\ position \in 0..Travel
  /\ obstructed = 0
  /\ jammed = 0
  /\ stuck = "NONE"
  /\ dbc = [s \in Sensors |-> [raw |-> 0, stable |-> 0, window |-> "NONE"]]
  /\ bounces = 0
  /\ began_on = 0
  /\ forgotten = 0

ControlTaskStarts ==
  /\ Fsm!ControlTaskStarts
  /\ began_on' = dbc["closed"].stable
  /\ UNCHANGED <<door, input, forgotten>>

\* A command of the supervisor or a communication time-out.
Input(evt) ==
  /\ UNCHANGED <<door, input>>
  /\ Handle(evt)
  /\ ForgetsObstruction

\* The stall timer, which a door free to move does not let expire before it has
\* reached its limit and the switch has been debounced.
StallTimerExpires ==
  /\ stall_timer # "STOPPED"
  /\ IF AtLimit THEN Settled(TargetOf(state)) ELSE jammed = 1
  /\ UNCHANGED <<door, input, forgotten>>
  /\ Handle("EVT_MOTOR_STALL")

\* Mutant: a contradiction on record is not posted again.
MonitorSeesItOnce ==
  /\ dbc["open"].stable = 1 /\ dbc["closed"].stable = 1
  /\ nvs.live.fault_code # "SPOF"
  /\ UNCHANGED <<door, input, forgotten>>
  /\ Handle("EVT_SPOF_DETECTED")

\* The safety monitor, which posts again in each round.
MonitorSeesContradiction ==
  /\ dbc["open"].stable = 1 /\ dbc["closed"].stable = 1
  /\ UNCHANGED <<door, input, forgotten>>
  /\ Handle("EVT_SPOF_DETECTED")

-----------------------------------------------------------------------------
(* The sensor frames of parse_frame.                                       *)

\* Mutant: a change is taken over at once.
DebouncedAtOnce(d, v) ==
  [ctx |-> [raw |-> v, stable |-> v, window |-> "NONE"], due |-> v # d.raw]

\* Mutant: only a switch that closes is taken over.
DebouncedRising(d, v) ==
  IF v # d.raw
    THEN [ctx |-> [d EXCEPT !.raw = v, !.window = IF v = 1 THEN "OPEN" ELSE "NONE"],
          due |-> FALSE]
  ELSE IF d.window = "PASSED"
    THEN [ctx |-> [d EXCEPT !.stable = v, !.window = "NONE"], due |-> TRUE]
  ELSE [ctx |-> d, due |-> FALSE]

\* Mutant: agreeing samples are counted in stable_state.
DebouncedCounting(d, v) ==
  IF v # d.raw
    THEN [ctx |-> [d EXCEPT !.raw = v, !.window = "OPEN"], due |-> FALSE]
  ELSE IF d.window = "PASSED"
    THEN [ctx |-> [d EXCEPT !.stable = @ + v, !.window = "NONE"], due |-> TRUE]
  ELSE [ctx |-> d, due |-> FALSE]

\* debounce_update: a sample that differs from the last one opens the window; one
\* that agrees with it after the window is taken over, and is then due.
debounce_update(d, v) ==
  IF v # d.raw
    THEN [ctx |-> [d EXCEPT !.raw = v, !.window = "OPEN"], due |-> FALSE]
  ELSE IF d.window = "PASSED"
    THEN [ctx |-> [d EXCEPT !.stable = v, !.window = "NONE"], due |-> TRUE]
  ELSE [ctx |-> d, due |-> FALSE]

spof_check == dbc'["open"].stable = 1 /\ dbc'["closed"].stable = 1

\* The event of a debounced sample, "EVT_UNKNOWN" when it is none.
SensorEvent(s, v) ==
  CASE s = "obstruction" -> IF v = 1 THEN "EVT_OBSTRUCTION_DETECTED" ELSE "EVT_OBSTRUCTION_CLEAR"
    [] s \in Limits /\ spof_check -> "EVT_SPOF_DETECTED"
    [] s = "open" /\ v = 1 /\ ~spof_check -> "EVT_SENSOR_FULLY_OPEN"
    [] s = "closed" /\ v = 1 /\ ~spof_check -> "EVT_SENSOR_FULLY_CLOSED"
    [] OTHER -> "EVT_UNKNOWN"

\* A $SENSOR frame.
Sample(s, v) ==
  LET d == debounce_update(dbc[s], v)
  IN  /\ dbc' = [dbc EXCEPT ![s] = d.ctx]
      /\ IF d.due /\ SensorEvent(s, v) # "EVT_UNKNOWN"
           THEN /\ Handle(SensorEvent(s, v))
                /\ forgotten' = IF s = "obstruction" THEN 0 ELSE forgotten
           ELSE UNCHANGED <<fsm, hist>>
      /\ UNCHANGED door

Frame(s) ==
  /\ Fsm!Running
  /\ Sample(s, Reading(s))
  /\ UNCHANGED bounces

\* A contact bounces or the light barrier flickers as the door moves: one sample is
\* wrong, the next one is not.
BouncingFrame(s) ==
  /\ state \in Fsm!Moving
  /\ bounces < MaxBounces
  /\ bounces' = bounces + 1
  /\ dbc[s].raw = Reading(s)
  /\ Sample(s, 1 - Reading(s))

\* SENSOR_DEBOUNCE_MS go by.
DebounceWindowPasses(s) ==
  /\ dbc[s].window = "OPEN"
  /\ dbc' = [dbc EXCEPT ![s].window = "PASSED"]
  /\ UNCHANGED <<fsm, door, bounces, hist>>

-----------------------------------------------------------------------------
(* The door.                                                               *)

\* One position further.  The travel between the limits takes long enough for the
\* limit it left to be debounced.
DoorMoves ==
  /\ jammed = 0
  /\ position' = CASE motor = "OPEN" /\ position < Travel -> position + 1
                   [] motor = "CLOSE" /\ position > 0 -> position - 1
                   [] OTHER -> position
  /\ position' # position
  /\ \A s \in Limits : position' = LimitPosition(s) => Settled(Opposite(s))
  /\ UNCHANGED <<fsm, obstructed, jammed, stuck, input, hist>>

\* Something steps into the doorway after the last thing is known to have left it, or
\* leaves it at any time.
ObstructionChanges ==
  /\ obstructed = 0 => Settled("obstruction")
  /\ obstructed' = 1 - obstructed
  /\ UNCHANGED <<fsm, position, jammed, stuck, input, hist>>

\* The door jams as it moves and is freed by hand when the motor is at rest.  No
\* second part fails meanwhile.
JamChanges ==
  /\ stuck = "NONE"
  /\ jammed = 1 <=> motor = "STOP"
  /\ jammed' = 1 - jammed
  /\ UNCHANGED <<fsm, position, obstructed, stuck, input, hist>>

SwitchSticks(s) ==
  /\ stuck = "NONE" /\ jammed = 0
  /\ stuck' = s
  /\ UNCHANGED <<fsm, position, obstructed, jammed, input, hist>>

Next ==
  \/ ControlTaskStarts
  \/ \E evt \in Inputs : Input(evt)
  \/ StallTimerExpires
  \/ MonitorSeesContradiction
  \/ \E s \in Sensors : Frame(s) \/ BouncingFrame(s) \/ DebounceWindowPasses(s)
  \/ DoorMoves
  \/ ObstructionChanges
  \/ JamChanges
  \/ \E s \in Sticky : SwitchSticks(s)

\* The tasks run, the supervisor goes on sampling the limit switches, the timer
\* expires and a door that is free follows its motor.
Fairness ==
  /\ WF_vars(ControlTaskStarts)
  /\ WF_vars(StallTimerExpires)
  /\ WF_vars(MonitorSeesContradiction)
  /\ \A s \in Limits : WF_vars(Frame(s)) /\ WF_vars(DebounceWindowPasses(s))
  /\ WF_vars(DoorMoves)

Spec == Init /\ [][Next]_vars /\ Fairness

-----------------------------------------------------------------------------
(* Properties.                                                             *)

\* Every variable keeps its type.
TypeOK ==
  /\ position \in 0..Travel
  /\ {obstructed, jammed, began_on, forgotten} \subseteq {0, 1}
  /\ stuck \in Sticky \cup {"NONE"}
  /\ dbc \in [Sensors -> Debouncer]
  /\ bounces \in 0..MaxBounces

\* SR-4: where the state machine says the door is at rest, it is, bouncing
\* contacts or not, unless a switch lies.
RestsAtLimit ==
  stuck = "NONE" =>
    /\ state = "OPEN" => position = Travel
    /\ state \in {"IDLE", "CLOSED"} => position = 0

\* SR-3: a contradiction is never the passing of the door or a bounce: it takes a
\* broken switch.
SpofExplained == state = "FAULT" /\ fault_code = "SPOF" => stuck # "NONE"

\* SR-1: the door closes on a command only while no obstruction is reported,
\* except for one that RESET or EMERGENCY_OPEN has dropped and the debouncer, which
\* reports changes, has not repeated.
ObstructionObeyed ==
  state = "CLOSING" /\ dbc["obstruction"].stable = 1 => forgotten = 1

StallFaults == state \in Fsm!Moving /\ state' = "FAULT" /\ fault_code' = "MOTOR_STALL"

\* SR-7: a door that has reached its limit is not taken for a stalled one, broken
\* switches included, unless the motion was begun towards a limit reported
\* already, about which the debouncer has nothing more to say.
StallExplained == [][StallFaults /\ AtLimit => began_on = 1]_vars

\* SR-4: homing does not last, whatever the door and its switches do.
HomingEnds == state = "HOMING" ~> state # "HOMING"

\* SR-3: as long as the switches contradict each other, every motion is stopped,
\* those begun by RESET or EMERGENCY_OPEN in between included.
ContradictionStops ==
  (dbc["open"].stable = 1 /\ dbc["closed"].stable = 1) ~>
    (state = "FAULT" \/ dbc["open"].stable = 0 \/ dbc["closed"].stable = 0)

-----------------------------------------------------------------------------
(* What the documentation says and the code does not do.                   *)

\* config.h:88-90, "If the door has not reached its physical limit sensor within
\* this window, assume mechanical stall": a stall fault means a door that is not
\* at the limit it was driven to.
StallMeansNotAtLimit == [][StallFaults => ~AtLimit]_vars
=============================================================================
