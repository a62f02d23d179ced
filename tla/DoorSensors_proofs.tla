------------------------- MODULE DoorSensors_proofs -------------------------
(***************************************************************************)
(* Proofs about DoorSensors, for a door of any length, any commands, any   *)
(* switches that may stick and any number of bounces.                      *)
(***************************************************************************)
EXTENDS DoorSensors, TLAPS

-----------------------------------------------------------------------------
(* The inductive invariant.                                                *)

\* A debouncer without a pending change has taken over the last sample.
DebouncersInv == \A s \in Sensors : dbc[s].window = "NONE" => dbc[s].stable = dbc[s].raw

\* As long as both switches work, a door at one limit is not reported to be at the
\* other, and is never reported to be at both.
LimitsInv ==
  stuck = "NONE" =>
    /\ \A s \in Limits : position = LimitPosition(s) => dbc[Opposite(s)].stable = 0
    /\ \E s \in Limits : dbc[s].stable = 0

\* The motor does what the state says.
MotorInv == motor = Fsm!Direction(state)

\* An obstruction that is reported is known to the state machine, or forgotten.
ReportedInv == dbc["obstruction"].stable = 1 => obstruction_active = 1 \/ forgotten = 1

\* A motion whose limit is reported has found it so.
BeganInv ==
  state \in Fsm!Moving /\ dbc[TargetOf(state)].stable = 1 => began_on = 1

IInv ==
  /\ TypeOK
  /\ DebouncersInv
  /\ LimitsInv
  /\ MotorInv
  /\ Fsm!ClosingUnobstructed
  /\ ReportedInv
  /\ BeganInv
  /\ RestsAtLimit
  /\ SpofExplained

-----------------------------------------------------------------------------
(* What a handler of the state machine does with what these proofs are about. *)

\* Which event brings each state of rest, each fault and each change of the
\* obstruction flag; the motor follows the state.
HandlerEffect(evt) ==
  /\ motor' = Fsm!Direction(state')
  /\ state' = "CLOSING" => obstruction_active' = 0
  /\ state' = "OPEN" => state = "OPEN" \/ evt = "EVT_SENSOR_FULLY_OPEN"
  /\ state' \in {"IDLE", "CLOSED"} => state' = state \/ evt = "EVT_SENSOR_FULLY_CLOSED"
  /\ state' = "FAULT" /\ fault_code' = "SPOF"
       => (state = "FAULT" /\ fault_code = "SPOF") \/ evt = "EVT_SPOF_DETECTED"
  /\ state \in Fsm!Moving /\ state' = "FAULT" /\ fault_code' = "MOTOR_STALL"
       => evt = "EVT_MOTOR_STALL"
  /\ \/ obstruction_active' = obstruction_active
     \/ evt \in {"EVT_CMD_EMERGENCY_OPEN", "EVT_CMD_RESET", "EVT_OBSTRUCTION_CLEAR"}
          /\ obstruction_active' = 0
     \/ evt = "EVT_OBSTRUCTION_DETECTED"
  /\ evt = "EVT_OBSTRUCTION_DETECTED" => obstruction_active' = 1
  /\ evt = "EVT_SENSOR_FULLY_OPEN" => state' # "OPENING"
  /\ evt = "EVT_SENSOR_FULLY_CLOSED" => state' \notin {"CLOSING", "HOMING"}
  /\ evt = "EVT_SPOF_DETECTED" => state' = "FAULT"

LEMMA HandlerEffects ==
  ASSUME MotorInv, Fsm!ClosingUnobstructed, NEW evt, evt # "EVT_FAULT_PERSIST",
         Fsm!fsm_process_event(evt)
  PROVE  HandlerEffect(evt)
<1>. USE DEF MotorInv, HandlerEffect, Fsm!ClosingUnobstructed, Fsm!Direction, Fsm!Moving,
             Fsm!fsm_transition, Fsm!Motor, Fsm!MotorStopThen, Fsm!fsm,
             Fsm!ctx, Fsm!drive, Fsm!timer, Fsm!store
<1>1. CASE evt = "EVT_CMD_EMERGENCY_OPEN" /\ Fsm!EVT_CMD_EMERGENCY_OPEN
  BY <1>1 DEF Fsm!EVT_CMD_EMERGENCY_OPEN
<1>2. CASE evt = "EVT_CMD_RESET" /\ Fsm!EVT_CMD_RESET
  BY <1>2 DEF Fsm!EVT_CMD_RESET, Fsm!fsm_start_homing
<1>3. CASE evt = "EVT_CMD_OPEN" /\ Fsm!EVT_CMD_OPEN
  BY <1>3 DEF Fsm!EVT_CMD_OPEN
<1>4. CASE evt = "EVT_CMD_CLOSE" /\ Fsm!EVT_CMD_CLOSE
  BY <1>4 DEF Fsm!EVT_CMD_CLOSE, Fsm!CloseAccepted
<1>5. CASE evt = "EVT_SENSOR_FULLY_OPEN" /\ Fsm!EVT_SENSOR_FULLY_OPEN
  BY <1>5 DEF Fsm!EVT_SENSOR_FULLY_OPEN
<1>6. CASE evt = "EVT_SENSOR_FULLY_CLOSED" /\ Fsm!EVT_SENSOR_FULLY_CLOSED
  BY <1>6 DEF Fsm!EVT_SENSOR_FULLY_CLOSED
<1>7. CASE evt = "EVT_OBSTRUCTION_DETECTED" /\ Fsm!EVT_OBSTRUCTION_DETECTED
  BY <1>7 DEF Fsm!EVT_OBSTRUCTION_DETECTED
<1>8. CASE evt = "EVT_OBSTRUCTION_CLEAR" /\ Fsm!EVT_OBSTRUCTION_CLEAR
  BY <1>8 DEF Fsm!EVT_OBSTRUCTION_CLEAR
<1>9. CASE evt = "EVT_MOTOR_STALL" /\ Fsm!EVT_MOTOR_STALL
  BY <1>9 DEF Fsm!EVT_MOTOR_STALL, Fsm!fsm_enter_fault
<1>10. CASE evt = "EVT_SPOF_DETECTED" /\ Fsm!EVT_SPOF_DETECTED
  BY <1>10 DEF Fsm!EVT_SPOF_DETECTED, Fsm!fsm_enter_fault
<1>11. CASE evt = "EVT_COMM_TIMEOUT" /\ Fsm!EVT_COMM_TIMEOUT
  BY <1>11 DEF Fsm!EVT_COMM_TIMEOUT, Fsm!fsm_enter_fault
<1>. QED
  BY <1>1, <1>2, <1>3, <1>4, <1>5, <1>6, <1>7, <1>8, <1>9, <1>10, <1>11
     DEF Fsm!fsm_process_event

-----------------------------------------------------------------------------
(* What a sample does with its debouncer.                                  *)

LEMMA ReadingType ==
  ASSUME TypeOK, NEW s \in Sensors
  PROVE  Reading(s) \in {0, 1}
  BY DEF TypeOK, Reading, Bit

\* A sample is taken over, and may make an event, only if it repeats the last one
\* after the debounce window.
LEMMA SampleEffect ==
  ASSUME TypeOK, DebouncersInv, NEW s \in Sensors, NEW v \in {0, 1}, Sample(s, v)
  PROVE  /\ dbc' \in [Sensors -> Debouncer]
         /\ DebouncersInv'
         /\ \A u \in Sensors : u # s => dbc'[u].stable = dbc[u].stable
         /\ \/ /\ dbc'[s].stable = dbc[s].stable
               /\ UNCHANGED <<fsm, hist>>
            \/ /\ dbc[s].raw = v
               /\ dbc'[s].stable = v
               /\ IF SensorEvent(s, v) = "EVT_UNKNOWN"
                    THEN UNCHANGED <<fsm, hist>>
                    ELSE /\ Handle(SensorEvent(s, v))
                         /\ forgotten' = IF s = "obstruction" THEN 0 ELSE forgotten
<1>. DEFINE d == debounce_update(dbc[s], v)
<1>1. dbc[s] \in Debouncer
  BY DEF TypeOK
<1>2. /\ d.ctx \in Debouncer
      /\ d.due \in BOOLEAN
      /\ d.ctx.window = "NONE" => d.ctx.stable = d.ctx.raw
      /\ ~d.due => d.ctx.stable = dbc[s].stable
      /\ d.due => d.ctx.stable = v /\ dbc[s].raw = v
  BY <1>1 DEF debounce_update, Debouncer, DebouncersInv
<1>. HIDE DEF d
<1>3. dbc' = [dbc EXCEPT ![s] = d.ctx]
  BY DEF Sample, d
<1>4. dbc' \in [Sensors -> Debouncer]
  BY <1>2, <1>3 DEF TypeOK
<1>5. dbc'[s] = d.ctx /\ \A u \in Sensors : u # s => dbc'[u] = dbc[u]
  BY <1>3 DEF TypeOK
<1>6. DebouncersInv'
  BY <1>2, <1>5 DEF DebouncersInv
<1>7. IF d.due /\ SensorEvent(s, v) # "EVT_UNKNOWN"
        THEN /\ Handle(SensorEvent(s, v))
             /\ forgotten' = IF s = "obstruction" THEN 0 ELSE forgotten
        ELSE UNCHANGED <<fsm, hist>>
  BY DEF Sample, d
<1>. QED
  BY <1>2, <1>4, <1>5, <1>6, <1>7

\* A bouncing sample is a change, so nothing is taken over but what the sensor reads.
LEMMA FrameEffect ==
  ASSUME TypeOK, DebouncersInv, NEW s \in Sensors, Frame(s) \/ BouncingFrame(s)
  PROVE  /\ dbc' \in [Sensors -> Debouncer]
         /\ DebouncersInv'
         /\ bounces' \in 0..MaxBounces
         /\ UNCHANGED door
         /\ \A u \in Sensors : u # s => dbc'[u].stable = dbc[u].stable
         /\ \/ /\ dbc'[s].stable = dbc[s].stable
               /\ UNCHANGED <<fsm, hist>>
            \/ /\ dbc'[s].stable = Reading(s)
               /\ IF SensorEvent(s, Reading(s)) = "EVT_UNKNOWN"
                    THEN UNCHANGED <<fsm, hist>>
                    ELSE /\ Handle(SensorEvent(s, Reading(s)))
                         /\ forgotten' = IF s = "obstruction" THEN 0 ELSE forgotten
<1>1. Reading(s) \in {0, 1} /\ 1 - Reading(s) \in {0, 1} /\ 1 - Reading(s) # Reading(s)
  BY ReadingType
<1>2. CASE Frame(s)
  <2>1. Sample(s, Reading(s)) /\ bounces' \in 0..MaxBounces /\ UNCHANGED door
    BY <1>2 DEF Frame, Sample, TypeOK
  <2>. QED
    BY <1>1, <2>1, SampleEffect
<1>3. CASE BouncingFrame(s)
  <2>1. /\ Sample(s, 1 - Reading(s))
        /\ bounces' \in 0..MaxBounces
        /\ UNCHANGED door
        /\ dbc[s].raw # 1 - Reading(s)
    BY <1>1, <1>3, DoorAssumption DEF BouncingFrame, Sample, TypeOK
  <2>. QED
    BY <1>1, <2>1, SampleEffect
<1>. QED
  BY <1>2, <1>3

\* The event of a reading.
LEMMA EventOfReading ==
  ASSUME NEW s \in Sensors, NEW v \in {0, 1}
  PROVE  /\ SensorEvent(s, v) = "EVT_UNKNOWN" => s \in Limits /\ v = 0
         /\ SensorEvent(s, v) = "EVT_SENSOR_FULLY_OPEN" => s = "open" /\ v = 1
         /\ SensorEvent(s, v) = "EVT_SENSOR_FULLY_CLOSED" => s = "closed" /\ v = 1
         /\ SensorEvent(s, v) = "EVT_SPOF_DETECTED" => s \in Limits /\ spof_check
         /\ s = "open" /\ v = 1
              => SensorEvent(s, v) \in {"EVT_SPOF_DETECTED", "EVT_SENSOR_FULLY_OPEN"}
         /\ s = "closed" /\ v = 1
              => SensorEvent(s, v) \in {"EVT_SPOF_DETECTED", "EVT_SENSOR_FULLY_CLOSED"}
         /\ s = "obstruction" => SensorEvent(s, v) = IF v = 1 THEN "EVT_OBSTRUCTION_DETECTED"
                                                             ELSE "EVT_OBSTRUCTION_CLEAR"
         /\ s \in Limits => SensorEvent(s, v) \in {"EVT_UNKNOWN", "EVT_SPOF_DETECTED",
                              "EVT_SENSOR_FULLY_OPEN", "EVT_SENSOR_FULLY_CLOSED"}
  BY DEF SensorEvent, Sensors, Limits

\* The limits as numbers.
LEMMA LimitsApart ==
  /\ \A s \in Limits : /\ s \in Sensors
                       /\ Opposite(s) \in Limits
                       /\ Opposite(s) # s
                       /\ LimitPosition(s) \in 0..Travel
                       /\ LimitPosition(s) # LimitPosition(Opposite(s))
                       /\ \A u \in Limits : u # s => u = Opposite(s)
                       /\ stuck = "NONE" => Reading(s) = Bit(position = LimitPosition(s))
  /\ \A st : TargetOf(st) \in Limits
  BY DoorAssumption
     DEF Limits, Sensors, Opposite, LimitPosition, Reading, TargetOf

\* What the switches report stays possible as the samples come in.
LEMMA LimitsFrame ==
  ASSUME IInv, NEW s \in Sensors, Frame(s) \/ BouncingFrame(s)
  PROVE  LimitsInv'
<1>1. /\ UNCHANGED <<position, stuck>>
      /\ \A u \in Sensors : u # s => dbc'[u].stable = dbc[u].stable
      /\ dbc'[s].stable = dbc[s].stable \/ dbc'[s].stable = Reading(s)
  BY FrameEffect DEF IInv, door
<1>. SUFFICES ASSUME stuck = "NONE"
              PROVE  /\ \A u \in Limits : position = LimitPosition(u) => dbc'[Opposite(u)].stable = 0
                     /\ \E u \in Limits : dbc'[u].stable = 0
  BY <1>1 DEF LimitsInv, LimitPosition
<1>2. /\ \A u \in Limits : position = LimitPosition(u) => dbc[Opposite(u)].stable = 0
      /\ \E u \in Limits : dbc[u].stable = 0
  BY DEF IInv, LimitsInv
<1>3. CASE \A u \in Limits : dbc'[u].stable = dbc[u].stable
  BY <1>2, <1>3, LimitsApart
<1>4. CASE s \in Limits /\ dbc'[s].stable = Reading(s)
  <2>1. CASE position = LimitPosition(s)
    <3>1. dbc'[Opposite(s)].stable = 0
      BY <1>1, <1>2, <1>4, <2>1, LimitsApart
    <3>. QED
      BY <1>4, <2>1, <3>1, LimitsApart
  <2>2. CASE position # LimitPosition(s)
    <3>1. dbc'[s].stable = 0
      BY <1>4, <2>2, LimitsApart DEF Bit
    <3>. QED
      BY <1>4, <2>2, <3>1, LimitsApart
  <2>. QED
    BY <2>1, <2>2
<1>. QED
  BY <1>1, <1>3, <1>4, LimitsApart

-----------------------------------------------------------------------------
(* The steps.                                                              *)

LEMMA HandleStep ==
  ASSUME IInv, dbc' \in [Sensors -> Debouncer],
         NEW evt, evt # "EVT_FAULT_PERSIST", Handle(evt),
         state' = state /\ state \in Fsm!Moving /\ dbc'[TargetOf(state)].stable = 1
           => dbc[TargetOf(state)].stable = 1
  PROVE  /\ HandlerEffect(evt)
         /\ began_on' \in {0, 1}
         /\ MotorInv'
         /\ Fsm!ClosingUnobstructed'
         /\ BeganInv'
<1>1. HandlerEffect(evt)
  BY HandlerEffects DEF IInv, Handle
<1>2. MotorInv' /\ Fsm!ClosingUnobstructed'
  BY <1>1 DEF HandlerEffect, MotorInv, Fsm!ClosingUnobstructed, Fsm!Direction
<1>3. began_on' = IF state' \notin Fsm!Moving THEN 0
                  ELSE IF state' # state THEN dbc'[TargetOf(state')].stable
                  ELSE began_on
  BY DEF Handle
<1>4. dbc'[TargetOf(state')].stable \in {0, 1} /\ began_on \in {0, 1}
  <2>1. TargetOf(state') \in Sensors
    BY DEF TargetOf, Sensors, Limits
  <2>2. dbc'[TargetOf(state')] \in Debouncer
    BY <2>1
  <2>. QED
    BY <2>2 DEF Debouncer, IInv, TypeOK
<1>5. BeganInv'
  <2>. SUFFICES ASSUME state' \in Fsm!Moving, dbc'[TargetOf(state')].stable = 1
                PROVE  began_on' = 1
    BY DEF BeganInv, Fsm!Moving, TargetOf
  <2>. QED
    BY <1>3 DEF IInv, BeganInv
<1>. QED
  BY <1>1, <1>2, <1>3, <1>4, <1>5

\* Events that come from no sensor leave the debouncers as they are.
LEMMA InputStep ==
  ASSUME IInv, NEW evt, UNCHANGED <<door, input>>, Handle(evt),
         evt \in Inputs \cup {"EVT_MOTOR_STALL", "EVT_SPOF_DETECTED"},
         evt = "EVT_SPOF_DETECTED" => stuck # "NONE",
         ForgetsObstruction \/ (evt \notin Inputs /\ forgotten' = forgotten)
  PROVE  IInv'
<1>1. /\ evt # "EVT_FAULT_PERSIST"
      /\ evt \notin {"EVT_SENSOR_FULLY_OPEN", "EVT_SENSOR_FULLY_CLOSED",
                     "EVT_OBSTRUCTION_DETECTED", "EVT_OBSTRUCTION_CLEAR"}
      /\ evt \in {"EVT_CMD_EMERGENCY_OPEN", "EVT_CMD_RESET"} => evt \in Inputs
  BY InputsAssumption
<1>2. dbc' = dbc /\ UNCHANGED <<position, obstructed, jammed, stuck, bounces>>
  BY DEF door, input
<1>3. /\ HandlerEffect(evt)
      /\ began_on' \in {0, 1}
      /\ MotorInv'
      /\ Fsm!ClosingUnobstructed'
      /\ BeganInv'
  BY <1>1, <1>2, HandleStep DEF IInv, TypeOK
<1>4. ReportedInv'
  <2>1. \/ obstruction_active' = obstruction_active
        \/ evt \in {"EVT_CMD_EMERGENCY_OPEN", "EVT_CMD_RESET"} /\ obstruction_active' = 0
    BY <1>1, <1>3 DEF HandlerEffect
  <2>. QED
    BY <1>1, <1>2, <2>1 DEF IInv, ReportedInv, ForgetsObstruction
<1>5. TypeOK'
  BY <1>2, <1>3 DEF IInv, TypeOK, ForgetsObstruction
<1>6. RestsAtLimit'
  BY <1>1, <1>2, <1>3 DEF IInv, RestsAtLimit, HandlerEffect
<1>7. SpofExplained'
  BY <1>2, <1>3 DEF IInv, SpofExplained, HandlerEffect
<1>8. DebouncersInv' /\ LimitsInv'
  BY <1>2 DEF IInv, DebouncersInv, LimitsInv, LimitPosition
<1>. QED
  BY <1>3, <1>4, <1>5, <1>6, <1>7, <1>8 DEF IInv

LEMMA FrameStep ==
  ASSUME IInv, NEW s \in Sensors, Frame(s) \/ BouncingFrame(s)
  PROVE  IInv'
<1>. DEFINE v == Reading(s)
            evt == SensorEvent(s, v)
<1>1. /\ dbc' \in [Sensors -> Debouncer]
      /\ DebouncersInv'
      /\ bounces' \in 0..MaxBounces
      /\ UNCHANGED <<position, obstructed, jammed, stuck>>
      /\ \A u \in Sensors : u # s => dbc'[u].stable = dbc[u].stable
      /\ \/ /\ dbc'[s].stable = dbc[s].stable
            /\ UNCHANGED <<fsm, hist>>
         \/ /\ dbc'[s].stable = v
            /\ IF evt = "EVT_UNKNOWN" THEN UNCHANGED <<fsm, hist>>
               ELSE Handle(evt) /\ forgotten' = IF s = "obstruction" THEN 0 ELSE forgotten
  BY FrameEffect DEF IInv, door
<1>2. v \in {0, 1}
  BY ReadingType DEF IInv
<1>3. LimitsInv'
  BY LimitsFrame
<1>. HIDE DEF v
<1>4. CASE /\ UNCHANGED <<fsm, hist>>
           /\ dbc'[s].stable = dbc[s].stable \/ (s \in Limits /\ dbc'[s].stable = 0)
  <2>1. /\ UNCHANGED <<state, fault_code, obstruction_active, motor, began_on, forgotten>>
        /\ dbc'["obstruction"].stable = dbc["obstruction"].stable
        /\ \A u \in Limits : dbc'[u].stable = dbc[u].stable \/ dbc'[u].stable = 0
    BY <1>1, <1>4 DEF fsm, hist, Limits, Sensors
  <2>2. BeganInv'
    BY <2>1 DEF IInv, BeganInv, TargetOf, Limits, Fsm!Moving
  <2>3. TypeOK' /\ MotorInv' /\ Fsm!ClosingUnobstructed' /\ ReportedInv'
    BY <1>1, <2>1 DEF IInv, TypeOK, MotorInv, Fsm!ClosingUnobstructed, ReportedInv,
                      Fsm!Direction
  <2>4. RestsAtLimit' /\ SpofExplained'
    BY <1>1, <2>1 DEF IInv, RestsAtLimit, SpofExplained
  <2>. QED
    BY <1>1, <1>3, <2>2, <2>3, <2>4 DEF IInv
<1>5. CASE /\ dbc'[s].stable = v
           /\ evt # "EVT_UNKNOWN"
           /\ Handle(evt)
           /\ forgotten' = IF s = "obstruction" THEN 0 ELSE forgotten
  <2>1. evt \in {"EVT_SPOF_DETECTED", "EVT_SENSOR_FULLY_OPEN", "EVT_SENSOR_FULLY_CLOSED",
                 "EVT_OBSTRUCTION_DETECTED", "EVT_OBSTRUCTION_CLEAR"}
    BY <1>2, <1>5, EventOfReading DEF Sensors
  <2>2. HandlerEffect(evt)
    BY <2>1, <1>5, HandlerEffects DEF IInv, Handle
  <2>3. state' = state /\ state \in Fsm!Moving /\ dbc'[TargetOf(state)].stable = 1
          => dbc[TargetOf(state)].stable = 1
    <3>1. CASE TargetOf(state) # s
      BY <1>1, <3>1, LimitsApart
    <3>2. CASE TargetOf(state) = s
      <4>. SUFFICES ASSUME state' = state, state \in Fsm!Moving, v = 1
                    PROVE  FALSE
        BY <1>5, <3>2
      <4>1. \/ s = "open" /\ state = "OPENING"
            \/ s = "closed" /\ state \in {"CLOSING", "HOMING"}
        BY <3>2 DEF TargetOf, Fsm!Moving
      <4>2. \/ evt = "EVT_SPOF_DETECTED"
            \/ evt = "EVT_SENSOR_FULLY_OPEN" /\ s = "open"
            \/ evt = "EVT_SENSOR_FULLY_CLOSED" /\ s = "closed"
        BY <4>1, EventOfReading
      <4>. QED
        BY <2>2, <4>1, <4>2 DEF HandlerEffect
    <3>. QED
      BY <3>1, <3>2
  <2>4. /\ began_on' \in {0, 1}
        /\ MotorInv'
        /\ Fsm!ClosingUnobstructed'
        /\ BeganInv'
    BY <1>1, <1>5, <2>1, <2>3, HandleStep
  <2>5. TypeOK'
    BY <1>1, <1>5, <2>4 DEF IInv, TypeOK
  <2>6. ReportedInv'
    <3>1. CASE s = "obstruction"
      BY <1>2, <1>5, <2>2, <3>1, EventOfReading DEF ReportedInv, HandlerEffect
    <3>2. CASE s \in Limits
      <4>1. s # "obstruction" /\ "obstruction" \in Sensors
        BY <3>2 DEF Limits, Sensors
      <4>2. obstruction_active' = obstruction_active
        BY <1>2, <2>2, <3>2, EventOfReading DEF HandlerEffect
      <4>. QED
        BY <1>1, <1>5, <4>1, <4>2 DEF IInv, ReportedInv
    <3>. QED
      BY <3>1, <3>2 DEF Sensors
  <2>7. RestsAtLimit'
    <3>. SUFFICES ASSUME stuck = "NONE"
                  PROVE  /\ state' = "OPEN" => position = Travel
                         /\ state' \in {"IDLE", "CLOSED"} => position = 0
      BY <1>1 DEF RestsAtLimit
    <3>1. evt = "EVT_SENSOR_FULLY_OPEN" => position = Travel
      BY <1>2, EventOfReading DEF v, Reading, Bit, LimitPosition
    <3>2. evt = "EVT_SENSOR_FULLY_CLOSED" => position = 0
      BY <1>2, EventOfReading DEF v, Reading, Bit, LimitPosition
    <3>. QED
      BY <2>2, <3>1, <3>2 DEF IInv, RestsAtLimit, HandlerEffect
  <2>8. SpofExplained'
    <3>1. evt = "EVT_SPOF_DETECTED" => stuck # "NONE"
      BY <1>1, <1>2, <1>3, EventOfReading DEF spof_check, LimitsInv, Limits
    <3>. QED
      BY <1>1, <2>2, <3>1 DEF IInv, SpofExplained, HandlerEffect
  <2>. QED
    BY <1>1, <1>3, <2>4, <2>5, <2>6, <2>7, <2>8 DEF IInv
<1>. QED
  BY <1>1, <1>2, <1>4, <1>5, EventOfReading

LEMMA DoorStep ==
  ASSUME IInv, DoorMoves
  PROVE  IInv'
<1>1. /\ UNCHANGED <<fsm, obstructed, jammed, stuck, dbc, bounces, began_on, forgotten>>
      /\ position' # position
      /\ position' \in 0..Travel
      /\ position' = position + 1 \/ position' = position - 1
      /\ motor # "STOP"
      /\ \A s \in Limits : position' = LimitPosition(s) => Settled(Opposite(s))
  <2>1. Travel \in Nat /\ position \in 0..Travel
    BY DoorAssumption DEF IInv, TypeOK
  <2>2. /\ UNCHANGED <<fsm, obstructed, jammed, stuck, dbc, bounces, began_on, forgotten>>
        /\ position' # position
        /\ \A s \in Limits : position' = LimitPosition(s) => Settled(Opposite(s))
    BY DEF DoorMoves, input, hist
  <2>3. position' = CASE motor = "OPEN" /\ position < Travel -> position + 1
                      [] motor = "CLOSE" /\ position > 0 -> position - 1
                      [] OTHER -> position
    BY DEF DoorMoves
  <2>4. CASE motor = "OPEN" /\ position < Travel
    <3>1. position' = position + 1
      BY <2>3, <2>4
    <3>. QED
      BY <2>1, <2>2, <2>4, <3>1
  <2>5. CASE motor = "CLOSE" /\ position > 0
    <3>1. position' = position - 1
      BY <2>3, <2>5
    <3>. QED
      BY <2>1, <2>2, <2>5, <3>1
  <2>. QED
    BY <2>2, <2>3, <2>4, <2>5
<1>2. UNCHANGED <<state, fault_code, obstruction_active, motor>>
  BY <1>1 DEF fsm
<1>3. LimitsInv'
  <2>. SUFFICES ASSUME stuck = "NONE", NEW s \in Limits, position' = LimitPosition(s)
                PROVE  dbc[Opposite(s)].stable = 0
    BY <1>1 DEF IInv, LimitsInv, LimitPosition
  <2>1. position # LimitPosition(Opposite(s))
    BY <1>1, DoorAssumption DEF IInv, TypeOK, Limits, LimitPosition, Opposite
  <2>2. Reading(Opposite(s)) = 0
    BY <2>1, LimitsApart DEF Bit
  <2>. QED
    BY <1>1, <2>2, LimitsApart DEF Settled, IInv, DebouncersInv
<1>4. state \notin {"OPEN", "IDLE", "CLOSED"}
  BY <1>1 DEF IInv, MotorInv, Fsm!Direction
<1>5. RestsAtLimit' /\ SpofExplained'
  BY <1>1, <1>2, <1>4 DEF IInv, RestsAtLimit, SpofExplained
<1>6. TypeOK' /\ DebouncersInv' /\ ReportedInv'
  BY <1>1, <1>2 DEF IInv, TypeOK, DebouncersInv, ReportedInv
<1>7. MotorInv' /\ Fsm!ClosingUnobstructed' /\ BeganInv'
  BY <1>1, <1>2 DEF IInv, MotorInv, Fsm!ClosingUnobstructed, BeganInv, Fsm!Direction,
                    Fsm!Moving, TargetOf
<1>. QED
  BY <1>3, <1>5, <1>6, <1>7 DEF IInv

\* Steps that touch neither the state machine nor what has been debounced.
LEMMA QuietStep ==
  ASSUME IInv, UNCHANGED <<fsm, position, hist>>, TypeOK', DebouncersInv',
         \A s \in Sensors : dbc'[s].stable = dbc[s].stable,
         stuck' = stuck \/ stuck' # "NONE",
         state = "FAULT" /\ fault_code = "SPOF" => stuck' # "NONE"
  PROVE  IInv'
<1>1. UNCHANGED <<state, fault_code, obstruction_active, motor, position, began_on, forgotten>>
  BY DEF fsm, hist
<1>2. LimitsInv' /\ ReportedInv'
  BY <1>1, LimitsApart
     DEF IInv, LimitsInv, ReportedInv, LimitPosition, Sensors
<1>3. MotorInv' /\ Fsm!ClosingUnobstructed'
  BY <1>1 DEF IInv, MotorInv, Fsm!ClosingUnobstructed, Fsm!Direction
<1>4. BeganInv'
  BY <1>1 DEF IInv, BeganInv, Fsm!Moving, TargetOf, Sensors, Limits
<1>5. RestsAtLimit' /\ SpofExplained'
  BY <1>1 DEF IInv, RestsAtLimit, SpofExplained
<1>. QED
  BY <1>2, <1>3, <1>4, <1>5 DEF IInv

LEMMA StartStep ==
  ASSUME IInv, ControlTaskStarts
  PROVE  IInv'
<1>1. /\ UNCHANGED <<position, obstructed, jammed, stuck, dbc, bounces, forgotten,
                     fault_code, obstruction_active>>
      /\ state' = "HOMING"
      /\ motor' = "CLOSE"
      /\ began_on' = dbc["closed"].stable
  BY DEF ControlTaskStarts, Fsm!ControlTaskStarts, Fsm!fsm_start_homing, Fsm!Motor, door, input
<1>2. dbc["closed"].stable \in {0, 1}
  BY DEF IInv, TypeOK, Debouncer, Sensors, Limits
<1>3. TypeOK' /\ DebouncersInv' /\ LimitsInv'
  BY <1>1, <1>2 DEF IInv, TypeOK, DebouncersInv, LimitsInv, LimitPosition
<1>4. MotorInv' /\ Fsm!ClosingUnobstructed' /\ ReportedInv' /\ BeganInv'
  BY <1>1 DEF IInv, MotorInv, Fsm!Direction, Fsm!ClosingUnobstructed, ReportedInv,
              BeganInv, TargetOf
<1>5. RestsAtLimit' /\ SpofExplained'
  BY <1>1 DEF RestsAtLimit, SpofExplained
<1>. QED
  BY <1>3, <1>4, <1>5 DEF IInv

LEMMA StepIInv == IInv /\ [Next]_vars => IInv'
<1>. SUFFICES ASSUME IInv, [Next]_vars
              PROVE  IInv'
  OBVIOUS
<1>1. CASE ControlTaskStarts
  BY <1>1, StartStep
<1>2. ASSUME NEW evt \in Inputs, Input(evt)
      PROVE  IInv'
  <2>1. evt # "EVT_SPOF_DETECTED"
    BY InputsAssumption
  <2>. QED
    BY <1>2, <2>1, InputStep DEF Input
<1>3. CASE StallTimerExpires
  <2>1. "EVT_MOTOR_STALL" \notin Inputs
    BY InputsAssumption
  <2>. QED
    BY <1>3, <2>1, InputStep DEF StallTimerExpires
<1>4. CASE MonitorSeesContradiction
  <2>1. "EVT_SPOF_DETECTED" \notin Inputs
    BY InputsAssumption
  <2>2. stuck # "NONE"
    BY <1>4 DEF MonitorSeesContradiction, IInv, LimitsInv, Limits
  <2>. QED
    BY <1>4, <2>1, <2>2, InputStep DEF MonitorSeesContradiction
<1>5. ASSUME NEW s \in Sensors, Frame(s) \/ BouncingFrame(s)
      PROVE  IInv'
  BY <1>5, FrameStep
<1>6. ASSUME NEW s \in Sensors, DebounceWindowPasses(s)
      PROVE  IInv'
  <2>1. /\ dbc' = [dbc EXCEPT ![s].window = "PASSED"]
        /\ dbc \in [Sensors -> Debouncer]
        /\ UNCHANGED <<fsm, position, obstructed, jammed, stuck, bounces, hist>>
    BY <1>6 DEF DebounceWindowPasses, IInv, TypeOK, door
  <2>2. /\ dbc' \in [Sensors -> Debouncer]
        /\ \A u \in Sensors : dbc'[u].stable = dbc[u].stable
        /\ \A u \in Sensors : u # s => dbc'[u] = dbc[u]
        /\ dbc'[s].window = "PASSED"
    BY <2>1 DEF Debouncer
  <2>3. TypeOK' /\ DebouncersInv'
    BY <2>1, <2>2 DEF IInv, TypeOK, DebouncersInv, hist
  <2>. QED
    BY <2>1, <2>2, <2>3, QuietStep DEF IInv, SpofExplained
<1>7. CASE DoorMoves
  BY <1>7, DoorStep
<1>8. CASE ObstructionChanges
  <2>1. /\ UNCHANGED <<fsm, position, jammed, stuck, dbc, bounces, hist>>
        /\ obstructed' = 1 - obstructed
    BY <1>8 DEF ObstructionChanges, input
  <2>2. TypeOK' /\ DebouncersInv'
    BY <2>1 DEF IInv, TypeOK, DebouncersInv, hist
  <2>. QED
    BY <2>1, <2>2, QuietStep DEF IInv, SpofExplained
<1>9. CASE JamChanges
  <2>1. /\ UNCHANGED <<fsm, position, obstructed, stuck, dbc, bounces, hist>>
        /\ jammed' = 1 - jammed
    BY <1>9 DEF JamChanges, input
  <2>2. TypeOK' /\ DebouncersInv'
    BY <2>1 DEF IInv, TypeOK, DebouncersInv, hist
  <2>. QED
    BY <2>1, <2>2, QuietStep DEF IInv, SpofExplained
<1>10. ASSUME NEW s \in Sticky, SwitchSticks(s)
       PROVE  IInv'
  <2>1. /\ UNCHANGED <<fsm, position, obstructed, jammed, dbc, bounces, hist>>
        /\ stuck' = s
        /\ s # "NONE"
    BY <1>10, DoorAssumption DEF SwitchSticks, input
  <2>2. TypeOK' /\ DebouncersInv'
    BY <2>1 DEF IInv, TypeOK, DebouncersInv, hist
  <2>. QED
    BY <2>1, <2>2, QuietStep
<1>11. CASE UNCHANGED vars
  <2>1. UNCHANGED <<fsm, position, obstructed, jammed, stuck, dbc, bounces, hist>>
    BY <1>11 DEF vars, door, input
  <2>2. TypeOK' /\ DebouncersInv'
    BY <2>1 DEF IInv, TypeOK, DebouncersInv, hist
  <2>. QED
    BY <2>1, <2>2, QuietStep DEF IInv, SpofExplained
<1>. QED
  BY <1>1, <1>2, <1>3, <1>4, <1>5, <1>6, <1>7, <1>8, <1>9, <1>10, <1>11 DEF Next

LEMMA InitIInv == Init => IInv
<1>. SUFFICES ASSUME Init
              PROVE  IInv
  OBVIOUS
<1>1. /\ state = "INIT" /\ fault_code = "NONE" /\ motor = "STOP" /\ obstruction_active = 0
  BY DEF Init, Fsm!Init
<1>2. TypeOK /\ DebouncersInv
  BY DoorAssumption DEF Init, TypeOK, DebouncersInv, Debouncer
<1>3. LimitsInv /\ ReportedInv
  BY LimitsApart DEF Init, LimitsInv, ReportedInv, Sensors, Limits
<1>4. MotorInv /\ Fsm!ClosingUnobstructed /\ BeganInv /\ RestsAtLimit /\ SpofExplained
  BY <1>1 DEF MotorInv, Fsm!Direction, Fsm!ClosingUnobstructed, BeganInv, Fsm!Moving,
              RestsAtLimit, SpofExplained
<1>. QED
  BY <1>2, <1>3, <1>4 DEF IInv

-----------------------------------------------------------------------------
(* The theorems.                                                           *)

\* The invariant is inductive.
THEOREM Inductive == Spec => []IInv
  BY InitIInv, StepIInv, PTL DEF Spec

\* Every variable of the door, the debouncers and the histories keeps its type.
THEOREM TypeCorrect == Spec => []TypeOK
  BY Inductive, PTL DEF IInv

\* SR-4: unless a switch is stuck, a door that the state machine holds to be open
\* stands at its open limit, and one it holds to be closed or idle at the closed one.
THEOREM RestIsAtLimit == Spec => []RestsAtLimit
  BY Inductive, PTL DEF IInv

\* SR-3: the fault SPOF is entered only with a broken limit switch.
THEOREM SpofHasCause == Spec => []SpofExplained
  BY Inductive, PTL DEF IInv

\* SR-1: a door that closes on a command has no obstruction reported, or one that a
\* RESET or an EMERGENCY_OPEN has dropped.
THEOREM ObstructionIsObeyed == Spec => []ObstructionObeyed
<1>1. IInv => ObstructionObeyed
  BY DEF IInv, ReportedInv, Fsm!ClosingUnobstructed, ObstructionObeyed
<1>. QED
  BY <1>1, Inductive, PTL

\* SR-7: a door at its limit is taken for stalled only in a motion that began with
\* that limit reported.
THEOREM StallIsExplained == Spec => StallExplained
<1>1. ASSUME IInv, [Next]_vars, StallFaults, AtLimit
      PROVE  began_on = 1
  <2>1. /\ state \in Fsm!Moving
        /\ state' = "FAULT"
        /\ fault_code' = "MOTOR_STALL"
        /\ state' # state
    BY <1>1 DEF StallFaults, Fsm!Moving
  <2>2. ASSUME NEW evt, Handle(evt), evt # "EVT_FAULT_PERSIST"
        PROVE  evt = "EVT_MOTOR_STALL"
    BY <1>1, <2>1, <2>2, HandlerEffects DEF HandlerEffect, Handle, IInv
  <2>3. CASE StallTimerExpires
    <3>1. Settled(TargetOf(state)) /\ TargetOf(state) \in Limits
      BY <1>1, <2>3, LimitsApart DEF StallTimerExpires
    <3>2. Reading(TargetOf(state)) = 1
      BY <1>1, <3>1 DEF AtLimit, Reading, Bit, Limits
    <3>3. dbc[TargetOf(state)].stable = 1
      BY <1>1, <3>1, <3>2, LimitsApart DEF IInv, DebouncersInv, Settled
    <3>. QED
      BY <1>1, <2>1, <3>3 DEF IInv, BeganInv
  <2>4. ASSUME NEW evt \in Inputs, Input(evt)
        PROVE  FALSE
    BY <2>2, <2>4, InputsAssumption DEF Input
  <2>5. CASE MonitorSeesContradiction
    BY <2>2, <2>5 DEF MonitorSeesContradiction
  <2>6. ASSUME NEW s \in Sensors, Frame(s) \/ BouncingFrame(s)
        PROVE  FALSE
    <3>1. \/ UNCHANGED fsm
          \/ Handle(SensorEvent(s, Reading(s)))
      BY <1>1, <2>6, FrameEffect DEF IInv
    <3>2. SensorEvent(s, Reading(s)) \notin {"EVT_FAULT_PERSIST", "EVT_MOTOR_STALL"}
      BY <1>1, ReadingType, EventOfReading DEF IInv, Sensors
    <3>. QED
      BY <2>1, <2>2, <3>1, <3>2 DEF fsm
  <2>7. CASE ControlTaskStarts
    BY <2>1, <2>7 DEF ControlTaskStarts, Fsm!ControlTaskStarts, Fsm!Moving
  <2>8. ASSUME UNCHANGED fsm
        PROVE  FALSE
    BY <2>1, <2>8 DEF fsm
  <2>. QED
    BY <1>1, <2>3, <2>4, <2>5, <2>6, <2>7, <2>8
       DEF Next, DebounceWindowPasses, DoorMoves, ObstructionChanges, JamChanges,
           SwitchSticks, vars
<1>2. IInv /\ [Next]_vars => [StallFaults /\ AtLimit => began_on = 1]_vars
  BY <1>1
<1>. QED
  BY <1>2, Inductive, PTL DEF Spec, StallExplained
=============================================================================
