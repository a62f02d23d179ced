---------------------------- MODULE DoorPipeline ----------------------------
(***************************************************************************)
(* The path of an event to the door state machine: the central queue that  *)
(* the receive task, the safety monitor and the stall timer post to, the   *)
(* dispatcher task (src/src/dispatcher/event_dispatcher.c), the FSM queue  *)
(* and ControlTask, together with app_main's delivery of the boot fault.   *)
(* No post waits, except that one: an event that finds its queue full is   *)
(* dropped.                                                                *)
(*                                                                         *)
(* The state machine is module DoorFsm.  Two of its variables are          *)
(* abstractions of the queues and are defined here instead of declared:    *)
(* the stall events in flight and the boot fault to come.                  *)
(***************************************************************************)
EXTENDS Naturals, Sequences, FiniteSets, SequencesExt

CONSTANTS
  DISPATCHER_QUEUE_DEPTH,  \* capacity of both queues (16 in config.h)
  Inputs,                  \* the events the environment posts
  MaxInputs,               \* bound: how many of them in a behaviour
  MaxReboots               \* bound: how many reboots in a behaviour

\* What the supervisor's frames, the safety monitor and the receive task post.
ExternalEvents ==
  { "EVT_CMD_EMERGENCY_OPEN", "EVT_CMD_RESET", "EVT_CMD_OPEN", "EVT_CMD_CLOSE",
    "EVT_SENSOR_FULLY_OPEN", "EVT_SENSOR_FULLY_CLOSED", "EVT_OBSTRUCTION_DETECTED",
    "EVT_OBSTRUCTION_CLEAR", "EVT_SPOF_DETECTED", "EVT_COMM_TIMEOUT" }

ASSUME DepthAssumption == DISPATCHER_QUEUE_DEPTH \in Nat \ {0}

ASSUME InputsAssumption == Inputs \subseteq ExternalEvents

VARIABLES
  state, fault_code, emergency_lock, obstruction_active, homing_complete,
  motor, hot_reversal, stall_timer, stall_lost, nvs, nvs_ret,
  central_queue,  \* dispatcher_queue of app_main
  forwarding,     \* dispatcher_task's evt, received and not yet forwarded
  fsm_queue,      \* g_fsm_queue
  injecting,      \* app_main's boot fault: still to post, or refused
  inputs,         \* events posted by the environment so far
  reboots         \* reboots so far

StallsIn(q) == Cardinality({ i \in 1..Len(q) : q[i] = "EVT_MOTOR_STALL" })

StallsInFlight == StallsIn(central_queue) + StallsIn(forwarding) + StallsIn(fsm_queue)

BootEventStatus == IF Contains(fsm_queue, "EVT_FAULT_PERSIST") THEN "PENDING" ELSE injecting

Fsm == INSTANCE DoorFsm WITH
         MaxStalls <- 2 * DISPATCHER_QUEUE_DEPTH + 1,
         stalls <- StallsInFlight,
         boot_event <- BootEventStatus

\* What has been posted, in the order in which the handler will get it.
EventsToCome == fsm_queue \o forwarding \o central_queue

Line == INSTANCE EventLine WITH Depth <- DISPATCHER_QUEUE_DEPTH, line <- EventsToCome

ctx    == <<state, fault_code, emergency_lock, obstruction_active, homing_complete>>
drive  == <<motor, hot_reversal>>
store  == <<nvs, nvs_ret>>
fsm    == <<ctx, drive, stall_timer, stall_lost, store>>
queues == <<central_queue, forwarding, fsm_queue>>
bounds == <<inputs, reboots>>
vars   == <<fsm, queues, injecting, bounds>>

-----------------------------------------------------------------------------

Full(q) == Len(q) = DISPATCHER_QUEUE_DEPTH

\* Mutant: the queue is taken to have room.
PostedAnyway(q, evt) == Append(q, evt)

\* dispatcher_post_event: xQueueSendToBack with a zero timeout.
Posted(q, evt) == IF Full(q) THEN q ELSE Append(q, evt)

Init ==
  /\ central_queue = <<>>
  /\ forwarding = <<>>
  /\ fsm_queue = <<>>
  /\ injecting = "NONE"
  /\ Fsm!Init
  /\ inputs = 0
  /\ reboots = 0

\* The receive task or the safety monitor posts an event.
Post(evt) ==
  /\ inputs < MaxInputs
  /\ inputs' = inputs + 1
  /\ central_queue' = Posted(central_queue, evt)
  /\ UNCHANGED <<fsm, forwarding, fsm_queue, injecting, reboots>>

\* Mutant: the callback runs before s_central_queue_ref is set.
CallbackPostsNothing ==
  /\ stall_timer # "STOPPED"
  /\ stall_timer' = "STOPPED"
  /\ UNCHANGED <<ctx, drive, store, stall_lost, queues, injecting, bounds>>

\* The timer expires and stall_timer_callback posts to the central queue.
stall_timer_callback ==
  /\ stall_timer # "STOPPED"
  /\ stall_timer' = "STOPPED"
  /\ central_queue' = Posted(central_queue, "EVT_MOTOR_STALL")
  /\ stall_lost' = IF Full(central_queue) /\ StallsInFlight = 0 THEN 1 ELSE stall_lost
  /\ UNCHANGED <<ctx, drive, store, forwarding, fsm_queue, injecting, bounds>>

DispatcherReceives ==
  /\ forwarding = <<>>
  /\ central_queue # <<>>
  /\ forwarding' = <<Head(central_queue)>>
  /\ central_queue' = Tail(central_queue)
  /\ UNCHANGED <<fsm, fsm_queue, injecting, bounds>>

\* Mutant: a full FSM queue makes room by dropping its oldest event, as the
\* UART transmit queue does.
ForwardDropsOldest ==
  /\ forwarding # <<>>
  /\ forwarding' = <<>>
  /\ fsm_queue' = Append(IF Full(fsm_queue) THEN Tail(fsm_queue) ELSE fsm_queue,
                         Head(forwarding))
  /\ UNCHANGED <<fsm, central_queue, injecting, bounds>>

\* Mutant: an emergency opening is sent to the front of the FSM queue.
ForwardUrgentFirst ==
  /\ forwarding # <<>>
  /\ forwarding' = <<>>
  /\ fsm_queue' = IF Head(forwarding) = "EVT_CMD_EMERGENCY_OPEN" /\ ~Full(fsm_queue)
                    THEN forwarding \o fsm_queue
                    ELSE Posted(fsm_queue, Head(forwarding))
  /\ stall_lost' = IF /\ Full(fsm_queue) /\ Head(forwarding) = "EVT_MOTOR_STALL"
                      /\ StallsInFlight = 1 /\ stall_timer = "STOPPED"
                     THEN 1 ELSE stall_lost
  /\ UNCHANGED <<ctx, drive, stall_timer, store, central_queue, injecting, bounds>>

DispatcherForwards ==
  /\ forwarding # <<>>
  /\ forwarding' = <<>>
  /\ fsm_queue' = Posted(fsm_queue, Head(forwarding))
  /\ stall_lost' = IF /\ Full(fsm_queue) /\ Head(forwarding) = "EVT_MOTOR_STALL"
                      /\ StallsInFlight = 1 /\ stall_timer = "STOPPED"
                     THEN 1 ELSE stall_lost
  /\ UNCHANGED <<ctx, drive, stall_timer, store, central_queue, injecting, bounds>>

\* fsm_control_task: up to the loop, then one event per turn of it.
ControlTaskStarts ==
  /\ UNCHANGED <<queues, injecting, bounds>>
  /\ Fsm!ControlTaskStarts

ControlTaskReceives ==
  /\ Fsm!Running
  /\ fsm_queue # <<>>
  /\ fsm_queue' = Tail(fsm_queue)
  /\ Fsm!fsm_process_event(Head(fsm_queue))
  /\ UNCHANGED <<central_queue, forwarding, injecting, bounds>>

\* Mutant: the boot fault is posted to no queue.
InjectNowhere ==
  /\ injecting = "PENDING"
  /\ ~Full(fsm_queue)
  /\ injecting' = "NONE"
  /\ UNCHANGED <<fsm, queues, bounds>>

\* app_main posts the boot fault straight to the FSM queue, waiting at most
\* 100 ms for room there.
InjectBootFault ==
  /\ injecting = "PENDING"
  /\ ~Full(fsm_queue)
  /\ fsm_queue' = Append(fsm_queue, "EVT_FAULT_PERSIST")
  /\ injecting' = "NONE"
  /\ UNCHANGED <<fsm, central_queue, forwarding, bounds>>

InjectTimesOut ==
  /\ injecting = "PENDING"
  /\ Full(fsm_queue)
  /\ injecting' = "REFUSED"
  /\ UNCHANGED <<fsm, queues, bounds>>

Reboot ==
  /\ reboots < MaxReboots
  /\ reboots' = reboots + 1
  /\ central_queue' = <<>>
  /\ forwarding' = <<>>
  /\ fsm_queue' = <<>>
  /\ \E found \in Fsm!Survivors(nvs) \cup {Fsm!BlankStore} :
       nvs' = found /\ injecting' = Fsm!BootEvent(found)
  /\ Fsm!Reboot
  /\ UNCHANGED inputs

Next ==
  \/ \E evt \in Inputs : Post(evt)
  \/ stall_timer_callback
  \/ DispatcherReceives
  \/ DispatcherForwards
  \/ ControlTaskStarts
  \/ ControlTaskReceives
  \/ InjectBootFault
  \/ InjectTimesOut
  \/ Reboot

\* Each task runs whenever it can, and an armed timer expires unless it is
\* cancelled first.  Nothing is promised about inputs and reboots.
Fairness ==
  /\ WF_vars(ControlTaskStarts)
  /\ WF_vars(ControlTaskReceives)
  /\ WF_vars(DispatcherReceives)
  /\ WF_vars(DispatcherForwards)
  /\ WF_vars(stall_timer_callback)
  /\ WF_vars(InjectBootFault \/ InjectTimesOut)

Spec == Init /\ [][Next]_vars /\ Fairness

-----------------------------------------------------------------------------
(* Properties.                                                             *)

Events == Inputs \cup {"EVT_MOTOR_STALL", "EVT_FAULT_PERSIST"}

\* The queues hold events and stay within their depth; the fault event of the
\* boot never passes through the dispatcher.
QueuesOK ==
  /\ central_queue \in Seq(Inputs \cup {"EVT_MOTOR_STALL"})
  /\ forwarding \in Seq(Inputs \cup {"EVT_MOTOR_STALL"})
  /\ fsm_queue \in Seq(Events)
  /\ Len(central_queue) <= DISPATCHER_QUEUE_DEPTH
  /\ Len(forwarding) <= 1
  /\ Len(fsm_queue) <= DISPATCHER_QUEUE_DEPTH
  /\ injecting \in {"NONE", "PENDING", "REFUSED"}

\* The queued system is one the state machine's own specification allows: a stall
\* reaches the handler once for each expiry of the timer and the boot fault once for
\* each boot that found one, and no loss at a queue goes unnoticed in what DoorFsm
\* says of the two.  Of the other events it says nothing, as DoorFsm takes them in any
\* number and order: their order is LineSpec's.
FsmSpec == Fsm!Spec

\* The two queues and the dispatcher are one line of events to the handler: it gets
\* each event that was posted at most once, none that was not, and those it gets in the
\* order they were posted, except for the boot fault, which overtakes what is not yet
\* forwarded.  An event is lost only where it finds a queue full, a safety event as
\* any other, and then it is never one of the oldest DISPATCHER_QUEUE_DEPTH.
LineSpec == Line!Spec

\* A fault found at boot was latched while the motor ran: MotorStoppedInFault.
LeftRunning == state = "FAULT" /\ fault_code = "NVS_BOOT" /\ motor # "STOP"

\* SR-7: a running motor is stopped, by the limit switch or by a stall fault, with two
\* exceptions: the expiry of its timer was dropped by a full queue and no other stall is
\* on its way, or the boot fault has taken the state away from the motion.
MotionEnds == motor # "STOP" ~> (motor = "STOP" \/ stall_lost = 1 \/ LeftRunning)

\* SR-4: a fault found at boot brings the FSM to FAULT, however many events
\* were posted before it, unless app_main found the queue full throughout.
BootFaultLatched ==
  (injecting = "PENDING") ~> (state = "FAULT" \/ injecting = "REFUSED")

-----------------------------------------------------------------------------
(* What the documentation says and the code does not do.                   *)

\* door_fsm.h:19, FAULT: "Abnormal; no motion until RESET".
MotorStoppedInFault == state = "FAULT" => motor = "STOP"

\* fault_nvs.h:29, the record is cleared "after successful RESET + re-homing", which
\* DESIGN.md:95-98 repeats: a running controller gives a committed fault up once the
\* door is homed.
RecordKeptUntilHomed ==
  [][ Fsm!Recorded /\ ~Fsm!Recorded' /\ state' # "INIT" => homing_complete' = 1 ]_vars

\* config.h:88-90, a stall is a motion that has not reached its limit within
\* its own window: a stall fault is entered only once the timer of the motion
\* has run out.
StallOfThisMotion ==
  [][ (state \in Fsm!Moving /\ state' = "FAULT" /\ fault_code' = "MOTOR_STALL")
        => stall_timer = "STOPPED" ]_vars
=============================================================================
