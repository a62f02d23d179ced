----------------------------- MODULE EventLine -----------------------------
(***************************************************************************)
(* What the queues of module DoorPipeline promise to the state machine:    *)
(* they are one line of events that may lose some.  An event joins the     *)
(* line at its end, once for each input and for each expiry of the stall   *)
(* timer; the handler takes the events from its head, one by one, in the   *)
(* order they joined; what is lost is never one of the Depth oldest.  The  *)
(* fault of the boot alone joins further up, behind what the dispatcher    *)
(* has forwarded by then.                                                  *)
(***************************************************************************)
EXTENDS Naturals, Sequences, SequencesExt

CONSTANTS
  Depth,   \* capacity of each of the two queues
  Inputs   \* the events the environment posts

VARIABLES
  state, fault_code, emergency_lock, obstruction_active, homing_complete,
  motor, hot_reversal, stall_timer, stall_lost, nvs, nvs_ret,
  line,       \* the events posted and neither handled nor lost
  injecting,  \* the boot fault: still to join, or refused
  inputs      \* events posted by the environment so far

\* Of DoorFsm only the handlers are used, which do not look at the events to come.
Fsm == INSTANCE DoorFsm WITH MaxStalls <- 0, stalls <- 0, boot_event <- "NONE"

ctx   == <<state, fault_code, emergency_lock, obstruction_active, homing_complete>>
drive == <<motor, hot_reversal>>
store == <<nvs, nvs_ret>>
door  == <<ctx, drive, stall_timer, stall_lost, store>>
vars  == <<door, line, injecting, inputs>>

Init ==
  /\ Fsm!Init
  /\ line = <<>>
  /\ injecting = "NONE"
  /\ inputs = 0

\* An event joins the line, or is refused for want of room.
Joins(evt) ==
  \/ line' = Append(line, evt)
  \/ Len(line) >= Depth /\ UNCHANGED line

Input(evt) ==
  /\ inputs' = inputs + 1
  /\ Joins(evt)
  /\ UNCHANGED <<door, injecting>>

StallTimerExpires ==
  /\ stall_timer # "STOPPED"
  /\ stall_timer' = "STOPPED"
  /\ Joins("EVT_MOTOR_STALL")
  /\ stall_lost' \in {stall_lost, 1}
  /\ UNCHANGED <<ctx, drive, store, injecting, inputs>>

\* The dispatcher finds the FSM queue full: the event behind Depth others goes.
Lost ==
  /\ Len(line) > Depth
  /\ line' = RemoveAt(line, Depth + 1)
  /\ stall_lost' \in {stall_lost, 1}
  /\ UNCHANGED <<ctx, drive, stall_timer, store, injecting, inputs>>

BootFaultJoins ==
  /\ injecting = "PENDING"
  /\ injecting' = "NONE"
  /\ \E i \in 1..Depth :
       i <= Len(line) + 1 /\ line' = InsertAt(line, i, "EVT_FAULT_PERSIST")
  /\ UNCHANGED <<door, inputs>>

BootFaultRefused ==
  /\ injecting = "PENDING"
  /\ injecting' = "REFUSED"
  /\ Len(line) >= Depth
  /\ UNCHANGED <<door, line, inputs>>

ControlTaskStarts ==
  /\ Fsm!ControlTaskStarts
  /\ UNCHANGED <<line, injecting, inputs>>

\* The handler takes the head of the line and nothing else.
Handled ==
  /\ Fsm!Running
  /\ line # <<>>
  /\ Fsm!fsm_process_event(Head(line))
  /\ line' = Tail(line)
  /\ UNCHANGED <<injecting, inputs>>

\* The line is lost; what is kept of the door is DoorFsm's.
PowerCycle ==
  /\ state' = "INIT"
  /\ line' = <<>>
  /\ UNCHANGED inputs

Next ==
  \/ \E evt \in Inputs : Input(evt)
  \/ StallTimerExpires
  \/ Lost
  \/ BootFaultJoins
  \/ BootFaultRefused
  \/ ControlTaskStarts
  \/ Handled
  \/ PowerCycle

Spec == Init /\ [][Next]_vars
=============================================================================
