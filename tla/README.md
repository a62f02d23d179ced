# A TLA+ model of the elevator door controller

This directory specifies, model-checks and proves safe the ESP32 elevator
door controller of this repository. The modules are written from the C code
under `src/` and `include/`; the documents were read for what the program is
meant to do, and where they disagree with the code a run shows it (section 6).

Two lines of the sources do not compile as committed: `door_fsm.c:266` has a
stray `a` in front of `hal_motor_open()`, and `event_dispatcher.c:87` closes a
brace too many. The model reads both without the stray character.

## 1. The system

Two cores, seven contexts of execution, three queues.

| Part | Runs as | State it keeps | Operations |
|---|---|---|---|
| Door state machine, `fsm/door_fsm.c` | ControlTask, core 1, priority 4 | `s_fsm_ctx` (state, fault code, emergency lock, obstruction and homing flags), the one-shot stall timer | one handler per event, start of homing, periodic state report |
| Stall timer callback, `door_fsm.c:59` | esp_timer task | none | posts EVT_MOTOR_STALL |
| Dispatcher, `dispatcher/event_dispatcher.c` | DispatcherTask, core 1, priority 4 | the event in hand | receive, log, forward |
| Safety monitor, `safety/safety_monitor.c` | SafetyTask, core 1, priority 5 | time of the last valid frame, two sensor bytes (atomics written by core 0) | every 10 ms: communication time-out, sensor contradiction, watchdog feed |
| Receive side of the HAL, `hal/hal_uart_mock.c` | HAL_RX, core 0 | frame accumulator, three debouncers | CRC, parsing, debouncing, ACK/NACK, posting |
| Transmit side of the HAL | HAL_TX, core 0, and every caller of `hal_tx_enqueue` | queue of 8 messages, one static buffer | enqueue with drop-oldest, write |
| Fault record, `nvs/fault_nvs.c` | called by ControlTask and app_main | two keys in flash | write, clear, read |
| Event logger, `logger/event_logger.c` | LoggerTask, core 0 | lossy queue of 16 entries | log, drain |
| Start-up, `app_main.c` | main task | boot fault | initialises, starts the tasks, delivers the boot fault |

An event is made by HAL_RX, the safety monitor or the timer callback and posted
without waiting to the central queue (depth 16); the dispatcher forwards it,
again without waiting, to the FSM queue (depth 16); ControlTask handles it.
`app_main` puts the boot fault straight into the FSM queue, waiting at most
100 ms. HAL_RX tells the safety monitor about frames and sensors through
atomics. The state machine is the only writer of its context.

What is hard here: events queued behind one another while the state they were
made for changes (a stall, a limit, a command); losses at full queues on a
safety path; a fault record that outlives the RAM state it belongs to, with
writes that can fail half-way; the order of start-up, where homing runs before
the boot fault is delivered; the safety monitor reading a clock and atomics at
different moments; an enqueue routine shared by two cores over a static buffer.
PROJECT.json lists each of these as a hazard, at its line.

What makes each part correct:

- state machine: motor, timer and state agree after every handler; motion is
  always guarded by its own timer; a fault is latched; the emergency lock ends
  with RESET only; no command before homing; no closing on a known obstruction,
  except in homing;
- record: a fault that was reported written is found by the next boot, and then
  blocks service;
- pipeline: one line of events, none duplicated or reordered except that the boot
  fault overtakes, losses only at full queues, and a running motor is stopped;
- safety monitor: a time-out is raised when frames stop and only then; a
  contradiction is raised only when the two sensors contradict one another;
- receive side: a limit event means the door is there, frames are separated
  correctly, an error changes no command into another;
- transmit side: a queued message is the one its caller passed, the newest survive,
  and nobody waits;
- logger: never blocks a caller.

## 2. Modules

| Module | Models | Status |
|---|---|---|
| `FaultNvs` | the fault record: write, clear, read, failing calls, power loss | done |
| `DoorFsm` | the state machine, its motor, timer and record, reboots | done |
| `SafeDoor` | abstract specification: what the door is promised to do | done |
| `EventLine` | abstract specification: what the queues promise the state machine | done |
| `DoorPipeline` | queues, dispatcher, timer callback, boot fault, around `DoorFsm` | done |
| `SafetyMonitor` | clock modulo a word, communication watchdog, sensor snapshot, task watchdog, at the grain of the atomics | done |
| `DoorSensors` | the debouncers, the sensor frames and a door that moves under the motor, around `DoorFsm` | done |
| `UartReceive` | byte accumulator, line ends, time-outs, over-long lines, CRC suffix, answer and event, on a wire that loses and changes bytes | done |
| `TxQueue` | `hal_tx_enqueue` called from two tasks, step by step, and the transmit task | done |
| `DoorFsm_proofs`, `DoorPipeline_proofs`, `SafetyMonitor_proofs`, `DoorSensors_proofs`, `UartReceive_proofs`, `TxQueue_proofs` | theorems about the module they are named after (section 5) | done |

`MCDoorFsm`, `MCDoorPipeline`, `MCSafetyMonitor`, `MCDoorSensors`, `MCUartReceive`
and `MCTxQueue` are the roots TLC starts from. `DoorPipeline` and `DoorSensors`
both instantiate `DoorFsm`, one to put queues in front of the handlers, the other
to put a door behind them; both call `Fsm!fsm_process_event`. The state machine
meets `TxQueue` and `UartReceive` only through messages and events, so those two
stand alone.

Every safety property a passing run checks is also a theorem. What is left is
liveness, which is TLC's (section 5).

### FaultNvs

A store is the pair of what `nvs_get_u8` returns now (`live`) and what is
certainly in flash (`flash`). `fault_nvs_write` sets the flag, sets the code and
commits, and returns at the first call that fails, so it has four outcomes;
`fault_nvs_clear` has three. After a power loss each key has its committed value
or the one that was set after it (`Survivors`). A write interrupted by power
loss is the same as a failing write followed by a reboot, which is why handlers
need not be split for it. A failing `fault_nvs_read` aborts the boot; that boot
is simply not taken.

### DoorFsm

The variables are the fields of `s_fsm_ctx`; the last motor command (`motor`);
the stall timer; the record and the result of its last operation; and two
summaries of the world around the handlers, the number of stall events in
flight (`stalls`) and the state of the boot fault's delivery (`boot_event`).
`hot_reversal`, `stall_lost` and the value of `stall_timer` while it runs (the
state it was armed for) are history: no handler reads them, except that a
running timer refuses a second start, as `esp_timer_start_once` does. `stall_lost` is
1 once the motion under way has neither a running timer nor a stall to come, because
its expiry found a full queue, and goes back to 0 when a timer is started. Each
`case` of `fsm_process_event` is one operator named after its event; a rejected
event is consumed without effect. `EVT_HOMING_COMPLETE` and `EVT_HEARTBEAT` are
posted by nobody and do nothing, so they are left out, as are the messages to
the supervisor and the log.

A handler is one step. The context has one writer and the other tasks touch a
handler only through the queues and the timer, and an expiry of the timer inside
a handler that later cancels it has the effect of an expiry just before the
handler. `Running` stands for ControlTask having entered its loop: before it the
state is INIT, and no handler returns there.

`Reboot` may happen in any state. The motor outputs are assumed to come up
disabled (the HAL drives no pin yet). A damaged partition is erased, as
`app_main` does.

### SafeDoor

Six phases (off, homing, service, held, fault, boot), the command the motor is
under, and the fault that start-up has found and not delivered yet. `DoorFsm`
implements it under the mapping `Phase`. Two promises have exceptions in the code,
and each is a step of its own, guarded so that it allows no more than that:

- a fault stops the motor in the same step (`Fail`). The boot fault does not
  (`LatchBootFault`): it needs a fault that is pending, uses it up, and leads to the
  phase boot, which no other fault can enter;
- nothing turns an opening into a closing, but a RESET under the emergency lock or
  after a boot fault (`ResetTurnsOpening`); every other homing starts with a motor that
  is not opening.

### DoorPipeline

`central_queue`, `forwarding` (the dispatcher's local event) and `fsm_queue` are
sequences, the first and last bounded by `DISPATCHER_QUEUE_DEPTH`. Two variables
of `DoorFsm` become state functions of the queues (`StallsInFlight`, the stall events
counted in each of the three, and `BootEventStatus`) through `INSTANCE ... WITH`, so that `FsmSpec`, the whole of
`DoorFsm`'s specification, is a property here. What that says of the queues is
about the stalls and the boot fault: of the other events `DoorFsm` takes any at any
time. Their number and order are `LineSpec`'s, the refinement to `EventLine`: there the
three places are one sequence (`EventsToCome`), an event joins at the end when it is
posted, the handler takes the head, and what is lost has at least
`DISPATCHER_QUEUE_DEPTH` events before it. Its handlers are `DoorFsm`'s, so that the event
taken is the one acted upon. HAL_RX and the safety monitor are
the environment: they post any event of `Inputs` at any time. `InputsAssumption`
keeps out of `Inputs` the two events they never post, the stall, which is the timer
callback's, and the boot fault, which is `app_main`'s; `ExternalEvents` is all the
others that the handler has a case for.

### SafetyMonitor

The monitor and HAL_RX run on different cores and share three atomics, so every
load, store and clock reading is a step. `monitor` is the statement of the loop
the task is at, `rx` the list of accesses HAL_RX still has to make for the frame
in hand; `now`, `fo` and `rx_clock` are locals, set to 0 where their scope ends.
`clock` counts milliseconds modulo `WordSize`, and differences are taken as
`uint32_t` takes them. `elapsed` measures real intervals, which the code cannot
see: two of them bound the speed of the tasks in `Tick`, the others are what the
properties speak of. `contended` is history: 1 when the time of the latest frame
was read or stored while the monitor was between its own reading of the clock
and its last use of the frame time.

Of a frame only its effect on the atomics is kept: a valid one stores its time, a
limit switch frame that completes a debounce stores both switches, and its time
too unless it reports a release (which the code takes for an unknown frame). A
refused frame stores nothing. What a post leads to is `DoorPipeline`; in this
module it makes no difference whether the queue takes it.

Three assumptions stand for scheduling and for the door: a round of the monitor
starts within `RoundMax` of the one before (10 ms of sleep, the highest priority
of its core), HAL_RX finishes a frame's accesses within `RxMax`, and two
debounced changes of the limit switches are at least `SensorGap` apart, more than
a round (the door takes three seconds). Without the last the monitor could load
one switch at one end of a travel and the other at the other end.

### DoorSensors

The variables of `DoorFsm` and, around them: the position of the door, one of
`Travel + 1`; whether something stands in the doorway, the door is jammed, or a
limit switch is stuck; and for each sensor its `debounce_ctx_t`, whose `pending`
and `last_change_ms` become the `window` (none, running, passed). A `Frame` is a
sample of the sensor as it reads now, run through `debounce_update` and the case
of `parse_frame` it belongs to, and its event is handled in the same step: the
queues and their losses are `DoorPipeline`'s, failing record writes `DoorFsm`'s.
`began_on` and `forgotten` are history, for the two exceptions the properties
name.

`Sticky` names limit switches and `Inputs` commands or the communication time-out:
the assumptions say no more, since every other event is made inside the module.

The door, its switches, the doorway and the supervisor are outside the repository.
What is assumed of them:

- the stall timer (3.6 s, and in fact 4.3) outlasts a free travel plus a debounce
  window, so it expires only on a jammed door or on one whose limit the debouncer
  has nothing left to say about; and a travel outlasts a window (20 ms), so the
  limit that was left is debounced before the other one is reached;
- a wrong sample comes while the door moves and is followed by a right one, at
  most `MaxBounces` times.

Two more restrictions only keep the run short: one part fails at a time, a jam or a
stuck switch but not both, and a new obstruction comes after the debouncer has settled
on the end of the last one. No property rests on them: TLC, with either of them
taken out of the guards of `JamChanges`, `SwitchSticks` or `ObstructionChanges`,
searches about 1.5 times the states and finds the same. A jam is cleared while the
motor stands.

### UartReceive

One action per byte. `frame_buf` is the accumulator; `did` is what the step did:
the answer, the event offered to the dispatcher and whether the watchdog was
reset. Bytes are abstract: a head, an argument, a comma, the digits of a CRC and a
line end count one each, so that a frame with its CRC is four bytes and a line end. `Parsed`
says what `strncmp` and `atoi` make of a line: prefixes are compared, what follows
is ignored, a missing value reads 0. A sensor value may be taken or refused, as
the debouncer decides (`DoorSensors`). The wire may lose or change bytes, insert them
between two bytes of a frame as well as between two frames, and fall silent for `COMM_TIMEOUT_MS`, `MaxErrors` times from the beginning of one frame to the next. `sent`, `fresh`,
`ended` and `begun` are history for the properties. The CRC is ideal: it fits the
body it was computed for and no other. `ReceiveAssumption` wants room for one frame
with its CRC and the terminator, and commands that are not called like a sensor value
or like the two outcomes that are no command.

### TxQueue

`msg_buf` is the static buffer, copied part by part; each `xQueueSendToBack` and
`xQueueReceive` of `hal_tx_enqueue` is a step, and so is each round of the transmit
task. A message is named by the task and the number of the call it was passed to;
what it says makes no difference to the queue. `met` records the calls that another
task's call overlapped.

## 3. Runs

| Run | Question | Bounds |
|---|---|---|
| `door_fsm` | do the invariants and the refinement to `SafeDoor` hold under any order of events, failing writes and reboots | at most 2 stall events in flight; everything else is finite by itself, so the number of events and reboots is not bounded |
| `door_pipeline` | does the queued system implement `DoorFsm`; are the queues one line; is a running motor stopped; is a boot fault latched | queue depth 2, 3 posted events out of 5 kinds, 1 reboot |
| `boot_fault_motion` | is the motor stopped in FAULT | 1 event, 1 reboot, depth 3 |
| `clear_before_homing` | is the fault record kept until the homing of a RESET is done | 2 events, depth 3, 1 reboot |
| `stale_stall` | is a stall fault about the motion it stops | 2 events, depth 3 |
| `safety_monitor` | are silence and contradictions reported in time, false reports confined to the meeting of the two tasks, the task watchdog fed | a clock of 9 ms, time-out 3 ms, round 2 ms; nothing else is bounded |
| `false_timeout` | does a time-out mean silence | the same, without sensor frames |
| `door_sensors` | does the state machine know where the door is, does it fault for a reason, does homing end, does a contradiction stop the door | 3 positions, the four commands, the closed switch may stick, 1 wrong sample |
| `limit_stall` | is a stall fault about a door that is not at its limit | 3 positions, RESET and communication time-out, no broken switch, no bounce |
| `uart_rx` | does the accumulator stay in bounds, is a clean frame understood, can remains or errors make a command | lines of 5 bytes, 2 commands and the obstruction frame, 1 error per frame |
| `tx_queue` | do calls return, what can overlapping calls damage, which messages are given up | 2 tasks, 3 calls each, depth 2, messages in 2 parts |
| `torn_message` | is a queued message the one its call was given | the same, 1 call each |

Two stall events in flight are enough to tell a stale from a current one; the
proofs below are for any number. With depth 2 and 3 events both queues of
`door_pipeline` overflow, the boot fault is refused in some behaviours and
delivered in others. Its five inputs are the emergency, reset and open commands,
the limit that ends a homing, and a fault that is recorded before the reboot:
the remaining events change nothing about the queues and are covered by
`door_fsm`. Deadlock is not checked in the pipeline runs because the bounds make
the system stop; `door_fsm` has deadlock checked.

The constants of `safety_monitor` keep the order of the code's: a round is
shorter than every deadline, two feed intervals fit in the watchdog's time, and
the clock's word is just longer than time-out, two rounds and a late store
together, so that the clock wraps many times in a behaviour and every alignment
of deadline and wrap occurs. `TimingAssumption` states that order; the code's
2^32, 100, 1000 and 10 ms satisfy it.

In `door_sensors` nothing but the number of wrong samples is bounded: the door runs,
jams, is freed and is commanded for ever. Three positions give a door that is at
one limit, at the other, or at neither. One wrong sample is enough to open a window
where none belongs, and more only repeat it. The two switches are mirror images in
the debouncers, and homing looks at the closed one, so that one is let stick. A stuck
switch stays stuck, so `SpofExplained` is about the first contradiction and
`ContradictionStops` about all that follow. Deadlock is checked.

`uart_rx` has lines of five bytes, one more than a frame with its CRC, and one error
from one frame to the next, so that lines overflow, lose their end, run
into one another and are cut by a silence; a line that has lost its end gathers the
errors of several frames, and frames and lines go on for ever. With two errors a frame
TLC searches for minutes and finds the same; the theorems are for any number. The two
commands are interchangeable in every definition, hence the symmetry. In
`tx_queue` two messages fill the queue and the third call of either task meets it
full; it stops when all calls are made, hence no deadlock check.

Every property of a passing run is also checked against a mutant of the code,
given in PROJECT.json and defined beside the operator it replaces under a
comment that starts with "Mutant".

## 4. Fairness

Safety needs none. `DoorPipeline` assumes weak fairness of ControlTask, the
dispatcher, the timer callback and `app_main`: FreeRTOS runs a task that is ready
unless a task of higher priority on its core never blocks, and the only one of
higher priority here, the safety monitor, sleeps 10 ms in each round. An armed
timer expires unless it is cancelled first. Nothing is assumed about inputs or
reboots. `MotionEnds` is about finitely many inputs: a supervisor that repeats
EMERGENCY_OPEN for ever restarts the timer each time. It is about the motor, not the
state, and has two exceptions: the expiry of the timer was dropped by a full queue and no
other stall is on its way (`stall_lost`), and the boot fault has taken the state from a
running motor, which then runs on (`LeftRunning`, section 6).
`BootFaultLatched` rests on the one reboot of the run: a second one that finds
the partition damaged drops the pending fault with the record.

`DoorSensors` assumes that the tasks run, that the supervisor goes on sampling both
limit switches (its silence is a fault of its own), that time passes, and that a free
door follows its motor. Nothing is assumed of commands, obstructions, jams,
bounces or the switch that sticks. `HomingEnds` holds for a jammed door because
the stall timer expires, and for one that stands at its limit for the same reason.

`TxQueue` assumes only that a task inside `hal_tx_enqueue` goes on, so `CallsReturn`
holds without the transmit task; `NewestWritten` takes weak fairness of the transmit
task as its antecedent. `UartReceive` has safety properties only.

## 5. Proofs

Each theorem is checked by TLAPS for every value of its module's constants that the
module's named assumption allows: any number of stall events in flight, any queue
depth, any word size and deadlines in the order of the code's, any travel and number
of wrong samples, any set of commands, line length and number of wire errors, any
callers and message parts. In each module the argument is the same: an inductive
invariant `IInv`, checked by TLC first, holds initially and is kept by every action;
a property that is a state predicate is one of its conjuncts or follows from it; an
action property follows from it in one step. PROJECT.json lists which theorem states
which property. What differs is the invariant, and why the property needs it.

**DoorFsm** (`DoorFsm_proofs`).

1. `WriteOutcomes`, `ClearOutcomes`, `BootFinds`: what the record operations
   return, and that a boot sees every committed fault.
2. `TypeCorrect`: the type invariant, by one step per action.
3. `IInv`: the types and three groups of the checked
   invariants. Not each of them is inductive alone. That a newly armed
   timer is armed for the new motion (`MotionGuarded`) needs that no timer
   outlives its motion (`TimerWithMotion`); that an opening never reverses a
   running motor (`ReversalStopsFirst`) needs that the motor stands in every
   resting state (`MotorMatchesState`); CLOSING excluding an obstruction
   (`ClosingUnobstructed`) belongs with the lock and the homing flag, and gives
   `NoCloseOnObstruction` together with `MotorMatchesState`. `FaultRecorded`
   and `RecordedFaultBlocks` go together with the result of the last record
   operation.
4. `ImplementsSafeDoor`: every step of the state machine is a step of `SafeDoor`
   or a stutter; the closing command needs `MotorMatchesState`, and the limits
   and the reversal need `EmergencyHolds`. A fault handler stops the motor, which
   makes it `Fail`; the boot fault takes the pending one with it, which makes it
   `LatchBootFault`; and of a RESET it is the motor that tells `StartHoming` from
   `ResetTurnsOpening`.
5. `RecordIsKept`: only the handler of an accepted RESET takes a committed fault away,
   before the homing it starts. Every step
   but a fault, a RESET and a reboot leaves the record alone (`NextOnRecord`); a write
   never removes a committed flag (`WriteKeepsRecord`); and a reboot that finds it
   gone finds the clear of a RESET whose commit had failed, because the live flag of
   a committed fault is never absent (`FlagKept`, the strengthening).

**DoorPipeline** (`DoorPipeline_proofs`). `QueuesCorrect` bounds the queues and says
which events they hold. `ImplementsDoorFsm` is the refinement: under the mapping that
counts the stall events of the three queues and looks for the boot fault in the
last, every step is one of `DoorFsm` or a stutter. It rests on lemmas about that
count (what an append, a removal and a drop do to it), on the queues' depth, which
bounds the count by `2 * DISPATCHER_QUEUE_DEPTH + 1`, and on the boot fault
occurring at most once and in the FSM queue only. `QueuesAreALine` is the
refinement to `EventLine`. It rests on lemmas about the sequence the three
places make up: an event appended to the last joins the whole at its end (`JoinsBehind`), one
that the dispatcher takes in hand stays where it is (`HeadInHand`), one it drops
at a full FSM queue is the one behind `DISPATCHER_QUEUE_DEPTH` others
(`RemovedBehind`), and the head of the FSM queue is the head of the whole
(`HeadTaken`). `LineHandlers` says that the handlers of both
modules are the same. From the first refinement the queued
system inherits what is proved of the state machine: `QueuedDoorIsSafe`,
`QueuedRecordIsKept` and `QueuedDoorImplementsSafeDoor`. No event that the queues lose,
delay or let pile up breaks these.

**SafetyMonitor** (`SafetyMonitor_proofs`). The properties are about real intervals
(`elapsed`), which the code sees through a wrapping clock read at other moments. The
invariant ties the two: the age of each stored time, modulo the word, to an interval
(`RoundInv`, `FrameTimeInv`, `SilenceInv`, `QuietInv`, `FeedInv`). The
difference of two readings is exact only as long as no age reaches the word, which is
what `FrameTimeInv` bounds and `TimingAssumption` makes room for. For the switches it
relates the two atomics to the debounced values while their stores are under way
(`RawInv`), bounds how long a contradiction can stay unseen (`ContradictionInv`) and
how far apart the two loads of a round can look (`TravelInv`), where `SensorGap` comes in.

**DoorSensors** (`DoorSensors_proofs`). `RestsAtLimit` and `SpofExplained` need that,
as long as no switch sticks, a door at one limit has the other limit's debouncer at 0
and the two are never 1 together (`LimitsInv`), that a debouncer without a window agrees with
its last sample (`DebouncersInv`), and that the motor runs as the state says
(`MotorInv`): the door cannot reach the other end before its debouncer has settled on
having left the first. `ObstructionObeyed` needs that a debounced obstruction is known to the
state machine or was dropped by it (`ReportedInv`), and `StallExplained` that a
motion whose target is reported already was begun that way (`BeganInv`).

**UartReceive** (`UartReceive_proofs`). First the lemmas about the operators: what
`Parsed` makes of a line with no head, with a head alone, with a head and its argument;
that a suffix is taken off from the end; that a CRC is accepted after four
bytes only. For `CommandOfThisLine` the invariant says that every
command in the accumulator or on the wire is one of the line's (`ArgsInv`). For
`CleanFrameTaken` it says that accumulator and wire together are the frame, byte for
byte (`Whole`), as long as nothing has happened to it. For `OneErrorHarmless` it says
what they are after one error: the frame with one byte missing (`Lost`) or changed
(`Garbled`) past its head or with one more anywhere (`Inserted`), or nothing
that has a head (`Headless`). The theorem
then goes through the bytes that can be missing, changed or too many: a frame whose comma is
missing or changed, or whose CRC is missing, is read by its argument; one whose
argument is missing or changed, or whose CRC is changed, is refused; one more byte
in front of the head leaves a line nobody understands, in front of the comma a CRC that fits
no body, and behind the comma a line without a suffix, which is read by its argument,
unless the byte is another comma, when it is refused too; a line end cuts the frame in two,
of which only the first part has a head.

**TxQueue** (`TxQueue_proofs`). `AloneWhole` needs that two calls under way have met
(`OverlapInv`), that the buffer holds what a call that met nobody has copied so far
(`BufferInv`) and, for `RefusedMet`, that such a call finds room when it retries
(`RoomInv`). `StaleGoesFirst` needs that the messages of one caller are queued in
the order of its calls (`OrderInv`, `ReturnedInv`).

**Left to TLC.** Liveness is out of the prover's reach (fairness is about ENABLED):
`MotionEnds`, `BootFaultLatched`, `HomingEnds`, `ContradictionStops`, `CallsReturn`
and `NewestWritten`. The fairness conjuncts of the specifications are used by no
proof. `FaultNvs` has no theorems of its own; its lemmas are the first of `DoorFsm_proofs`.

## 6. Where the documents and the code part

- **Boot fault (`boot_fault_motion`).** `EVT_FAULT_PERSIST` changes the state and
  nothing else (`door_fsm.c:450`), after ControlTask has started homing. The door
  goes on closing in FAULT, where the closed limit and the stall are ignored.
  `door_fsm.h:19` promises no motion in FAULT, and `hal_uart_mock.c:394` a stop in
  every fault path.
- **Record cleared before the homing (`clear_before_homing`).** RESET clears the
  record and then starts the homing (`door_fsm.c:288-289`). `fault_nvs.h:29` has it cleared
  "after successful RESET + re-homing", and `DESIGN.md:95-98` takes the re-homing for the
  confirmation that the door is safe. A power loss during that homing leaves
  no trace of the fault. `RecordClearedByReset` shows what does hold: nothing but that
  RESET takes the record away.
- **Stale stall (`stale_stall`).** Cancelling the timer does not remove an event
  it has already posted (`door_fsm.c:423`), which then faults the next motion. The
  window is the time the limit and the next command wait in the queues, a few
  milliseconds when a handler is held up by console output or flash.
- **False time-out (`false_timeout`).** The monitor reads the clock before it loads
  the frame time (`safety_monitor.c:97-101`); a frame stored between the two is
  newer than "now" and the unsigned difference wraps. `system_event.h:24` says of
  the event "No valid frame in COMM_TIMEOUT_MS". The window is a few
  instructions at the turn of a millisecond, once per frame. The passing run
  shows the only other false reports come from the same meeting: a time that is
  stored late, or overwritten by the older one at line 110.
- **Torn message (`torn_message`).** `hal_tx_enqueue` sends from one static buffer that
  both cores fill (`hal_uart_mock.c:408`). An ACK copied between the copy and the send
  of a motor command goes out in its place, or half of it does. `hal.h:53` calls
  `hal_motor_stop` re-entrant. `AloneWhole` shows that only overlapping calls are hit.
- **Stall at the limit (`limit_stall`).** The closed limit is an event only when its debounced
  switch changes (`hal_uart_mock.c:178`). A door faulted at the closed switch, by a
  communication time-out for instance, is homed by RESET towards a switch that reads 1
  already: nothing but the stall timer ends that homing, in FAULT again, and so for
  every further RESET until something moves the door off the switch. The same happens to a CLOSE right
  after homing. `config.h:88-90` takes a stall for a door that has not reached its
  limit. In `DoorSensors`, where every event is handled as it is made, `StallExplained` shows
  no other way to a stall at the limit; with the queues between them there are two more,
  a limit event that was dropped and a stale stall (above), which that module cannot show.

Observed, not pursued as a run: an obstruction reported in HOMING is only
remembered while the door goes on closing (`door_fsm.c:400` reverses in CLOSING only), where
README.md:98 says that the door does not close when an obstruction is present
(`NoCloseOnObstruction` names homing as its one exception, and the boot fault that
leaves a homing running); after a lost safety event the comment at
`safety_monitor.c:73-78` counts on the watchdog to reset the system, but the
loop feeds it all the same (`WatchdogFed` holds whatever becomes of the posts); RESET under the emergency lock starts the motor
closing with no stop command in between (`ReversalStopsFirst` names this as the
one exception); the stall window applies its drift margin twice (`config.h:90`
and `door_fsm.c:79-81`), 4320 ms in place of 3600; a sensor value that a line end
cuts off reads 0 and, having no CRC suffix, is accepted, as is every line without one
(`hal_uart_mock.c:303`, where README.md:90 says that all messages are validated);
a sensor frame that repeats a value or falls into the debounce window is answered
NACK like a damaged one and does not feed the watchdog, so a supervisor that reports an
unchanging door is one that has gone silent; RESET drops `obstruction_active` at
once (`door_fsm.c:283`) and the debouncer, which reports changes, does not repeat it:
`ObstructionObeyed` names this as its one exception.

## 7. Not modelled

- Real time: deadlines are "eventually", except in `SafetyMonitor`.
- The event logger: a queue filled without waiting that drops what does not fit and
  that only the console reads. Nothing the controller does depends on it.
- The arithmetic of the CRC (a CRC fits its own body only; a false match, 1 in 256, is
  left out), the texts of messages, logging, stack reports.
- Failing allocations and driver calls at boot, which end `app_main`.
- The unit tests, which call the handlers one by one; they were read for the
  transitions they expect.
- A composition of all modules at once: queue losses between the debouncers and the
  state machine would multiply `DoorSensors` by `DoorPipeline`, which is more than TLC can
  search. What a lost limit event leads to is `MotionEnds`; a limit event that waits
  in a queue until it is stale is in neither.
- That the emergency lock and the obstruction flag are lost in a reboot, and how often
  EMERGENCY_OPEN may restart the timer: the code does it and nothing promises otherwise.
