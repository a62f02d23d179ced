---------------------------- MODULE SafetyMonitor ----------------------------
(***************************************************************************)
(* The safety monitor task (src/src/safety/safety_monitor.c) and the part  *)
(* of the receive task on the other core that feeds it.  They share three  *)
(* atomics and a millisecond clock that wraps; nothing else orders them,   *)
(* so each atomic access and each clock reading is a step of its own.      *)
(*                                                                         *)
(* Time passes only in Tick.  Two bounds tie the tasks to it: a round of   *)
(* the monitor, its sleep included, begins within RoundMax ms of the one   *)
(* before (it has the highest priority of its core), and the receive task  *)
(* is done with a frame within RxMax ms.                                   *)
(***************************************************************************)
EXTENDS Naturals, Sequences

CONSTANTS
  WordSize,               \* the clock counts modulo this (2^32 in the code)
  COMM_TIMEOUT_MS,
  TWDT_FEED_INTERVAL_MS,
  TWDT_TIMEOUT_MS,        \* CONFIG_ESP_TASK_WDT_TIMEOUT_S * 1000
  RoundMax,               \* bound: from one round of the monitor to the next
  RxMax,                  \* bound: the receive task's work on a frame
  SensorGap,              \* bound: between two debounced sensor changes
  Traffic                 \* what the supervisor sends: subset of {"FRAMES", "SENSORS"}

ASSUME TimingAssumption ==
  /\ {WordSize, COMM_TIMEOUT_MS, TWDT_FEED_INTERVAL_MS, TWDT_TIMEOUT_MS,
      RoundMax, RxMax, SensorGap} \subseteq Nat \ {0}
  /\ COMM_TIMEOUT_MS + 2 * RoundMax + RxMax < WordSize
  /\ TWDT_FEED_INTERVAL_MS + 2 * RoundMax < WordSize
  /\ RoundMax <= TWDT_FEED_INTERVAL_MS
  /\ 2 * TWDT_FEED_INTERVAL_MS + RoundMax < TWDT_TIMEOUT_MS
  /\ RxMax + RoundMax < SensorGap

VARIABLES
  clock,             \* (uint32_t)(esp_timer_get_time() / 1000)
  last_valid_frame,  \* s_last_valid_frame_ms
  raw,               \* s_raw_fully_open, s_raw_fully_closed
  stable,            \* the debouncers' stable_state of the two limit switches
  rx,                \* what the receive task still does for this frame, in order
  rx_clock,          \* the clock it read for the frame, 0 once stored
  monitor,           \* the statement of the loop the monitor is at
  now, fo,           \* now_ms and fo of this round, 0 between rounds
  last_twdt_feed,    \* its local last_twdt_feed_ms
  elapsed,           \* ms since ..., see Limit
  contended          \* 1: the latest frame's time was taken or stored across
                     \* the monitor's own use of it

shared  == <<last_valid_frame, raw>>
receive == <<stable, rx, rx_clock>>
locals  == <<monitor, now, fo, last_twdt_feed>>
vars    == <<clock, shared, receive, locals, elapsed, contended>>

\* The intervals that bounds and properties speak of, each counted to a limit:
\* the current round, the current frame, the last valid frame, that or the last
\* report of a time-out, the last feed, the start of an unreported
\* contradiction, the last contradiction, the last sensor change.
Limit == [round         |-> RoundMax,
          frame         |-> RxMax,
          quiet         |-> COMM_TIMEOUT_MS + 1,
          unreported    |-> COMM_TIMEOUT_MS + 2 * RoundMax + 1,
          unfed         |-> TWDT_TIMEOUT_MS,
          contradiction |-> RxMax + 2 * RoundMax + 1,
          agreement     |-> RxMax + RoundMax + 1,
          change        |-> SensorGap]

Sensors == {"open", "closed"}

Contradictory(pair) == pair["open"] = 1 /\ pair["closed"] = 1

\* now_ms - then on uint32_t.
Since(then, at) == (at + WordSize - then) % WordSize

-----------------------------------------------------------------------------

\* safety_monitor_init, some time before the task starts.
Init ==
  /\ clock = 0
  /\ last_valid_frame = 0
  /\ raw = [s \in Sensors |-> 0]
  /\ stable = [s \in Sensors |-> 0]
  /\ rx = <<>>
  /\ rx_clock = 0
  /\ monitor = "START"
  /\ now = 0
  /\ fo = 0
  /\ last_twdt_feed = 0
  /\ elapsed = [n \in DOMAIN Limit |-> IF n \in {"agreement", "change"} THEN Limit[n] ELSE 0]
  /\ contended = 0

Idle == (IF rx = <<>> THEN {"frame"} ELSE {})
          \cup (IF Contradictory(stable) THEN {"agreement"} ELSE {"contradiction"})

Tick ==
  /\ elapsed.round < RoundMax
  /\ rx # <<>> => elapsed.frame < RxMax
  /\ clock' = (clock + 1) % WordSize
  /\ elapsed' = [n \in DOMAIN Limit |->
                   IF n \in Idle THEN 0
                   ELSE IF elapsed[n] < Limit[n] THEN elapsed[n] + 1 ELSE Limit[n]]
  /\ UNCHANGED <<shared, receive, locals, contended>>

-----------------------------------------------------------------------------
(* The receive task: hal_uart_rx_task on core 0.                           *)

WatchdogReset == <<"READ_CLOCK", "STORE_CLOCK">>

\* A command or an obstruction report: parsed, acknowledged.
ValidFrame ==
  /\ "FRAMES" \in Traffic
  /\ rx = <<>>
  /\ rx' = WatchdogReset
  /\ elapsed' = [elapsed EXCEPT !.frame = 0]
  /\ UNCHANGED <<clock, shared, stable, rx_clock, locals, contended>>

\* A limit switch frame that completes a debounce.  One that reports the switch
\* released is stored too, but is no event: the frame counts as unknown.
SensorFrame(s) ==
  /\ "SENSORS" \in Traffic
  /\ rx = <<>>
  /\ elapsed.change = SensorGap
  /\ stable' = [stable EXCEPT ![s] = 1 - @]
  /\ rx' = IF stable'[s] = 1
              THEN <<"STORE_OPEN", "STORE_CLOSED", "READ_CLOCK", "STORE_CLOCK">>
              ELSE <<"STORE_OPEN", "STORE_CLOSED">>
  /\ elapsed' = [elapsed EXCEPT !.frame = 0, !.change = 0]
  /\ UNCHANGED <<clock, shared, rx_clock, locals, contended>>

RxDoes(step) == rx # <<>> /\ Head(rx) = step /\ rx' = Tail(rx)

\* Mutant: a rising switch is stored as the only one that is on.
UpdateExclusive(s) ==
  /\ RxDoes(IF s = "open" THEN "STORE_OPEN" ELSE "STORE_CLOSED")
  /\ raw' = IF stable[s] = 1 THEN [t \in Sensors |-> IF t = s THEN 1 ELSE 0]
                             ELSE [raw EXCEPT ![s] = 0]
  /\ UNCHANGED <<clock, last_valid_frame, stable, rx_clock, locals, elapsed, contended>>

\* safety_monitor_update_sensors: two stores.
UpdateSensor(s) ==
  /\ RxDoes(IF s = "open" THEN "STORE_OPEN" ELSE "STORE_CLOSED")
  /\ raw' = [raw EXCEPT ![s] = stable[s]]
  /\ UNCHANGED <<clock, last_valid_frame, stable, rx_clock, locals, elapsed, contended>>

\* safety_monitor_reset_comm_watchdog: the clock is read, then stored.
ReadFrameTime ==
  /\ RxDoes("READ_CLOCK")
  /\ rx_clock' = clock
  /\ elapsed' = [elapsed EXCEPT !.quiet = 0, !.unreported = 0]
  /\ contended' = IF monitor \in {"LOAD_FRAME", "POST_TIMEOUT", "RESTART"} THEN 1 ELSE 0
  /\ UNCHANGED <<clock, shared, stable, locals>>

\* Mutant: the frame does not reset the watchdog.
FrameTimeForgotten ==
  /\ RxDoes("STORE_CLOCK")
  /\ UNCHANGED <<clock, shared, stable, rx_clock, locals, elapsed, contended>>

StoreFrameTime ==
  /\ RxDoes("STORE_CLOCK")
  /\ last_valid_frame' = rx_clock
  /\ rx_clock' = 0
  /\ UNCHANGED <<clock, raw, stable, locals, elapsed, contended>>

-----------------------------------------------------------------------------
(* The monitor: safety_monitor_task on core 1.                             *)

\* The task registers with the watchdog and enters its loop.
MonitorStarts ==
  /\ monitor = "START"
  /\ monitor' = "READ_CLOCK"
  /\ last_twdt_feed' = clock
  /\ elapsed' = [elapsed EXCEPT !.unfed = 0]
  /\ UNCHANGED <<clock, shared, receive, now, fo, contended>>

\* The top of the loop.
ReadClock ==
  /\ monitor = "READ_CLOCK"
  /\ monitor' = "LOAD_FRAME"
  /\ now' = clock
  /\ elapsed' = [elapsed EXCEPT !.round = 0]
  /\ contended' = IF rx = <<"STORE_CLOCK">> THEN 1 ELSE contended
  /\ UNCHANGED <<clock, shared, receive, fo, last_twdt_feed>>

\* Mutant: the deadline computed, and then compared, as if the clock never wrapped.
DeadlineCompared ==
  /\ monitor = "LOAD_FRAME"
  /\ monitor' = IF now > last_valid_frame + COMM_TIMEOUT_MS
                  THEN "POST_TIMEOUT" ELSE "LOAD_OPEN"
  /\ UNCHANGED <<clock, shared, receive, now, fo, last_twdt_feed, elapsed, contended>>

\* SR-5: the age of the last frame, on unsigned words.
LoadFrameTime ==
  /\ monitor = "LOAD_FRAME"
  /\ monitor' = IF Since(last_valid_frame, now) > COMM_TIMEOUT_MS
                  THEN "POST_TIMEOUT" ELSE "LOAD_OPEN"
  /\ UNCHANGED <<clock, shared, receive, now, fo, last_twdt_feed, elapsed, contended>>

\* post_safety_event(EVT_COMM_TIMEOUT): whether the queue takes the event makes
\* no difference here.
PostTimeout ==
  /\ monitor = "POST_TIMEOUT"
  /\ monitor' = "RESTART"
  /\ elapsed' = [elapsed EXCEPT !.unreported = 0]
  /\ UNCHANGED <<clock, shared, receive, now, fo, last_twdt_feed, contended>>

\* Mutant: the next deadline stored, in a word it does not fit.
RestartAtDeadline ==
  /\ monitor = "RESTART"
  /\ monitor' = "LOAD_OPEN"
  /\ last_valid_frame' = now + COMM_TIMEOUT_MS
  /\ UNCHANGED <<clock, raw, receive, now, fo, last_twdt_feed, elapsed, contended>>

\* The time-out starts again from the beginning of this round.
RestartTimeout ==
  /\ monitor = "RESTART"
  /\ monitor' = "LOAD_OPEN"
  /\ last_valid_frame' = now
  /\ UNCHANGED <<clock, raw, receive, now, fo, last_twdt_feed, elapsed, contended>>

LoadOpen ==
  /\ monitor = "LOAD_OPEN"
  /\ monitor' = "LOAD_CLOSED"
  /\ fo' = raw["open"]
  /\ UNCHANGED <<clock, shared, receive, now, last_twdt_feed, elapsed, contended>>

\* Mutant: one switch is enough.
PostsEither == monitor = "LOAD_CLOSED" /\ (fo = 1 \/ raw["closed"] = 1)

PostsContradiction == monitor = "LOAD_CLOSED" /\ fo = 1 /\ raw["closed"] = 1

\* SR-3: the second switch, and post_safety_event(EVT_SPOF_DETECTED).
LoadClosed ==
  /\ monitor = "LOAD_CLOSED"
  /\ monitor' = "FEED"
  /\ elapsed' = IF PostsContradiction THEN [elapsed EXCEPT !.contradiction = 0]
                                       ELSE elapsed
  /\ UNCHANGED <<clock, shared, receive, now, fo, last_twdt_feed, contended>>

\* Mutant: feeding by a deadline that the wrapped clock does not reach.
FeedByDeadline ==
  /\ monitor = "FEED"
  /\ monitor' = "READ_CLOCK"
  /\ IF now >= last_twdt_feed + TWDT_FEED_INTERVAL_MS
       THEN last_twdt_feed' = now /\ elapsed' = [elapsed EXCEPT !.unfed = 0]
       ELSE UNCHANGED <<last_twdt_feed, elapsed>>
  /\ now' = 0 /\ fo' = 0
  /\ UNCHANGED <<clock, shared, receive, contended>>

\* The task watchdog is fed when its interval has passed; then the task sleeps.
FeedTwdt ==
  /\ monitor = "FEED"
  /\ monitor' = "READ_CLOCK"
  /\ IF Since(last_twdt_feed, now) >= TWDT_FEED_INTERVAL_MS
       THEN last_twdt_feed' = now /\ elapsed' = [elapsed EXCEPT !.unfed = 0]
       ELSE UNCHANGED <<last_twdt_feed, elapsed>>
  /\ now' = 0 /\ fo' = 0
  /\ UNCHANGED <<clock, shared, receive, contended>>

Next ==
  \/ Tick
  \/ ValidFrame
  \/ \E s \in Sensors : SensorFrame(s) \/ UpdateSensor(s)
  \/ ReadFrameTime
  \/ StoreFrameTime
  \/ MonitorStarts
  \/ ReadClock
  \/ LoadFrameTime
  \/ PostTimeout
  \/ RestartTimeout
  \/ LoadOpen
  \/ LoadClosed
  \/ FeedTwdt

Spec == Init /\ [][Next]_vars

-----------------------------------------------------------------------------
(* Properties.                                                             *)

Words == 0 .. WordSize - 1

\* What may be left of a frame.
RxPrograms == { <<>>, <<"STORE_CLOCK">>, <<"READ_CLOCK", "STORE_CLOCK">>,
                <<"STORE_OPEN", "STORE_CLOSED">>, <<"STORE_CLOSED">>,
                <<"STORE_OPEN", "STORE_CLOSED", "READ_CLOCK", "STORE_CLOCK">>,
                <<"STORE_CLOSED", "READ_CLOCK", "STORE_CLOCK">> }

\* Every variable keeps its type, the clocks their word.
TypeOK ==
  /\ {clock, last_valid_frame, rx_clock, now, last_twdt_feed} \subseteq Words
  /\ {raw, stable} \subseteq [Sensors -> {0, 1}]
  /\ rx \in RxPrograms
  /\ monitor \in {"START", "READ_CLOCK", "LOAD_FRAME", "POST_TIMEOUT", "RESTART",
                  "LOAD_OPEN", "LOAD_CLOSED", "FEED"}
  /\ {fo, contended} \subseteq {0, 1}
  /\ elapsed \in [DOMAIN Limit -> Nat]
  /\ \A n \in DOMAIN Limit : elapsed[n] <= Limit[n]

\* SR-5: once frames stop, a time-out is reported, and reported again for as long
\* as they stay away, within two rounds of the deadline: across the wrap of the
\* clock, and whatever frame times are stored late or overwritten.
SilenceReported == elapsed.unreported <= COMM_TIMEOUT_MS + 2 * RoundMax

\* SR-5: a time-out is reported only after COMM_TIMEOUT_MS without a valid frame,
\* except when the two tasks met over the time of the last frame.
TimeoutOnlyOnSilence ==
  [][ monitor = "POST_TIMEOUT" /\ monitor' = "RESTART" /\ contended = 0
        => elapsed.quiet > COMM_TIMEOUT_MS ]_vars

\* SR-3: two switches that stay on together are reported within two rounds of the
\* stores, though each is loaded by itself.
ContradictionReported == elapsed.contradiction <= RxMax + 2 * RoundMax

\* SR-3: a contradiction is reported only if the switches were on together a
\* moment ago: a round does not combine the two ends of a travel of the door.
ContradictionWasReal ==
  [][ PostsContradiction /\ monitor' = "FEED"
        => Contradictory(stable) \/ elapsed.agreement <= RxMax + RoundMax ]_vars

\* NFR: the task watchdog does not reset a system whose monitor keeps its rounds,
\* across the wrap of the clock too.
WatchdogFed == monitor # "START" => elapsed.unfed < TWDT_TIMEOUT_MS

-----------------------------------------------------------------------------
(* What the documentation says and the code does not do.                   *)

\* system_event.h:24, EVT_COMM_TIMEOUT: "No valid frame in COMM_TIMEOUT_MS."
TimeoutMeansSilence ==
  [][ monitor = "POST_TIMEOUT" /\ monitor' = "RESTART"
        => elapsed.quiet > COMM_TIMEOUT_MS ]_vars
=============================================================================
