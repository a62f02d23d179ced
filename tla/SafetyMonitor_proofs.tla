------------------------ MODULE SafetyMonitor_proofs ------------------------
(***************************************************************************)
(* What the safety monitor promises, for every width of the clock and all  *)
(* intervals that satisfy TimingAssumption.                                *)
(*                                                                         *)
(* The invariants tie the words the code computes with (a difference of    *)
(* two clock readings, taken modulo WordSize) to the time that has really  *)
(* gone by, and bound each of those differences below WordSize.            *)
(***************************************************************************)
EXTENDS SafetyMonitor, TLAPS

Age(time) == Since(time, clock)

\* The frame's time has been read and not been stored.
Unstored == rx = <<"STORE_CLOCK">>

\* Switch positions of this frame that have not been stored.
StoresLeft == rx # <<>> /\ Head(rx) \in {"STORE_OPEN", "STORE_CLOSED"}

ClosedLeft == rx # <<>> /\ Head(rx) = "STORE_CLOSED"

InRound == monitor \notin {"START", "READ_CLOCK"}

\* The statements from the reading of the clock to the decision about the time-out.
Judging == monitor \in {"LOAD_FRAME", "POST_TIMEOUT", "RESTART"}

\* The monitor has seen no open switch in this round and will not look again.
PastOpen == monitor \in {"START", "READ_CLOCK", "FEED"} \/ (monitor = "LOAD_CLOSED" /\ fo = 0)

RoundInv == InRound => Age(now) = elapsed.round

\* No frame time is ever so old that its age wraps.
FrameTimeInv ==
  /\ Unstored => Age(rx_clock) <= elapsed.frame
  /\ Age(last_valid_frame) <=
       COMM_TIMEOUT_MS + RxMax + elapsed.round + (IF Judging THEN RoundMax ELSE 0)

SilenceInv ==
  /\ elapsed.unreported <= Age(last_valid_frame)
  /\ Unstored => elapsed.unreported <= Age(rx_clock)
  /\ elapsed.unreported <=
       COMM_TIMEOUT_MS + elapsed.round + (IF Judging THEN RoundMax ELSE 0)
  /\ monitor = "RESTART" => elapsed.unreported <= elapsed.round

\* Where the tasks have not met over a frame's time, it is not younger than the frame.
QuietInv ==
  /\ Unstored => elapsed.quiet > COMM_TIMEOUT_MS \/ Age(rx_clock) <= elapsed.quiet
  /\ contended = 0 =>
       /\ ~Unstored => elapsed.quiet > COMM_TIMEOUT_MS \/ Age(last_valid_frame) <= elapsed.quiet
       /\ Judging => ~Unstored
       /\ monitor = "LOAD_FRAME" => Age(last_valid_frame) >= elapsed.round
       /\ monitor \in {"POST_TIMEOUT", "RESTART"} => elapsed.quiet > COMM_TIMEOUT_MS

FeedInv ==
  /\ monitor # "START" => elapsed.unfed <= Age(last_twdt_feed)
  /\ monitor = "READ_CLOCK" => Age(last_twdt_feed) < TWDT_FEED_INTERVAL_MS + elapsed.round
  /\ InRound => Since(last_twdt_feed, now) < TWDT_FEED_INTERVAL_MS + RoundMax

\* What the monitor can see of the switches is at most one store behind.
RawInv ==
  /\ ~StoresLeft => raw = stable
  /\ ClosedLeft => raw["open"] = stable["open"]
  /\ \E s \in Sensors : raw[s] = stable[s]

ContradictionInv ==
  /\ ~Contradictory(stable) /\ elapsed.change > 0 => elapsed.contradiction = 0
  /\ Contradictory(stable) /\ elapsed.change > 0 => elapsed.agreement = 0
  /\ Contradictory(stable) /\ StoresLeft => elapsed.contradiction <= elapsed.frame
  /\ Contradictory(stable) =>
       elapsed.contradiction <= RxMax + elapsed.round + (IF PastOpen THEN 0 ELSE RoundMax)
  /\ elapsed.contradiction <= RxMax + 2 * RoundMax

Opposite(s) == IF s = "open" THEN "closed" ELSE "open"

\* A switch that was released a moment ago, and the other is on: they were on together.
TravelInv ==
  /\ \A s \in Sensors : raw[s] = 1 /\ stable[s] = 0 =>
       /\ elapsed.change <= elapsed.frame
       /\ stable[Opposite(s)] = 1 => elapsed.agreement <= elapsed.change
  /\ monitor = "LOAD_CLOSED" /\ fo = 1 /\ stable["open"] = 0 =>
       /\ elapsed.change <= RxMax + elapsed.round
       /\ raw["closed"] = stable["closed"]
       /\ stable["closed"] = 1 => elapsed.agreement <= elapsed.change

\* What the clock readings say, and what the switches say.
TimeInv == RoundInv /\ FrameTimeInv /\ SilenceInv /\ QuietInv /\ FeedInv
SwitchInv == RawInv /\ ContradictionInv /\ TravelInv

IInv == TypeOK /\ TimeInv /\ SwitchInv

-----------------------------------------------------------------------------
(* Clock readings.                                                         *)

LEMMA Timing ==
  /\ WordSize \in Nat \ {0}
  /\ COMM_TIMEOUT_MS \in Nat \ {0}
  /\ TWDT_FEED_INTERVAL_MS \in Nat \ {0}
  /\ TWDT_TIMEOUT_MS \in Nat \ {0}
  /\ RoundMax \in Nat \ {0}
  /\ RxMax \in Nat \ {0}
  /\ SensorGap \in Nat \ {0}
  /\ COMM_TIMEOUT_MS + 2 * RoundMax + RxMax < WordSize
  /\ TWDT_FEED_INTERVAL_MS + 2 * RoundMax < WordSize
  /\ RoundMax <= TWDT_FEED_INTERVAL_MS
  /\ 2 * TWDT_FEED_INTERVAL_MS + RoundMax < TWDT_TIMEOUT_MS
  /\ RxMax + RoundMax < SensorGap
  BY TimingAssumption

LEMMA SinceIs ==
  ASSUME NEW then \in Words, NEW at \in Words
  PROVE  Since(then, at) = IF then <= at THEN at - then ELSE at + WordSize - then
  BY Timing DEF Words, Since

LEMMA SinceRange ==
  ASSUME NEW then \in Words, NEW at \in Words
  PROVE  Since(then, at) \in Words
  BY Timing DEF Since, Words

LEMMA SinceItself ==
  ASSUME NEW at \in Words
  PROVE  Since(at, at) = 0
  BY SinceIs, Timing DEF Words

\* A millisecond later the difference has grown by one, unless it wraps.
LEMMA SinceTicks ==
  ASSUME NEW then \in Words, NEW at \in Words, Since(then, at) < WordSize - 1
  PROVE  /\ (at + 1) % WordSize \in Words
         /\ Since(then, (at + 1) % WordSize) = Since(then, at) + 1
<1>1. WordSize \in Nat \ {0} /\ at \in 0 .. WordSize - 1 /\ then \in 0 .. WordSize - 1
  BY Timing DEF Words
<1>2. (at + 1) % WordSize = IF at = WordSize - 1 THEN 0 ELSE at + 1
  BY <1>1
<1>3. (at + 1) % WordSize \in Words
  BY <1>1, <1>2 DEF Words
<1>4. Since(then, at) = IF then <= at THEN at - then ELSE at + WordSize - then
  BY SinceIs
<1>5. Since(then, (at + 1) % WordSize)
        = IF then <= (at + 1) % WordSize THEN ((at + 1) % WordSize) - then
                                         ELSE ((at + 1) % WordSize) + WordSize - then
  BY <1>3, SinceIs
<1>6. CASE at = WordSize - 1
  BY <1>1, <1>2, <1>3, <1>4, <1>5, <1>6
<1>7. CASE at # WordSize - 1
  BY <1>1, <1>2, <1>3, <1>4, <1>5, <1>7
<1>. QED
  BY <1>6, <1>7

\* Two differences that follow each other add up, if the sum fits a word.
LEMMA SinceAdds ==
  ASSUME NEW then \in Words, NEW between \in Words, NEW at \in Words,
         \/ Since(then, between) + Since(between, at) < WordSize
         \/ Since(between, at) <= Since(then, at)
  PROVE  Since(then, at) = Since(then, between) + Since(between, at)
  BY SinceIs, Timing DEF Words

-----------------------------------------------------------------------------
(* The counters and the receive task's programs.                           *)

Counters == {"round", "frame", "quiet", "unreported", "unfed", "contradiction",
             "agreement", "change"}

LEMMA LimitIs ==
  /\ DOMAIN Limit = Counters
  /\ Limit["round"] = RoundMax
  /\ Limit["frame"] = RxMax
  /\ Limit["quiet"] = COMM_TIMEOUT_MS + 1
  /\ Limit["unreported"] = COMM_TIMEOUT_MS + 2 * RoundMax + 1
  /\ Limit["unfed"] = TWDT_TIMEOUT_MS
  /\ Limit["contradiction"] = RxMax + 2 * RoundMax + 1
  /\ Limit["agreement"] = RxMax + RoundMax + 1
  /\ Limit["change"] = SensorGap
  BY DEF Limit, Counters

LEMMA LimitNat == \A n \in Counters : Limit[n] \in Nat
  BY LimitIs, Timing DEF Counters

LEMMA CountersType ==
  ASSUME TypeOK
  PROVE  /\ elapsed \in [Counters -> Nat]
         /\ \A n \in Counters : elapsed[n] <= Limit[n]
  BY LimitIs DEF TypeOK

\* The step the receive task does next determines what it does after it.
LEMMA RxGoesOn ==
  ASSUME NEW step, RxDoes(step), rx \in RxPrograms
  PROVE  /\ rx' \in RxPrograms
         /\ rx # <<>> /\ Head(rx) = step
         /\ step = "READ_CLOCK" => rx' = <<"STORE_CLOCK">>
         /\ step = "STORE_CLOCK" => rx = <<"STORE_CLOCK">> /\ rx' = <<>>
         /\ step = "STORE_OPEN" => rx' # <<>> /\ Head(rx') = "STORE_CLOSED"
         /\ step = "STORE_CLOSED" => rx' \in { <<>>, <<"READ_CLOCK", "STORE_CLOCK">> }
<1>0. rx # <<>> /\ Head(rx) = step
  BY DEF RxDoes
<1>1. rx' = Tail(rx)
  BY DEF RxDoes
<1>2. CASE rx = <<"STORE_CLOCK">>
  <2>1. Head(rx) = "STORE_CLOCK" /\ rx' = <<>>
    BY <1>1, <1>2
  <2>. QED
    BY <1>0, <1>2, <2>1 DEF RxPrograms
<1>3. CASE rx = <<"READ_CLOCK", "STORE_CLOCK">>
  <2>1. Head(rx) = "READ_CLOCK" /\ rx' = <<"STORE_CLOCK">>
    BY <1>1, <1>3
  <2>. QED
    BY <1>0, <1>3, <2>1 DEF RxPrograms
<1>4. CASE rx = <<"STORE_CLOSED">>
  <2>1. Head(rx) = "STORE_CLOSED" /\ rx' = <<>>
    BY <1>1, <1>4
  <2>. QED
    BY <1>0, <1>4, <2>1 DEF RxPrograms
<1>5. CASE rx = <<"STORE_OPEN", "STORE_CLOSED">>
  <2>1. Head(rx) = "STORE_OPEN" /\ rx' = <<"STORE_CLOSED">>
    BY <1>1, <1>5
  <2>. QED
    BY <1>0, <1>5, <2>1 DEF RxPrograms
<1>6. CASE rx = <<"STORE_CLOSED", "READ_CLOCK", "STORE_CLOCK">>
  <2>1. Head(rx) = "STORE_CLOSED" /\ rx' = <<"READ_CLOCK", "STORE_CLOCK">>
    BY <1>1, <1>6
  <2>. QED
    BY <1>0, <1>6, <2>1 DEF RxPrograms
<1>7. CASE rx = <<"STORE_OPEN", "STORE_CLOSED", "READ_CLOCK", "STORE_CLOCK">>
  <2>1. Head(rx) = "STORE_OPEN" /\ rx' = <<"STORE_CLOSED", "READ_CLOCK", "STORE_CLOCK">>
    BY <1>1, <1>7
  <2>. QED
    BY <1>0, <1>7, <2>1 DEF RxPrograms
<1>. QED
  BY <1>0, <1>2, <1>3, <1>4, <1>5, <1>6, <1>7 DEF RxPrograms

-----------------------------------------------------------------------------
(* Types.                                                                  *)

LEMMA Types ==
  ASSUME TypeOK
  PROVE  /\ clock \in Words /\ last_valid_frame \in Words /\ rx_clock \in Words
         /\ now \in Words /\ last_twdt_feed \in Words
         /\ raw \in [Sensors -> {0, 1}] /\ stable \in [Sensors -> {0, 1}]
         /\ rx \in RxPrograms
         /\ monitor \in {"START", "READ_CLOCK", "LOAD_FRAME", "POST_TIMEOUT", "RESTART",
                         "LOAD_OPEN", "LOAD_CLOSED", "FEED"}
         /\ fo \in {0, 1} /\ contended \in {0, 1}
         /\ elapsed \in [Counters -> Nat]
  BY CountersType DEF TypeOK

LEMMA CountersAre ==
  ASSUME TypeOK
  PROVE  /\ elapsed["round"] \in 0 .. RoundMax
         /\ elapsed["frame"] \in 0 .. RxMax
         /\ elapsed["quiet"] \in 0 .. COMM_TIMEOUT_MS + 1
         /\ elapsed["unreported"] \in 0 .. COMM_TIMEOUT_MS + 2 * RoundMax + 1
         /\ elapsed["unfed"] \in 0 .. TWDT_TIMEOUT_MS
         /\ elapsed["contradiction"] \in 0 .. RxMax + 2 * RoundMax + 1
         /\ elapsed["agreement"] \in 0 .. RxMax + RoundMax + 1
         /\ elapsed["change"] \in 0 .. SensorGap
<1>1. \A n \in Counters : elapsed[n] \in Nat /\ elapsed[n] <= Limit[n]
  BY CountersType
<1>. QED
  BY <1>1, LimitIs, Timing DEF Counters

\* What a millisecond does to the counters.
LEMMA TickCounts ==
  ASSUME TypeOK, Tick
  PROVE  /\ elapsed' \in [Counters -> Nat]
         /\ \A n \in Counters :
              elapsed'[n] = IF n \in Idle THEN 0
                            ELSE IF elapsed[n] < Limit[n] THEN elapsed[n] + 1 ELSE Limit[n]
<1>1. elapsed' = [n \in Counters |->
                    IF n \in Idle THEN 0
                    ELSE IF elapsed[n] < Limit[n] THEN elapsed[n] + 1 ELSE Limit[n]]
  BY LimitIs DEF Tick
<1>. QED
  BY <1>1, CountersType, LimitNat

LEMMA ResetKeepsLimits ==
  ASSUME TypeOK, NEW R \in SUBSET Counters,
         elapsed' = [n \in Counters |-> IF n \in R THEN 0 ELSE elapsed[n]]
  PROVE  /\ elapsed' \in [DOMAIN Limit -> Nat]
         /\ \A n \in DOMAIN Limit : elapsed'[n] <= Limit[n]
  BY CountersType, LimitIs, LimitNat

LEMMA InitType == Init => TypeOK
<1>. SUFFICES ASSUME Init
              PROVE  TypeOK
  OBVIOUS
<1>1. 0 \in Words
  BY Timing DEF Words
<1>2. /\ elapsed \in [DOMAIN Limit -> Nat]
      /\ \A n \in DOMAIN Limit : elapsed[n] <= Limit[n]
  BY LimitIs, LimitNat DEF Init
<1>3. rx \in RxPrograms
  BY DEF Init, RxPrograms
<1>. QED
  BY <1>1, <1>2, <1>3 DEF Init, TypeOK, Sensors

LEMMA TypeStep == TypeOK /\ [Next]_vars => TypeOK'
<1>. SUFFICES ASSUME TypeOK, [Next]_vars
              PROVE  TypeOK'
  OBVIOUS
<1>. USE DEF shared, receive, locals
<1>1. CASE Tick
  <2>1. clock' \in Words
    BY <1>1, Types, Timing DEF Tick, Words
  <2>2. /\ elapsed' \in [DOMAIN Limit -> Nat]
        /\ \A n \in DOMAIN Limit : elapsed'[n] <= Limit[n]
    BY <1>1, TickCounts, LimitIs, LimitNat, CountersType
  <2>. QED
    BY <1>1, <2>1, <2>2 DEF Tick, TypeOK
<1>2. CASE ValidFrame
  <2>1. elapsed' = [n \in Counters |-> IF n \in {"frame"} THEN 0 ELSE elapsed[n]]
    BY <1>2, Types DEF ValidFrame, Counters
  <2>2. rx' \in RxPrograms
    BY <1>2 DEF ValidFrame, RxPrograms, WatchdogReset
  <2>. QED
    BY <1>2, <2>1, <2>2, ResetKeepsLimits DEF ValidFrame, TypeOK, Counters
<1>3. ASSUME NEW s \in Sensors, SensorFrame(s)
      PROVE  TypeOK'
  <2>1. elapsed' = [n \in Counters |-> IF n \in {"frame", "change"} THEN 0 ELSE elapsed[n]]
    BY <1>3, Types DEF SensorFrame, Counters
  <2>2. rx' \in RxPrograms
    BY <1>3 DEF SensorFrame, RxPrograms
  <2>3. stable' \in [Sensors -> {0, 1}]
    BY <1>3, Types DEF SensorFrame
  <2>. QED
    BY <1>3, <2>1, <2>2, <2>3, ResetKeepsLimits DEF SensorFrame, TypeOK, Counters
<1>4. ASSUME NEW s \in Sensors, UpdateSensor(s)
      PROVE  TypeOK'
  <2>1. rx' \in RxPrograms
    BY <1>4, Types, RxGoesOn DEF UpdateSensor
  <2>2. raw' \in [Sensors -> {0, 1}]
    BY <1>4, Types DEF UpdateSensor
  <2>. QED
    BY <1>4, <2>1, <2>2 DEF UpdateSensor, TypeOK
<1>5. CASE ReadFrameTime
  <2>1. elapsed' = [n \in Counters |-> IF n \in {"quiet", "unreported"} THEN 0 ELSE elapsed[n]]
    BY <1>5, Types DEF ReadFrameTime, Counters
  <2>2. rx' \in RxPrograms
    BY <1>5, Types, RxGoesOn DEF ReadFrameTime
  <2>3. /\ elapsed' \in [DOMAIN Limit -> Nat]
        /\ \A n \in DOMAIN Limit : elapsed'[n] <= Limit[n]
    BY <2>1, ResetKeepsLimits DEF Counters
  <2>. QED
    BY <1>5, <2>2, <2>3 DEF ReadFrameTime, TypeOK
<1>6. CASE StoreFrameTime
  <2>1. rx' \in RxPrograms /\ 0 \in Words
    BY <1>6, Types, RxGoesOn, Timing DEF StoreFrameTime, Words
  <2>. QED
    BY <1>6, <2>1 DEF StoreFrameTime, TypeOK
<1>7. CASE MonitorStarts
  <2>1. elapsed' = [n \in Counters |-> IF n \in {"unfed"} THEN 0 ELSE elapsed[n]]
    BY <1>7, Types DEF MonitorStarts, Counters
  <2>. QED
    BY <1>7, <2>1, ResetKeepsLimits DEF MonitorStarts, TypeOK, Counters
<1>8. CASE ReadClock
  <2>1. elapsed' = [n \in Counters |-> IF n \in {"round"} THEN 0 ELSE elapsed[n]]
    BY <1>8, Types DEF ReadClock, Counters
  <2>. QED
    BY <1>8, <2>1, ResetKeepsLimits DEF ReadClock, TypeOK, Counters
<1>9. CASE LoadFrameTime
  BY <1>9 DEF LoadFrameTime, TypeOK
<1>10. CASE PostTimeout
  <2>1. elapsed' = [n \in Counters |-> IF n \in {"unreported"} THEN 0 ELSE elapsed[n]]
    BY <1>10, Types DEF PostTimeout, Counters
  <2>. QED
    BY <1>10, <2>1, ResetKeepsLimits DEF PostTimeout, TypeOK, Counters
<1>11. CASE RestartTimeout
  BY <1>11 DEF RestartTimeout, TypeOK
<1>12. CASE LoadOpen
  BY <1>12 DEF LoadOpen, TypeOK, Sensors
<1>13. CASE LoadClosed
  <2>1. CASE PostsContradiction
    <3>1. elapsed' = [n \in Counters |-> IF n \in {"contradiction"} THEN 0 ELSE elapsed[n]]
      BY <1>13, <2>1, Types DEF LoadClosed, Counters
    <3>. QED
      BY <1>13, <3>1, ResetKeepsLimits DEF LoadClosed, TypeOK, Counters
  <2>2. CASE ~PostsContradiction
    BY <1>13, <2>2 DEF LoadClosed, TypeOK
  <2>. QED
    BY <2>1, <2>2
<1>14. CASE FeedTwdt
  <2>1. 0 \in Words
    BY Timing DEF Words
  <2>2. CASE Since(last_twdt_feed, now) >= TWDT_FEED_INTERVAL_MS
    <3>1. elapsed' = [n \in Counters |-> IF n \in {"unfed"} THEN 0 ELSE elapsed[n]]
      BY <1>14, <2>2, Types DEF FeedTwdt, Counters
    <3>. QED
      BY <1>14, <2>1, <2>2, <3>1, ResetKeepsLimits DEF FeedTwdt, TypeOK, Counters
  <2>3. CASE ~(Since(last_twdt_feed, now) >= TWDT_FEED_INTERVAL_MS)
    BY <1>14, <2>1, <2>3 DEF FeedTwdt, TypeOK
  <2>. QED
    BY <2>2, <2>3
<1>15. CASE UNCHANGED vars
  BY <1>15 DEF vars, TypeOK
<1>. QED
  BY <1>1, <1>2, <1>3, <1>4, <1>5, <1>6, <1>7, <1>8, <1>9, <1>10, <1>11, <1>12, <1>13,
     <1>14, <1>15 DEF Next

-----------------------------------------------------------------------------
(* The clock readings and the time that has gone by.                       *)

LEMMA Ages ==
  ASSUME TypeOK
  PROVE  /\ WordSize \in Nat
         /\ Age(last_valid_frame) \in Nat
         /\ Age(rx_clock) \in Nat
         /\ Age(now) \in Nat
         /\ Age(last_twdt_feed) \in Nat
         /\ Since(last_twdt_feed, now) \in Nat
         /\ Since(last_valid_frame, now) \in Nat
  BY Types, SinceRange, Timing DEF Age, Words

\* Within a round the age of the last feed is what the round found, and the round.
LEMMA FeedAge ==
  ASSUME TypeOK, RoundInv, FeedInv, InRound
  PROVE  Age(last_twdt_feed) = Since(last_twdt_feed, now) + elapsed["round"]
<1>1. Since(last_twdt_feed, now) + Age(now) < WordSize
  BY CountersAre, Ages, Timing DEF RoundInv, FeedInv
<1>. QED
  BY <1>1, Types, SinceAdds DEF Age, RoundInv

LEMMA TickTime ==
  ASSUME TypeOK, TimeInv, Tick
  PROVE  TimeInv'
<1>1. /\ UNCHANGED <<last_valid_frame, rx, rx_clock, monitor, now, last_twdt_feed, contended>>
      /\ elapsed["round"] < RoundMax
      /\ Unstored => elapsed["frame"] < RxMax
  BY DEF Tick, shared, receive, locals, Unstored
<1>2. /\ elapsed'["round"] = elapsed["round"] + 1
      /\ Unstored => elapsed'["frame"] = elapsed["frame"] + 1
      /\ elapsed'["quiet"] = elapsed["quiet"] + 1 \/ elapsed'["quiet"] = COMM_TIMEOUT_MS + 1
      /\ elapsed'["unreported"] \in Nat /\ elapsed'["unreported"] <= elapsed["unreported"] + 1
      /\ elapsed'["unfed"] \in Nat /\ elapsed'["unfed"] <= elapsed["unfed"] + 1
  <2>1. /\ Idle \cap {"round", "quiet", "unreported", "unfed"} = {}
        /\ Unstored => "frame" \notin Idle
    BY DEF Idle, Unstored
  <2>. QED
    BY <1>1, <2>1, TickCounts, LimitIs, CountersAre, Timing DEF Counters
<1>3. /\ Age(last_valid_frame)' = Age(last_valid_frame) + 1
      /\ Unstored => Age(rx_clock)' = Age(rx_clock) + 1
      /\ InRound => Age(now)' = Age(now) + 1
      /\ monitor # "START" => Age(last_twdt_feed)' = Age(last_twdt_feed) + 1
  <2>1. Age(last_valid_frame) < WordSize - 1
    BY <1>1, CountersAre, Ages, Timing DEF TimeInv, FrameTimeInv
  <2>2. Unstored => Age(rx_clock) < WordSize - 1
    BY <1>1, CountersAre, Ages, Timing DEF TimeInv, FrameTimeInv
  <2>3. InRound => Age(now) < WordSize - 1
    BY <1>1, CountersAre, Ages, Timing DEF TimeInv, RoundInv
  <2>4. monitor # "START" => Age(last_twdt_feed) < WordSize - 1
    BY <1>1, CountersAre, Ages, FeedAge, Timing DEF TimeInv, FeedInv, InRound
  <2>5. clock' = (clock + 1) % WordSize
    BY DEF Tick
  <2>. QED
    BY <1>1, <2>1, <2>2, <2>3, <2>4, <2>5, Types, SinceTicks DEF Age
<1>4. /\ Unstored' = Unstored
      /\ InRound' = InRound
      /\ Judging' = Judging
  BY <1>1 DEF Unstored, InRound, Judging
<1>5. RoundInv' /\ FrameTimeInv'
  BY <1>1, <1>2, <1>3, <1>4, CountersAre, Ages, Timing
     DEF TimeInv, RoundInv, FrameTimeInv
<1>6. SilenceInv'
  BY <1>1, <1>2, <1>3, <1>4, CountersAre, Ages, Timing DEF TimeInv, SilenceInv
<1>7. QuietInv'
  BY <1>1, <1>2, <1>3, <1>4, CountersAre, Ages, Timing DEF TimeInv, QuietInv
<1>8. FeedInv'
  BY <1>1, <1>2, <1>3, <1>4, CountersAre, Ages, Timing DEF TimeInv, FeedInv
<1>. QED
  BY <1>5, <1>6, <1>7, <1>8 DEF TimeInv

\* Steps that concern the switches only.
LEMMA SwitchStepTime ==
  ASSUME TypeOK, TimeInv,
         UNCHANGED <<clock, last_valid_frame, rx_clock, now, last_twdt_feed, contended>>,
         \A n \in {"round", "quiet", "unreported", "unfed"} : elapsed'[n] = elapsed[n],
         \/ rx' = rx /\ elapsed'["frame"] = elapsed["frame"]
         \/ ~Unstored /\ ~Unstored',
         \/ monitor' = monitor
         \/ {monitor, monitor'} \subseteq {"LOAD_OPEN", "LOAD_CLOSED", "FEED"}
  PROVE  TimeInv'
<1>1. /\ Age(last_valid_frame)' = Age(last_valid_frame)
      /\ Age(rx_clock)' = Age(rx_clock)
      /\ Age(now)' = Age(now)
      /\ Age(last_twdt_feed)' = Age(last_twdt_feed)
  BY DEF Age
<1>2. /\ Unstored' = Unstored
      /\ Unstored => elapsed'["frame"] = elapsed["frame"]
      /\ InRound' = InRound
      /\ Judging' = Judging
  BY DEF Unstored, InRound, Judging
<1>3. \A m \in {"START", "READ_CLOCK", "LOAD_FRAME", "POST_TIMEOUT", "RESTART"} :
        monitor' = m <=> monitor = m
  OBVIOUS
<1>. QED
  BY <1>1, <1>2, <1>3
     DEF TimeInv, RoundInv, FrameTimeInv, SilenceInv, QuietInv, FeedInv

LEMMA ReadFrameTimeStep ==
  ASSUME TypeOK, TimeInv, ReadFrameTime
  PROVE  TimeInv'
<1>1. /\ UNCHANGED <<clock, last_valid_frame, monitor, now, last_twdt_feed>>
      /\ rx_clock' = clock
      /\ Judging => contended' = 1
      /\ Unstored'
  BY Types, RxGoesOn DEF ReadFrameTime, shared, locals, Unstored, Judging
<1>2. /\ elapsed'["quiet"] = 0
      /\ elapsed'["unreported"] = 0
      /\ elapsed'["round"] = elapsed["round"]
      /\ elapsed'["frame"] = elapsed["frame"]
      /\ elapsed'["unfed"] = elapsed["unfed"]
  BY Types DEF ReadFrameTime, Counters
<1>3. /\ Age(last_valid_frame)' = Age(last_valid_frame)
      /\ Age(now)' = Age(now)
      /\ Age(last_twdt_feed)' = Age(last_twdt_feed)
      /\ Age(rx_clock)' = 0
  BY <1>1, Types, SinceItself DEF Age
<1>4. /\ InRound' = InRound
      /\ Judging' = Judging
      /\ monitor \in {"LOAD_FRAME", "POST_TIMEOUT", "RESTART"} => Judging
  BY <1>1 DEF InRound, Judging
<1>5. RoundInv' /\ FrameTimeInv' /\ FeedInv'
  BY <1>1, <1>2, <1>3, <1>4, CountersAre DEF TimeInv, RoundInv, FrameTimeInv, FeedInv
<1>6. SilenceInv' /\ QuietInv'
  BY <1>1, <1>2, <1>3, <1>4, CountersAre, Ages, Timing DEF TimeInv, SilenceInv, QuietInv
<1>. QED
  BY <1>5, <1>6 DEF TimeInv

\* The time stored may be older than one the monitor has set.
LEMMA StoreFrameTimeStep ==
  ASSUME TypeOK, TimeInv, StoreFrameTime
  PROVE  TimeInv'
<1>1. /\ UNCHANGED <<clock, monitor, now, last_twdt_feed, elapsed, contended>>
      /\ last_valid_frame' = rx_clock
      /\ Unstored /\ ~Unstored'
  BY Types, RxGoesOn DEF StoreFrameTime, locals, Unstored
<1>2. /\ Age(last_valid_frame)' = Age(rx_clock)
      /\ Age(now)' = Age(now)
      /\ Age(last_twdt_feed)' = Age(last_twdt_feed)
  BY <1>1 DEF Age
<1>3. InRound' = InRound /\ Judging' = Judging
  BY <1>1 DEF InRound, Judging
<1>4. RoundInv' /\ FrameTimeInv' /\ FeedInv'
  BY <1>1, <1>2, <1>3, CountersAre, Ages, Timing
     DEF TimeInv, RoundInv, FrameTimeInv, FeedInv
<1>5. SilenceInv'
  BY <1>1, <1>2, <1>3 DEF TimeInv, SilenceInv
<1>6. QuietInv'
  <2>1. contended = 0 => ~Judging
    BY <1>1 DEF TimeInv, QuietInv
  <2>2. monitor \in {"LOAD_FRAME", "POST_TIMEOUT", "RESTART"} => Judging
    BY DEF Judging
  <2>. QED
    BY <1>1, <1>2, <1>3, <2>1, <2>2 DEF TimeInv, QuietInv
<1>. QED
  BY <1>4, <1>5, <1>6 DEF TimeInv

LEMMA MonitorStartsStep ==
  ASSUME TypeOK, TimeInv, MonitorStarts
  PROVE  TimeInv'
<1>1. /\ UNCHANGED <<clock, last_valid_frame, rx, rx_clock, now, contended>>
      /\ monitor = "START" /\ monitor' = "READ_CLOCK"
      /\ last_twdt_feed' = clock
  BY DEF MonitorStarts, shared, receive
<1>2. /\ elapsed'["unfed"] = 0
      /\ \A n \in {"round", "frame", "quiet", "unreported"} : elapsed'[n] = elapsed[n]
  BY Types DEF MonitorStarts, Counters
<1>3. /\ Age(last_valid_frame)' = Age(last_valid_frame)
      /\ Age(rx_clock)' = Age(rx_clock)
      /\ Age(last_twdt_feed)' = 0
  BY <1>1, Types, SinceItself DEF Age
<1>4. /\ Unstored' = Unstored
      /\ ~InRound'
      /\ ~Judging /\ ~Judging'
  BY <1>1 DEF Unstored, InRound, Judging
<1>5. RoundInv' /\ FrameTimeInv' /\ FeedInv'
  BY <1>1, <1>2, <1>3, <1>4, CountersAre, Timing
     DEF TimeInv, RoundInv, FrameTimeInv, FeedInv
<1>6. SilenceInv' /\ QuietInv'
  BY <1>1, <1>2, <1>3, <1>4 DEF TimeInv, SilenceInv, QuietInv
<1>. QED
  BY <1>5, <1>6 DEF TimeInv

LEMMA ReadClockStep ==
  ASSUME TypeOK, TimeInv, ReadClock
  PROVE  TimeInv'
<1>1. /\ UNCHANGED <<clock, last_valid_frame, rx, rx_clock, last_twdt_feed>>
      /\ monitor = "READ_CLOCK" /\ monitor' = "LOAD_FRAME"
      /\ now' = clock
      /\ Unstored => contended' = 1
      /\ ~Unstored => contended' = contended
  BY DEF ReadClock, shared, receive, Unstored
<1>2. /\ elapsed'["round"] = 0
      /\ \A n \in {"frame", "quiet", "unreported", "unfed"} : elapsed'[n] = elapsed[n]
  BY Types DEF ReadClock, Counters
<1>3. /\ Age(last_valid_frame)' = Age(last_valid_frame)
      /\ Age(rx_clock)' = Age(rx_clock)
      /\ Age(now)' = 0
      /\ Age(last_twdt_feed)' = Age(last_twdt_feed)
      /\ Since(last_twdt_feed, now)' = Age(last_twdt_feed)
  BY <1>1, Types, SinceItself DEF Age
<1>4. /\ Unstored' = Unstored
      /\ ~InRound /\ InRound'
      /\ ~Judging /\ Judging'
  BY <1>1 DEF Unstored, InRound, Judging
<1>5. RoundInv' /\ FrameTimeInv' /\ FeedInv'
  BY <1>1, <1>2, <1>3, <1>4, CountersAre, Ages, Timing
     DEF TimeInv, RoundInv, FrameTimeInv, FeedInv
<1>6. SilenceInv' /\ QuietInv'
  BY <1>1, <1>2, <1>3, <1>4, CountersAre, Ages, Timing DEF TimeInv, SilenceInv, QuietInv
<1>. QED
  BY <1>5, <1>6 DEF TimeInv

\* The decision about the time-out.
LEMMA LoadFrameTimeStep ==
  ASSUME TypeOK, TimeInv, LoadFrameTime
  PROVE  TimeInv'
<1>1. /\ UNCHANGED <<clock, last_valid_frame, rx, rx_clock, now, last_twdt_feed, elapsed,
                     contended>>
      /\ monitor = "LOAD_FRAME"
      /\ IF Since(last_valid_frame, now) > COMM_TIMEOUT_MS
           THEN monitor' = "POST_TIMEOUT" ELSE monitor' = "LOAD_OPEN"
  BY DEF LoadFrameTime, shared, receive
<1>2. /\ Age(last_valid_frame)' = Age(last_valid_frame)
      /\ Age(rx_clock)' = Age(rx_clock)
      /\ Age(now)' = Age(now)
      /\ Age(last_twdt_feed)' = Age(last_twdt_feed)
      /\ Since(last_twdt_feed, now)' = Since(last_twdt_feed, now)
  BY <1>1 DEF Age
<1>3. /\ Unstored' = Unstored
      /\ InRound /\ InRound' /\ Judging
      /\ Judging' <=> Since(last_valid_frame, now) > COMM_TIMEOUT_MS
      /\ Age(now) = elapsed["round"]
  BY <1>1 DEF TimeInv, RoundInv, Unstored, InRound, Judging
<1>4. RoundInv' /\ FeedInv'
  BY <1>1, <1>2, <1>3 DEF TimeInv, RoundInv, FeedInv
<1>5. CASE Since(last_valid_frame, now) > COMM_TIMEOUT_MS
  <2>1. monitor' = "POST_TIMEOUT" /\ Judging'
    BY <1>1, <1>3, <1>5
  <2>2. FrameTimeInv' /\ SilenceInv'
    BY <1>1, <1>2, <1>3, <2>1 DEF TimeInv, FrameTimeInv, SilenceInv
  <2>3. ASSUME contended = 0
        PROVE  elapsed["quiet"] > COMM_TIMEOUT_MS
    <3>1. Age(last_valid_frame) >= elapsed["round"]
      BY <1>1, <2>3 DEF TimeInv, QuietInv
    <3>2. Age(last_valid_frame) = Since(last_valid_frame, now) + Age(now)
      BY <1>3, <3>1, Types, SinceAdds, CountersAre, Ages, Timing DEF Age
    <3>3. Age(last_valid_frame) > COMM_TIMEOUT_MS
      BY <1>3, <1>5, <3>2, CountersAre, Ages, Timing
    <3>. QED
      BY <1>3, <2>3, <3>3, CountersAre, Ages, Timing DEF TimeInv, QuietInv
  <2>4. QuietInv'
    BY <1>1, <1>2, <1>3, <2>1, <2>3 DEF TimeInv, QuietInv
  <2>. QED
    BY <1>4, <2>2, <2>4 DEF TimeInv
<1>6. CASE ~(Since(last_valid_frame, now) > COMM_TIMEOUT_MS)
  <2>1. monitor' = "LOAD_OPEN" /\ ~Judging'
    BY <1>1, <1>3, <1>6
  <2>2. Age(last_valid_frame) <= COMM_TIMEOUT_MS + elapsed["round"]
    <3>1. Since(last_valid_frame, now) + Age(now) < WordSize
      BY <1>3, <1>6, CountersAre, Ages, Timing
    <3>2. Age(last_valid_frame) = Since(last_valid_frame, now) + Age(now)
      BY <3>1, Types, SinceAdds DEF Age
    <3>. QED
      BY <1>3, <1>6, <3>2, CountersAre, Ages, Timing
  <2>3. FrameTimeInv' /\ SilenceInv'
    BY <1>1, <1>2, <1>3, <2>1, <2>2, CountersAre, Ages, Timing
       DEF TimeInv, FrameTimeInv, SilenceInv
  <2>4. QuietInv'
    BY <1>1, <1>2, <1>3, <2>1 DEF TimeInv, QuietInv
  <2>. QED
    BY <1>4, <2>3, <2>4 DEF TimeInv
<1>. QED
  BY <1>5, <1>6

LEMMA PostTimeoutStep ==
  ASSUME TypeOK, TimeInv, PostTimeout
  PROVE  TimeInv'
<1>1. /\ UNCHANGED <<clock, last_valid_frame, rx, rx_clock, now, last_twdt_feed, contended>>
      /\ monitor = "POST_TIMEOUT" /\ monitor' = "RESTART"
  BY DEF PostTimeout, shared, receive
<1>2. /\ elapsed'["unreported"] = 0
      /\ \A n \in {"round", "frame", "quiet", "unfed"} : elapsed'[n] = elapsed[n]
  BY Types DEF PostTimeout, Counters
<1>3. /\ Age(last_valid_frame)' = Age(last_valid_frame)
      /\ Age(rx_clock)' = Age(rx_clock)
      /\ Age(now)' = Age(now)
      /\ Age(last_twdt_feed)' = Age(last_twdt_feed)
      /\ Since(last_twdt_feed, now)' = Since(last_twdt_feed, now)
  BY <1>1 DEF Age
<1>4. /\ Unstored' = Unstored
      /\ InRound /\ InRound'
      /\ Judging /\ Judging'
  BY <1>1 DEF Unstored, InRound, Judging
<1>5. RoundInv' /\ FrameTimeInv' /\ FeedInv'
  BY <1>1, <1>2, <1>3, <1>4 DEF TimeInv, RoundInv, FrameTimeInv, FeedInv
<1>6. SilenceInv' /\ QuietInv'
  BY <1>1, <1>2, <1>3, <1>4, CountersAre, Ages, Timing DEF TimeInv, SilenceInv, QuietInv
<1>. QED
  BY <1>5, <1>6 DEF TimeInv

LEMMA RestartTimeoutStep ==
  ASSUME TypeOK, TimeInv, RestartTimeout
  PROVE  TimeInv'
<1>1. /\ UNCHANGED <<clock, rx, rx_clock, now, last_twdt_feed, elapsed, contended>>
      /\ monitor = "RESTART" /\ monitor' = "LOAD_OPEN"
      /\ last_valid_frame' = now
  BY DEF RestartTimeout, receive
<1>2. /\ Age(last_valid_frame)' = Age(now)
      /\ Age(rx_clock)' = Age(rx_clock)
      /\ Age(now)' = Age(now)
      /\ Age(last_twdt_feed)' = Age(last_twdt_feed)
      /\ Since(last_twdt_feed, now)' = Since(last_twdt_feed, now)
  BY <1>1 DEF Age
<1>3. /\ Unstored' = Unstored
      /\ InRound /\ InRound'
      /\ Judging /\ ~Judging'
      /\ Age(now) = elapsed["round"]
  BY <1>1 DEF TimeInv, RoundInv, Unstored, InRound, Judging
<1>4. RoundInv' /\ FeedInv'
  BY <1>1, <1>2, <1>3 DEF TimeInv, RoundInv, FeedInv
<1>5. FrameTimeInv' /\ SilenceInv'
  BY <1>1, <1>2, <1>3, CountersAre, Ages, Timing DEF TimeInv, FrameTimeInv, SilenceInv
<1>6. QuietInv'
  BY <1>1, <1>2, <1>3 DEF TimeInv, QuietInv
<1>. QED
  BY <1>4, <1>5, <1>6 DEF TimeInv

LEMMA FeedTwdtStep ==
  ASSUME TypeOK, TimeInv, FeedTwdt
  PROVE  TimeInv'
<1>1. /\ UNCHANGED <<clock, last_valid_frame, rx, rx_clock, contended>>
      /\ monitor = "FEED" /\ monitor' = "READ_CLOCK"
  BY DEF FeedTwdt, shared, receive
<1>2. \A n \in {"round", "frame", "quiet", "unreported"} : elapsed'[n] = elapsed[n]
  BY Types DEF FeedTwdt, Counters
<1>3. /\ Age(last_valid_frame)' = Age(last_valid_frame)
      /\ Age(rx_clock)' = Age(rx_clock)
  BY <1>1 DEF Age
<1>4. /\ Unstored' = Unstored
      /\ InRound /\ ~InRound'
      /\ ~Judging /\ ~Judging'
  BY <1>1 DEF Unstored, InRound, Judging
<1>5. /\ elapsed'["unfed"] <= Age(last_twdt_feed)'
      /\ Age(last_twdt_feed)' < TWDT_FEED_INTERVAL_MS + elapsed["round"]
  <2>1. CASE Since(last_twdt_feed, now) >= TWDT_FEED_INTERVAL_MS
    <3>1. elapsed'["unfed"] = 0 /\ last_twdt_feed' = now
      BY <2>1, Types DEF FeedTwdt, Counters
    <3>2. Age(last_twdt_feed)' = elapsed["round"]
      BY <1>1, <1>4, <3>1 DEF Age, TimeInv, RoundInv
    <3>. QED
      BY <3>1, <3>2, CountersAre, Timing
  <2>2. CASE ~(Since(last_twdt_feed, now) >= TWDT_FEED_INTERVAL_MS)
    <3>1. UNCHANGED <<elapsed, last_twdt_feed>>
      BY <2>2 DEF FeedTwdt
    <3>2. Age(last_twdt_feed)' = Since(last_twdt_feed, now) + elapsed["round"]
      BY <1>1, <1>4, <3>1, FeedAge DEF Age, TimeInv
    <3>3. elapsed["unfed"] <= Age(last_twdt_feed)'
      BY <1>1, <3>1 DEF Age, TimeInv, FeedInv
    <3>. QED
      BY <2>2, <3>1, <3>2, <3>3, CountersAre, Ages, Timing
  <2>. QED
    BY <2>1, <2>2
<1>6. RoundInv' /\ FrameTimeInv' /\ FeedInv'
  BY <1>1, <1>2, <1>3, <1>4, <1>5 DEF TimeInv, RoundInv, FrameTimeInv, FeedInv
<1>7. SilenceInv' /\ QuietInv'
  BY <1>1, <1>2, <1>3, <1>4 DEF TimeInv, SilenceInv, QuietInv
<1>. QED
  BY <1>6, <1>7 DEF TimeInv

LEMMA InitTime == Init => TimeInv
<1>. SUFFICES ASSUME Init
              PROVE  TimeInv
  OBVIOUS
<1>1. /\ ~Unstored /\ ~InRound /\ ~Judging
      /\ monitor = "START"
  BY DEF Init, Unstored, InRound, Judging
<1>2. Age(last_valid_frame) = 0
  BY InitType, Types, SinceItself DEF Init, Age
<1>3. elapsed["unreported"] = 0 /\ elapsed["quiet"] = 0 /\ elapsed["round"] = 0
  BY LimitIs DEF Init, Counters
<1>. QED
  BY <1>1, <1>2, <1>3, Timing
     DEF TimeInv, RoundInv, FrameTimeInv, SilenceInv, QuietInv, FeedInv

LEMMA TimeStep == TypeOK /\ TimeInv /\ [Next]_vars => TimeInv'
<1>. SUFFICES ASSUME TypeOK, TimeInv, [Next]_vars
              PROVE  TimeInv'
  OBVIOUS
<1>1. CASE ValidFrame
  <2>1. ~Unstored /\ ~Unstored'
    BY <1>1 DEF ValidFrame, Unstored, WatchdogReset
  <2>. QED
    BY <1>1, <2>1, Types, SwitchStepTime
       DEF ValidFrame, shared, locals, Counters
<1>2. ASSUME NEW s \in Sensors, SensorFrame(s)
      PROVE  TimeInv'
  <2>1. ~Unstored /\ ~Unstored'
    BY <1>2 DEF SensorFrame, Unstored
  <2>. QED
    BY <1>2, <2>1, Types, SwitchStepTime
       DEF SensorFrame, shared, locals, Counters
<1>3. ASSUME NEW s \in Sensors, UpdateSensor(s)
      PROVE  TimeInv'
  <2>1. RxDoes("STORE_OPEN") \/ RxDoes("STORE_CLOSED")
    BY <1>3 DEF UpdateSensor
  <2>2. /\ Head(rx) \in {"STORE_OPEN", "STORE_CLOSED"}
        /\ rx' \in { <<>>, <<"READ_CLOCK", "STORE_CLOCK">> } \/ Head(rx') = "STORE_CLOSED"
    BY <2>1, Types, RxGoesOn
  <2>3. ~Unstored /\ ~Unstored'
    BY <2>2 DEF Unstored
  <2>. QED
    BY <1>3, <2>3, SwitchStepTime DEF UpdateSensor, locals
<1>4. CASE LoadOpen
  BY <1>4, SwitchStepTime DEF LoadOpen, shared, receive
<1>5. CASE LoadClosed
  BY <1>5, Types, SwitchStepTime DEF LoadClosed, shared, receive, Counters
<1>6. CASE UNCHANGED vars
  BY <1>6, SwitchStepTime DEF vars, shared, receive, locals
<1>. QED
  BY <1>1, <1>2, <1>3, <1>4, <1>5, <1>6, TickTime, ReadFrameTimeStep, StoreFrameTimeStep,
     MonitorStartsStep, ReadClockStep, LoadFrameTimeStep, PostTimeoutStep,
     RestartTimeoutStep, FeedTwdtStep DEF Next

-----------------------------------------------------------------------------
(* The switches.                                                           *)

\* Steps that do not concern the switches.
LEMMA TimeStepSwitches ==
  ASSUME TypeOK, SwitchInv, UNCHANGED <<raw, stable>>,
         \A n \in {"round", "contradiction", "agreement", "change"} : elapsed'[n] = elapsed[n],
         \/ rx' = rx /\ elapsed'["frame"] = elapsed["frame"]
         \/ ~StoresLeft /\ ~StoresLeft',
         PastOpen' <=> PastOpen,
         monitor' = "LOAD_CLOSED" => monitor = "LOAD_CLOSED" /\ fo' = fo
  PROVE  SwitchInv'
<1>1. /\ StoresLeft' <=> StoresLeft
      /\ ClosedLeft' => ClosedLeft
      /\ StoresLeft => elapsed'["frame"] = elapsed["frame"]
  BY DEF StoresLeft, ClosedLeft
<1>2. RawInv' /\ ContradictionInv'
  BY <1>1 DEF SwitchInv, RawInv, ContradictionInv, Contradictory
<1>3. TravelInv'
  BY <1>1, Types DEF SwitchInv, RawInv, TravelInv, Sensors
<1>. QED
  BY <1>2, <1>3 DEF SwitchInv

LEMMA TickSwitches ==
  ASSUME TypeOK, SwitchInv, Tick
  PROVE  SwitchInv'
<1>1. /\ UNCHANGED <<raw, stable, rx, monitor, fo>>
      /\ elapsed["round"] < RoundMax
      /\ StoresLeft => elapsed["frame"] < RxMax
  BY DEF Tick, shared, receive, locals, StoresLeft
<1>2. /\ elapsed'["round"] = elapsed["round"] + 1
      /\ StoresLeft => elapsed'["frame"] = elapsed["frame"] + 1
      /\ elapsed'["change"] = IF elapsed["change"] < SensorGap THEN elapsed["change"] + 1
                                                              ELSE SensorGap
      /\ Contradictory(stable) =>
           /\ elapsed'["agreement"] = 0
           /\ elapsed'["contradiction"] \in Nat
           /\ elapsed'["contradiction"] <= elapsed["contradiction"] + 1
      /\ ~Contradictory(stable) =>
           /\ elapsed'["contradiction"] = 0
           /\ elapsed'["agreement"] \in Nat
           /\ elapsed'["agreement"] <= elapsed["agreement"] + 1
  <2>1. /\ "round" \notin Idle /\ "change" \notin Idle
        /\ StoresLeft => "frame" \notin Idle
        /\ Contradictory(stable) => "agreement" \in Idle /\ "contradiction" \notin Idle
        /\ ~Contradictory(stable) => "agreement" \notin Idle /\ "contradiction" \in Idle
    BY DEF Idle, StoresLeft
  <2>. QED
    BY <1>1, <2>1, TickCounts, LimitIs, CountersAre, Timing DEF Counters
<1>3. /\ StoresLeft' <=> StoresLeft
      /\ ClosedLeft' <=> ClosedLeft
      /\ PastOpen' <=> PastOpen
      /\ Contradictory(stable)' <=> Contradictory(stable)
  BY <1>1 DEF StoresLeft, ClosedLeft, PastOpen, Contradictory
<1>4. RawInv'
  BY <1>1, <1>3 DEF SwitchInv, RawInv
<1>5. ContradictionInv'
  BY <1>1, <1>2, <1>3, CountersAre, Timing DEF SwitchInv, ContradictionInv
<1>6. TravelInv'
  <2>1. ASSUME NEW s \in Sensors, raw[s] = 1, stable[s] = 0
        PROVE  /\ elapsed'["change"] <= elapsed'["frame"]
               /\ stable[Opposite(s)] = 1 => elapsed'["agreement"] <= elapsed'["change"]
    <3>1. StoresLeft /\ ~Contradictory(stable)
      BY <2>1 DEF SwitchInv, RawInv, Contradictory, Sensors
    <3>2. /\ elapsed["change"] <= elapsed["frame"]
          /\ stable[Opposite(s)] = 1 => elapsed["agreement"] <= elapsed["change"]
      BY <2>1 DEF SwitchInv, TravelInv
    <3>. QED
      BY <1>1, <1>2, <3>1, <3>2, CountersAre, Timing
  <2>2. ASSUME monitor = "LOAD_CLOSED", fo = 1, stable["open"] = 0
        PROVE  /\ elapsed'["change"] <= RxMax + elapsed'["round"]
               /\ raw["closed"] = stable["closed"]
               /\ stable["closed"] = 1 => elapsed'["agreement"] <= elapsed'["change"]
    <3>1. ~Contradictory(stable)
      BY <2>2 DEF Contradictory
    <3>2. /\ elapsed["change"] <= RxMax + elapsed["round"]
          /\ raw["closed"] = stable["closed"]
          /\ stable["closed"] = 1 => elapsed["agreement"] <= elapsed["change"]
      BY <2>2 DEF SwitchInv, TravelInv
    <3>. QED
      BY <1>1, <1>2, <3>1, <3>2, CountersAre, Timing
  <2>. QED
    BY <1>1, <2>1, <2>2 DEF TravelInv
<1>. QED
  BY <1>4, <1>5, <1>6 DEF SwitchInv

\* A switch changes: the change before it is SensorGap ms ago.
LEMMA SensorFrameSwitches ==
  ASSUME TypeOK, SwitchInv, NEW s \in Sensors, SensorFrame(s)
  PROVE  SwitchInv'
<1>1. /\ UNCHANGED <<raw, monitor, fo>>
      /\ elapsed["change"] = SensorGap
      /\ stable' = [stable EXCEPT ![s] = 1 - @]
      /\ raw = stable
      /\ StoresLeft' /\ ~ClosedLeft'
  <2>1. ~StoresLeft
    BY DEF SensorFrame, StoresLeft
  <2>2. StoresLeft' /\ ~ClosedLeft'
    BY DEF SensorFrame, StoresLeft, ClosedLeft
  <2>. QED
    BY <2>1, <2>2 DEF SensorFrame, shared, locals, SwitchInv, RawInv
<1>2. /\ elapsed'["frame"] = 0 /\ elapsed'["change"] = 0
      /\ \A n \in {"round", "contradiction", "agreement"} : elapsed'[n] = elapsed[n]
  BY Types DEF SensorFrame, Counters
<1>3. /\ PastOpen' <=> PastOpen
      /\ ~Contradictory(stable) => elapsed["contradiction"] = 0
      /\ Contradictory(stable) => elapsed["agreement"] = 0
  BY <1>1, Timing DEF SwitchInv, ContradictionInv, PastOpen
<1>4. \A t \in Sensors : t # s => stable'[t] = stable[t]
  BY <1>1, Types
<1>5. stable[s] \in {0, 1} /\ stable'[s] = 1 - stable[s]
  BY <1>1, Types
<1>6. RawInv'
  BY <1>1, <1>4 DEF RawInv, Sensors
<1>7. Contradictory(stable)' => ~Contradictory(stable)
  BY <1>5 DEF Contradictory, Sensors
<1>8. ContradictionInv'
  BY <1>1, <1>2, <1>3, <1>7, CountersAre, Timing DEF SwitchInv, ContradictionInv
<1>9. TravelInv'
  <2>1. ASSUME NEW t \in Sensors, raw'[t] = 1, stable'[t] = 0
        PROVE  /\ elapsed'["change"] <= elapsed'["frame"]
               /\ stable'[Opposite(t)] = 1 => elapsed'["agreement"] <= elapsed'["change"]
    <3>1. t = s /\ stable[s] = 1
      BY <1>1, <1>4, <2>1
    <3>2. stable'[Opposite(t)] = 1 => Contradictory(stable)
      BY <1>4, <3>1 DEF Opposite, Sensors, Contradictory
    <3>. QED
      BY <1>2, <1>3, <3>2
  <2>2. ASSUME monitor' = "LOAD_CLOSED", fo' = 1, stable'["open"] = 0
        PROVE  /\ elapsed'["change"] <= RxMax + elapsed'["round"]
               /\ raw'["closed"] = stable'["closed"]
               /\ stable'["closed"] = 1 => elapsed'["agreement"] <= elapsed'["change"]
    <3>1. s = "open"
      <4>. SUFFICES ASSUME s = "closed"
                    PROVE  FALSE
        BY DEF Sensors
      <4>1. stable["open"] = 0
        BY <1>4, <2>2 DEF Sensors
      <4>2. elapsed["change"] <= RxMax + elapsed["round"]
        BY <1>1, <2>2, <4>1 DEF SwitchInv, TravelInv
      <4>. QED
        BY <1>1, <4>2, CountersAre, Timing
    <3>2. stable'["closed"] = stable["closed"] /\ stable["open"] = 1
      BY <1>4, <1>5, <2>2, <3>1 DEF Sensors
    <3>3. stable'["closed"] = 1 => elapsed["agreement"] = 0
      BY <1>3, <3>2 DEF Contradictory
    <3>. QED
      BY <1>1, <1>2, <3>2, <3>3, CountersAre, Timing
  <2>. QED
    BY <2>1, <2>2 DEF TravelInv
<1>. QED
  BY <1>6, <1>8, <1>9 DEF SwitchInv

LEMMA UpdateSensorSwitches ==
  ASSUME TypeOK, SwitchInv, NEW s \in Sensors, UpdateSensor(s)
  PROVE  SwitchInv'
<1>1. /\ UNCHANGED <<stable, monitor, fo, elapsed>>
      /\ raw' = [raw EXCEPT ![s] = stable[s]]
  BY DEF UpdateSensor, locals
<1>2. /\ raw'[s] = stable[s]
      /\ \A t \in Sensors : t # s => raw'[t] = raw[t]
  BY <1>1, Types
<1>3. /\ StoresLeft
      /\ s = "open" => ClosedLeft'
      /\ s = "closed" => ClosedLeft /\ ~StoresLeft' /\ ~ClosedLeft'
  <2>1. CASE s = "open"
    <3>1. Head(rx) = "STORE_OPEN" /\ rx # <<>> /\ rx' # <<>> /\ Head(rx') = "STORE_CLOSED"
      BY <2>1, Types, RxGoesOn DEF UpdateSensor
    <3>. QED
      BY <2>1, <3>1 DEF StoresLeft, ClosedLeft
  <2>2. CASE s = "closed"
    <3>1. /\ Head(rx) = "STORE_CLOSED" /\ rx # <<>>
          /\ rx' \in { <<>>, <<"READ_CLOCK", "STORE_CLOCK">> }
      BY <2>2, Types, RxGoesOn DEF UpdateSensor
    <3>. QED
      BY <2>2, <3>1 DEF StoresLeft, ClosedLeft
  <2>. QED
    BY <2>1, <2>2 DEF Sensors
<1>4. RawInv'
  <2>1. CASE s = "open"
    <3>1. StoresLeft'
      BY <1>3, <2>1 DEF StoresLeft, ClosedLeft
    <3>. QED
      BY <1>1, <1>2, <2>1, <3>1 DEF RawInv, Sensors
  <2>2. CASE s = "closed"
    <3>1. raw' = stable
      <4>1. raw["open"] = stable["open"]
        BY <1>3, <2>2 DEF SwitchInv, RawInv
      <4>2. \A t \in Sensors : raw'[t] = stable[t]
        BY <1>2, <2>2, <4>1 DEF Sensors
      <4>3. raw' \in [Sensors -> {0, 1}] /\ stable \in [Sensors -> {0, 1}]
        BY <1>1, Types
      <4>. QED
        BY <4>2, <4>3
    <3>. QED
      BY <1>1, <1>3, <2>2, <3>1 DEF RawInv
  <2>. QED
    BY <2>1, <2>2 DEF Sensors
<1>5. ContradictionInv'
  BY <1>1, <1>3 DEF SwitchInv, ContradictionInv, PastOpen
<1>6. TravelInv'
  BY <1>1, <1>2 DEF SwitchInv, TravelInv, Sensors
<1>. QED
  BY <1>4, <1>5, <1>6 DEF SwitchInv

LEMMA ReadClockSwitches ==
  ASSUME TypeOK, SwitchInv, ReadClock
  PROVE  SwitchInv'
<1>1. /\ UNCHANGED <<raw, stable, rx, fo>>
      /\ PastOpen /\ ~PastOpen'
      /\ monitor' = "LOAD_FRAME"
  BY DEF ReadClock, shared, receive, PastOpen
<1>2. /\ elapsed'["round"] = 0
      /\ \A n \in {"frame", "contradiction", "agreement", "change"} : elapsed'[n] = elapsed[n]
  BY Types DEF ReadClock, Counters
<1>3. /\ StoresLeft' <=> StoresLeft
      /\ ClosedLeft' <=> ClosedLeft
  BY <1>1 DEF StoresLeft, ClosedLeft
<1>4. RawInv' /\ TravelInv'
  BY <1>1, <1>2, <1>3 DEF SwitchInv, RawInv, TravelInv
<1>5. ContradictionInv'
  BY <1>1, <1>2, <1>3, CountersAre, Timing DEF SwitchInv, ContradictionInv
<1>. QED
  BY <1>4, <1>5 DEF SwitchInv

\* What the monitor sees of the open switch it keeps until it loads the other.
LEMMA LoadOpenSwitches ==
  ASSUME TypeOK, SwitchInv, LoadOpen
  PROVE  SwitchInv'
<1>1. /\ UNCHANGED <<raw, stable, rx, elapsed>>
      /\ monitor = "LOAD_OPEN" /\ monitor' = "LOAD_CLOSED"
      /\ fo' = raw["open"]
  BY DEF LoadOpen, shared, receive
<1>2. /\ StoresLeft' <=> StoresLeft
      /\ ClosedLeft' <=> ClosedLeft
      /\ ~PastOpen
      /\ PastOpen' <=> raw["open"] = 0
  BY <1>1 DEF StoresLeft, ClosedLeft, PastOpen
<1>3. RawInv'
  BY <1>1, <1>2 DEF SwitchInv, RawInv
<1>4. ContradictionInv'
  <2>1. Contradictory(stable) /\ raw["open"] = 0 => elapsed["contradiction"] <= elapsed["frame"]
    BY DEF SwitchInv, RawInv, ContradictionInv, Contradictory
  <2>. QED
    BY <1>1, <1>2, <2>1, CountersAre, Timing DEF SwitchInv, ContradictionInv
<1>5. TravelInv'
  <2>1. ASSUME raw["open"] = 1, stable["open"] = 0
        PROVE  /\ elapsed["change"] <= RxMax + elapsed["round"]
               /\ raw["closed"] = stable["closed"]
               /\ stable["closed"] = 1 => elapsed["agreement"] <= elapsed["change"]
    <3>1. /\ elapsed["change"] <= elapsed["frame"]
          /\ stable["closed"] = 1 => elapsed["agreement"] <= elapsed["change"]
      BY <2>1 DEF SwitchInv, TravelInv, Sensors, Opposite
    <3>2. raw["closed"] = stable["closed"]
      BY <2>1 DEF SwitchInv, RawInv, Sensors
    <3>. QED
      BY <3>1, <3>2, CountersAre, Timing
  <2>. QED
    BY <1>1, <2>1 DEF SwitchInv, TravelInv
<1>. QED
  BY <1>3, <1>4, <1>5 DEF SwitchInv

LEMMA LoadClosedSwitches ==
  ASSUME TypeOK, SwitchInv, LoadClosed
  PROVE  SwitchInv'
<1>1. /\ UNCHANGED <<raw, stable, rx, fo>>
      /\ monitor = "LOAD_CLOSED" /\ monitor' = "FEED"
  BY DEF LoadClosed, shared, receive
<1>2. /\ \A n \in {"round", "frame", "agreement", "change"} : elapsed'[n] = elapsed[n]
      /\ PostsContradiction => elapsed'["contradiction"] = 0
      /\ ~PostsContradiction => elapsed'["contradiction"] = elapsed["contradiction"]
  BY Types DEF LoadClosed, Counters
<1>3. /\ StoresLeft' <=> StoresLeft
      /\ ClosedLeft' <=> ClosedLeft
      /\ PastOpen'
      /\ PastOpen <=> fo = 0
  BY <1>1 DEF StoresLeft, ClosedLeft, PastOpen
<1>4. RawInv' /\ TravelInv'
  BY <1>1, <1>2, <1>3 DEF SwitchInv, RawInv, TravelInv
<1>5. ContradictionInv'
  <2>1. CASE PostsContradiction
    BY <1>1, <1>2, <1>3, <2>1, CountersAre, Timing DEF SwitchInv, ContradictionInv
  <2>2. CASE ~PostsContradiction
    <3>1. fo = 0 \/ raw["closed"] = 0
      BY <1>1, <2>2, Types DEF PostsContradiction, Sensors
    <3>2. Contradictory(stable) =>
            \/ PastOpen
            \/ elapsed["contradiction"] <= elapsed["frame"]
      BY <1>3, <3>1 DEF SwitchInv, RawInv, ContradictionInv, Contradictory
    <3>. QED
      BY <1>1, <1>2, <1>3, <2>2, <3>2, CountersAre, Timing DEF SwitchInv, ContradictionInv
  <2>. QED
    BY <2>1, <2>2
<1>. QED
  BY <1>4, <1>5 DEF SwitchInv

LEMMA InitSwitches == Init => SwitchInv
<1>. SUFFICES ASSUME Init
              PROVE  SwitchInv
  OBVIOUS
<1>1. ~StoresLeft /\ ~ClosedLeft
  BY DEF Init, StoresLeft, ClosedLeft
<1>2. raw = stable /\ \A s \in Sensors : stable[s] = 0
  BY DEF Init
<1>3. elapsed["contradiction"] = 0
  BY LimitIs DEF Init, Counters
<1>4. elapsed["round"] = 0
  BY LimitIs DEF Init, Counters
<1>5. RawInv
  BY <1>1, <1>2 DEF RawInv, Sensors
<1>6. ContradictionInv
  BY <1>1, <1>2, <1>3, <1>4, Timing DEF ContradictionInv, Contradictory, Sensors
<1>7. TravelInv
  BY <1>2 DEF Init, TravelInv
<1>. QED
  BY <1>5, <1>6, <1>7 DEF SwitchInv

LEMMA SwitchStep == TypeOK /\ SwitchInv /\ [Next]_vars => SwitchInv'
<1>. SUFFICES ASSUME TypeOK, SwitchInv, [Next]_vars
              PROVE  SwitchInv'
  OBVIOUS
<1>. USE DEF shared, receive, locals
<1>1. CASE ValidFrame
  <2>1. ~StoresLeft /\ ~StoresLeft'
    BY <1>1 DEF ValidFrame, StoresLeft, WatchdogReset
  <2>2. PastOpen' <=> PastOpen
    BY <1>1 DEF ValidFrame, PastOpen
  <2>. QED
    BY <1>1, <2>1, <2>2, Types, TimeStepSwitches DEF ValidFrame, Counters
<1>2. CASE ReadFrameTime
  <2>1. Head(rx) = "READ_CLOCK" /\ rx' = <<"STORE_CLOCK">>
    BY <1>2, Types, RxGoesOn DEF ReadFrameTime
  <2>2. ~StoresLeft /\ ~StoresLeft'
    BY <2>1 DEF StoresLeft
  <2>3. PastOpen' <=> PastOpen
    BY <1>2 DEF ReadFrameTime, PastOpen
  <2>. QED
    BY <1>2, <2>2, <2>3, Types, TimeStepSwitches DEF ReadFrameTime, Counters
<1>3. CASE StoreFrameTime
  <2>1. Head(rx) = "STORE_CLOCK" /\ rx' = <<>>
    BY <1>3, Types, RxGoesOn DEF StoreFrameTime
  <2>2. ~StoresLeft /\ ~StoresLeft'
    BY <2>1 DEF StoresLeft
  <2>3. PastOpen' <=> PastOpen
    BY <1>3 DEF StoreFrameTime, PastOpen
  <2>. QED
    BY <1>3, <2>2, <2>3, TimeStepSwitches DEF StoreFrameTime
<1>4. CASE MonitorStarts
  <2>1. PastOpen' <=> PastOpen
    BY <1>4 DEF MonitorStarts, PastOpen
  <2>. QED
    BY <1>4, <2>1, Types, TimeStepSwitches DEF MonitorStarts, Counters
<1>5. CASE LoadFrameTime
  <2>1. PastOpen' <=> PastOpen
    BY <1>5 DEF LoadFrameTime, PastOpen
  <2>. QED
    BY <1>5, <2>1, TimeStepSwitches DEF LoadFrameTime
<1>6. CASE PostTimeout
  <2>1. PastOpen' <=> PastOpen
    BY <1>6 DEF PostTimeout, PastOpen
  <2>. QED
    BY <1>6, <2>1, Types, TimeStepSwitches DEF PostTimeout, Counters
<1>7. CASE RestartTimeout
  <2>1. PastOpen' <=> PastOpen
    BY <1>7 DEF RestartTimeout, PastOpen
  <2>. QED
    BY <1>7, <2>1, TimeStepSwitches DEF RestartTimeout
<1>8. CASE FeedTwdt
  <2>1. PastOpen' <=> PastOpen
    BY <1>8 DEF FeedTwdt, PastOpen
  <2>. QED
    BY <1>8, <2>1, Types, TimeStepSwitches DEF FeedTwdt, Counters
<1>9. CASE UNCHANGED vars
  <2>1. PastOpen' <=> PastOpen
    BY <1>9 DEF vars, PastOpen
  <2>. QED
    BY <1>9, <2>1, TimeStepSwitches DEF vars
<1>. QED
  BY <1>1, <1>2, <1>3, <1>4, <1>5, <1>6, <1>7, <1>8, <1>9, TickSwitches,
     SensorFrameSwitches, UpdateSensorSwitches, ReadClockSwitches, LoadOpenSwitches,
     LoadClosedSwitches DEF Next

-----------------------------------------------------------------------------
(* Theorems.                                                               *)

\* The inductive invariant: types, clock readings and switches.
THEOREM Inductive == Spec => []IInv
<1>1. Init => IInv
  BY InitType, InitTime, InitSwitches DEF IInv
<1>2. IInv /\ [Next]_vars => IInv'
  BY TypeStep, TimeStep, SwitchStep DEF IInv
<1>. QED
  BY <1>1, <1>2, PTL DEF Spec

\* Every variable keeps its type, the clocks their word.
THEOREM TypeCorrect == Spec => []TypeOK
<1>1. IInv => TypeOK
  BY DEF IInv
<1>. QED
  BY <1>1, Inductive, PTL

\* SR-5: a silence is reported within two rounds of the deadline, whatever the width of
\* the clock and wherever the tasks meet over the time of the last frame.
THEOREM SilenceIsReported == Spec => []SilenceReported
<1>1. IInv => SilenceReported
  BY CountersAre, Timing DEF IInv, TimeInv, SilenceInv, SilenceReported
<1>. QED
  BY <1>1, Inductive, PTL

\* SR-5: a time-out is reported only after COMM_TIMEOUT_MS without a valid frame, unless
\* the two tasks met over the time of the last one.
THEOREM TimeoutNeedsSilence == Spec => TimeoutOnlyOnSilence
<1>1. IInv /\ [Next]_vars =>
        [ monitor = "POST_TIMEOUT" /\ monitor' = "RESTART" /\ contended = 0
            => elapsed.quiet > COMM_TIMEOUT_MS ]_vars
  BY DEF IInv, TimeInv, QuietInv
<1>. QED
  BY <1>1, Inductive, PTL DEF Spec, TimeoutOnlyOnSilence

\* SR-3: a contradiction that lasts is reported within two rounds of the stores.
THEOREM ContradictionIsReported == Spec => []ContradictionReported
<1>1. IInv => ContradictionReported
  BY DEF IInv, SwitchInv, ContradictionInv, ContradictionReported
<1>. QED
  BY <1>1, Inductive, PTL

\* SR-3: a round does not make a contradiction of the two ends of a travel.
THEOREM ContradictionIsReal == Spec => ContradictionWasReal
<1>1. ASSUME IInv, PostsContradiction
      PROVE  Contradictory(stable) \/ elapsed["agreement"] <= RxMax + RoundMax
  <2>. SUFFICES ASSUME ~Contradictory(stable)
                PROVE  elapsed["agreement"] <= RxMax + RoundMax
    OBVIOUS
  <2>1. monitor = "LOAD_CLOSED" /\ fo = 1 /\ raw["closed"] = 1
    BY <1>1 DEF PostsContradiction
  <2>2. \A s \in Sensors : stable[s] \in {0, 1}
    BY <1>1, Types DEF IInv
  <2>3. CASE stable["open"] = 0
    BY <1>1, <2>1, <2>3, CountersAre, Timing DEF IInv, SwitchInv, TravelInv
  <2>4. CASE stable["open"] # 0
    <3>1. stable["open"] = 1 /\ stable["closed"] = 0
      BY <2>2, <2>4 DEF Sensors, Contradictory
    <3>2. /\ elapsed["change"] <= elapsed["frame"]
          /\ elapsed["agreement"] <= elapsed["change"]
      BY <1>1, <2>1, <3>1 DEF IInv, SwitchInv, TravelInv, Sensors, Opposite
    <3>. QED
      BY <1>1, <3>2, CountersAre, Timing DEF IInv
  <2>. QED
    BY <2>3, <2>4
<1>2. IInv /\ [Next]_vars =>
        [ PostsContradiction /\ monitor' = "FEED"
            => Contradictory(stable) \/ elapsed.agreement <= RxMax + RoundMax ]_vars
  BY <1>1
<1>. QED
  BY <1>2, Inductive, PTL DEF Spec, ContradictionWasReal

\* NFR: the monitor feeds the task watchdog in time, across the wrap of the clock.
THEOREM WatchdogIsFed == Spec => []WatchdogFed
<1>1. ASSUME IInv, monitor # "START"
      PROVE  elapsed["unfed"] < TWDT_TIMEOUT_MS
  <2>1. elapsed["unfed"] <= Age(last_twdt_feed)
    BY <1>1 DEF IInv, TimeInv, FeedInv
  <2>2. CASE monitor = "READ_CLOCK"
    BY <1>1, <2>1, <2>2, CountersAre, Ages, Timing DEF IInv, TimeInv, FeedInv
  <2>3. CASE InRound
    BY <1>1, <2>1, <2>3, FeedAge, CountersAre, Ages, Timing DEF IInv, TimeInv, FeedInv
  <2>. QED
    BY <1>1, <2>2, <2>3 DEF InRound
<1>2. IInv => WatchdogFed
  BY <1>1 DEF WatchdogFed
<1>. QED
  BY <1>2, Inductive, PTL
=============================================================================
