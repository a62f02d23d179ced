------------------------ MODULE DoorPipeline_proofs ------------------------
(***************************************************************************)
(* Proofs about DoorPipeline, for any depth of the queues, any set of      *)
(* external events and any number of inputs and reboots: the queues keep   *)
(* their type, the queued system implements DoorFsm and inherits its       *)
(* properties, and the queues are one line of events (EventLine).          *)
(***************************************************************************)
EXTENDS DoorPipeline, FiniteSetTheorems, SequenceTheorems, TLAPS

-----------------------------------------------------------------------------
(* Counting the stall events of a queue.                                   *)

Occurs(q) == { i \in 1..Len(q) : q[i] = "EVT_MOTOR_STALL" }

LEMMA StallsBound ==
  ASSUME NEW S, NEW q \in Seq(S)
  PROVE  IsFiniteSet(Occurs(q)) /\ StallsIn(q) \in 0..Len(q)
<1>1. Len(q) \in Nat
  OBVIOUS
<1>2. IsFiniteSet(1..Len(q)) /\ Cardinality(1..Len(q)) = Len(q)
  BY <1>1, FS_Interval
<1>3. Occurs(q) \in SUBSET (1..Len(q))
  BY DEF Occurs
<1>4. IsFiniteSet(Occurs(q)) /\ Cardinality(Occurs(q)) <= Len(q)
  BY <1>2, <1>3, FS_Subset
<1>5. Cardinality(Occurs(q)) \in Nat
  BY <1>4, FS_CardinalityType
<1>. QED
  BY <1>1, <1>4, <1>5 DEF StallsIn, Occurs

LEMMA StallsNat ==
  ASSUME NEW S, NEW q \in Seq(S)
  PROVE  StallsIn(q) \in Nat
<1>1. StallsIn(q) \in 0..Len(q)
  BY StallsBound
<1>. QED
  BY <1>1

LEMMA StallsAppended ==
  ASSUME NEW S, NEW q \in Seq(S), NEW e \in S
  PROVE  StallsIn(Append(q, e)) = StallsIn(q) + (IF e = "EVT_MOTOR_STALL" THEN 1 ELSE 0)
<1>1. IsFiniteSet(Occurs(q)) /\ Cardinality(Occurs(q)) = StallsIn(q)
  BY StallsBound DEF StallsIn, Occurs
<1>2. Cardinality(Occurs(q)) \in Nat
  BY <1>1, FS_CardinalityType
<1>3. CASE e = "EVT_MOTOR_STALL"
  <2>1. Occurs(Append(q, e)) = Occurs(q) \cup {Len(q) + 1}
    BY <1>3 DEF Occurs
  <2>2. Len(q) + 1 \notin Occurs(q)
    BY DEF Occurs
  <2>3. Cardinality(Occurs(q) \cup {Len(q) + 1}) = Cardinality(Occurs(q)) + 1
    BY <1>1, <2>2, FS_AddElement
  <2>. QED
    BY <1>1, <1>3, <2>1, <2>3 DEF StallsIn, Occurs
<1>4. CASE e # "EVT_MOTOR_STALL"
  <2>1. Occurs(Append(q, e)) = Occurs(q)
    BY <1>4 DEF Occurs
  <2>2. StallsIn(Append(q, e)) = Cardinality(Occurs(Append(q, e)))
    BY DEF StallsIn, Occurs
  <2>. QED
    BY <1>1, <1>2, <1>4, <2>1, <2>2
<1>. QED
  BY <1>3, <1>4

LEMMA StallsBehindHead ==
  ASSUME NEW S, NEW q \in Seq(S), q # <<>>
  PROVE  StallsIn(q) = StallsIn(Tail(q)) + (IF Head(q) = "EVT_MOTOR_STALL" THEN 1 ELSE 0)
<1>. DEFINE T == Occurs(Tail(q))
            R == Occurs(q) \ {1}
            f == [i \in T |-> i + 1]
<1>1. /\ Tail(q) \in Seq(S)
      /\ Len(q) \in Nat \ {0}
      /\ Len(Tail(q)) = Len(q) - 1
      /\ \A i \in 1..Len(Tail(q)) : Tail(q)[i] = q[i + 1]
      /\ Head(q) = q[1]
  OBVIOUS
<1>2. IsFiniteSet(T) /\ Cardinality(T) = StallsIn(Tail(q)) /\ Cardinality(T) \in Nat
  BY <1>1, StallsBound, FS_CardinalityType DEF StallsIn, Occurs
<1>3. IsFiniteSet(Occurs(q)) /\ Cardinality(Occurs(q)) = StallsIn(q)
  BY StallsBound DEF StallsIn, Occurs
<1>4. T \subseteq 1..Len(Tail(q)) /\ T \subseteq Int
  BY <1>1 DEF Occurs
<1>5. f \in Bijection(T, R)
  <2>1. \A i \in T : i + 1 \in R
    BY <1>1, <1>4 DEF Occurs
  <2>2. \A k \in R : k - 1 \in T /\ (k - 1) + 1 = k
    BY <1>1 DEF Occurs
  <2>3. f \in Injection(T, R)
    BY <1>4, <2>1 DEF Injection, IsInjective
  <2>4. f \in Surjection(T, R)
    BY <2>1, <2>2 DEF Surjection
  <2>. QED
    BY <2>3, <2>4 DEF Bijection
<1>6. Cardinality(R) = Cardinality(T)
  <2>1. ExistsBijection(T, R)
    BY <1>5 DEF ExistsBijection
  <2>. QED
    BY <1>2, <2>1, FS_Bijection
<1>7. Cardinality(R) = IF 1 \in Occurs(q) THEN Cardinality(Occurs(q)) - 1
                                          ELSE Cardinality(Occurs(q))
  BY <1>3, FS_RemoveElement
<1>8. 1 \in Occurs(q) <=> Head(q) = "EVT_MOTOR_STALL"
  BY <1>1 DEF Occurs
<1>9. Cardinality(Occurs(q)) \in Nat
  BY <1>3, FS_CardinalityType
<1>. QED
  BY <1>2, <1>3, <1>6, <1>7, <1>8, <1>9

LEMMA NoStallInEmpty == StallsIn(<<>>) = 0
<1>1. Occurs(<<>>) = {}
  BY DEF Occurs
<1>. QED
  BY <1>1, FS_EmptySet DEF StallsIn, Occurs

LEMMA OneStall ==
  ASSUME NEW e
  PROVE  StallsIn(<<e>>) = IF e = "EVT_MOTOR_STALL" THEN 1 ELSE 0
<1>1. <<>> \in Seq({e}) /\ Append(<<>>, e) = <<e>>
  OBVIOUS
<1>2. StallsIn(Append(<<>>, e)) = StallsIn(<<>>) + (IF e = "EVT_MOTOR_STALL" THEN 1 ELSE 0)
  BY <1>1, StallsAppended
<1>. QED
  BY <1>1, <1>2, NoStallInEmpty

-----------------------------------------------------------------------------
(* The queues.                                                             *)

Forwarded == Inputs \cup {"EVT_MOTOR_STALL"}

\* The fault event of a boot is posted once, and after that app_main has no other.
BootEventOnce ==
  /\ \A i, j \in 1..Len(fsm_queue) :
       fsm_queue[i] = "EVT_FAULT_PERSIST" /\ fsm_queue[j] = "EVT_FAULT_PERSIST" => i = j
  /\ \A i \in 1..Len(fsm_queue) :
       fsm_queue[i] = "EVT_FAULT_PERSIST" => injecting = "NONE"

IInv == QueuesOK /\ BootEventOnce

LEMMA InputsForwarded ==
  /\ "EVT_FAULT_PERSIST" \notin Forwarded
  /\ "EVT_MOTOR_STALL" \notin Inputs
  /\ Forwarded \subseteq Events
  BY InputsAssumption DEF Forwarded, Events, ExternalEvents

LEMMA PostedType ==
  ASSUME NEW S, NEW q \in Seq(S), NEW e \in S, Len(q) <= DISPATCHER_QUEUE_DEPTH
  PROVE  /\ Posted(q, e) \in Seq(S)
         /\ Len(Posted(q, e)) <= DISPATCHER_QUEUE_DEPTH
  BY DepthAssumption DEF Posted, Full

\* Receiving from a queue takes its first event and moves the others up.
LEMMA ReceivedType ==
  ASSUME NEW S, NEW q \in Seq(S), q # <<>>
  PROVE  /\ Head(q) \in S
         /\ Tail(q) \in Seq(S)
         /\ Len(q) \in Nat \ {0}
         /\ Len(Tail(q)) = Len(q) - 1
         /\ \A i \in 1..Len(Tail(q)) : i + 1 \in 1..Len(q) /\ Tail(q)[i] = q[i + 1]
  OBVIOUS

LEMMA QueuesStep == IInv /\ [Next]_vars => IInv'
<1>. SUFFICES ASSUME IInv, [Next]_vars
              PROVE  IInv'
  OBVIOUS
<1>. DEFINE Central == /\ central_queue \in Seq(Forwarded)
                       /\ Len(central_queue) <= DISPATCHER_QUEUE_DEPTH
            Hand    == forwarding \in Seq(Forwarded) /\ Len(forwarding) <= 1
            Received == fsm_queue \in Seq(Events) /\ Len(fsm_queue) <= DISPATCHER_QUEUE_DEPTH
            Inject  == injecting \in {"NONE", "PENDING", "REFUSED"}
<1>1. Central /\ Hand /\ Received /\ Inject /\ BootEventOnce
  BY DEF IInv, QueuesOK, Forwarded
<1>2. SUFFICES Central' /\ Hand' /\ Received' /\ Inject' /\ BootEventOnce'
  BY DEF IInv, QueuesOK, Forwarded
<1>3. ASSUME NEW e \in Inputs, Post(e)
      PROVE  Central' /\ Hand' /\ Received' /\ Inject' /\ BootEventOnce'
  <2>1. Central'
    BY <1>1, <1>3, PostedType DEF Post, Forwarded
  <2>. QED
    BY <1>1, <1>3, <2>1 DEF Post, BootEventOnce
<1>4. CASE stall_timer_callback
  <2>1. Central'
    BY <1>1, <1>4, PostedType DEF stall_timer_callback, Forwarded
  <2>. QED
    BY <1>1, <1>4, <2>1 DEF stall_timer_callback, BootEventOnce
<1>5. CASE DispatcherReceives
  <2>. HIDE DEF Forwarded
  <2>1. Head(central_queue) \in Forwarded /\ Central'
    <3>1. /\ Head(central_queue) \in Forwarded
          /\ Tail(central_queue) \in Seq(Forwarded)
          /\ Len(Tail(central_queue)) <= DISPATCHER_QUEUE_DEPTH
      BY <1>1, <1>5, ReceivedType, DepthAssumption DEF DispatcherReceives
    <3>. QED
      BY <1>5, <3>1 DEF DispatcherReceives
  <2>2. Hand'
    BY <1>5, <2>1 DEF DispatcherReceives
  <2>. QED
    BY <1>1, <1>5, <2>1, <2>2 DEF DispatcherReceives, BootEventOnce
<1>6. CASE DispatcherForwards
  <2>1. Head(forwarding) \in Forwarded /\ Head(forwarding) \in Events
    BY <1>1, <1>6, InputsForwarded DEF DispatcherForwards
  <2>2. Received'
    BY <1>1, <1>6, <2>1, PostedType DEF DispatcherForwards
  <2>3. Hand'
    BY <1>6 DEF DispatcherForwards
  <2>4. BootEventOnce'
    <3>1. fsm_queue' \in {fsm_queue, Append(fsm_queue, Head(forwarding))}
      BY <1>6 DEF DispatcherForwards, Posted
    <3>2. Head(forwarding) # "EVT_FAULT_PERSIST" /\ injecting' = injecting
      BY <1>6, <2>1, InputsForwarded DEF DispatcherForwards
    <3>3. CASE fsm_queue' = fsm_queue
      BY <1>1, <3>2, <3>3 DEF BootEventOnce
    <3>4. CASE fsm_queue' = Append(fsm_queue, Head(forwarding))
      <4>1. /\ Len(fsm_queue) \in Nat
            /\ Len(fsm_queue') = Len(fsm_queue) + 1
            /\ \A i \in 1..Len(fsm_queue) : fsm_queue'[i] = fsm_queue[i]
            /\ fsm_queue'[Len(fsm_queue) + 1] = Head(forwarding)
        BY <1>1, <2>1, <3>4
      <4>2. \A i \in 1..Len(fsm_queue') : fsm_queue'[i] = "EVT_FAULT_PERSIST"
              => i \in 1..Len(fsm_queue) /\ fsm_queue[i] = "EVT_FAULT_PERSIST"
        BY <3>2, <4>1
      <4>. QED
        BY <1>1, <3>2, <4>2 DEF BootEventOnce
    <3>. QED
      BY <3>1, <3>3, <3>4
  <2>. QED
    BY <1>1, <1>6, <2>2, <2>3, <2>4 DEF DispatcherForwards
<1>7. CASE ControlTaskReceives
  <2>1. Received' /\ injecting' = injecting
    <3>1. /\ Tail(fsm_queue) \in Seq(Events)
          /\ Len(Tail(fsm_queue)) <= DISPATCHER_QUEUE_DEPTH
      BY <1>1, <1>7, ReceivedType, DepthAssumption DEF ControlTaskReceives
    <3>. QED
      BY <1>7, <3>1 DEF ControlTaskReceives
  <2>2. \A i \in 1..Len(fsm_queue') : i + 1 \in 1..Len(fsm_queue) /\ fsm_queue'[i] = fsm_queue[i + 1]
    BY <1>1, <1>7 DEF ControlTaskReceives
  <2>3. BootEventOnce'
    <3>1. ASSUME NEW i \in 1..Len(fsm_queue'), NEW j \in 1..Len(fsm_queue'),
                 fsm_queue'[i] = "EVT_FAULT_PERSIST", fsm_queue'[j] = "EVT_FAULT_PERSIST"
          PROVE  i = j
      <4>1. i + 1 = j + 1
        BY <1>1, <2>2, <3>1 DEF BootEventOnce
      <4>. QED
        BY <4>1
    <3>. QED
      BY <1>1, <2>1, <2>2, <3>1 DEF BootEventOnce
  <2>. QED
    BY <1>1, <1>7, <2>1, <2>3 DEF ControlTaskReceives
<1>8. CASE ControlTaskStarts
  BY <1>1, <1>8 DEF ControlTaskStarts, queues, BootEventOnce
<1>9. CASE InjectBootFault
  <2>1. "EVT_FAULT_PERSIST" \in Events
    BY DEF Events
  <2>2. Received'
    BY <1>1, <1>9, <2>1, DepthAssumption DEF InjectBootFault, Full
  <2>3. BootEventOnce'
    BY <1>1, <1>9, <2>1 DEF InjectBootFault, BootEventOnce
  <2>. QED
    BY <1>1, <1>9, <2>2, <2>3 DEF InjectBootFault
<1>10. CASE InjectTimesOut
  BY <1>1, <1>10 DEF InjectTimesOut, queues, BootEventOnce
<1>11. CASE Reboot
  <2>1. /\ central_queue' = <<>> /\ forwarding' = <<>> /\ fsm_queue' = <<>>
        /\ injecting' \in {"NONE", "PENDING"}
    BY <1>11 DEF Reboot, Fsm!BootEvent
  <2>. QED
    BY <2>1, DepthAssumption DEF BootEventOnce
<1>12. CASE UNCHANGED vars
  BY <1>1, <1>12 DEF vars, queues, BootEventOnce
<1>. QED
  BY <1>3, <1>4, <1>5, <1>6, <1>7, <1>8, <1>9, <1>10, <1>11, <1>12 DEF Next

LEMMA QueuesInit == Init => IInv
  BY DepthAssumption DEF Init, IInv, QueuesOK, BootEventOnce

\* The queues hold events within their depth, and EVT_FAULT_PERSIST never passes
\* through the dispatcher.
THEOREM QueuesCorrect == Spec => []QueuesOK
<1>1. Spec => []IInv
  BY QueuesInit, QueuesStep, PTL DEF Spec
<1>. QED
  BY <1>1, PTL DEF IInv

-----------------------------------------------------------------------------
(* The queued system implements DoorFsm.                                   *)

StallCounts == StallsIn(central_queue) \in Nat /\ StallsIn(forwarding) \in Nat
                 /\ StallsIn(fsm_queue) \in Nat

LEMMA StallCountsType == QueuesOK => StallCounts
<1>. SUFFICES ASSUME QueuesOK
              PROVE  StallCounts
  OBVIOUS
<1>1. \A S : \A q \in Seq(S) : StallsIn(q) \in Nat
  BY StallsBound
<1>. QED
  BY <1>1 DEF QueuesOK, StallCounts

\* A stall event that finds room in the central queue is within what the state
\* machine's specification allows in flight: two full queues and one in hand.
LEMMA RoomForStall ==
  ASSUME QueuesOK, ~Full(central_queue)
  PROVE  StallsInFlight < 2 * DISPATCHER_QUEUE_DEPTH + 1
<1>1. /\ StallsIn(central_queue) \in 0..Len(central_queue)
      /\ StallsIn(forwarding) \in 0..Len(forwarding)
      /\ StallsIn(fsm_queue) \in 0..Len(fsm_queue)
  BY StallsBound DEF QueuesOK
<1>2. /\ Len(central_queue) \in Nat /\ Len(forwarding) \in Nat /\ Len(fsm_queue) \in Nat
  BY DEF QueuesOK
<1>. QED
  BY <1>1, <1>2, DepthAssumption DEF QueuesOK, Full, StallsInFlight

\* What leaves the state machine's variables and both abstractions alone is a
\* stuttering step of it.
LEMMA Stutters ==
  ASSUME UNCHANGED <<fsm, StallsInFlight, BootEventStatus>>
  PROVE  UNCHANGED Fsm!vars
  BY DEF fsm, ctx, drive, store, Fsm!vars, Fsm!fsm, Fsm!ctx, Fsm!drive, Fsm!timer,
         Fsm!store, Fsm!env

\* The dispatcher's hand holds one event when it is not empty.
LEMMA HandType ==
  ASSUME QueuesOK, forwarding # <<>>
  PROVE  /\ forwarding = <<Head(forwarding)>>
         /\ Head(forwarding) \in Forwarded
         /\ StallsIn(forwarding) = IF Head(forwarding) = "EVT_MOTOR_STALL" THEN 1 ELSE 0
<1>1. forwarding \in Seq(Forwarded)
  BY DEF QueuesOK, Forwarded
<1>2. Head(forwarding) \in Forwarded /\ Len(forwarding) \in Nat \ {0}
  BY <1>1, ReceivedType
<1>3. Len(forwarding) = 1
  <2>. DEFINE n == Len(forwarding)
  <2>1. n \in Nat \ {0} /\ n <= 1
    BY <1>2 DEF QueuesOK
  <2>. HIDE DEF n
  <2>2. n = 1
    BY <2>1
  <2>. QED
    BY <2>2 DEF n
<1>4. \A S : \A q \in Seq(S) : Len(q) = 1 => q = <<Head(q)>>
  BY SeqEqual
<1>5. forwarding = <<Head(forwarding)>>
  BY <1>1, <1>3, <1>4
<1>. QED
  BY <1>2, <1>5, OneStall

LEMMA ImplementsStep == IInv /\ IInv' /\ [Next]_vars => [Fsm!Next]_(Fsm!vars)
<1>. SUFFICES ASSUME IInv, IInv', [Next]_vars
              PROVE  Fsm!Next \/ UNCHANGED Fsm!vars
  OBVIOUS
<1>. DEFINE Kept == UNCHANGED <<StallsInFlight, BootEventStatus>>
<1>0. StallCounts /\ QueuesOK /\ QueuesOK'
  BY StallCountsType DEF IInv
<1>1. ASSUME NEW e \in Inputs, Post(e)
      PROVE  UNCHANGED Fsm!vars
  <2>1. StallsIn(central_queue') = StallsIn(central_queue)
    <3>1. StallsIn(Append(central_queue, e)) = StallsIn(central_queue) + 0
      BY <1>0, <1>1, StallsAppended, InputsForwarded DEF QueuesOK
    <3>. QED
      BY <1>0, <1>1, <3>1 DEF Post, Posted, StallCounts
  <2>2. Kept
    BY <1>1, <2>1 DEF Post, StallsInFlight, BootEventStatus
  <2>. QED
    BY <1>1, <2>2, Stutters DEF Post
<1>2. CASE stall_timer_callback
  <2>1. StallsInFlight' = IF Full(central_queue) THEN StallsInFlight ELSE StallsInFlight + 1
    <3>1. StallsIn(Append(central_queue, "EVT_MOTOR_STALL")) = StallsIn(central_queue) + 1
      BY <1>0, StallsAppended DEF QueuesOK
    <3>. QED
      BY <1>0, <1>2, <3>1 DEF stall_timer_callback, Posted, StallsInFlight, StallCounts
  <2>2. BootEventStatus' = BootEventStatus
    BY <1>2 DEF stall_timer_callback, BootEventStatus
  <2>3. ~Full(central_queue) => StallsInFlight < 2 * DISPATCHER_QUEUE_DEPTH + 1
    BY <1>0, RoomForStall
  <2>4. Fsm!StallTimerExpires
    BY <1>2, <2>1, <2>2, <2>3
       DEF stall_timer_callback, ctx, drive, store, Fsm!StallTimerExpires,
           Fsm!ctx, Fsm!drive, Fsm!store
  <2>. QED
    BY <2>4 DEF Fsm!Next
<1>3. CASE DispatcherReceives
  <2>1. StallsInFlight' = StallsInFlight
    <3>1. StallsIn(central_queue) = StallsIn(Tail(central_queue))
            + (IF Head(central_queue) = "EVT_MOTOR_STALL" THEN 1 ELSE 0)
      BY <1>0, <1>3, StallsBehindHead DEF DispatcherReceives, QueuesOK
    <3>2. Head(central_queue) \in Forwarded
      BY <1>0, <1>3, ReceivedType DEF DispatcherReceives, QueuesOK, Forwarded
    <3>3. StallsIn(<<Head(central_queue)>>)
            = IF Head(central_queue) = "EVT_MOTOR_STALL" THEN 1 ELSE 0
      BY OneStall
    <3>4. StallsIn(Tail(central_queue)) \in Nat
      BY <1>0, <1>3, ReceivedType, StallsNat DEF DispatcherReceives, QueuesOK
    <3>. QED
      BY <1>0, <1>3, <3>1, <3>3, <3>4, NoStallInEmpty
         DEF DispatcherReceives, StallsInFlight, StallCounts
  <2>2. Kept
    BY <1>3, <2>1 DEF DispatcherReceives, BootEventStatus
  <2>. QED
    BY <1>3, <2>2, Stutters DEF DispatcherReceives
<1>4. CASE DispatcherForwards
  <2>1. Head(forwarding) \in Forwarded
          /\ StallsIn(forwarding) = IF Head(forwarding) = "EVT_MOTOR_STALL" THEN 1 ELSE 0
    BY <1>0, <1>4, HandType DEF DispatcherForwards
  <2>2. StallsIn(forwarding') = 0
    BY <1>4, NoStallInEmpty DEF DispatcherForwards
  <2>3. StallsIn(Append(fsm_queue, Head(forwarding))) = StallsIn(fsm_queue)
          + (IF Head(forwarding) = "EVT_MOTOR_STALL" THEN 1 ELSE 0)
    BY <1>0, <2>1, StallsAppended, InputsForwarded DEF QueuesOK
  <2>4. BootEventStatus' = BootEventStatus
    <3>1. Head(forwarding) # "EVT_FAULT_PERSIST"
      BY <2>1, InputsForwarded
    <3>2. CASE fsm_queue' = fsm_queue
      BY <1>4, <3>2 DEF DispatcherForwards, BootEventStatus
    <3>3. CASE fsm_queue' = Append(fsm_queue, Head(forwarding))
      <4>1. /\ Len(fsm_queue) \in Nat
            /\ Len(fsm_queue') = Len(fsm_queue) + 1
            /\ \A i \in 1..Len(fsm_queue) : fsm_queue'[i] = fsm_queue[i]
            /\ fsm_queue'[Len(fsm_queue) + 1] = Head(forwarding)
        BY <1>0, <2>1, <3>3, InputsForwarded DEF QueuesOK
      <4>2. Contains(fsm_queue, "EVT_FAULT_PERSIST")' <=> Contains(fsm_queue, "EVT_FAULT_PERSIST")
        BY <3>1, <4>1, <1>0 DEF Contains
      <4>. QED
        BY <1>4, <4>2 DEF DispatcherForwards, BootEventStatus
    <3>. QED
      BY <1>4, <3>2, <3>3 DEF DispatcherForwards, Posted
  <2>5. CASE Full(fsm_queue) /\ Head(forwarding) = "EVT_MOTOR_STALL"
    <3>1. StallsInFlight > 0 /\ StallsInFlight' = StallsInFlight - 1
      BY <1>0, <1>4, <2>1, <2>2, <2>5 DEF DispatcherForwards, Posted, StallsInFlight, StallCounts
    <3>2. Fsm!StallDropped
      BY <1>4, <2>4, <2>5, <3>1
         DEF DispatcherForwards, ctx, drive, store, Fsm!StallDropped, Fsm!ctx, Fsm!drive, Fsm!store
    <3>. QED
      BY <3>2 DEF Fsm!Next
  <2>6. CASE ~ (Full(fsm_queue) /\ Head(forwarding) = "EVT_MOTOR_STALL")
    <3>1. StallsInFlight' = StallsInFlight
      BY <1>0, <1>4, <2>1, <2>2, <2>3, <2>6
         DEF DispatcherForwards, Posted, StallsInFlight, StallCounts
    <3>. QED
      BY <1>4, <2>4, <2>6, <3>1, Stutters DEF DispatcherForwards, fsm
  <2>. QED
    BY <2>5, <2>6
<1>5. CASE ControlTaskStarts
  BY <1>5 DEF ControlTaskStarts, Fsm!Next
<1>6. CASE ControlTaskReceives
  <2>. DEFINE e == Head(fsm_queue)
  <2>1. /\ e \in Events
        /\ Tail(fsm_queue) \in Seq(Events)
        /\ Len(fsm_queue) \in Nat \ {0}
        /\ Len(Tail(fsm_queue)) = Len(fsm_queue) - 1
        /\ \A i \in 1..Len(Tail(fsm_queue)) :
              i + 1 \in 1..Len(fsm_queue) /\ Tail(fsm_queue)[i] = fsm_queue[i + 1]
        /\ e = fsm_queue[1]
    BY <1>0, <1>6, ReceivedType DEF ControlTaskReceives, QueuesOK
  <2>2. StallsIn(fsm_queue) = StallsIn(Tail(fsm_queue)) + (IF e = "EVT_MOTOR_STALL" THEN 1 ELSE 0)
    BY <1>0, <1>6, StallsBehindHead DEF ControlTaskReceives, QueuesOK
  <2>3. StallsIn(Tail(fsm_queue)) \in Nat
    BY <2>1, StallsNat
  <2>4. e = "EVT_MOTOR_STALL" => StallsInFlight > 0 /\ StallsInFlight' = StallsInFlight - 1
    BY <1>0, <1>6, <2>2, <2>3 DEF ControlTaskReceives, StallsInFlight, StallCounts
  <2>5. e # "EVT_MOTOR_STALL" => StallsInFlight' = StallsInFlight
    BY <1>0, <1>6, <2>2, <2>3 DEF ControlTaskReceives, StallsInFlight, StallCounts
  <2>6. e # "EVT_FAULT_PERSIST" => BootEventStatus' = BootEventStatus
    <3>1. ASSUME e # "EVT_FAULT_PERSIST"
          PROVE  Contains(Tail(fsm_queue), "EVT_FAULT_PERSIST") <=> Contains(fsm_queue, "EVT_FAULT_PERSIST")
      <4>1. ASSUME NEW i \in 1..Len(fsm_queue), fsm_queue[i] = "EVT_FAULT_PERSIST"
            PROVE  Contains(Tail(fsm_queue), "EVT_FAULT_PERSIST")
        <5>1. i - 1 \in 1..Len(Tail(fsm_queue)) /\ (i - 1) + 1 = i
          BY <2>1, <3>1, <4>1
        <5>. QED
          BY <2>1, <4>1, <5>1 DEF Contains
      <4>. QED
        BY <2>1, <4>1 DEF Contains
    <3>. QED
      BY <1>6, <3>1 DEF ControlTaskReceives, BootEventStatus
  <2>7. CASE e \in Inputs
    <3>1. e \in ExternalEvents /\ e # "EVT_MOTOR_STALL" /\ e # "EVT_FAULT_PERSIST"
      BY <2>7, InputsAssumption DEF ExternalEvents
    <3>2. UNCHANGED Fsm!env
      BY <2>5, <2>6, <3>1 DEF Fsm!env
    <3>3. Fsm!Running /\ Fsm!fsm_process_event(e)
      BY <1>6 DEF ControlTaskReceives
    <3>4. Fsm!ExternalEvent
      BY <3>1, <3>2, <3>3 DEF ExternalEvents, Fsm!fsm_process_event, Fsm!ExternalEvent
    <3>. QED
      BY <3>4 DEF Fsm!Next
  <2>8. CASE e = "EVT_MOTOR_STALL"
    <3>1. StallsInFlight > 0 /\ StallsInFlight' = StallsInFlight - 1
      BY <2>4, <2>8
    <3>2. Fsm!Running /\ Fsm!EVT_MOTOR_STALL
      BY <1>6, <2>8 DEF ControlTaskReceives, Fsm!fsm_process_event
    <3>3. Fsm!StallHandled
      BY <2>6, <2>8, <3>1, <3>2 DEF Fsm!StallHandled
    <3>. QED
      BY <3>3 DEF Fsm!Next
  <2>9. CASE e = "EVT_FAULT_PERSIST"
    <3>1. BootEventStatus = "PENDING"
      BY <2>1, <2>9 DEF BootEventStatus, Contains
    <3>2. injecting = "NONE" /\ ~Contains(Tail(fsm_queue), "EVT_FAULT_PERSIST")
      <4>1. ASSUME NEW i \in 1..Len(Tail(fsm_queue)), Tail(fsm_queue)[i] = "EVT_FAULT_PERSIST"
            PROVE  FALSE
        BY <2>1, <2>9, <4>1 DEF IInv, BootEventOnce
      <4>. QED
        BY <2>1, <2>9, <4>1 DEF IInv, BootEventOnce, Contains
    <3>3. BootEventStatus' = "NONE"
      BY <1>6, <3>2 DEF ControlTaskReceives, BootEventStatus
    <3>4. StallsInFlight' = StallsInFlight
      BY <2>5, <2>9
    <3>5. Fsm!Running /\ Fsm!EVT_FAULT_PERSIST
      BY <1>6, <2>9 DEF ControlTaskReceives, Fsm!fsm_process_event
    <3>6. Fsm!BootFaultHandled
      BY <3>1, <3>3, <3>4, <3>5 DEF Fsm!BootFaultHandled
    <3>. QED
      BY <3>6 DEF Fsm!Next
  <2>. QED
    BY <2>1, <2>7, <2>8, <2>9 DEF Events
<1>7. CASE InjectBootFault
  <2>1. StallsInFlight' = StallsInFlight
    <3>1. StallsIn(Append(fsm_queue, "EVT_FAULT_PERSIST")) = StallsIn(fsm_queue) + 0
      BY <1>0, StallsAppended DEF QueuesOK, Events
    <3>. QED
      BY <1>0, <1>7, <3>1 DEF InjectBootFault, StallsInFlight, StallCounts
  <2>2. BootEventStatus = "PENDING" /\ BootEventStatus' = "PENDING"
    <3>1. /\ Len(fsm_queue) \in Nat
          /\ Len(fsm_queue') = Len(fsm_queue) + 1
          /\ fsm_queue'[Len(fsm_queue) + 1] = "EVT_FAULT_PERSIST"
      BY <1>0, <1>7 DEF InjectBootFault, QueuesOK, Events
    <3>2. Contains(fsm_queue', "EVT_FAULT_PERSIST")
      BY <3>1 DEF Contains
    <3>. QED
      BY <1>7, <3>2 DEF InjectBootFault, BootEventStatus
  <2>. QED
    BY <1>7, <2>1, <2>2, Stutters DEF InjectBootFault
<1>8. CASE InjectTimesOut
  <2>1. ~Contains(fsm_queue, "EVT_FAULT_PERSIST")
    BY <1>8 DEF InjectTimesOut, IInv, BootEventOnce, Contains
  <2>2. BootEventStatus = "PENDING" /\ BootEventStatus' = "REFUSED"
    BY <1>8, <2>1 DEF InjectTimesOut, queues, BootEventStatus
  <2>3. StallsInFlight' = StallsInFlight
    BY <1>8 DEF InjectTimesOut, queues, StallsInFlight
  <2>4. Fsm!BootFaultRefused
    BY <1>8, <2>2, <2>3
       DEF InjectTimesOut, fsm, ctx, drive, store, Fsm!BootFaultRefused, Fsm!fsm, Fsm!ctx,
           Fsm!drive, Fsm!timer, Fsm!store
  <2>. QED
    BY <2>4 DEF Fsm!Next
<1>9. CASE Reboot
  BY <1>9 DEF Reboot, Fsm!Next
<1>10. CASE UNCHANGED vars
  BY <1>10, Stutters DEF vars, queues, StallsInFlight, BootEventStatus
<1>. QED
  BY <1>1, <1>2, <1>3, <1>4, <1>5, <1>6, <1>7, <1>8, <1>9, <1>10 DEF Next

\* The queues in front of the handler and behind the stall timer lose events but
\* show the state machine nothing that its own specification does not allow.
THEOREM ImplementsDoorFsm == Spec => FsmSpec
<1>1. Init => Fsm!Init
  BY DEF Init
<1>2. Spec => []IInv
  BY QueuesInit, QueuesStep, PTL DEF Spec
<1>. QED
  BY <1>1, <1>2, ImplementsStep, PTL DEF Spec, FsmSpec, Fsm!Spec

-----------------------------------------------------------------------------
(* What the queued system inherits.                                        *)

Proved == INSTANCE DoorFsm_proofs WITH
            MaxStalls <- 2 * DISPATCHER_QUEUE_DEPTH + 1,
            stalls <- StallsInFlight,
            boot_event <- BootEventStatus

\* The two instances of DoorFsm, the one of the model and the one with the theorems,
\* are the same specification: first the handlers,
LEMMA SameHandlers ==
  /\ Fsm!EVT_CMD_EMERGENCY_OPEN => Proved!EVT_CMD_EMERGENCY_OPEN
  /\ Fsm!EVT_CMD_RESET => Proved!EVT_CMD_RESET
  /\ Fsm!EVT_CMD_OPEN => Proved!EVT_CMD_OPEN
  /\ Fsm!EVT_CMD_CLOSE => Proved!EVT_CMD_CLOSE
  /\ Fsm!EVT_SENSOR_FULLY_OPEN => Proved!EVT_SENSOR_FULLY_OPEN
  /\ Fsm!EVT_SENSOR_FULLY_CLOSED => Proved!EVT_SENSOR_FULLY_CLOSED
  /\ Fsm!EVT_OBSTRUCTION_DETECTED => Proved!EVT_OBSTRUCTION_DETECTED
  /\ Fsm!EVT_OBSTRUCTION_CLEAR => Proved!EVT_OBSTRUCTION_CLEAR
  /\ Fsm!EVT_SPOF_DETECTED => Proved!EVT_SPOF_DETECTED
  /\ Fsm!EVT_COMM_TIMEOUT => Proved!EVT_COMM_TIMEOUT
  /\ Fsm!EVT_MOTOR_STALL => Proved!EVT_MOTOR_STALL
  /\ Fsm!EVT_FAULT_PERSIST => Proved!EVT_FAULT_PERSIST
<1>. USE DEF Fsm!fsm_transition, Proved!fsm_transition, Fsm!Motor, Proved!Motor,
             Fsm!MotorStopThen, Proved!MotorStopThen, Fsm!Opposite,
             Proved!Opposite, Fsm!stall_timer_start, Proved!stall_timer_start,
             Fsm!stall_timer_cancel, Proved!stall_timer_cancel,
             Fsm!fsm_enter_fault, Proved!fsm_enter_fault, Fsm!fsm_start_homing,
             Proved!fsm_start_homing, Fsm!fault_nvs_write, Proved!fault_nvs_write,
             Fsm!fault_nvs_clear, Proved!fault_nvs_clear, Fsm!ActiveSet,
             Proved!ActiveSet, Fsm!CodeSet, Proved!CodeSet, Fsm!ClearedSet,
             Proved!ClearedSet, Fsm!nvs_set, Proved!nvs_set, Fsm!nvs_commit,
             Proved!nvs_commit, Fsm!Ok, Proved!Ok, Fsm!Fail, Proved!Fail, Fsm!fsm,
             Proved!fsm, Fsm!ctx, Proved!ctx, Fsm!drive, Proved!drive, Fsm!timer,
             Proved!timer, Fsm!store, Proved!store
<1>1. Fsm!EVT_CMD_EMERGENCY_OPEN => Proved!EVT_CMD_EMERGENCY_OPEN
  BY DEF Fsm!EVT_CMD_EMERGENCY_OPEN, Proved!EVT_CMD_EMERGENCY_OPEN
<1>2. Fsm!EVT_CMD_RESET => Proved!EVT_CMD_RESET
  BY DEF Fsm!EVT_CMD_RESET, Proved!EVT_CMD_RESET, Fsm!ResetAccepted,
         Proved!ResetAccepted
<1>3. Fsm!EVT_CMD_OPEN => Proved!EVT_CMD_OPEN
  BY DEF Fsm!EVT_CMD_OPEN, Proved!EVT_CMD_OPEN, Fsm!OpenAccepted,
         Proved!OpenAccepted
<1>4. Fsm!EVT_CMD_CLOSE => Proved!EVT_CMD_CLOSE
  BY DEF Fsm!EVT_CMD_CLOSE, Proved!EVT_CMD_CLOSE, Fsm!CloseAccepted,
         Proved!CloseAccepted
<1>5. Fsm!EVT_SENSOR_FULLY_OPEN => Proved!EVT_SENSOR_FULLY_OPEN
  BY DEF Fsm!EVT_SENSOR_FULLY_OPEN, Proved!EVT_SENSOR_FULLY_OPEN
<1>6. Fsm!EVT_SENSOR_FULLY_CLOSED => Proved!EVT_SENSOR_FULLY_CLOSED
  BY DEF Fsm!EVT_SENSOR_FULLY_CLOSED, Proved!EVT_SENSOR_FULLY_CLOSED
<1>7. Fsm!EVT_OBSTRUCTION_DETECTED => Proved!EVT_OBSTRUCTION_DETECTED
  BY DEF Fsm!EVT_OBSTRUCTION_DETECTED, Proved!EVT_OBSTRUCTION_DETECTED
<1>8. Fsm!EVT_OBSTRUCTION_CLEAR => Proved!EVT_OBSTRUCTION_CLEAR
  BY DEF Fsm!EVT_OBSTRUCTION_CLEAR, Proved!EVT_OBSTRUCTION_CLEAR
<1>9. Fsm!EVT_SPOF_DETECTED => Proved!EVT_SPOF_DETECTED
  BY DEF Fsm!EVT_SPOF_DETECTED, Proved!EVT_SPOF_DETECTED
<1>10. Fsm!EVT_COMM_TIMEOUT => Proved!EVT_COMM_TIMEOUT
  BY DEF Fsm!EVT_COMM_TIMEOUT, Proved!EVT_COMM_TIMEOUT
<1>11. Fsm!EVT_MOTOR_STALL => Proved!EVT_MOTOR_STALL
  BY DEF Fsm!EVT_MOTOR_STALL, Proved!EVT_MOTOR_STALL, Fsm!Moving, Proved!Moving
<1>12. Fsm!EVT_FAULT_PERSIST => Proved!EVT_FAULT_PERSIST
  BY DEF Fsm!EVT_FAULT_PERSIST, Proved!EVT_FAULT_PERSIST
<1>. QED
  BY <1>1, <1>2, <1>3, <1>4, <1>5, <1>6, <1>7, <1>8, <1>9, <1>10, <1>11, <1>12

\* then every step.
LEMMA SameNext == [Fsm!Next]_(Fsm!vars) => [Proved!Next]_(Proved!vars)
<1>. USE DEF Fsm!fsm, Proved!fsm, Fsm!ctx, Proved!ctx, Fsm!drive, Proved!drive,
             Fsm!timer, Proved!timer, Fsm!store, Proved!store, Fsm!env, Proved!env,
             Fsm!Running, Proved!Running, Fsm!vars, Proved!vars
<1>1. Fsm!ControlTaskStarts => Proved!ControlTaskStarts
  BY DEF Fsm!ControlTaskStarts, Proved!ControlTaskStarts, Fsm!fsm_start_homing,
         Proved!fsm_start_homing, Fsm!Motor, Proved!Motor, Fsm!Opposite,
         Proved!Opposite, Fsm!stall_timer_start, Proved!stall_timer_start
<1>2. Fsm!ExternalEvent => Proved!ExternalEvent
  BY SameHandlers DEF Fsm!ExternalEvent, Proved!ExternalEvent
<1>3. Fsm!StallTimerExpires => Proved!StallTimerExpires
  BY DEF Fsm!StallTimerExpires, Proved!StallTimerExpires
<1>4. Fsm!StallDropped => Proved!StallDropped
  BY DEF Fsm!StallDropped, Proved!StallDropped
<1>5. Fsm!StallHandled => Proved!StallHandled
  BY SameHandlers DEF Fsm!StallHandled, Proved!StallHandled
<1>6. Fsm!BootFaultHandled => Proved!BootFaultHandled
  BY SameHandlers DEF Fsm!BootFaultHandled, Proved!BootFaultHandled
<1>7. Fsm!BootFaultRefused => Proved!BootFaultRefused
  BY DEF Fsm!BootFaultRefused, Proved!BootFaultRefused
<1>8. Fsm!Reboot => Proved!Reboot
  BY DEF Fsm!Reboot, Proved!Reboot, Fsm!Survivors, Proved!Survivors,
         Fsm!BlankStore, Proved!BlankStore, Fsm!BlankRecord, Proved!BlankRecord,
         Fsm!BootEvent, Proved!BootEvent, Fsm!fault_nvs_read, Proved!fault_nvs_read
<1>. QED
  BY <1>1, <1>2, <1>3, <1>4, <1>5, <1>6, <1>7, <1>8 DEF Fsm!Next, Proved!Next

LEMMA SameSpec == FsmSpec => Proved!Spec
<1>1. Fsm!Init => Proved!Init
  BY DEF Fsm!Init, Proved!Init, Fsm!BlankStore, Proved!BlankStore,
         Fsm!BlankRecord, Proved!BlankRecord
<1>. QED
  BY <1>1, SameNext, PTL DEF FsmSpec, Fsm!Spec, Proved!Spec

\* Through its queues, too, the controller keeps the emergency lock (SR-6), closes on an
\* obstruction it knows of in a homing only (SR-1), guards every motion by a timer or
\* by the stall event that is on its way (SR-7), moves under a command only once
\* homed, and stays out of service while a fault is recorded (SR-4).
THEOREM QueuedDoorIsSafe ==
  Spec => [](/\ Fsm!EmergencyHolds
             /\ Fsm!NoCloseOnObstruction
             /\ Fsm!MotionGuarded
             /\ Fsm!HomedBeforeService
             /\ Fsm!RecordedFaultBlocks)
<1>1. Proved!EmergencyHolds => Fsm!EmergencyHolds
  BY DEF Proved!EmergencyHolds, Fsm!EmergencyHolds
<1>2. Proved!NoCloseOnObstruction => Fsm!NoCloseOnObstruction
  BY DEF Proved!NoCloseOnObstruction, Fsm!NoCloseOnObstruction
<1>3. Proved!MotionGuarded => Fsm!MotionGuarded
  BY DEF Proved!MotionGuarded, Fsm!MotionGuarded, Proved!Moving, Fsm!Moving
<1>4. Proved!HomedBeforeService => Fsm!HomedBeforeService
  BY DEF Proved!HomedBeforeService, Fsm!HomedBeforeService
<1>5. Proved!RecordedFaultBlocks => Fsm!RecordedFaultBlocks
  BY DEF Proved!RecordedFaultBlocks, Fsm!RecordedFaultBlocks
<1>6. 2 * DISPATCHER_QUEUE_DEPTH + 1 \in Nat
  BY DepthAssumption
<1>7. Proved!Spec => [](/\ Proved!EmergencyHolds
                       /\ Proved!NoCloseOnObstruction
                       /\ Proved!MotionGuarded
                       /\ Proved!HomedBeforeService
                       /\ Proved!RecordedFaultBlocks)
  BY <1>6, Proved!EmergencyIsHeld, Proved!ClosingIsClear, Proved!MotionIsGuarded,
     Proved!ServiceIsHomed, Proved!RecordIsObeyed, PTL
<1>. QED
  BY <1>1, <1>2, <1>3, <1>4, <1>5, <1>7, ImplementsDoorFsm, SameSpec, PTL

\* A committed fault is kept until a RESET (SR-4), over any number of reboots,
\* whatever the queues lose.
THEOREM QueuedRecordIsKept == Spec => Fsm!RecordClearedByReset
<1>1. [ Proved!Recorded /\ ~Proved!Recorded' =>
          \/ Proved!ResetAccepted /\ state' = "HOMING"
          \/ nvs' = Proved!BlankStore
          \/ state' = "INIT" /\ nvs.live.fault_state = "CLEAR" ]_(Proved!vars) =>
      [ Fsm!Recorded /\ ~Fsm!Recorded' =>
          \/ Fsm!ResetAccepted /\ state' = "HOMING"
          \/ nvs' = Fsm!BlankStore
          \/ state' = "INIT" /\ nvs.live.fault_state = "CLEAR" ]_(Fsm!vars)
  BY DEF Proved!Recorded, Fsm!Recorded, Proved!ResetAccepted, Fsm!ResetAccepted,
         Proved!BlankStore, Fsm!BlankStore, Proved!BlankRecord, Fsm!BlankRecord,
         Proved!vars, Fsm!vars, Proved!fsm, Fsm!fsm, Proved!ctx, Fsm!ctx, Proved!drive,
         Fsm!drive, Proved!timer, Fsm!timer, Proved!store, Fsm!store, Proved!env, Fsm!env
<1>2. 2 * DISPATCHER_QUEUE_DEPTH + 1 \in Nat
  BY DepthAssumption
<1>3. Proved!Spec => Proved!RecordClearedByReset
  BY <1>2, Proved!RecordIsKept, PTL
<1>. QED
  BY <1>1, <1>3, ImplementsDoorFsm, SameSpec, PTL
     DEF Proved!RecordClearedByReset, Fsm!RecordClearedByReset

\* The queued system is the abstract door controller, for every depth of its queues:
\* it latches a fault and stops the motor in the same step, except in the one fault
\* of a boot, and only a RESET turns an opening door round.
THEOREM QueuedDoorImplementsSafeDoor == Spec => Fsm!SafeDoorSpec
<1>1. Proved!Phase = Fsm!Phase /\ Proved!Phase' = Fsm!Phase'
  BY DEF Proved!Phase, Fsm!Phase
<1>2. Proved!Safe!Init => Fsm!Safe!Init
  BY <1>1 DEF Proved!Safe!Init, Fsm!Safe!Init
<1>3. [Proved!Safe!Next]_(Proved!Safe!vars) => [Fsm!Safe!Next]_(Fsm!Safe!vars)
  <2>1. Proved!Safe!StartHoming => Fsm!Safe!StartHoming
    BY <1>1 DEF Proved!Safe!StartHoming, Fsm!Safe!StartHoming
  <2>2. Proved!Safe!Homed => Fsm!Safe!Homed
    BY <1>1 DEF Proved!Safe!Homed, Fsm!Safe!Homed
  <2>3. Proved!Safe!Open => Fsm!Safe!Open
    BY <1>1 DEF Proved!Safe!Open, Fsm!Safe!Open
  <2>4. Proved!Safe!Close => Fsm!Safe!Close
    BY <1>1 DEF Proved!Safe!Close, Fsm!Safe!Close
  <2>5. Proved!Safe!LimitReached => Fsm!Safe!LimitReached
    BY <1>1 DEF Proved!Safe!LimitReached, Fsm!Safe!LimitReached
  <2>6. Proved!Safe!Emergency => Fsm!Safe!Emergency
    BY <1>1 DEF Proved!Safe!Emergency, Fsm!Safe!Emergency
  <2>7. Proved!Safe!Fail => Fsm!Safe!Fail
    BY <1>1 DEF Proved!Safe!Fail, Fsm!Safe!Fail
  <2>8. Proved!Safe!LatchBootFault => Fsm!Safe!LatchBootFault
    BY <1>1 DEF Proved!Safe!LatchBootFault, Fsm!Safe!LatchBootFault
  <2>9. Proved!Safe!PowerCycle => Fsm!Safe!PowerCycle
    BY <1>1 DEF Proved!Safe!PowerCycle, Fsm!Safe!PowerCycle
  <2>10. Proved!Safe!ResetTurnsOpening => Fsm!Safe!ResetTurnsOpening
    BY <1>1 DEF Proved!Safe!ResetTurnsOpening, Fsm!Safe!ResetTurnsOpening
  <2>11. Proved!Safe!GiveUpBootFault => Fsm!Safe!GiveUpBootFault
    BY <1>1 DEF Proved!Safe!GiveUpBootFault, Fsm!Safe!GiveUpBootFault
  <2>. QED
    BY <1>1, <2>1, <2>2, <2>3, <2>4, <2>5, <2>6, <2>7, <2>8, <2>9, <2>10, <2>11
       DEF Proved!Safe!Next, Fsm!Safe!Next, Proved!Safe!vars, Fsm!Safe!vars
<1>4. 2 * DISPATCHER_QUEUE_DEPTH + 1 \in Nat
  BY DepthAssumption
<1>5. Proved!Spec => Proved!SafeDoorSpec
  BY <1>4, Proved!ImplementsSafeDoor, PTL
<1>. QED
  BY <1>2, <1>3, <1>5, ImplementsDoorFsm, SameSpec, PTL
     DEF Proved!SafeDoorSpec, Fsm!SafeDoorSpec, Proved!Safe!Spec, Fsm!Safe!Spec

-----------------------------------------------------------------------------
(* The queues are one line of events.  First the sequences: f stands for   *)
(* the FSM queue, c for the central queue, and e for the event the         *)
(* dispatcher has in hand.                                                 *)

\* An event joins at the end.
LEMMA JoinsBehind ==
  ASSUME NEW S, NEW f \in Seq(S), NEW c \in Seq(S), NEW e \in S
  PROVE  f \o Append(c, e) = Append(f \o c, e)
<1>1. <<e>> \in Seq(S) /\ Append(c, e) = c \o <<e>>
  BY AppendIsConcat
<1>2. f \o c \in Seq(S)
  BY ConcatProperties
<1>3. Append(f \o c, e) = (f \o c) \o <<e>>
  BY <1>2, AppendIsConcat
<1>. QED
  BY <1>1, <1>3, ConcatAssociative

\* The dispatcher takes the first event of the central queue in its hand.
LEMMA HeadInHand ==
  ASSUME NEW S, NEW f \in Seq(S), NEW c \in Seq(S), c # <<>>
  PROVE  (f \o <<Head(c)>>) \o Tail(c) = (f \o <<>>) \o c
<1>1. Head(c) \in S /\ Tail(c) \in Seq(S) /\ <<Head(c)>> \in Seq(S)
  BY HeadTailProperties
<1>2. (f \o <<Head(c)>>) \o Tail(c) = f \o (<<Head(c)>> \o Tail(c))
  BY <1>1, ConcatAssociative
<1>3. <<Head(c)>> \o Tail(c) = c
  <2>1. Len(c) \in Nat \ {0}
    BY EmptySeq
  <2>2. SubSeq(c, 1, Len(c)) = <<c[1]>> \o SubSeq(c, 2, Len(c))
    BY <2>1, SubSeqRecursiveFirst
  <2>. QED
    BY <2>1, <2>2, SubSeqFull, TailIsSubSeq
<1>4. f \o <<>> = f
  BY ConcatEmptySeq
<1>. QED
  BY <1>2, <1>3, <1>4

\* A prefix and what follows it are the two parts of a concatenation.
LEMMA PartsOf ==
  ASSUME NEW S, NEW p \in Seq(S), NEW d \in Seq(S)
  PROVE  /\ SubSeq(p \o d, 1, Len(p)) = p
         /\ SubSeq(p \o d, Len(p) + 1, Len(p \o d)) = d
         /\ Len(p) \in Nat /\ Len(d) \in Nat /\ Len(p \o d) = Len(p) + Len(d)
<1>. DEFINE m == Len(p)  n == Len(d)
<1>1. m \in Nat /\ n \in Nat
  OBVIOUS
<1>2. Len(p \o d) = m + n
  BY ConcatProperties
<1>3. SubSeq(p \o d, 1, m) = p
  <2>1. CASE m = 0
    <3>1. p = <<>>
      BY <2>1, EmptySeq
    <3>2. SubSeq(p \o d, 1, 0) = <<>>
      BY SubSeqEmpty
    <3>. QED
      BY <2>1, <3>1, <3>2
  <2>2. CASE m # 0
    <3>1. 1 \in 1..m /\ m \in 1..m
      BY <1>1, <2>2
    <3>2. SubSeq(p \o d, 1, m) = SubSeq(p, 1, m)
      BY <3>1, SubSeqOfConcat1
    <3>. QED
      BY <3>2, SubSeqFull
  <2>. QED
    BY <2>1, <2>2
<1>4. SubSeq(p \o d, m + 1, m + n) = d
  <2>1. CASE n = 0
    <3>1. d = <<>>
      BY <2>1, EmptySeq
    <3>2. m + 1 \in Int /\ m + n \in Int /\ m + n < m + 1
      BY <1>1, <2>1
    <3>3. SubSeq(p \o d, m + 1, m + n) = <<>>
      BY <3>2, SubSeqEmpty
    <3>. QED
      BY <3>1, <3>3
  <2>2. CASE n # 0
    <3>1. /\ m + 1 \in m + 1 .. m + n /\ m + n \in m + 1 .. m + n
          /\ (m + 1) - m = 1 /\ (m + n) - m = n
      BY <1>1, <2>2
    <3>2. SubSeq(p \o d, m + 1, m + n) = SubSeq(d, (m + 1) - m, (m + n) - m)
      BY <3>1, SubSeqOfConcat2
    <3>3. SubSeq(d, 1, n) = d
      BY SubSeqFull
    <3>. QED
      BY <3>1, <3>2, <3>3
  <2>. QED
    BY <2>1, <2>2
<1>. QED
  BY <1>1, <1>2, <1>3, <1>4

\* The event behind a prefix is removed.
LEMMA RemovedBehind ==
  ASSUME NEW S, NEW f \in Seq(S), NEW c \in Seq(S), NEW e \in S
  PROVE  (f \o <<>>) \o c = RemoveAt((f \o <<e>>) \o c, Len(f) + 1)
<1>. DEFINE g == f \o <<e>>
            w == g \o c
<1>1. <<e>> \in Seq(S) /\ Len(<<e>>) = 1
  OBVIOUS
<1>2. g \in Seq(S) /\ Len(g) = Len(f) + 1 /\ Len(f) \in Nat /\ Len(c) \in Nat
  BY <1>1, ConcatProperties
<1>3. w = f \o (<<e>> \o c) /\ <<e>> \o c \in Seq(S)
  BY <1>1, ConcatAssociative, ConcatProperties
<1>4. SubSeq(w, 1, Len(f)) = f
  BY <1>3, PartsOf
<1>5. SubSeq(w, Len(g) + 1, Len(w)) = c
  BY <1>2, PartsOf
<1>6. (Len(f) + 1) - 1 = Len(f) /\ (Len(f) + 1) + 1 = Len(g) + 1
  BY <1>2
<1>7. RemoveAt(w, Len(f) + 1) = f \o c
  BY <1>4, <1>5, <1>6 DEF RemoveAt
<1>. QED
  BY <1>7, ConcatEmptySeq

\* The handler takes the head of the line.
LEMMA HeadTaken ==
  ASSUME NEW S, NEW f \in Seq(S), NEW h \in Seq(S), NEW c \in Seq(S), f # <<>>
  PROVE  /\ (f \o h) \o c # <<>>
         /\ Head((f \o h) \o c) = Head(f)
<1>. DEFINE d == h \o c
            w == f \o d
<1>1. d \in Seq(S) /\ w \in Seq(S) /\ (f \o h) \o c = w
  BY ConcatProperties, ConcatAssociative
<1>2. w # <<>>
  BY <1>1, ConcatEqualIffEmpty, ConcatSimplifications
<1>3. w[1] = f[1]
  <2>1. Len(f) \in Nat \ {0} /\ Len(d) \in Nat
    BY <1>1, EmptySeq
  <2>2. 1 \in 1..(Len(f) + Len(d)) /\ 1 <= Len(f)
    BY <2>1
  <2>. QED
    BY <1>1, <2>2, ConcatProperties
<1>. QED
  BY <1>1, <1>2, <1>3

LEMMA TailLeft ==
  ASSUME NEW S, NEW f \in Seq(S), NEW h \in Seq(S), NEW c \in Seq(S), f # <<>>
  PROVE  Tail((f \o h) \o c) = (Tail(f) \o h) \o c
<1>. DEFINE d == h \o c
            w == f \o d
            t == Tail(f)
<1>1. d \in Seq(S) /\ w \in Seq(S) /\ (f \o h) \o c = w
  BY ConcatProperties, ConcatAssociative
<1>2. Head(f) \in S /\ t \in Seq(S) /\ <<Head(f)>> \in Seq(S)
  BY HeadTailProperties
<1>3. f = <<Head(f)>> \o t
  <2>1. (<<>> \o <<Head(f)>>) \o t = (<<>> \o <<>>) \o f
    BY HeadInHand
  <2>. QED
    BY <1>2, <2>1, ConcatEmptySeq
<1>4. w = <<Head(f)>> \o (t \o d) /\ t \o d \in Seq(S)
  <2>1. (<<Head(f)>> \o t) \o d = <<Head(f)>> \o (t \o d)
    BY <1>1, <1>2, ConcatAssociative
  <2>. QED
    BY <1>1, <1>2, <1>3, <2>1, ConcatProperties
<1>5. w # <<>>
  BY <1>1, ConcatEqualIffEmpty, ConcatSimplifications
<1>6. Tail(w) = t \o d
  <2>1. Tail(w) = SubSeq(w, 2, Len(w))
    BY <1>1, <1>5, TailIsSubSeq
  <2>2. Len(<<Head(f)>>) = 1
    OBVIOUS
  <2>3. SubSeq(w, 1 + 1, Len(w)) = t \o d
    BY <1>2, <1>4, <2>2, PartsOf
  <2>. QED
    BY <2>1, <2>3
<1>7. t \o d = (t \o h) \o c
  BY <1>2, ConcatAssociative
<1>. QED
  BY <1>1, <1>6, <1>7

-----------------------------------------------------------------------------
(* The line of events.                                                     *)

\* The handlers that take events from the line are those of the state machine.
LEMMA LineHandlers ==
  ASSUME NEW e, Fsm!fsm_process_event(e)
  PROVE  Line!Fsm!fsm_process_event(e)
<1>. USE DEF Fsm!fsm_transition, Line!Fsm!fsm_transition, Fsm!Motor, Line!Fsm!Motor,
             Fsm!MotorStopThen, Line!Fsm!MotorStopThen, Fsm!Opposite,
             Line!Fsm!Opposite, Fsm!stall_timer_start, Line!Fsm!stall_timer_start,
             Fsm!stall_timer_cancel, Line!Fsm!stall_timer_cancel, Fsm!fsm_enter_fault,
             Line!Fsm!fsm_enter_fault, Fsm!fsm_start_homing,
             Line!Fsm!fsm_start_homing, Fsm!fault_nvs_write, Line!Fsm!fault_nvs_write,
             Fsm!fault_nvs_clear, Line!Fsm!fault_nvs_clear, Fsm!ActiveSet,
             Line!Fsm!ActiveSet, Fsm!CodeSet, Line!Fsm!CodeSet, Fsm!ClearedSet,
             Line!Fsm!ClearedSet, Fsm!nvs_set, Line!Fsm!nvs_set, Fsm!nvs_commit,
             Line!Fsm!nvs_commit, Fsm!Ok, Line!Fsm!Ok, Fsm!Fail, Line!Fsm!Fail,
             Fsm!fsm, Line!Fsm!fsm, Fsm!ctx, Line!Fsm!ctx, Fsm!drive, Line!Fsm!drive,
             Fsm!timer, Line!Fsm!timer, Fsm!store, Line!Fsm!store
<1>1. Fsm!EVT_CMD_EMERGENCY_OPEN => Line!Fsm!EVT_CMD_EMERGENCY_OPEN
  BY DEF Fsm!EVT_CMD_EMERGENCY_OPEN, Line!Fsm!EVT_CMD_EMERGENCY_OPEN
<1>2. Fsm!EVT_CMD_RESET => Line!Fsm!EVT_CMD_RESET
  BY DEF Fsm!EVT_CMD_RESET, Line!Fsm!EVT_CMD_RESET, Fsm!ResetAccepted,
         Line!Fsm!ResetAccepted
<1>3. Fsm!EVT_CMD_OPEN => Line!Fsm!EVT_CMD_OPEN
  BY DEF Fsm!EVT_CMD_OPEN, Line!Fsm!EVT_CMD_OPEN, Fsm!OpenAccepted,
         Line!Fsm!OpenAccepted
<1>4. Fsm!EVT_CMD_CLOSE => Line!Fsm!EVT_CMD_CLOSE
  BY DEF Fsm!EVT_CMD_CLOSE, Line!Fsm!EVT_CMD_CLOSE, Fsm!CloseAccepted,
         Line!Fsm!CloseAccepted
<1>5. Fsm!EVT_SENSOR_FULLY_OPEN => Line!Fsm!EVT_SENSOR_FULLY_OPEN
  BY DEF Fsm!EVT_SENSOR_FULLY_OPEN, Line!Fsm!EVT_SENSOR_FULLY_OPEN
<1>6. Fsm!EVT_SENSOR_FULLY_CLOSED => Line!Fsm!EVT_SENSOR_FULLY_CLOSED
  BY DEF Fsm!EVT_SENSOR_FULLY_CLOSED, Line!Fsm!EVT_SENSOR_FULLY_CLOSED
<1>7. Fsm!EVT_OBSTRUCTION_DETECTED => Line!Fsm!EVT_OBSTRUCTION_DETECTED
  BY DEF Fsm!EVT_OBSTRUCTION_DETECTED, Line!Fsm!EVT_OBSTRUCTION_DETECTED
<1>8. Fsm!EVT_OBSTRUCTION_CLEAR => Line!Fsm!EVT_OBSTRUCTION_CLEAR
  BY DEF Fsm!EVT_OBSTRUCTION_CLEAR, Line!Fsm!EVT_OBSTRUCTION_CLEAR
<1>9. Fsm!EVT_SPOF_DETECTED => Line!Fsm!EVT_SPOF_DETECTED
  BY DEF Fsm!EVT_SPOF_DETECTED, Line!Fsm!EVT_SPOF_DETECTED
<1>10. Fsm!EVT_COMM_TIMEOUT => Line!Fsm!EVT_COMM_TIMEOUT
  BY DEF Fsm!EVT_COMM_TIMEOUT, Line!Fsm!EVT_COMM_TIMEOUT
<1>11. Fsm!EVT_MOTOR_STALL => Line!Fsm!EVT_MOTOR_STALL
  BY DEF Fsm!EVT_MOTOR_STALL, Line!Fsm!EVT_MOTOR_STALL, Fsm!Moving, Line!Fsm!Moving
<1>12. Fsm!EVT_FAULT_PERSIST => Line!Fsm!EVT_FAULT_PERSIST
  BY DEF Fsm!EVT_FAULT_PERSIST, Line!Fsm!EVT_FAULT_PERSIST
<1>. QED
  BY <1>1, <1>2, <1>3, <1>4, <1>5, <1>6, <1>7, <1>8, <1>9, <1>10, <1>11, <1>12
     DEF Fsm!fsm_process_event, Line!Fsm!fsm_process_event

LEMMA LineTypes ==
  ASSUME QueuesOK
  PROVE  /\ fsm_queue \in Seq(Events) /\ forwarding \in Seq(Events)
         /\ central_queue \in Seq(Events)
         /\ Len(fsm_queue) \in 0..DISPATCHER_QUEUE_DEPTH
         /\ Len(EventsToCome) = Len(fsm_queue) + Len(forwarding) + Len(central_queue)
<1>1. \A q : q \in Seq(Inputs \cup {"EVT_MOTOR_STALL"}) => q \in Seq(Events)
  BY DEF Events
<1>2. /\ fsm_queue \in Seq(Events) /\ forwarding \in Seq(Events)
      /\ central_queue \in Seq(Events)
  BY <1>1 DEF QueuesOK
<1>3. Len(fsm_queue) \in 0..DISPATCHER_QUEUE_DEPTH
  BY <1>2, DepthAssumption DEF QueuesOK
<1>4. fsm_queue \o forwarding \in Seq(Events)
        /\ Len(fsm_queue \o forwarding) = Len(fsm_queue) + Len(forwarding)
  BY <1>2, ConcatProperties
<1>5. Len((fsm_queue \o forwarding) \o central_queue)
        = Len(fsm_queue \o forwarding) + Len(central_queue)
  BY <1>2, <1>4, ConcatProperties
<1>. QED
  BY <1>2, <1>3, <1>4, <1>5 DEF EventsToCome

\* A post to the central queue joins the line, or the line is that long already.
LEMMA PostJoins ==
  ASSUME QueuesOK, NEW e \in Events,
         central_queue' = Posted(central_queue, e), UNCHANGED <<fsm_queue, forwarding>>
  PROVE  /\ Line!Joins(e)
         /\ Full(central_queue) => UNCHANGED EventsToCome
<1>1. CASE Full(central_queue)
  <2>1. UNCHANGED EventsToCome
    BY <1>1 DEF Posted, EventsToCome
  <2>2. Len(EventsToCome) >= DISPATCHER_QUEUE_DEPTH
    BY <1>1, LineTypes, DepthAssumption DEF Full
  <2>. QED
    BY <2>1, <2>2 DEF Line!Joins
<1>2. CASE ~Full(central_queue)
  <2>1. fsm_queue \o forwarding \in Seq(Events) /\ central_queue \in Seq(Events)
    BY LineTypes, ConcatProperties
  <2>2. (fsm_queue \o forwarding) \o Append(central_queue, e)
          = Append((fsm_queue \o forwarding) \o central_queue, e)
    BY <2>1, JoinsBehind
  <2>3. EventsToCome' = Append(EventsToCome, e)
    BY <1>2, <2>2 DEF Posted, EventsToCome
  <2>. QED
    BY <1>2, <2>3 DEF Line!Joins
<1>. QED
  BY <1>1, <1>2

LEMMA LineStep == IInv /\ [Next]_vars => [Line!Next]_(Line!vars)
<1>. SUFFICES ASSUME IInv, [Next]_vars
              PROVE  Line!Next \/ UNCHANGED Line!vars
  OBVIOUS
<1>. DEFINE Door == <<state, fault_code, emergency_lock, obstruction_active,
                      homing_complete, motor, hot_reversal, stall_timer, stall_lost,
                      nvs, nvs_ret>>
<1>0. /\ QueuesOK /\ Len(fsm_queue) \in Nat
      /\ fsm_queue \in Seq(Events) /\ forwarding \in Seq(Events)
      /\ central_queue \in Seq(Events)
  BY LineTypes DEF IInv
<1>a. UNCHANGED fsm => UNCHANGED Door
  BY DEF fsm, ctx, drive, store
<1>b. UNCHANGED Door => UNCHANGED Line!door
  BY DEF Line!door, Line!ctx, Line!drive, Line!store
<1>c. UNCHANGED <<Door, EventsToCome, injecting, inputs>> => UNCHANGED Line!vars
  BY DEF Line!vars, Line!door, Line!ctx, Line!drive, Line!store
<1>. HIDE DEF Door
<1>1. ASSUME NEW e \in Inputs, Post(e)
      PROVE  Line!Next
  <2>1. e \in Events
    BY DEF Events
  <2>2. Line!Joins(e)
    BY <1>0, <1>1, <2>1, PostJoins DEF Post
  <2>3. Line!Input(e)
    BY <1>1, <1>a, <1>b, <2>2 DEF Post, Line!Input
  <2>. QED
    BY <2>3 DEF Line!Next
<1>2. CASE stall_timer_callback
  <2>1. "EVT_MOTOR_STALL" \in Events
    BY DEF Events
  <2>2. Line!Joins("EVT_MOTOR_STALL")
    BY <1>0, <1>2, <2>1, PostJoins DEF stall_timer_callback
  <2>3. Line!StallTimerExpires
    BY <1>2, <2>2 DEF stall_timer_callback, ctx, drive, store, bounds,
                      Line!StallTimerExpires, Line!ctx, Line!drive, Line!store
  <2>. QED
    BY <2>3 DEF Line!Next
<1>3. CASE DispatcherReceives
  <2>1. EventsToCome' = EventsToCome
    <3>1. (fsm_queue \o <<Head(central_queue)>>) \o Tail(central_queue)
            = (fsm_queue \o <<>>) \o central_queue
      BY <1>0, <1>3, HeadInHand DEF DispatcherReceives
    <3>. QED
      BY <1>3, <3>1 DEF DispatcherReceives, EventsToCome
  <2>. QED
    BY <1>3, <1>a, <1>c, <2>1 DEF DispatcherReceives, bounds
<1>4. CASE DispatcherForwards
  <2>. DEFINE h == Head(forwarding)
  <2>1. forwarding = <<h>> /\ h \in Events
    BY <1>0, <1>4, HandType, InputsForwarded DEF DispatcherForwards
  <2>2. CASE Full(fsm_queue)
    <3>1. (fsm_queue \o <<>>) \o central_queue
            = RemoveAt((fsm_queue \o <<h>>) \o central_queue, Len(fsm_queue) + 1)
      BY <1>0, <2>1, RemovedBehind
    <3>2. EventsToCome' = RemoveAt(EventsToCome, DISPATCHER_QUEUE_DEPTH + 1)
      BY <1>4, <2>1, <2>2, <3>1 DEF DispatcherForwards, Posted, Full, EventsToCome
    <3>3. Len(EventsToCome) > DISPATCHER_QUEUE_DEPTH
      <4>1. Len(<<h>>) = 1 /\ Len(central_queue) \in Nat
        BY <1>0
      <4>2. Len(EventsToCome) = Len(fsm_queue) + 1 + Len(central_queue)
        BY <1>0, <2>1, <4>1, LineTypes
      <4>3. Len(EventsToCome) = DISPATCHER_QUEUE_DEPTH + 1 + Len(central_queue)
        BY <2>2, <4>2 DEF Full
      <4>. QED
        BY <4>1, <4>3, DepthAssumption
    <3>4. Line!Lost
      BY <1>4, <3>2, <3>3 DEF DispatcherForwards, ctx, drive, store, bounds,
                              Line!Lost, Line!ctx, Line!drive, Line!store,
                              RemoveAt, Line!RemoveAt
    <3>. QED
      BY <3>4 DEF Line!Next
  <2>3. CASE ~Full(fsm_queue)
    <3>1. Append(fsm_queue, h) = fsm_queue \o <<h>> /\ fsm_queue \o <<h>> \in Seq(Events)
      BY <1>0, <2>1, AppendIsConcat, ConcatProperties
    <3>2. (fsm_queue \o <<h>>) \o <<>> = fsm_queue \o <<h>>
      BY <3>1, ConcatEmptySeq
    <3>3. EventsToCome' = EventsToCome
      BY <1>4, <2>1, <2>3, <3>1, <3>2 DEF DispatcherForwards, Posted, EventsToCome
    <3>4. UNCHANGED Door
      BY <1>4, <2>3 DEF DispatcherForwards, ctx, drive, store, Door
    <3>. QED
      BY <1>4, <1>c, <3>3, <3>4 DEF DispatcherForwards, bounds
  <2>. QED
    BY <2>2, <2>3
<1>5. CASE ControlTaskStarts
  <2>1. EventsToCome' = EventsToCome
    BY <1>5 DEF ControlTaskStarts, queues, EventsToCome
  <2>2. Line!Fsm!ControlTaskStarts
    BY <1>5 DEF ControlTaskStarts, Fsm!ControlTaskStarts, Line!Fsm!ControlTaskStarts,
                Fsm!fsm_start_homing, Line!Fsm!fsm_start_homing, Fsm!Motor, Line!Fsm!Motor,
                Fsm!Opposite, Line!Fsm!Opposite, Fsm!stall_timer_start,
                Line!Fsm!stall_timer_start, Fsm!store, Line!Fsm!store, Fsm!env, Line!Fsm!env
  <2>3. Line!ControlTaskStarts
    BY <1>5, <2>1, <2>2 DEF ControlTaskStarts, bounds, Line!ControlTaskStarts
  <2>. QED
    BY <2>3 DEF Line!Next
<1>6. CASE ControlTaskReceives
  <2>1. /\ EventsToCome # <<>>
        /\ Head(EventsToCome) = Head(fsm_queue)
        /\ Tail(EventsToCome) = (Tail(fsm_queue) \o forwarding) \o central_queue
    <3>1. fsm_queue # <<>>
      BY <1>6 DEF ControlTaskReceives
    <3>2. /\ (fsm_queue \o forwarding) \o central_queue # <<>>
          /\ Head((fsm_queue \o forwarding) \o central_queue) = Head(fsm_queue)
          /\ Tail((fsm_queue \o forwarding) \o central_queue)
               = (Tail(fsm_queue) \o forwarding) \o central_queue
      <4>1. /\ (fsm_queue \o forwarding) \o central_queue # <<>>
            /\ Head((fsm_queue \o forwarding) \o central_queue) = Head(fsm_queue)
        BY <1>0, <3>1, HeadTaken
      <4>2. Tail((fsm_queue \o forwarding) \o central_queue)
              = (Tail(fsm_queue) \o forwarding) \o central_queue
        BY <1>0, <3>1, TailLeft
      <4>. QED
        BY <4>1, <4>2
    <3>. QED
      BY <3>2 DEF EventsToCome
  <2>2. EventsToCome' = Tail(EventsToCome)
    BY <1>6, <2>1 DEF ControlTaskReceives, EventsToCome
  <2>3. Line!Fsm!fsm_process_event(Head(EventsToCome))
    BY <1>6, <2>1, LineHandlers DEF ControlTaskReceives
  <2>4. Line!Fsm!Running
    BY <1>6 DEF ControlTaskReceives, Fsm!Running, Line!Fsm!Running
  <2>5. Line!Handled
    BY <1>6, <2>1, <2>2, <2>3, <2>4 DEF ControlTaskReceives, bounds, Line!Handled
  <2>. QED
    BY <2>5 DEF Line!Next
<1>7. CASE InjectBootFault
  <2>. DEFINE f == Len(fsm_queue)
  <2>1. "EVT_FAULT_PERSIST" \in Events
    BY DEF Events
  <2>. DEFINE rest == forwarding \o central_queue
              e    == "EVT_FAULT_PERSIST"
  <2>2. /\ SubSeq(EventsToCome, 1, f) = fsm_queue
        /\ SubSeq(EventsToCome, f + 1, Len(EventsToCome)) = rest
        /\ EventsToCome' = (fsm_queue \o <<e>>) \o rest
    <3>1. rest \in Seq(Events) /\ EventsToCome = fsm_queue \o rest
      BY <1>0, ConcatProperties, ConcatAssociative DEF EventsToCome
    <3>2. SubSeq(fsm_queue \o rest, 1, f) = fsm_queue
      BY <1>0, <3>1, PartsOf
    <3>3. SubSeq(fsm_queue \o rest, f + 1, Len(fsm_queue \o rest)) = rest
      BY <1>0, <3>1, PartsOf
    <3>4. <<e>> \in Seq(Events) /\ fsm_queue \o <<e>> \in Seq(Events)
      BY <1>0, <2>1, ConcatProperties
    <3>5. Append(fsm_queue, e) = fsm_queue \o <<e>>
      BY <1>0, <2>1, AppendIsConcat
    <3>6. ((fsm_queue \o <<e>>) \o forwarding) \o central_queue = (fsm_queue \o <<e>>) \o rest
      BY <1>0, <3>4, ConcatAssociative
    <3>. QED
      BY <1>7, <3>1, <3>2, <3>3, <3>5, <3>6 DEF InjectBootFault, EventsToCome
  <2>3. EventsToCome' = InsertAt(EventsToCome, f + 1, "EVT_FAULT_PERSIST")
    <3>1. (f + 1) - 1 = f
      BY <1>0
    <3>. QED
      BY <2>2, <3>1 DEF InsertAt
  <2>4. f + 1 \in 1..DISPATCHER_QUEUE_DEPTH /\ f + 1 <= Len(EventsToCome) + 1
    <3>1. f \in 0..DISPATCHER_QUEUE_DEPTH /\ f # DISPATCHER_QUEUE_DEPTH
      BY <1>0, <1>7, LineTypes DEF InjectBootFault, Full
    <3>2. Len(forwarding) \in Nat /\ Len(central_queue) \in Nat
      BY <1>0
    <3>3. Len(EventsToCome) = f + Len(forwarding) + Len(central_queue)
      BY <1>0, LineTypes
    <3>4. \A i \in 0..DISPATCHER_QUEUE_DEPTH : i # DISPATCHER_QUEUE_DEPTH
            => i + 1 \in 1..DISPATCHER_QUEUE_DEPTH
      BY DepthAssumption
    <3>5. \A i, j, k \in Nat : i + 1 <= i + j + k + 1
      OBVIOUS
    <3>. QED
      BY <1>0, <3>1, <3>2, <3>3, <3>4, <3>5, Zenon
  <2>5. Line!BootFaultJoins
    BY <1>7, <1>a, <1>b, <2>3, <2>4 DEF InjectBootFault, bounds, Line!BootFaultJoins,
                                                InsertAt, Line!InsertAt
  <2>. QED
    BY <2>5 DEF Line!Next
<1>8. CASE InjectTimesOut
  <2>1. EventsToCome' = EventsToCome
    BY <1>8 DEF InjectTimesOut, queues, EventsToCome
  <2>2. Len(EventsToCome) >= DISPATCHER_QUEUE_DEPTH
    <3>1. Len(forwarding) \in Nat /\ Len(central_queue) \in Nat
      BY <1>0
    <3>2. Len(EventsToCome) = Len(fsm_queue) + Len(forwarding) + Len(central_queue)
      BY <1>0, LineTypes
    <3>. QED
      BY <1>8, <3>1, <3>2, DepthAssumption DEF InjectTimesOut, Full
  <2>3. Line!BootFaultRefused
    BY <1>8, <1>a, <1>b, <2>1, <2>2 DEF InjectTimesOut, bounds, Line!BootFaultRefused
  <2>. QED
    BY <2>3 DEF Line!Next
<1>9. CASE Reboot
  <2>1. (<<>> \o <<>>) \o <<>> = <<>>
    BY ConcatEmptySeq
  <2>2. EventsToCome' = <<>>
    BY <1>9, <2>1 DEF Reboot, EventsToCome
  <2>3. Line!PowerCycle
    BY <1>9, <2>2 DEF Reboot, Fsm!Reboot, Line!PowerCycle
  <2>. QED
    BY <2>3 DEF Line!Next
<1>10. CASE UNCHANGED vars
  <2>1. UNCHANGED <<fsm, EventsToCome, injecting, inputs>>
    BY <1>10 DEF vars, queues, bounds, EventsToCome
  <2>. QED
    BY <1>a, <1>c, <2>1
<1>. QED
  BY <1>1, <1>2, <1>3, <1>4, <1>5, <1>6, <1>7, <1>8, <1>9, <1>10 DEF Next

\* The handler gets the events that were posted, each at most once and in the order
\* they were posted, the boot fault excepted; what is lost is never one of the oldest
\* DISPATCHER_QUEUE_DEPTH events, whatever the depth.
THEOREM QueuesAreALine == Spec => LineSpec
<1>1. Init => Line!Init
  <2>1. (<<>> \o <<>>) \o <<>> = <<>>
    BY ConcatEmptySeq
  <2>2. Fsm!Init => Line!Fsm!Init
    BY DEF Fsm!Init, Line!Fsm!Init, Fsm!BlankStore, Line!Fsm!BlankStore,
           Fsm!BlankRecord, Line!Fsm!BlankRecord
  <2>. QED
    BY <2>1, <2>2 DEF Init, Line!Init, EventsToCome
<1>2. Spec => []IInv
  BY QueuesInit, QueuesStep, PTL DEF Spec
<1>. QED
  BY <1>1, <1>2, LineStep, PTL DEF Spec, LineSpec, Line!Spec
=============================================================================
