--------------------------- MODULE TxQueue_proofs ---------------------------
(***************************************************************************)
(* Proofs about TxQueue, for any number of calling tasks, any depth of the *)
(* queue, any grain of the copy and any number of calls.                   *)
(***************************************************************************)
EXTENDS TxQueue, TLAPS

-----------------------------------------------------------------------------
(* The inductive invariant.                                                *)

InCall(t) == pc[t] # "IDLE"

\* Where a task is in hal_tx_enqueue agrees with its counters.
CountersInv ==
  \A t \in Callers :
    /\ InCall(t) => calls[t] > 0
    /\ pc[t] = "COPY" => copied[t] < Parts

\* Two tasks that are inside hal_tx_enqueue together have both been noted.
OverlapInv ==
  \A t, u \in Callers : t # u /\ InCall(t) /\ InCall(u) => Message(t) \in met

\* What a call that is still alone has copied is in the buffer.
BufferInv ==
  \A t \in Callers :
    InCall(t) /\ Message(t) \notin met =>
      /\ pc[t] = "COPY" => \A p \in 1..copied[t] : msg_buf[p] = Message(t)
      /\ pc[t] # "COPY" => msg_buf = Whole(Message(t))

\* The place a call that is still alone has made is free.
RoomInv ==
  \A t \in Callers : pc[t] = "RETRY" /\ Message(t) \notin met => ~Full

\* Only a call that has returned has its message in the queue.
ReturnedInv == \A i \in 1..Len(tx_queue) : Returned(tx_queue[i].call)

\* The messages of one task are queued in the order of its calls.
OrderInv ==
  \A i, j \in 1..Len(tx_queue) :
    i < j /\ tx_queue[i].call[1] = tx_queue[j].call[1]
      => tx_queue[i].call[2] < tx_queue[j].call[2]

IInv ==
  /\ TypeOK
  /\ CountersInv
  /\ OverlapInv
  /\ BufferInv
  /\ RoomInv
  /\ AloneWhole
  /\ RefusedMet
  /\ ReturnedInv
  /\ OrderInv
  /\ StaleGoesFirst

-----------------------------------------------------------------------------
(* Type correctness.                                                       *)

USE TxAssumption

\* A task inside hal_tx_enqueue has a message.
LEMMA MessageType ==
  ASSUME TypeOK, CountersInv, NEW t \in Callers, InCall(t)
  PROVE  Message(t) \in Messages
  BY DEF TypeOK, CountersInv, Message, Messages

\* What a send leaves behind: one more message, the caller's, at the back.
LEMMA QueuedType ==
  ASSUME TypeOK, CountersInv, NEW t \in Callers, InCall(t)
  PROVE  /\ Queued(t) \in Seq([text : Text, call : Messages])
         /\ Len(tx_queue) \in Nat
         /\ Len(Queued(t)) = Len(tx_queue) + 1
         /\ \A i \in 1..Len(tx_queue) : Queued(t)[i] = tx_queue[i]
         /\ Queued(t)[Len(tx_queue) + 1] = [text |-> msg_buf, call |-> Message(t)]
         /\ Queued(t)[Len(tx_queue) + 1].call = Message(t)
<1>1. [text |-> msg_buf, call |-> Message(t)] \in [text : Text, call : Messages]
  BY MessageType DEF TypeOK
<1>. DEFINE Entry == [text : Text, call : Messages]
            e == [text |-> msg_buf, call |-> Message(t)]
<1>2. e.call = Message(t)
  OBVIOUS
<1>3. tx_queue \in Seq(Entry) /\ e \in Entry /\ Queued(t) = Append(tx_queue, e)
  BY <1>1 DEF TypeOK, Queued
<1>. HIDE DEF Entry, e
<1>4. /\ Queued(t) \in Seq(Entry)
      /\ Len(tx_queue) \in Nat
      /\ Len(Queued(t)) = Len(tx_queue) + 1
      /\ \A i \in 1..Len(tx_queue) : Queued(t)[i] = tx_queue[i]
      /\ Queued(t)[Len(tx_queue) + 1] = e
  BY <1>3
<1>. QED
  BY <1>2, <1>4 DEF Entry, e

\* Every message of the queue was passed to a call.
LEMMA QueuedCalls ==
  ASSUME TypeOK
  PROVE  \A i \in 1..Len(tx_queue) : tx_queue[i].call \in Messages
<1>. DEFINE Entry == [text : Text, call : Messages]
<1>1. tx_queue \in Seq(Entry)
  BY DEF TypeOK
<1>2. \A e \in Entry : e.call \in Messages
  OBVIOUS
<1>. HIDE DEF Entry
<1>3. \A i \in 1..Len(tx_queue) : tx_queue[i] \in Entry
  BY <1>1
<1>. QED
  BY <1>2, <1>3

\* A message that is sent changes the queue.
LEMMA QueuedGrows ==
  ASSUME TypeOK, CountersInv, NEW t \in Callers, InCall(t)
  PROVE  Queued(t) # tx_queue
<1>1. Len(Queued(t)) = Len(tx_queue) + 1 /\ Len(tx_queue) \in Nat
  BY QueuedType
<1>. QED
  BY <1>1

\* What the head's leaving does: the rest moves up by one place.
LEMMA TailMoves ==
  ASSUME TypeOK, tx_queue # <<>>
  PROVE  /\ Len(tx_queue) \in Nat
         /\ Len(Tail(tx_queue)) = Len(tx_queue) - 1
         /\ \A i \in 1..Len(Tail(tx_queue)) :
              i + 1 \in 1..Len(tx_queue) /\ Tail(tx_queue)[i] = tx_queue[i + 1]
  BY DEF TypeOK

LEMMA TypeStep == TypeOK /\ CountersInv /\ [Next]_vars => TypeOK' /\ CountersInv'
<1>. SUFFICES ASSUME TypeOK, CountersInv, [Next]_vars
              PROVE  TypeOK' /\ CountersInv'
  OBVIOUS
<1>1. ASSUME NEW t \in Callers, Call(t)
      PROVE  TypeOK' /\ CountersInv'
  <2>1. <<t, calls'[t]>> \in Messages
    BY <1>1 DEF Call, TypeOK, Messages
  <2>2. \A u \in Callers : pc[u] # "IDLE" => Message(u) \in Messages
    BY MessageType DEF InCall
  <2>3. met' \subseteq Messages
    BY <1>1, <2>1, <2>2 DEF Call, TypeOK
  <2>. QED
    BY <1>1, <2>1, <2>3 DEF Call, Goto, TypeOK, CountersInv, InCall
<1>2. ASSUME NEW t \in Callers, Copy(t)
      PROVE  TypeOK' /\ CountersInv'
  <2>1. Message(t) \in Messages
    BY <1>2, MessageType DEF Copy, InCall
  <2>2. copied'[t] \in 1..Parts
    BY <1>2 DEF Copy, TypeOK, CountersInv
  <2>3. msg_buf' \in Text
    BY <1>2, <2>1, <2>2 DEF Copy, TypeOK, Text
  <2>. QED
    BY <1>2, <2>2, <2>3 DEF Copy, Goto, TypeOK, CountersInv, InCall
<1>3. ASSUME NEW t \in Callers, Send(t)
      PROVE  TypeOK' /\ CountersInv'
  <2>1. /\ tx_queue' \in Seq([text : Text, call : Messages])
        /\ Len(tx_queue') <= UART_TX_QUEUE_DEPTH
    <3>1. InCall(t)
      BY <1>3 DEF Send, InCall
    <3>2. /\ Queued(t) \in Seq([text : Text, call : Messages])
          /\ Len(Queued(t)) = Len(tx_queue) + 1
      BY <3>1, QueuedType
    <3>. QED
      BY <1>3, <3>2 DEF Send, Full, TypeOK
  <2>. QED
    BY <1>3, <2>1 DEF Send, Goto, TypeOK, CountersInv, InCall
<1>4. ASSUME NEW t \in Callers, DropOldest(t)
      PROVE  TypeOK' /\ CountersInv'
  <2>1. /\ tx_queue' \in Seq([text : Text, call : Messages])
        /\ Len(tx_queue') <= UART_TX_QUEUE_DEPTH
    BY <1>4 DEF DropOldest, TypeOK
  <2>. QED
    BY <1>4, <2>1 DEF DropOldest, Goto, TypeOK, CountersInv, InCall
<1>5. ASSUME NEW t \in Callers, Retry(t)
      PROVE  TypeOK' /\ CountersInv'
  <2>1. /\ tx_queue' \in Seq([text : Text, call : Messages])
        /\ Len(tx_queue') <= UART_TX_QUEUE_DEPTH
    <3>1. InCall(t)
      BY <1>5 DEF Retry, InCall
    <3>2. /\ Queued(t) \in Seq([text : Text, call : Messages])
          /\ Len(Queued(t)) = Len(tx_queue) + 1
      BY <3>1, QueuedType
    <3>. QED
      BY <1>5, <3>2 DEF Retry, Full, TypeOK
  <2>2. Message(t) \in Messages
    BY <1>5, MessageType DEF Retry, InCall
  <2>. QED
    BY <1>5, <2>1, <2>2 DEF Retry, Goto, TypeOK, CountersInv, InCall
<1>6. CASE Transmit
  <2>1. /\ tx_queue' \in Seq([text : Text, call : Messages])
        /\ Len(tx_queue') <= UART_TX_QUEUE_DEPTH
    BY <1>6 DEF Transmit, TypeOK
  <2>2. Head(tx_queue) \in [text : Text, call : Messages]
    <3>. DEFINE R == [text : Text, call : Messages]
    <3>. HIDE DEF R
    <3>1. tx_queue \in Seq(R) /\ tx_queue # <<>>
      BY <1>6 DEF Transmit, TypeOK, R
    <3>2. Head(tx_queue) \in R
      BY <3>1
    <3>. QED
      BY <3>2 DEF R
  <2>3. written' \in Text
    BY <1>6, <2>2 DEF Transmit
  <2>. QED
    BY <1>6, <2>1, <2>3 DEF Transmit, TypeOK, CountersInv, InCall
<1>7. CASE UNCHANGED vars
  BY <1>7 DEF vars, TypeOK, CountersInv, InCall
<1>. QED
  BY <1>1, <1>2, <1>3, <1>4, <1>5, <1>6, <1>7 DEF Next, Enqueue

LEMMA InitType == Init => TypeOK /\ CountersInv
  BY DEF Init, TypeOK, CountersInv, InCall, Whole, Text, Messages, NoMessage

-----------------------------------------------------------------------------
(* What a step may do.                                                     *)

\* A task that has not just called is where it was or was already inside; only a
\* new call changes the counters and the record of overlaps.
LEMMA StepInside ==
  ASSUME TypeOK, [Next]_vars
  PROVE  \/ \E t \in Callers : Call(t)
         \/ /\ calls' = calls
            /\ met' = met
            /\ \A u \in Callers : InCall(u)' => InCall(u)
<1>1. CASE \E t \in Callers : Copy(t) \/ Send(t) \/ DropOldest(t) \/ Retry(t)
  BY <1>1 DEF Copy, Send, DropOldest, Retry, Goto, InCall, TypeOK
<1>2. CASE Transmit \/ UNCHANGED vars
  BY <1>2 DEF Transmit, vars, InCall
<1>. QED
  BY <1>1, <1>2 DEF Next, Enqueue

\* The queue is kept, or takes the message of one call that returns, or loses its
\* oldest message.
LEMMA QueueStep ==
  ASSUME TypeOK, CountersInv, [Next]_vars
  PROVE  \/ tx_queue' = tx_queue
         \/ \E t \in Callers :
              /\ InCall(t)
              /\ pc[t] # "COPY"
              /\ ~Full
              /\ tx_queue' = Queued(t)
              /\ pc' = [pc EXCEPT ![t] = "IDLE"]
              /\ UNCHANGED <<calls, met, refused>>
         \/ /\ tx_queue # <<>>
            /\ tx_queue' = Tail(tx_queue)
            /\ \A u \in Callers : pc'[u] = "IDLE" <=> pc[u] = "IDLE"
            /\ UNCHANGED <<calls, met, refused>>
<1>1. ASSUME NEW t \in Callers, Call(t) \/ Copy(t)
      PROVE  tx_queue' = tx_queue
  BY <1>1 DEF Call, Copy
<1>2. ASSUME NEW t \in Callers, Send(t) \/ Retry(t), tx_queue' # tx_queue
      PROVE  /\ InCall(t)
             /\ pc[t] # "COPY"
             /\ ~Full
             /\ tx_queue' = Queued(t)
             /\ pc' = [pc EXCEPT ![t] = "IDLE"]
             /\ UNCHANGED <<calls, met, refused>>
  BY <1>2 DEF Send, Retry, Goto, InCall
<1>3. ASSUME NEW t \in Callers, DropOldest(t), tx_queue' # tx_queue
      PROVE  /\ tx_queue # <<>>
             /\ tx_queue' = Tail(tx_queue)
             /\ \A u \in Callers : pc'[u] = "IDLE" <=> pc[u] = "IDLE"
             /\ UNCHANGED <<calls, met, refused>>
  BY <1>3 DEF DropOldest, Goto, TypeOK
<1>4. CASE Transmit
  BY <1>4 DEF Transmit
<1>5. CASE UNCHANGED vars
  BY <1>5 DEF vars
<1>. QED
  BY <1>1, <1>2, <1>3, <1>4, <1>5 DEF Next, Enqueue

\* The histories only grow.
LEMMA HistoriesGrow ==
  ASSUME TypeOK, [Next]_vars
  PROVE  met \subseteq met' /\ refused \subseteq refused'
<1>1. ASSUME NEW t \in Callers, Call(t)
      PROVE  met \subseteq met' /\ refused \subseteq refused'
  BY <1>1 DEF Call
<1>2. ASSUME NEW t \in Callers, Copy(t) \/ Send(t) \/ DropOldest(t) \/ Retry(t)
      PROVE  met \subseteq met' /\ refused \subseteq refused'
  BY <1>2 DEF Copy, Send, DropOldest, Retry
<1>. QED
  BY <1>1, <1>2 DEF Next, Enqueue, Transmit, vars

-----------------------------------------------------------------------------
(* The calls that no other call has overlapped.                            *)

LEMMA OverlapStep == TypeOK /\ CountersInv /\ OverlapInv /\ [Next]_vars => OverlapInv'
<1>. SUFFICES ASSUME TypeOK, CountersInv, OverlapInv, [Next]_vars,
                     NEW u \in Callers, NEW w \in Callers,
                     u # w, InCall(u)', InCall(w)'
              PROVE  Message(u)' \in met'
  BY DEF OverlapInv
<1>1. ASSUME NEW t \in Callers, Call(t)
      PROVE  Message(u)' \in met'
  <2>1. CASE u = t
    <3>1. Message(w) \in { Message(v) : v \in { x \in Callers \ {t} : pc[x] # "IDLE" } }
      BY <1>1, <2>1 DEF Call, Goto, InCall, TypeOK
    <3>. QED
      BY <1>1, <2>1, <3>1 DEF Call, Message, TypeOK
  <2>2. CASE w = t
    <3>1. Message(u) \in { Message(v) : v \in { x \in Callers \ {t} : pc[x] # "IDLE" } }
      BY <1>1, <2>2 DEF Call, Goto, InCall, TypeOK
    <3>2. Message(u)' = Message(u)
      BY <1>1, <2>2 DEF Call, Message, TypeOK
    <3>. QED
      BY <1>1, <3>1, <3>2 DEF Call
  <2>3. CASE u # t /\ w # t
    <3>1. InCall(u) /\ InCall(w) /\ Message(u)' = Message(u)
      BY <1>1, <2>3 DEF Call, Goto, InCall, Message, TypeOK
    <3>. QED
      BY <3>1, HistoriesGrow DEF OverlapInv
  <2>. QED
    BY <2>1, <2>2, <2>3
<1>2. CASE ~ \E t \in Callers : Call(t)
  BY <1>2, StepInside DEF OverlapInv, Message
<1>. QED
  BY <1>1, <1>2

\* While a task inside hal_tx_enqueue is alone no other task takes a step there.
LEMMA AloneInside ==
  ASSUME OverlapInv, NEW u \in Callers, InCall(u), Message(u) \notin met,
         NEW t \in Callers, InCall(t)
  PROVE  t = u
  BY DEF OverlapInv

LEMMA BufferStep ==
  TypeOK /\ CountersInv /\ OverlapInv /\ BufferInv /\ [Next]_vars => BufferInv'
<1>. SUFFICES ASSUME TypeOK, CountersInv, OverlapInv, BufferInv, [Next]_vars,
                     NEW u \in Callers, InCall(u)', Message(u)' \notin met'
              PROVE  /\ pc'[u] = "COPY" => \A p \in 1..copied'[u] : msg_buf'[p] = Message(u)'
                     /\ pc'[u] # "COPY" => msg_buf' = Whole(Message(u)')
  BY DEF BufferInv, Whole
<1>. DEFINE Goal == /\ pc'[u] = "COPY" => \A p \in 1..copied'[u] : msg_buf'[p] = Message(u)'
                    /\ pc'[u] # "COPY" => msg_buf' = Whole(Message(u)')
<1>1. ASSUME NEW t \in Callers, Call(t)
      PROVE  Goal
  <2>1. CASE u = t
    BY <1>1, <2>1 DEF Call, Goto, TypeOK
  <2>2. CASE u # t
    <3>1. /\ InCall(u)
          /\ UNCHANGED <<Message(u), pc[u], copied[u], msg_buf>>
      BY <1>1, <2>2 DEF Call, Goto, InCall, Message, TypeOK
    <3>. QED
      BY <3>1, HistoriesGrow DEF BufferInv
  <2>. QED
    BY <2>1, <2>2
<1>2. ASSUME ~ \E t \in Callers : Call(t)
      PROVE  InCall(u) /\ Message(u)' = Message(u) /\ Message(u) \notin met
  BY <1>2, StepInside DEF Message
<1>3. ASSUME NEW t \in Callers, Copy(t), InCall(u), Message(u)' = Message(u), Message(u) \notin met
      PROVE  Goal
  <2>1. t = u /\ pc[u] = "COPY"
    BY <1>3, AloneInside DEF Copy, InCall
  <2>2. /\ copied'[u] = copied[u] + 1
        /\ copied'[u] \in 1..Parts
        /\ msg_buf' = [msg_buf EXCEPT ![copied'[u]] = Message(u)]
        /\ pc'[u] = IF copied'[u] = Parts THEN "SEND" ELSE "COPY"
    BY <1>3, <2>1 DEF Copy, Goto, TypeOK, CountersInv
  <2>3. msg_buf \in [1..Parts -> Messages \cup {NoMessage}]
    BY DEF TypeOK, Text
  <2>4. \A p \in 1..copied'[u] : msg_buf'[p] = Message(u)
    BY <1>3, <2>1, <2>2, <2>3 DEF BufferInv, TypeOK
  <2>5. copied'[u] = Parts => msg_buf' = Whole(Message(u))
    BY <2>2, <2>3, <2>4 DEF Whole
  <2>. QED
    BY <1>3, <2>2, <2>4, <2>5
<1>4. ASSUME NEW t \in Callers, Send(t) \/ DropOldest(t) \/ Retry(t),
             InCall(u), Message(u)' = Message(u), Message(u) \notin met
      PROVE  Goal
  <2>1. t = u /\ pc[u] # "COPY"
    BY <1>4, AloneInside DEF Send, DropOldest, Retry, InCall
  <2>2. msg_buf' = msg_buf /\ pc'[u] # "COPY"
    BY <1>4, <2>1 DEF Send, DropOldest, Retry, Goto, TypeOK
  <2>. QED
    BY <1>4, <2>1, <2>2 DEF BufferInv
<1>5. CASE Transmit \/ UNCHANGED vars
  BY <1>5 DEF Transmit, vars, BufferInv, InCall, Message
<1>. QED
  BY <1>1, <1>2, <1>3, <1>4, <1>5 DEF Next, Enqueue

LEMMA RoomStep ==
  TypeOK /\ CountersInv /\ OverlapInv /\ RoomInv /\ [Next]_vars => RoomInv'
<1>. SUFFICES ASSUME TypeOK, CountersInv, OverlapInv, RoomInv, [Next]_vars,
                     NEW u \in Callers, pc'[u] = "RETRY", Message(u)' \notin met'
              PROVE  ~Full'
  BY DEF RoomInv
<1>1. ASSUME NEW t \in Callers, Call(t)
      PROVE  ~Full'
  <2>1. u # t /\ pc[u] = "RETRY" /\ Message(u)' = Message(u)
    BY <1>1 DEF Call, Goto, Message, TypeOK
  <2>. QED
    BY <1>1, <2>1, HistoriesGrow DEF Call, RoomInv, Full
<1>2. ASSUME ~ \E t \in Callers : Call(t)
      PROVE  InCall(u) /\ Message(u) \notin met
  BY <1>2, StepInside DEF Message, InCall
<1>3. ASSUME NEW t \in Callers, Copy(t) \/ Send(t) \/ Retry(t),
             InCall(u), Message(u) \notin met
      PROVE  FALSE
  <2>1. t = u
    BY <1>3, AloneInside DEF Copy, Send, Retry, InCall
  <2>. QED
    BY <1>3, <2>1 DEF Copy, Send, Retry, Goto, TypeOK
<1>4. ASSUME NEW t \in Callers, DropOldest(t)
      PROVE  ~Full'
  <2>1. tx_queue = <<>> => Len(tx_queue) = 0
    OBVIOUS
  <2>2. tx_queue # <<>> => Len(Tail(tx_queue)) = Len(tx_queue) - 1
    BY DEF TypeOK
  <2>3. Len(tx_queue) \in Nat /\ UART_TX_QUEUE_DEPTH \in Nat \ {0}
    BY DEF TypeOK
  <2>. QED
    BY <1>4, <2>1, <2>2, <2>3 DEF DropOldest, Full, TypeOK
<1>5. CASE Transmit
  <2>1. Len(tx_queue') = Len(tx_queue) - 1
    BY <1>5 DEF Transmit, TypeOK
  <2>2. Len(tx_queue) \in Nat
    BY DEF TypeOK
  <2>. QED
    BY <2>1, <2>2 DEF Full, TypeOK
<1>6. CASE UNCHANGED vars
  BY <1>6 DEF vars, RoomInv, Full, Message
<1>. QED
  BY <1>1, <1>2, <1>3, <1>4, <1>5, <1>6 DEF Next, Enqueue

\* Only a task that has found the queue full after making room is refused.
LEMMA RefusedMetStep ==
  TypeOK /\ RoomInv /\ RefusedMet /\ [Next]_vars => RefusedMet'
<1>. SUFFICES ASSUME TypeOK, RoomInv, RefusedMet, [Next]_vars
              PROVE  RefusedMet'
  OBVIOUS
<1>1. ASSUME NEW t \in Callers, Retry(t)
      PROVE  RefusedMet'
  BY <1>1 DEF Retry, RoomInv, RefusedMet
<1>2. ASSUME NEW t \in Callers, Call(t) \/ Copy(t) \/ Send(t) \/ DropOldest(t)
      PROVE  refused' = refused
  BY <1>2 DEF Call, Copy, Send, DropOldest
<1>. QED
  BY <1>1, <1>2, HistoriesGrow DEF Next, Enqueue, Transmit, vars, RefusedMet

LEMMA AloneWholeStep ==
  TypeOK /\ CountersInv /\ BufferInv /\ AloneWhole /\ [Next]_vars => AloneWhole'
<1>. SUFFICES ASSUME TypeOK, CountersInv, BufferInv, AloneWhole, [Next]_vars
              PROVE  AloneWhole'
  OBVIOUS
<1>1. CASE tx_queue' = tx_queue
  BY <1>1, HistoriesGrow DEF AloneWhole, Whole
<1>2. ASSUME NEW t \in Callers, InCall(t), pc[t] # "COPY", tx_queue' = Queued(t), met' = met
      PROVE  AloneWhole'
  <2>1. Message(t) \notin met => msg_buf = Whole(Message(t))
    BY <1>2 DEF BufferInv
  <2>2. /\ Len(tx_queue') = Len(tx_queue) + 1
        /\ \A i \in 1..Len(tx_queue) : tx_queue'[i] = tx_queue[i]
        /\ tx_queue'[Len(tx_queue) + 1] = [text |-> msg_buf, call |-> Message(t)]
        /\ Len(tx_queue) \in Nat
    BY <1>2, QueuedType
  <2>3. ASSUME NEW i \in 1..Len(tx_queue'), tx_queue'[i].call \notin met
        PROVE  tx_queue'[i].text = Whole(tx_queue'[i].call)
    <3>1. CASE i \in 1..Len(tx_queue)
      BY <2>2, <2>3, <3>1 DEF AloneWhole
    <3>2. CASE i = Len(tx_queue) + 1
      BY <2>1, <2>2, <2>3, <3>2
    <3>. QED
      BY <2>2, <3>1, <3>2
  <2>. QED
    BY <1>2, <2>3 DEF AloneWhole, Whole
<1>3. ASSUME tx_queue # <<>>, tx_queue' = Tail(tx_queue), met' = met
      PROVE  AloneWhole'
  <2>1. /\ Len(tx_queue') = Len(tx_queue) - 1
        /\ \A i \in 1..Len(tx_queue') : tx_queue'[i] = tx_queue[i + 1]
        /\ Len(tx_queue) \in Nat
    BY <1>3, TailMoves
  <2>2. ASSUME NEW i \in 1..Len(tx_queue'), tx_queue'[i].call \notin met
        PROVE  tx_queue'[i].text = Whole(tx_queue'[i].call)
    <3>1. i + 1 \in 1..Len(tx_queue)
      BY <2>1
    <3>. QED
      BY <2>1, <2>2, <3>1 DEF AloneWhole
  <2>. QED
    BY <1>3, <2>2 DEF AloneWhole, Whole
<1>. QED
  BY <1>1, <1>2, <1>3, QueueStep

-----------------------------------------------------------------------------
(* The order of the queue.                                                 *)

\* A call that has returned stays so, as do the numbers of the calls.
LEMMA ReturnedStays ==
  ASSUME TypeOK, [Next]_vars, NEW m \in Messages, Returned(m)
  PROVE  Returned(m)'
<1>1. m[1] \in Callers /\ m[2] \in Nat
  BY DEF Messages
<1>2. ASSUME NEW t \in Callers, Call(t)
      PROVE  Returned(m)'
  BY <1>1, <1>2 DEF Call, Goto, Returned, TypeOK
<1>3. CASE ~ \E t \in Callers : Call(t)
  BY <1>1, <1>3, StepInside DEF Returned, InCall
<1>. QED
  BY <1>2, <1>3

LEMMA ReturnedStep ==
  TypeOK /\ CountersInv /\ ReturnedInv /\ [Next]_vars => ReturnedInv'
<1>. SUFFICES ASSUME TypeOK, CountersInv, ReturnedInv, [Next]_vars
              PROVE  ReturnedInv'
  OBVIOUS
<1>1. \A i \in 1..Len(tx_queue) : tx_queue[i].call \in Messages
  BY QueuedCalls
<1>2. \A m \in Messages : Returned(m) => Returned(m)'
  BY ReturnedStays
<1>3. CASE tx_queue' = tx_queue
  BY <1>1, <1>2, <1>3 DEF ReturnedInv, Returned
<1>4. ASSUME NEW t \in Callers, InCall(t), tx_queue' = Queued(t),
             pc' = [pc EXCEPT ![t] = "IDLE"], calls' = calls
      PROVE  ReturnedInv'
  <2>1. /\ Len(tx_queue') = Len(tx_queue) + 1
        /\ \A i \in 1..Len(tx_queue) : tx_queue'[i] = tx_queue[i]
        /\ tx_queue'[Len(tx_queue) + 1].call = Message(t)
        /\ Len(tx_queue) \in Nat
    BY <1>4, QueuedType
  <2>2. ASSUME NEW i \in 1..Len(tx_queue'), NEW m, m = tx_queue'[i].call
        PROVE  Returned(m)'
    <3>1. CASE i \in 1..Len(tx_queue)
      BY <1>1, <1>2, <2>1, <2>2, <3>1 DEF ReturnedInv
    <3>2. CASE i = Len(tx_queue) + 1
      BY <1>4, <2>1, <2>2, <3>2 DEF Returned, Message, TypeOK
    <3>. QED
      BY <2>1, <3>1, <3>2
  <2>. QED
    BY <2>2 DEF ReturnedInv, Returned
<1>5. ASSUME tx_queue # <<>>, tx_queue' = Tail(tx_queue)
      PROVE  ReturnedInv'
  <2>1. \A i \in 1..Len(tx_queue') : i + 1 \in 1..Len(tx_queue) /\ tx_queue'[i] = tx_queue[i + 1]
    BY <1>5, TailMoves
  <2>2. ASSUME NEW i \in 1..Len(tx_queue'), NEW m, m = tx_queue'[i].call
        PROVE  Returned(m)'
    <3>1. i + 1 \in 1..Len(tx_queue) /\ m = tx_queue[i + 1].call
      BY <2>1, <2>2
    <3>. QED
      BY <1>1, <1>2, <3>1 DEF ReturnedInv
  <2>. QED
    BY <2>2 DEF ReturnedInv, Returned
<1>. QED
  BY <1>3, <1>4, <1>5, QueueStep

LEMMA OrderStep ==
  TypeOK /\ CountersInv /\ ReturnedInv /\ OrderInv /\ [Next]_vars => OrderInv'
<1>. SUFFICES ASSUME TypeOK, CountersInv, ReturnedInv, OrderInv, [Next]_vars
              PROVE  OrderInv'
  OBVIOUS
<1>1. CASE tx_queue' = tx_queue
  BY <1>1 DEF OrderInv
<1>2. ASSUME NEW t \in Callers, InCall(t), tx_queue' = Queued(t)
      PROVE  OrderInv'
  <2>1. /\ Len(tx_queue') = Len(tx_queue) + 1
        /\ \A i \in 1..Len(tx_queue) : tx_queue'[i] = tx_queue[i]
        /\ tx_queue'[Len(tx_queue) + 1].call = Message(t)
        /\ Len(tx_queue) \in Nat
    BY <1>2, QueuedType
  <2>2. \A i \in 1..Len(tx_queue) :
          /\ tx_queue[i].call \in Messages
          /\ tx_queue[i].call[1] = t => tx_queue[i].call[2] < calls[t]
    <3>1. \A i \in 1..Len(tx_queue) : tx_queue[i].call \in Messages
      BY QueuedCalls
    <3>. QED
      BY <1>2, <3>1 DEF ReturnedInv, Returned, InCall
  <2>3. ASSUME NEW i \in 1..Len(tx_queue'), NEW j \in 1..Len(tx_queue'), i < j,
               tx_queue'[i].call[1] = tx_queue'[j].call[1]
        PROVE  tx_queue'[i].call[2] < tx_queue'[j].call[2]
    <3>1. i \in 1..Len(tx_queue)
      BY <2>1, <2>3
    <3>2. CASE j \in 1..Len(tx_queue)
      BY <2>1, <2>3, <3>1, <3>2 DEF OrderInv
    <3>3. CASE j = Len(tx_queue) + 1
      BY <2>1, <2>2, <2>3, <3>1, <3>3 DEF Message
    <3>. QED
      BY <2>1, <3>2, <3>3
  <2>. QED
    BY <2>3 DEF OrderInv
<1>3. ASSUME tx_queue # <<>>, tx_queue' = Tail(tx_queue)
      PROVE  OrderInv'
  <2>1. \A i \in 1..Len(tx_queue') : i + 1 \in 1..Len(tx_queue) /\ tx_queue'[i] = tx_queue[i + 1]
    BY <1>3, TailMoves
  <2>2. ASSUME NEW i \in 1..Len(tx_queue'), NEW j \in 1..Len(tx_queue'), i < j,
               tx_queue'[i].call[1] = tx_queue'[j].call[1]
        PROVE  tx_queue'[i].call[2] < tx_queue'[j].call[2]
    <3>1. /\ tx_queue'[i] = tx_queue[i + 1]
          /\ tx_queue'[j] = tx_queue[j + 1]
          /\ i + 1 < j + 1
      BY <2>1, <2>2
    <3>. QED
      BY <2>1, <2>2, <3>1 DEF OrderInv
  <2>. QED
    BY <2>2 DEF OrderInv
<1>. QED
  BY <1>1, <1>2, <1>3, QueueStep

\* A message that leaves the queue is older than every one of its task that stays;
\* a message that returns at this step is put behind them, or refused.
LEMMA StaleStep ==
  /\ TypeOK /\ CountersInv /\ ReturnedInv /\ OrderInv /\ StaleGoesFirst /\ [Next]_vars
  => StaleGoesFirst'
<1>. SUFFICES ASSUME TypeOK, CountersInv, ReturnedInv, OrderInv, StaleGoesFirst, [Next]_vars,
                     NEW m \in Messages, NEW n \in Messages,
                     m[1] = n[1], m[2] < n[2], Kept(m)', Returned(n)', n \notin refused'
              PROVE  Kept(n)'
  BY DEF StaleGoesFirst
<1>1. n \notin refused
  BY HistoriesGrow
<1>2. n[1] \in Callers /\ n[2] \in Nat /\ m[2] \in Nat
  BY DEF Messages
<1>3. \A i \in 1..Len(tx_queue) : tx_queue[i].call \in Messages
  BY QueuedCalls
<1>4. CASE tx_queue' = tx_queue
  <2>1. Kept(m) /\ (Kept(n) => Kept(n)')
    BY <1>4 DEF Kept
  <2>2. ASSUME NEW t \in Callers, Call(t)
        PROVE  Returned(n)
    BY <1>2, <2>2 DEF Call, Goto, Returned, TypeOK
  <2>3. ASSUME NEW t \in Callers, Copy(t) \/ DropOldest(t) \/ Send(t)
        PROVE  Returned(n)
    <3>1. calls' = calls /\ (pc'[n[1]] = "IDLE" => pc[n[1]] = "IDLE")
      <4>1. CASE Copy(t) \/ DropOldest(t)
        BY <1>2, <4>1 DEF Copy, DropOldest, Goto, TypeOK
      <4>2. CASE Send(t)
        <5>1. InCall(t)
          BY <4>2 DEF Send, InCall
        <5>2. Queued(t) # tx_queue
          BY <5>1, QueuedGrows
        <5>. QED
          BY <1>2, <1>4, <4>2, <5>2 DEF Send, Goto, TypeOK
      <4>. QED
        BY <2>3, <4>1, <4>2
    <3>. QED
      BY <3>1 DEF Returned
  <2>4. ASSUME NEW t \in Callers, Retry(t)
        PROVE  Returned(n)
    <3>1. Message(t) \in refused'
      <4>1. InCall(t)
        BY <2>4 DEF Retry, InCall
      <4>2. Queued(t) # tx_queue
        BY <4>1, QueuedGrows
      <4>. QED
        BY <1>4, <2>4, <4>2 DEF Retry
    <3>2. n # <<t, calls[t]>>
      BY <3>1 DEF Message
    <3>3. n[1] = t => n[2] # calls[t]
      BY <3>2 DEF Messages
    <3>. QED
      BY <1>2, <2>4, <3>3 DEF Retry, Goto, Returned, TypeOK
  <2>5. ASSUME Transmit \/ UNCHANGED vars
        PROVE  Returned(n)
    <3>1. pc' = pc /\ calls' = calls
      BY <2>5 DEF Transmit, vars
    <3>. QED
      BY <3>1 DEF Returned
  <2>6. Returned(n)
    BY <2>2, <2>3, <2>4, <2>5 DEF Next, Enqueue
  <2>. QED
    BY <1>1, <2>1, <2>6 DEF StaleGoesFirst
<1>5. ASSUME NEW t \in Callers, InCall(t), tx_queue' = Queued(t),
             pc' = [pc EXCEPT ![t] = "IDLE"], calls' = calls
      PROVE  Kept(n)'
  <2>1. /\ Len(tx_queue') = Len(tx_queue) + 1
        /\ \A i \in 1..Len(tx_queue) : tx_queue'[i] = tx_queue[i]
        /\ tx_queue'[Len(tx_queue) + 1].call = Message(t)
        /\ Len(tx_queue) \in Nat
    BY <1>5, QueuedType
  <2>2. Kept(n) => Kept(n)'
    BY <2>1 DEF Kept
  <2>3. n = Message(t) => Kept(n)'
    BY <2>1 DEF Kept
  <2>4. Returned(n) \/ n = Message(t)
    <3>1. n = <<n[1], n[2]>>
      BY DEF Messages
    <3>. QED
      BY <1>2, <1>5, <3>1 DEF Returned, Message, TypeOK
  <2>5. Kept(m) \/ m = Message(t)
    BY <2>1 DEF Kept
  <2>6. CASE Returned(n) /\ m = Message(t)
    BY <1>2, <1>5, <2>6 DEF Returned, Message, InCall, TypeOK
  <2>. QED
    BY <1>1, <2>2, <2>3, <2>4, <2>5, <2>6 DEF StaleGoesFirst
<1>6. ASSUME tx_queue # <<>>, tx_queue' = Tail(tx_queue), calls' = calls,
             \A u \in Callers : pc'[u] = "IDLE" <=> pc[u] = "IDLE"
      PROVE  Kept(n)'
  <2>1. /\ Len(tx_queue') = Len(tx_queue) - 1
        /\ \A i \in 1..Len(tx_queue') : i + 1 \in 1..Len(tx_queue) /\ tx_queue'[i] = tx_queue[i + 1]
        /\ Len(tx_queue) \in Nat
    BY <1>6, TailMoves
  <2>2. PICK i \in 1..Len(tx_queue') : tx_queue[i + 1].call = m
    BY <2>1 DEF Kept
  <2>3. Kept(m)
    BY <2>1, <2>2 DEF Kept
  <2>4. Returned(n)
    BY <1>2, <1>6 DEF Returned
  <2>5. PICK j \in 1..Len(tx_queue) : tx_queue[j].call = n
    BY <1>1, <2>3, <2>4 DEF StaleGoesFirst, Kept
  <2>6. j > i + 1
    BY <1>2, <2>1, <2>2, <2>5 DEF OrderInv
  <2>7. j - 1 \in 1..Len(tx_queue') /\ tx_queue'[j - 1].call = n
    BY <2>1, <2>5, <2>6
  <2>. QED
    BY <2>7 DEF Kept
<1>. QED
  BY <1>4, <1>5, <1>6, QueueStep

-----------------------------------------------------------------------------
(* The theorems.                                                           *)

LEMMA InitIInv == Init => IInv
<1>. SUFFICES ASSUME Init
              PROVE  IInv
  OBVIOUS
<1>1. Len(tx_queue) = 0 /\ \A t \in Callers : pc[t] = "IDLE"
  BY DEF Init
<1>2. TypeOK /\ CountersInv
  BY InitType
<1>3. OverlapInv /\ BufferInv /\ RoomInv /\ RefusedMet
  BY <1>1 DEF Init, OverlapInv, BufferInv, RoomInv, RefusedMet, InCall
<1>4. AloneWhole /\ ReturnedInv /\ OrderInv /\ StaleGoesFirst
  BY <1>1 DEF AloneWhole, ReturnedInv, OrderInv, StaleGoesFirst, Kept
<1>. QED
  BY <1>2, <1>3, <1>4 DEF IInv

LEMMA StepIInv == IInv /\ [Next]_vars => IInv'
  BY TypeStep, OverlapStep, BufferStep, RoomStep, AloneWholeStep, RefusedMetStep,
     ReturnedStep, OrderStep, StaleStep DEF IInv

\* The invariant is inductive.
THEOREM Inductive == Spec => []IInv
  BY InitIInv, StepIInv, PTL DEF Spec

\* Every variable keeps its type and the queue its depth.
THEOREM TypeCorrect == Spec => []TypeOK
  BY Inductive, PTL DEF IInv

\* A message is torn only by a call that overlaps its own: a call of hal_tx_enqueue
\* that no other overlapped has queued its message whole.
THEOREM AloneIsWhole == Spec => []AloneWhole
  BY Inductive, PTL DEF IInv

\* hal_tx_enqueue returns pdFALSE only when another task's call has filled the place
\* it had made.
THEOREM RefusalTakesTwo == Spec => []RefusedMet
  BY Inductive, PTL DEF IInv

\* NFR-5: an overflow costs a task its older messages, never an accepted newer one
\* while an older one waits.
THEOREM StaleIsDropped == Spec => []StaleGoesFirst
  BY Inductive, PTL DEF IInv
=============================================================================
