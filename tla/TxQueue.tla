------------------------------- MODULE TxQueue -------------------------------
(***************************************************************************)
(* The transmit side of the HAL (src/src/hal/hal_uart_mock.c): the queue   *)
(* of messages to the supervisor, hal_tx_enqueue with which ControlTask,   *)
(* on one core, and HAL_RX, on the other, fill it, and the task that       *)
(* drains it.                                                              *)
(*                                                                         *)
(* hal_tx_enqueue copies its argument into one static buffer and sends     *)
(* from there.  Nothing keeps two calls apart, so the copy is made part by *)
(* part and each queue operation is a step of its own.  A message is named *)
(* by the call it was passed to; its text is the sequence of its parts.    *)
(***************************************************************************)
EXTENDS Naturals, Sequences, SequencesExt

CONSTANTS
  Callers,              \* the tasks that call hal_tx_enqueue
  UART_TX_QUEUE_DEPTH,  \* 8 in config.h
  Parts,                \* bound: in how many pieces strncpy copies a message
  MaxCalls              \* bound: calls of each task

ASSUME TxAssumption == {UART_TX_QUEUE_DEPTH, Parts, MaxCalls} \subseteq Nat \ {0}

VARIABLES
  msg_buf,   \* the static buffer: for each part, the message it is from
  tx_queue,  \* s_tx_queue: records of a text and the call that sent it
  pc,        \* where each caller is in hal_tx_enqueue
  calls,     \* how many calls each task has begun
  copied,    \* how many parts its present call has copied
  written,   \* history: what the transmit task has written last
  met,       \* history: the calls that overlapped another task's call
  refused,   \* history: the calls that returned pdFALSE
  newest     \* history: the message of the latest call

vars == <<msg_buf, tx_queue, pc, calls, copied, written, met, refused, newest>>

Message(t) == <<t, calls[t]>>

NoMessage == <<"none", 0>>

\* A message as its caller passed it.
Whole(m) == [p \in 1..Parts |-> m]

Full == Len(tx_queue) = UART_TX_QUEUE_DEPTH

Goto(t, label) == pc' = [pc EXCEPT ![t] = label]

-----------------------------------------------------------------------------

Init ==
  /\ msg_buf = Whole(NoMessage)
  /\ tx_queue = <<>>
  /\ pc = [t \in Callers |-> "IDLE"]
  /\ calls = [t \in Callers |-> 0]
  /\ copied = [t \in Callers |-> 0]
  /\ written = Whole(NoMessage)
  /\ met = {}
  /\ refused = {}
  /\ newest = NoMessage

\* A state message, a motor command, an ACK or a NACK.
Call(t) ==
  LET others == { Message(u) : u \in { v \in Callers \ {t} : pc[v] # "IDLE" } }
  IN  /\ pc[t] = "IDLE"
      /\ calls[t] < MaxCalls
      /\ Goto(t, "COPY")
      /\ calls' = [calls EXCEPT ![t] = @ + 1]
      /\ copied' = [copied EXCEPT ![t] = 0]
      /\ met' = IF others = {} THEN met ELSE met \cup others \cup {<<t, calls'[t]>>}
      /\ newest' = <<t, calls'[t]>>
      /\ UNCHANGED <<msg_buf, tx_queue, written, refused>>

\* Mutant: strncpy bounded by the size of a pointer.
CopyTruncated(t) ==
  /\ pc[t] = "COPY"
  /\ msg_buf' = [msg_buf EXCEPT ![1] = Message(t)]
  /\ copied' = [copied EXCEPT ![t] = Parts]
  /\ Goto(t, "SEND")
  /\ UNCHANGED <<tx_queue, calls, written, met, refused, newest>>

\* strncpy, one part of the message at a time.
Copy(t) ==
  /\ pc[t] = "COPY"
  /\ copied' = [copied EXCEPT ![t] = @ + 1]
  /\ msg_buf' = [msg_buf EXCEPT ![copied'[t]] = Message(t)]
  /\ Goto(t, IF copied'[t] = Parts THEN "SEND" ELSE "COPY")
  /\ UNCHANGED <<tx_queue, calls, written, met, refused, newest>>

Queued(t) == Append(tx_queue, [text |-> msg_buf, call |-> Message(t)])

\* Mutant: the caller waits for room.
SendBlocking(t) ==
  /\ pc[t] = "SEND"
  /\ ~Full
  /\ tx_queue' = Queued(t)
  /\ Goto(t, "IDLE")
  /\ UNCHANGED <<msg_buf, calls, copied, written, met, refused, newest>>

\* Mutant: a full queue keeps what it has.
SendOrForget(t) ==
  /\ pc[t] = "SEND"
  /\ tx_queue' = IF Full THEN tx_queue ELSE Queued(t)
  /\ Goto(t, "IDLE")
  /\ UNCHANGED <<msg_buf, calls, copied, written, met, refused, newest>>

\* The first xQueueSendToBack, which does not wait.
Send(t) ==
  /\ pc[t] = "SEND"
  /\ IF Full
       THEN Goto(t, "DROP") /\ UNCHANGED tx_queue
       ELSE Goto(t, "IDLE") /\ tx_queue' = Queued(t)
  /\ UNCHANGED <<msg_buf, calls, copied, written, met, refused, newest>>

\* Mutant: the newest message of the queue makes room.
DropNewest(t) ==
  /\ pc[t] = "DROP"
  /\ tx_queue' = IF tx_queue = <<>> THEN <<>> ELSE Front(tx_queue)
  /\ Goto(t, "RETRY")
  /\ UNCHANGED <<msg_buf, calls, copied, written, met, refused, newest>>

\* Mutant: nothing makes room.
DropNothing(t) ==
  /\ pc[t] = "DROP"
  /\ Goto(t, "RETRY")
  /\ UNCHANGED <<msg_buf, tx_queue, calls, copied, written, met, refused, newest>>

\* The oldest message is received and thrown away, if there still is one.
DropOldest(t) ==
  /\ pc[t] = "DROP"
  /\ tx_queue' = IF tx_queue = <<>> THEN <<>> ELSE Tail(tx_queue)
  /\ Goto(t, "RETRY")
  /\ UNCHANGED <<msg_buf, calls, copied, written, met, refused, newest>>

\* Mutant: the place is taken to be still free.
RetryAnyway(t) ==
  /\ pc[t] = "RETRY"
  /\ tx_queue' = Queued(t)
  /\ Goto(t, "IDLE")
  /\ UNCHANGED <<msg_buf, calls, copied, written, met, refused, newest>>

\* The second xQueueSendToBack, whose result is returned.
Retry(t) ==
  /\ pc[t] = "RETRY"
  /\ IF Full
       THEN refused' = refused \cup {Message(t)} /\ UNCHANGED tx_queue
       ELSE tx_queue' = Queued(t) /\ UNCHANGED refused
  /\ Goto(t, "IDLE")
  /\ UNCHANGED <<msg_buf, calls, copied, written, met, newest>>

\* hal_uart_tx_task: receive, then write to the UART.
Transmit ==
  /\ tx_queue # <<>>
  /\ tx_queue' = Tail(tx_queue)
  /\ written' = Head(tx_queue).text
  /\ UNCHANGED <<msg_buf, pc, calls, copied, met, refused, newest>>

Enqueue(t) == Copy(t) \/ Send(t) \/ DropOldest(t) \/ Retry(t)

Next ==
  \/ \E t \in Callers : Call(t) \/ Enqueue(t)
  \/ Transmit

\* A task inside hal_tx_enqueue goes on.  Nothing is assumed of the transmit
\* task, for which the callers must not wait.
Fairness == \A t \in Callers : WF_vars(Enqueue(t))

Spec == Init /\ [][Next]_vars /\ Fairness

-----------------------------------------------------------------------------
(* Properties.                                                             *)

Messages == { <<t, n>> : t \in Callers, n \in 1..MaxCalls }

Text == [1..Parts -> Messages \cup {NoMessage}]

\* Every variable keeps its type; the queue keeps its depth.
TypeOK ==
  /\ {msg_buf, written} \subseteq Text
  /\ tx_queue \in Seq([text : Text, call : Messages])
  /\ Len(tx_queue) <= UART_TX_QUEUE_DEPTH
  /\ pc \in [Callers -> {"IDLE", "COPY", "SEND", "DROP", "RETRY"}]
  /\ calls \in [Callers -> 0..MaxCalls]
  /\ copied \in [Callers -> 0..Parts]
  /\ {met, refused} \subseteq SUBSET Messages
  /\ newest \in Messages \cup {NoMessage}

\* A call that no other task's call overlapped queues its own message, whole,
\* whatever went through the buffer before it.
AloneWhole ==
  \A i \in 1..Len(tx_queue) :
    tx_queue[i].call \notin met => tx_queue[i].text = Whole(tx_queue[i].call)

\* hal_tx_enqueue has made room when it retries: pdFALSE takes a second task that
\* fills the place.
RefusedMet == refused \subseteq met

Kept(m) == \E i \in 1..Len(tx_queue) : tx_queue[i].call = m

Returned(m) == m[2] < calls[m[1]] \/ (m[2] = calls[m[1]] /\ pc[m[1]] = "IDLE")

\* NFR-5 (DESIGN.md, section 6): the supervisor gets the most recent messages, not
\* stale ones: as long as a message waits, every accepted later message of the
\* same task waits behind it.
StaleGoesFirst ==
  \A m, n \in Messages :
    m[1] = n[1] /\ m[2] < n[2] /\ Kept(m) /\ Returned(n) /\ n \notin refused => Kept(n)

\* NFR-5: the FSM never waits for the UART: every call returns, even if the
\* transmit task never runs.
CallsReturn == \A t \in Callers : pc[t] # "IDLE" ~> pc[t] = "IDLE"

Finished == \A t \in Callers : pc[t] = "IDLE" /\ calls[t] = MaxCalls

\* When traffic ends and the transmit task runs, what the supervisor has read last
\* is the last message of all, provided its call was alone: a burst that
\* overflows the queue costs older messages only.
NewestWritten ==
  WF_vars(Transmit) => (Finished /\ newest \notin met ~> written = Whole(newest))

-----------------------------------------------------------------------------
(* What the documentation says and the code does not do.                   *)

\* hal.h:53 of hal_motor_stop, "Must be callable from any task; re-entrant": each
\* queued message is the one that its call was given.
QueuesItsMessage ==
  \A i \in 1..Len(tx_queue) : tx_queue[i].text = Whole(tx_queue[i].call)
=============================================================================
