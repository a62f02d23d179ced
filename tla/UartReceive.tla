----------------------------- MODULE UartReceive -----------------------------
(***************************************************************************)
(* hal_uart_rx_task (src/src/hal/hal_uart_mock.c): bytes accumulated to a  *)
(* line, its CRC, parse_frame, the answer and the event.                   *)
(*                                                                         *)
(* The supervisor and the wire are outside the repository: a frame is sent *)
(* byte by byte, any byte may be lost or come out as another one, a byte   *)
(* more may arrive inside a frame or between two, and the supervisor may   *)
(* fall silent.  Bytes are abstract: the head of a frame, its argument and *)
(* the two digits of a CRC count as one byte each, and a CRC fits the body *)
(* it was computed for and no other, as crc8_compute is not modelled.  The *)
(* debouncers are module DoorSensors; what becomes of an event is          *)
(* DoorPipeline.                                                           *)
(***************************************************************************)
EXTENDS Naturals, Sequences

CONSTANTS
  UART_FRAME_MAX_LEN,  \* 64 in config.h
  Commands,            \* the TYPE of the $CMD frames sent
  MaxErrors            \* bound: errors of the wire from one frame to the next

ASSUME ReceiveAssumption ==
  /\ UART_FRAME_MAX_LEN \in Nat /\ UART_FRAME_MAX_LEN > 5
  /\ MaxErrors \in Nat
  /\ Commands \cap {"0", "1", "NONE", "EVT_COMM_TIMEOUT"} = {}

VARIABLES
  frame_buf,  \* the accumulator, frame_len long
  did,        \* what this step did: answer, event offered, watchdog reset
  wire,       \* the bytes of the present frame still to come
  sent,       \* history: the present frame
  errors,     \* history: errors since it was begun, silences included
  fresh,      \* history: 1 if the line before it had ended
  ended,      \* history: 1 if no byte has come since a line end or a silence
  begun       \* history: the arguments of the frames in the present line

vars == <<frame_buf, did, wire, sent, errors, fresh, ended, begun>>

Cmd     == <<"head", "$CMD,TYPE=">>
Sensor  == <<"head", "$SENSOR,OBSTRUCTION=">>
Comma   == <<"mark", ",">>
NewLine == <<"mark", "\n">>
Junk    == <<"mark", "?">>
Arg(a)  == <<"arg", a>>
Crc(a)  == <<"crc", a>>  \* of the body with argument a

Digits == {"0", "1"}

\* What the wire makes of a byte, or of none: a mark or a digit.
NoiseBytes == {Junk, Comma, NewLine} \cup { Arg(d) : d \in Digits }

\* A command or an obstruction report, with its CRC or, as the receiver still
\* accepts it, without.
Frames == [head : {Cmd}, arg : Commands, crc : {0, 1}] \cup
          [head : {Sensor}, arg : Digits, crc : {0, 1}]

Body(f) == <<f.head, Arg(f.arg)>>

Bytes(f) == IF f.crc = 1 THEN <<f.head, Arg(f.arg), Comma, Crc(f.arg), NewLine>>
                         ELSE <<f.head, Arg(f.arg), NewLine>>

Nothing == [answer |-> "NONE", event |-> "NONE", fed |-> 0]

-----------------------------------------------------------------------------
(* A complete line.                                                        *)

\* The suffix is recognised by its comma alone.
HasCrc(text) == Len(text) > 2 /\ text[Len(text) - 1] = Comma

WithoutCrc(text) == SubSeq(text, 1, Len(text) - 2)

\* Mutant: the comma is proof enough.
CrcNotCompared(text) == TRUE

\* A line without a suffix is accepted as it is.
CrcValid(text) ==
  HasCrc(text) =>
    \E f \in Frames : WithoutCrc(text) = Body(f) /\ text[Len(text)] = Crc(f.arg)

Stripped(text) == IF HasCrc(text) THEN WithoutCrc(text) ELSE text

Follows(text, bytes) == Len(text) > 1 /\ text[2] \in bytes

\* parse_frame compares prefixes: what follows an argument is not looked at.  atoi
\* takes a missing value for 0, and a CRC in its place for what its digits say.
Parsed(text) ==
  IF text = <<>> THEN {}
  ELSE IF text[1] = Cmd THEN { c \in Commands : Follows(text, {Arg(c)}) }
  ELSE IF text[1] # Sensor THEN {}
  ELSE IF Follows(text, { Crc(f.arg) : f \in Frames }) THEN Digits
  ELSE IF Follows(text, {Arg("1")}) THEN {"1"}
  ELSE {"0"}

Accepted(event) == [answer |-> "ACK", event |-> event, fed |-> 1]

Refused == [Nothing EXCEPT !.answer = "NACK"]

\* A refused line is answered too.  So is, in the same way, a value that is still
\* being debounced or has not changed.
Handled(text) ==
  LET events == IF CrcValid(text) THEN Parsed(Stripped(text)) ELSE {}
  IN  { Accepted(e) : e \in events }
        \cup (IF events \cap Commands = {} THEN {Refused} ELSE {})

-----------------------------------------------------------------------------
(* The receive task.                                                       *)

\* Mutant: a refused line stays in the accumulator.
LineEndKeepsRefused ==
  IF frame_buf = <<>>
    THEN did' = Nothing /\ UNCHANGED frame_buf
    ELSE /\ did' \in Handled(frame_buf)
         /\ frame_buf' = IF did' = Refused THEN frame_buf ELSE <<>>

LineEnd ==
  IF frame_buf = <<>>
    THEN did' = Nothing /\ UNCHANGED frame_buf
    ELSE did' \in Handled(frame_buf) /\ frame_buf' = <<>>

\* Mutant: no place is kept for the terminator.
AccumulateUnterminated(byte) ==
  /\ frame_buf' = IF Len(frame_buf) < UART_FRAME_MAX_LEN
                    THEN Append(frame_buf, byte) ELSE <<>>
  /\ did' = Nothing

\* A line that is too long is dropped so far, this byte included.
Accumulate(byte) ==
  /\ frame_buf' = IF Len(frame_buf) < UART_FRAME_MAX_LEN - 1
                    THEN Append(frame_buf, byte) ELSE <<>>
  /\ did' = Nothing

\* uart_read_bytes returns a byte.
Receive(byte) ==
  /\ IF byte = NewLine THEN LineEnd ELSE Accumulate(byte)
  /\ ended' = IF byte = NewLine THEN 1 ELSE 0

\* Mutant: the accumulator is left as it is.
ReadTimesOutKeeping ==
  /\ did' = [Nothing EXCEPT !.event = "EVT_COMM_TIMEOUT"]
  /\ ended' = 1
  /\ UNCHANGED frame_buf

\* It returns none for COMM_TIMEOUT_MS.
ReadTimesOut ==
  /\ did' = [Nothing EXCEPT !.event = "EVT_COMM_TIMEOUT"]
  /\ ended' = 1
  /\ frame_buf' = <<>>

-----------------------------------------------------------------------------
(* The supervisor and the wire.                                            *)

Init ==
  /\ frame_buf = <<>>
  /\ did = Nothing
  /\ wire = <<>>
  /\ sent \in Frames
  /\ errors = 0
  /\ fresh = 1
  /\ ended = 1
  /\ begun = {}

Send(f) ==
  /\ wire = <<>>
  /\ wire' = Bytes(f)
  /\ sent' = f
  /\ errors' = 0
  /\ fresh' = ended
  /\ begun' = begun \cup {f.arg}
  /\ did' = Nothing
  /\ UNCHANGED <<frame_buf, ended>>

InFrame == wire # <<>>

\* After a line end or a silence nothing of an earlier frame is left.
NewHistory ==
  begun' = IF ended' = 0 THEN begun ELSE IF wire' = <<>> THEN {} ELSE {sent.arg}

WireError == errors < MaxErrors /\ errors' = errors + 1

ByteArrives ==
  /\ InFrame
  /\ wire' = Tail(wire)
  /\ Receive(Head(wire))
  /\ NewHistory
  /\ UNCHANGED <<sent, errors, fresh>>

ByteLost ==
  /\ InFrame
  /\ WireError
  /\ wire' = Tail(wire)
  /\ did' = Nothing
  /\ UNCHANGED <<frame_buf, sent, fresh, ended, begun>>

\* A digit may come out as the other one, any byte as a mark.
ByteGarbled(byte) ==
  /\ InFrame
  /\ WireError
  /\ byte # Head(wire)
  /\ byte \in { Arg(d) : d \in Digits } => Head(wire) \in { Arg(d) : d \in Digits }
  /\ wire' = Tail(wire)
  /\ Receive(byte)
  /\ NewHistory
  /\ UNCHANGED <<sent, fresh>>

\* A byte that nobody sent arrives, between two bytes of a frame or outside of any.
Noise(byte) ==
  /\ WireError
  /\ Receive(byte)
  /\ UNCHANGED <<wire, sent, fresh>>
  /\ NewHistory

\* The supervisor pauses, inside a frame or between two.
Silence ==
  /\ IF InFrame THEN WireError ELSE UNCHANGED errors
  /\ UNCHANGED <<wire, sent, fresh>>
  /\ ReadTimesOut
  /\ NewHistory

Next ==
  \/ \E f \in Frames : Send(f)
  \/ ByteArrives
  \/ ByteLost
  \/ \E byte \in NoiseBytes : ByteGarbled(byte)
  \/ \E byte \in NoiseBytes : Noise(byte)
  \/ Silence

Spec == Init /\ [][Next]_vars

-----------------------------------------------------------------------------
(* Properties.                                                             *)

Alphabet == {Cmd, Sensor, Comma, Junk} \cup
            UNION { {Arg(a), Crc(a)} : a \in Commands \cup Digits }

\* Every variable keeps its type, and the accumulator always has a place left for
\* the terminator (NFR-2).
TypeOK ==
  /\ frame_buf \in Seq(Alphabet)
  /\ Len(frame_buf) <= UART_FRAME_MAX_LEN - 1
  /\ did \in [answer : {"NONE", "ACK", "NACK"},
              event : Commands \cup Digits \cup {"NONE", "EVT_COMM_TIMEOUT"},
              fed : {0, 1}]
  /\ wire \in Seq(Alphabet \cup {NewLine})
  /\ sent \in Frames
  /\ errors \in 0..MaxErrors
  /\ {fresh, ended} \subseteq {0, 1}
  /\ begun \subseteq Commands \cup Digits

\* Whatever happened on the wire before, a frame that follows a line end or a silence
\* and arrives unharmed is understood by itself: its command is acknowledged, offered
\* and feeds the watchdog; a sensor value may also be refused.
CleanFrameTaken ==
  [][ ByteArrives /\ wire' = <<>> /\ fresh = 1 /\ errors = 0 =>
        \/ did' = Accepted(sent.arg)
        \/ sent.head = Sensor /\ did' = Refused ]_vars

\* A command comes from a frame of the line it ends: neither what a time-out has cut
\* off nor a refused or over-long line comes to life again in a later one, whatever
\* the wire does.  (Dropping the beginning of an over-long line does not end it: its
\* rest may still be taken for a command of its own frames.)
CommandOfThisLine ==
  [][ did'.event \in Commands => did'.event \in begun ]_vars

\* NFR-5: one error in a frame with a CRC, a byte lost, changed or added or a silence,
\* makes no other command of it, and no obstruction.  (A value that a line end cuts
\* off reads 0: such a line has no suffix.)
OneErrorHarmless ==
  [][ fresh = 1 /\ sent.crc = 1 /\ errors' <= 1 /\ did'.event \in Commands \cup {"1"}
        => did'.event = sent.arg ]_vars
=============================================================================
