------------------------- MODULE UartReceive_proofs -------------------------
(***************************************************************************)
(* What the receive task makes of the bytes that reach it, for every set   *)
(* of commands, every bound on the errors of the wire and every            *)
(* accumulator that holds a frame and the terminator.                      *)
(***************************************************************************)
EXTENDS UartReceive, SequenceTheorems, TLAPS

Heads == {Cmd, Sensor}

\* What a line may be taken for.
Events(text) == IF CrcValid(text) THEN Parsed(Stripped(text)) ELSE {}

\* Nothing of a line is left after its end or a silence.
EndedInv == ended = 1 => frame_buf = <<>>

\* The commands in the accumulator and on the wire are those of the line.
ArgsInv ==
  /\ \A i \in 1..Len(frame_buf) : \A c \in Commands : frame_buf[i] = Arg(c) => c \in begun
  /\ \A i \in 1..Len(wire) : \A c \in Commands : wire[i] = Arg(c) => c = sent.arg
  /\ InFrame => sent.arg \in begun

\* Byte i of the present frame.
Byte(i) == Bytes(sent)[i]

\* The accumulator and the wire hold the frame, as it is, without its byte p, or with
\* another one in its place.
Whole ==
  /\ Len(frame_buf) + Len(wire) = Len(Bytes(sent))
  /\ \A i \in 1..Len(frame_buf) : frame_buf[i] = Byte(i)
  /\ \A i \in 1..Len(wire) : wire[i] = Byte(Len(frame_buf) + i)

Lost(p) ==
  /\ Len(frame_buf) >= p - 1
  /\ Len(frame_buf) + Len(wire) = Len(Bytes(sent)) - 1
  /\ \A i \in 1..Len(frame_buf) : frame_buf[i] = IF i < p THEN Byte(i) ELSE Byte(i + 1)
  /\ \A i \in 1..Len(wire) : wire[i] = Byte(Len(frame_buf) + 1 + i)

Garbled(p) ==
  /\ Len(frame_buf) >= p
  /\ Len(frame_buf) + Len(wire) = Len(Bytes(sent))
  /\ \A i \in 1..Len(frame_buf) : IF i = p THEN frame_buf[i] # Byte(i)
                                           ELSE frame_buf[i] = Byte(i)
  /\ \A i \in 1..Len(wire) : wire[i] = Byte(Len(frame_buf) + i)

\* They hold the frame and, at p, a byte more.
Inserted(p) ==
  /\ Len(frame_buf) >= p
  /\ Len(frame_buf) + Len(wire) = Len(Bytes(sent)) + 1
  /\ frame_buf[p] \in NoiseBytes
  /\ \A i \in 1..Len(frame_buf) : i # p => frame_buf[i] = IF i < p THEN Byte(i) ELSE Byte(i - 1)
  /\ \A i \in 1..Len(wire) : wire[i] = Byte(Len(frame_buf) + i - 1)

\* The line has no head, and none is to come.
Headless ==
  /\ frame_buf = <<>> \/ frame_buf[1] \notin Heads
  /\ \A i \in 1..Len(wire) : wire[i] \notin Heads

CleanInv ==
  fresh = 1 /\ errors = 0 => IF InFrame THEN Whole ELSE frame_buf = <<>>

OneErrorInv ==
  fresh = 1 /\ sent.crc = 1 /\ errors = 1 =>
    \/ Headless \/ Whole
    \/ \E p \in 2..5 : Lost(p) \/ Garbled(p)
    \/ \E p \in 1..5 : Inserted(p)

IInv == TypeOK /\ EndedInv /\ ArgsInv /\ CleanInv /\ OneErrorInv

-----------------------------------------------------------------------------
(* Bytes and frames.                                                       *)

Marks == {Comma, NewLine, Junk}

LEMMA BytesDiffer ==
  /\ Cmd # Sensor /\ Heads \cap Marks = {}
  /\ Comma # NewLine /\ Comma # Junk /\ Junk # NewLine
  /\ \A a : Arg(a) \notin Heads \cup Marks /\ Crc(a) \notin Heads \cup Marks
  /\ \A a, b : /\ Arg(a) # Crc(b)
               /\ Arg(a) = Arg(b) => a = b
               /\ Crc(a) = Crc(b) => a = b
  BY DEF Heads, Marks, Cmd, Sensor, Comma, NewLine, Junk, Arg, Crc

LEMMA AlphabetHas ==
  /\ {Cmd, Sensor, Comma, Junk} \subseteq Alphabet
  /\ \A a \in Commands \cup Digits : Arg(a) \in Alphabet /\ Crc(a) \in Alphabet
  /\ NewLine \notin Alphabet
<1>1. {Cmd, Sensor, Comma, Junk} \subseteq Alphabet
  BY DEF Alphabet
<1>2. \A a \in Commands \cup Digits : Arg(a) \in Alphabet /\ Crc(a) \in Alphabet
  BY DEF Alphabet
<1>3. NewLine \notin Alphabet
  <2>1. NewLine \notin {Cmd, Sensor, Comma, Junk}
    BY BytesDiffer DEF Heads, Marks
  <2>2. \A a : NewLine # Arg(a) /\ NewLine # Crc(a)
    BY BytesDiffer DEF Marks
  <2>. QED
    BY <2>1, <2>2 DEF Alphabet
<1>. QED
  BY <1>1, <1>2, <1>3

LEMMA CommandsDiffer ==
  /\ Commands \cap Digits = {}
  /\ "NONE" \notin Commands /\ "EVT_COMM_TIMEOUT" \notin Commands
  BY ReceiveAssumption DEF Digits

LEMMA FrameParts ==
  ASSUME NEW f \in Frames
  PROVE  /\ \/ f.head = Cmd /\ f.arg \in Commands
            \/ f.head = Sensor /\ f.arg \in Digits
         /\ f.arg \in Commands \cup Digits
         /\ f.crc \in {0, 1}
  BY DEF Frames

LEMMA BytesOf ==
  ASSUME NEW f \in Frames
  PROVE  /\ Bytes(f) \in Seq(Alphabet \cup {NewLine})
         /\ Bytes(f)[1] = f.head
         /\ Bytes(f)[2] = Arg(f.arg)
         /\ f.crc = 0 => Len(Bytes(f)) = 3 /\ Bytes(f)[3] = NewLine
         /\ f.crc = 1 => /\ Len(Bytes(f)) = 5
                         /\ Bytes(f)[3] = Comma
                         /\ Bytes(f)[4] = Crc(f.arg)
                         /\ Bytes(f)[5] = NewLine
<1>1. /\ f.head \in Alphabet \cup {NewLine}
      /\ Arg(f.arg) \in Alphabet \cup {NewLine}
      /\ Crc(f.arg) \in Alphabet \cup {NewLine}
      /\ Comma \in Alphabet \cup {NewLine}
      /\ NewLine \in Alphabet \cup {NewLine}
  BY FrameParts, AlphabetHas
<1>2. CASE f.crc = 1
  <2>1. Bytes(f) = <<f.head, Arg(f.arg), Comma, Crc(f.arg), NewLine>>
    BY <1>2 DEF Bytes
  <2>. QED
    BY <1>1, <1>2, <2>1
<1>3. CASE f.crc = 0
  <2>1. Bytes(f) = <<f.head, Arg(f.arg), NewLine>>
    BY <1>3 DEF Bytes
  <2>. QED
    BY <1>1, <1>3, <2>1
<1>. QED
  BY <1>2, <1>3, FrameParts

-----------------------------------------------------------------------------
(* What a line is taken for.                                               *)

\* A suffix is taken off from the end: what comes before stays in its place.
LEMMA StrippedText ==
  ASSUME NEW text \in Seq(Alphabet), text # <<>>
  PROVE  /\ Stripped(text) \in Seq(Alphabet)
         /\ Stripped(text) # <<>>
         /\ Len(Stripped(text)) = IF HasCrc(text) THEN Len(text) - 2 ELSE Len(text)
         /\ \A i \in 1..Len(Stripped(text)) : Stripped(text)[i] = text[i]
<1>1. Len(text) \in Nat \ {0}
  BY EmptySeq
<1>2. CASE HasCrc(text)
  <2>. DEFINE rest == SubSeq(text, 1, Len(text) - 2)
  <2>1. Len(text) > 2
    BY <1>2 DEF HasCrc
  <2>2. \A i \in 1 .. Len(text) - 2 : text[i] \in Alphabet
    BY <1>1, <2>1
  <2>3. /\ rest \in Seq(Alphabet)
        /\ Len(rest) = Len(text) - 2
        /\ \A i \in 1 .. Len(text) - 2 : rest[i] = text[i]
    BY <1>1, <2>1, <2>2, SubSeqProperties
  <2>4. Stripped(text) = rest
    BY <1>2 DEF Stripped, WithoutCrc
  <2>. HIDE DEF rest
  <2>5. rest # <<>>
    BY <1>1, <2>1, <2>3, EmptySeq
  <2>. QED
    BY <1>2, <2>3, <2>4, <2>5
<1>3. CASE ~HasCrc(text)
  BY <1>3 DEF Stripped
<1>. QED
  BY <1>2, <1>3

\* Nothing without a head.
LEMMA NoHeadNoEvent ==
  ASSUME NEW text \in Seq(Alphabet), text # <<>>, text[1] \notin Heads
  PROVE  Events(text) = {}
<1>1. Stripped(text) # <<>> /\ Stripped(text)[1] = text[1]
  BY StrippedText, EmptySeq
<1>. QED
  BY <1>1 DEF Events, Parsed, Heads

\* A command is one of the line's arguments.
LEMMA CommandFromText ==
  ASSUME NEW text \in Seq(Alphabet), text # <<>>, NEW c \in Commands, c \in Events(text)
  PROVE  Len(text) > 1 /\ text[2] = Arg(c)
<1>1. c \in Parsed(Stripped(text))
  BY DEF Events
<1>2. c \notin Digits
  BY CommandsDiffer
<1>3. Follows(Stripped(text), {Arg(c)})
  BY <1>1, <1>2 DEF Parsed, Digits
<1>4. Len(Stripped(text)) > 1 /\ Stripped(text)[2] = Arg(c)
  BY <1>3 DEF Follows
<1>. QED
  BY <1>4, StrippedText, LenProperties

\* A head alone is an obstruction report of 0, or nothing.
LEMMA HeadAlone ==
  ASSUME NEW text \in Seq(Alphabet), Len(text) = 1
  PROVE  Events(text) \subseteq {"0"}
<1>1. ~HasCrc(text)
  BY DEF HasCrc
<1>2. Stripped(text) = text
  BY <1>1 DEF Stripped
<1>3. \A S : ~Follows(text, S)
  BY DEF Follows
<1>. QED
  BY <1>2, <1>3, EmptySeq DEF Events, Parsed

\* A head and its argument, whatever follows.
LEMMA HeadAndArgument ==
  ASSUME NEW text \in Seq(Alphabet), NEW f \in Frames, Len(text) > 1,
         text[1] = f.head, text[2] = Arg(f.arg)
  PROVE  Parsed(text) = {f.arg}
<1>1. text # <<>>
  BY EmptySeq
<1>2. CASE f.head = Cmd /\ f.arg \in Commands
  <2>1. Parsed(text) = { c \in Commands : text[2] = Arg(c) }
    BY <1>1, <1>2 DEF Parsed, Follows
  <2>. QED
    BY <1>2, <2>1, BytesDiffer
<1>3. CASE f.head = Sensor /\ f.arg \in Digits
  <2>1. ~Follows(text, { Crc(g.arg) : g \in Frames })
    BY BytesDiffer DEF Follows
  <2>2. Follows(text, {Arg("1")}) <=> f.arg = "1"
    BY BytesDiffer DEF Follows
  <2>3. Parsed(text) = IF f.arg = "1" THEN {"1"} ELSE {"0"}
    BY <1>1, <1>3, <2>1, <2>2, BytesDiffer DEF Parsed
  <2>. QED
    BY <1>3, <2>3 DEF Digits
<1>. QED
  BY <1>2, <1>3, FrameParts

LEMMA PlainFrame ==
  ASSUME NEW text \in Seq(Alphabet), NEW f \in Frames, ~HasCrc(text), Len(text) > 1,
         text[1] = f.head, text[2] = Arg(f.arg)
  PROVE  Events(text) = {f.arg}
<1>1. Stripped(text) = text /\ CrcValid(text)
  BY DEF Stripped, CrcValid
<1>. QED
  BY <1>1, HeadAndArgument DEF Events

\* A CRC is accepted after the body it was computed for only.
LEMMA CrcOfBody ==
  ASSUME NEW text \in Seq(Alphabet), HasCrc(text), CrcValid(text)
  PROVE  /\ Len(text) = 4
         /\ \E f \in Frames : text[1] = f.head /\ text[2] = Arg(f.arg) /\ text[4] = Crc(f.arg)
<1>1. PICK f \in Frames : WithoutCrc(text) = Body(f) /\ text[Len(text)] = Crc(f.arg)
  BY DEF CrcValid
<1>2. text # <<>> /\ Len(text) \in Nat /\ Len(text) > 2
  BY EmptySeq, LenProperties DEF HasCrc
<1>3. Stripped(text) = Body(f)
  BY <1>1 DEF Stripped
<1>4. Len(Body(f)) = 2 /\ Body(f)[1] = f.head /\ Body(f)[2] = Arg(f.arg)
  BY DEF Body
<1>5. Len(text) = 4
  <2>1. Len(Stripped(text)) = 2
    BY <1>3, <1>4
  <2>2. Len(text) - 2 = 2
    BY <1>2, <2>1, StrippedText
  <2>. QED
    BY <2>2
<1>6. text[1] = f.head /\ text[2] = Arg(f.arg)
  BY <1>2, <1>3, <1>4, StrippedText
<1>. QED
  BY <1>1, <1>5, <1>6

LEMMA FrameWithCrc ==
  ASSUME NEW text \in Seq(Alphabet), NEW f \in Frames, Len(text) = 4,
         text[1] = f.head, text[2] = Arg(f.arg), text[3] = Comma, text[4] = Crc(f.arg)
  PROVE  Events(text) = {f.arg}
<1>1. HasCrc(text) /\ text # <<>>
  <2>1. Len(text) > 2 /\ Len(text) - 1 = 3
    OBVIOUS
  <2>2. HasCrc(text)
    BY <2>1 DEF HasCrc
  <2>. QED
    BY <2>2, EmptySeq
<1>2. /\ Stripped(text) \in Seq(Alphabet) /\ Len(Stripped(text)) = 2
      /\ Stripped(text)[1] = f.head /\ Stripped(text)[2] = Arg(f.arg)
  <2>1. /\ Stripped(text) \in Seq(Alphabet)
        /\ Len(Stripped(text)) = Len(text) - 2
        /\ \A i \in 1..Len(Stripped(text)) : Stripped(text)[i] = text[i]
    BY <1>1, StrippedText
  <2>2. Len(Stripped(text)) = 2
    BY <2>1
  <2>. QED
    BY <2>1, <2>2
<1>3. WithoutCrc(text) = Body(f)
  <2>1. /\ Body(f) \in Seq(Alphabet) /\ Len(Body(f)) = 2
        /\ Body(f)[1] = f.head /\ Body(f)[2] = Arg(f.arg)
    BY FrameParts, AlphabetHas DEF Body
  <2>2. \A i \in 1 .. 2 : Stripped(text)[i] = Body(f)[i]
    BY <1>2, <2>1
  <2>3. Stripped(text) = Body(f)
    BY <1>2, <2>1, <2>2, SeqEqual
  <2>. QED
    BY <1>1, <2>3 DEF Stripped
<1>4. CrcValid(text)
  BY <1>3 DEF CrcValid
<1>. QED
  BY <1>2, <1>4, HeadAndArgument DEF Events

-----------------------------------------------------------------------------
(* Types.                                                                  *)

AnyByte == Alphabet \cup {NewLine}

Outcomes == [answer : {"NONE", "ACK", "NACK"},
             event : Commands \cup Digits \cup {"NONE", "EVT_COMM_TIMEOUT"},
             fed : {0, 1}]

LEMMA Types ==
  ASSUME TypeOK
  PROVE  /\ frame_buf \in Seq(Alphabet) /\ Len(frame_buf) <= UART_FRAME_MAX_LEN - 1
         /\ did \in Outcomes
         /\ wire \in Seq(AnyByte)
         /\ sent \in Frames
         /\ errors \in Nat
         /\ fresh \in {0, 1} /\ ended \in {0, 1}
  BY ReceiveAssumption DEF TypeOK, Outcomes, AnyByte

LEMMA OutcomesType ==
  /\ Nothing \in Outcomes
  /\ Refused \in Outcomes
  /\ [Nothing EXCEPT !.event = "EVT_COMM_TIMEOUT"] \in Outcomes
  /\ \A e \in Commands \cup Digits : Accepted(e) \in Outcomes
  BY DEF Nothing, Refused, Accepted, Outcomes

LEMMA HandledIs ==
  ASSUME NEW text, NEW r \in Handled(text)
  PROVE  r = Refused \/ \E e \in Events(text) : r = Accepted(e)
  BY DEF Handled, Events

LEMMA EventsType ==
  ASSUME NEW text
  PROVE  Events(text) \subseteq Commands \cup Digits
  BY DEF Events, Parsed, Digits

LEMMA AppendedByte ==
  ASSUME NEW S, NEW q \in Seq(S), NEW x \in S
  PROVE  /\ Append(q, x) \in Seq(S)
         /\ Len(Append(q, x)) = Len(q) + 1
         /\ \A i \in 1..Len(q) : Append(q, x)[i] = q[i]
         /\ Append(q, x)[Len(q) + 1] = x
  BY AppendProperties

\* What the arrival of a byte does to the line.
LEMMA ReceiveByte ==
  ASSUME TypeOK, NEW byte \in AnyByte, Receive(byte)
  PROVE  /\ did' \in Outcomes
         /\ byte = NewLine =>
              /\ ended' = 1 /\ frame_buf' = <<>>
              /\ \/ did' = Nothing /\ frame_buf = <<>>
                 \/ frame_buf # <<>> /\ did' = Refused
                 \/ frame_buf # <<>> /\ \E e \in Events(frame_buf) : did' = Accepted(e)
              /\ frame_buf # <<>> => did' \in Handled(frame_buf)
         /\ byte # NewLine =>
              /\ ended' = 0 /\ did' = Nothing /\ byte \in Alphabet
              /\ \/ /\ Len(frame_buf) < UART_FRAME_MAX_LEN - 1
                    /\ frame_buf' = Append(frame_buf, byte)
                 \/ /\ Len(frame_buf) >= UART_FRAME_MAX_LEN - 1
                    /\ frame_buf' = <<>>
<1>1. Len(frame_buf) \in Nat /\ UART_FRAME_MAX_LEN \in Nat
  BY Types, LenProperties, ReceiveAssumption
<1>2. CASE byte = NewLine
  <2>1. LineEnd /\ ended' = 1
    BY <1>2 DEF Receive
  <2>2. CASE frame_buf = <<>>
    BY <1>2, <2>1, <2>2, OutcomesType DEF LineEnd
  <2>3. CASE frame_buf # <<>>
    <3>1. did' \in Handled(frame_buf) /\ frame_buf' = <<>>
      BY <2>1, <2>3 DEF LineEnd
    <3>2. did' = Refused \/ \E e \in Events(frame_buf) : did' = Accepted(e)
      BY <3>1, HandledIs
    <3>3. did' \in Outcomes
      BY <3>2, EventsType, OutcomesType
    <3>. QED
      BY <1>2, <2>1, <2>3, <3>1, <3>2, <3>3
  <2>. QED
    BY <2>2, <2>3
<1>3. CASE byte # NewLine
  <2>1. Accumulate(byte) /\ ended' = 0
    BY <1>3 DEF Receive
  <2>. QED
    BY <1>1, <1>3, <2>1, OutcomesType DEF Accumulate, AnyByte
<1>. QED
  BY <1>2, <1>3

\* The accumulator keeps its type, and a place for the terminator.
LEMMA ReceiveType ==
  ASSUME TypeOK, NEW byte \in AnyByte, Receive(byte)
  PROVE  /\ frame_buf' \in Seq(Alphabet) /\ Len(frame_buf') <= UART_FRAME_MAX_LEN - 1
         /\ did' \in Outcomes
         /\ ended' \in {0, 1}
         /\ ended' = 1 => frame_buf' = <<>>
<1>1. /\ <<>> \in Seq(Alphabet) /\ Len(<<>>) <= UART_FRAME_MAX_LEN - 1
      /\ Len(frame_buf) \in Nat /\ UART_FRAME_MAX_LEN \in Nat
  BY Types, LenProperties, ReceiveAssumption
<1>2. CASE frame_buf' = <<>>
  BY <1>1, <1>2, ReceiveByte
<1>3. CASE frame_buf' # <<>>
  <2>1. /\ byte # NewLine /\ byte \in Alphabet /\ ended' = 0
        /\ Len(frame_buf) < UART_FRAME_MAX_LEN - 1
        /\ frame_buf' = Append(frame_buf, byte)
    BY <1>3, ReceiveByte
  <2>2. frame_buf' \in Seq(Alphabet) /\ Len(frame_buf') = Len(frame_buf) + 1
    BY <2>1, Types, AppendedByte
  <2>. QED
    BY <1>1, <2>1, <2>2, ReceiveByte
<1>. QED
  BY <1>2, <1>3

LEMMA NoiseType == NoiseBytes \subseteq AnyByte
  BY AlphabetHas DEF NoiseBytes, AnyByte

LEMMA WireMoves ==
  ASSUME TypeOK, InFrame
  PROVE  /\ Head(wire) \in AnyByte /\ Head(wire) = wire[1]
         /\ Tail(wire) \in Seq(AnyByte)
         /\ Len(wire) \in Nat \ {0}
         /\ Len(Tail(wire)) = Len(wire) - 1
         /\ \A i \in 1..Len(Tail(wire)) : Tail(wire)[i] = wire[i + 1]
  BY Types, HeadTailProperties, EmptySeq DEF InFrame

\* The steps in which a byte reaches the receiver, and the byte.
ByteStep(byte) ==
  \/ ByteArrives /\ byte = Head(wire)
  \/ byte \in NoiseBytes /\ ByteGarbled(byte)
  \/ byte \in NoiseBytes /\ Noise(byte)

LEMMA ByteSteps ==
  ASSUME TypeOK, NEW byte, ByteStep(byte)
  PROVE  /\ byte \in AnyByte
         /\ Receive(byte)
         /\ NewHistory
         /\ sent' = sent /\ fresh' = fresh
         /\ (wire' = Tail(wire) /\ InFrame) \/ wire' = wire
         /\ errors' \in 0..MaxErrors
<1>1. errors \in 0..MaxErrors /\ MaxErrors \in Nat
  BY ReceiveAssumption DEF TypeOK
<1>2. CASE ByteArrives /\ byte = Head(wire)
  BY <1>1, <1>2, WireMoves DEF ByteArrives
<1>3. CASE byte \in NoiseBytes /\ ByteGarbled(byte)
  BY <1>1, <1>3, NoiseType DEF ByteGarbled, WireError
<1>4. CASE byte \in NoiseBytes /\ Noise(byte)
  BY <1>1, <1>4, NoiseType DEF Noise, WireError
<1>. QED
  BY <1>2, <1>3, <1>4 DEF ByteStep

LEMMA HistoryType ==
  ASSUME TypeOK, NewHistory, sent' = sent
  PROVE  begun' \subseteq Commands \cup Digits
  BY FrameParts DEF NewHistory, TypeOK

LEMMA TypeStep == TypeOK /\ [Next]_vars => TypeOK'
<1>. SUFFICES ASSUME TypeOK, [Next]_vars
              PROVE  TypeOK'
  OBVIOUS
<1>1. ASSUME NEW f \in Frames, Send(f)
      PROVE  TypeOK'
  <2>1. wire' \in Seq(AnyByte)
    BY <1>1, BytesOf DEF Send, AnyByte
  <2>2. did' \in Outcomes
    BY <1>1, OutcomesType DEF Send
  <2>3. begun' \subseteq Commands \cup Digits /\ errors' \in 0..MaxErrors
    BY <1>1, FrameParts, ReceiveAssumption DEF Send, TypeOK
  <2>. QED
    BY <1>1, <2>1, <2>2, <2>3 DEF Send, TypeOK, AnyByte, Outcomes
<1>2. ASSUME NEW byte, ByteStep(byte)
      PROVE  TypeOK'
  <2>1. wire' \in Seq(AnyByte)
    BY <1>2, ByteSteps, WireMoves, Types
  <2>2. begun' \subseteq Commands \cup Digits
    BY <1>2, ByteSteps, HistoryType
  <2>3. /\ frame_buf' \in Seq(Alphabet) /\ Len(frame_buf') <= UART_FRAME_MAX_LEN - 1
        /\ did' \in Outcomes
        /\ ended' \in {0, 1}
    BY <1>2, ByteSteps, ReceiveType
  <2>. QED
    BY <1>2, <2>1, <2>2, <2>3, ByteSteps DEF TypeOK, AnyByte, Outcomes
<1>3. CASE ByteLost
  <2>1. wire' \in Seq(AnyByte)
    BY <1>3, WireMoves DEF ByteLost
  <2>2. errors' \in 0..MaxErrors /\ did' \in Outcomes
    BY <1>3, OutcomesType, ReceiveAssumption DEF ByteLost, WireError, TypeOK
  <2>. QED
    BY <1>3, <2>1, <2>2 DEF ByteLost, TypeOK, AnyByte, Outcomes
<1>4. CASE Silence
  <2>1. /\ frame_buf' = <<>> /\ ended' = 1 /\ did' \in Outcomes
        /\ UNCHANGED <<wire, sent, fresh>>
        /\ NewHistory
    BY <1>4, OutcomesType DEF Silence, ReadTimesOut
  <2>2. frame_buf' \in Seq(Alphabet) /\ Len(frame_buf') <= UART_FRAME_MAX_LEN - 1
    BY <2>1, EmptySeq, ReceiveAssumption
  <2>3. errors' \in 0..MaxErrors
    BY <1>4, ReceiveAssumption DEF Silence, WireError, TypeOK
  <2>4. begun' \subseteq Commands \cup Digits
    BY <2>1, HistoryType
  <2>. QED
    BY <2>1, <2>2, <2>3, <2>4 DEF TypeOK, Outcomes
<1>5. CASE UNCHANGED vars
  BY <1>5 DEF vars, TypeOK
<1>. QED
  BY <1>1, <1>2, <1>3, <1>4, <1>5 DEF Next, ByteStep, NoiseBytes

-----------------------------------------------------------------------------
(* The parts of the invariant.                                             *)

LEMMA FrameLength ==
  ASSUME NEW f \in Frames
  PROVE  Len(Bytes(f)) \in {3, 5}
  BY BytesOf, FrameParts

\* Where the marks of a frame are.
LEMMA PlacesInFrame ==
  ASSUME NEW f \in Frames, NEW i \in 1..Len(Bytes(f))
  PROVE  /\ Bytes(f)[i] = NewLine <=> i = Len(Bytes(f))
         /\ Bytes(f)[i] \in Heads <=> i = 1
<1>1. Bytes(f)[1] \in Heads /\ Bytes(f)[1] # NewLine
  BY BytesOf, FrameParts, BytesDiffer DEF Heads, Marks
<1>2. Bytes(f)[2] \notin Heads /\ Bytes(f)[2] # NewLine
  BY BytesOf, BytesDiffer DEF Marks
<1>3. NewLine \notin Heads /\ Comma \notin Heads /\ Comma # NewLine
  BY BytesDiffer DEF Marks
<1>4. \A a : Crc(a) \notin Heads /\ Crc(a) # NewLine
  BY BytesDiffer DEF Marks
<1>5. CASE f.crc = 0
  <2>1. Len(Bytes(f)) = 3 /\ Bytes(f)[3] = NewLine
    BY <1>5, BytesOf
  <2>2. i \in {1, 2, 3}
    BY <2>1
  <2>. QED
    BY <1>1, <1>2, <1>3, <2>1, <2>2
<1>6. CASE f.crc = 1
  <2>1. /\ Len(Bytes(f)) = 5
        /\ Bytes(f)[3] = Comma /\ Bytes(f)[4] = Crc(f.arg) /\ Bytes(f)[5] = NewLine
    BY <1>6, BytesOf
  <2>2. i \in {1, 2, 3, 4, 5}
    BY <2>1
  <2>. QED
    BY <1>1, <1>2, <1>3, <1>4, <2>1, <2>2
<1>. QED
  BY <1>5, <1>6, FrameParts

LEMMA EndedStep == TypeOK /\ EndedInv /\ [Next]_vars => EndedInv'
<1>. SUFFICES ASSUME TypeOK, EndedInv, [Next]_vars
              PROVE  EndedInv'
  OBVIOUS
<1>1. ASSUME NEW byte, ByteStep(byte)
      PROVE  EndedInv'
  BY <1>1, ByteSteps, ReceiveType DEF EndedInv
<1>2. CASE ByteLost \/ Silence \/ UNCHANGED vars \/ \E f \in Frames : Send(f)
  BY <1>2 DEF ByteLost, Silence, ReadTimesOut, vars, Send, EndedInv
<1>. QED
  BY <1>1, <1>2 DEF Next, ByteStep, NoiseBytes

\* A command that reaches the receiver was sent in this line: no other byte comes out
\* as one.
LEMMA CommandOnTheWire ==
  ASSUME TypeOK, ArgsInv, NEW c \in Commands, ByteStep(Arg(c))
  PROVE  c \in begun
<1>1. Arg(c) \notin NoiseBytes
  BY CommandsDiffer, BytesDiffer DEF NoiseBytes, Marks
<1>2. InFrame /\ Arg(c) = Head(wire)
  BY <1>1 DEF ByteStep, ByteArrives
<1>3. 1 \in 1..Len(wire) /\ wire[1] = Arg(c)
  BY <1>2, WireMoves
<1>. QED
  BY <1>2, <1>3 DEF ArgsInv

LEMMA ArgsStep == TypeOK /\ ArgsInv /\ [Next]_vars => ArgsInv'
<1>. SUFFICES ASSUME TypeOK, ArgsInv, [Next]_vars
              PROVE  ArgsInv'
  OBVIOUS
<1>. DEFINE Line == \A i \in 1..Len(frame_buf) : \A c \in Commands :
                      frame_buf[i] = Arg(c) => c \in begun
            Wire == \A i \in 1..Len(wire) : \A c \in Commands :
                      wire[i] = Arg(c) => c = sent.arg
<1>1. ASSUME NEW f \in Frames, Send(f)
      PROVE  ArgsInv'
  <2>1. Wire'
    <3>1. sent' = f /\ wire' = Bytes(f)
      BY <1>1 DEF Send
    <3>2. ASSUME NEW i \in 1..Len(wire'), NEW c \in Commands, wire'[i] = Arg(c)
          PROVE  c = f.arg
      <4>1. CASE i = 2
        BY <3>1, <3>2, <4>1, BytesOf, BytesDiffer
      <4>2. CASE i # 2
        <5>1. i = 1 \/ wire'[i] \in {Comma, NewLine, Crc(f.arg)}
          BY <3>1, <4>2, BytesOf, FrameParts
        <5>. QED
          BY <3>1, <3>2, <5>1, BytesOf, FrameParts, BytesDiffer DEF Heads, Marks
      <4>. QED
        BY <4>1, <4>2
    <3>. QED
      BY <3>1, <3>2
  <2>2. Line' /\ (InFrame => sent.arg \in begun)'
    BY <1>1 DEF Send, ArgsInv
  <2>. QED
    BY <2>1, <2>2 DEF ArgsInv
<1>2. ASSUME sent' = sent, (wire' = Tail(wire) /\ InFrame) \/ wire' = wire
      PROVE  Wire' /\ (InFrame' => InFrame)
  <2>1. CASE wire' = wire
    BY <1>2, <2>1 DEF ArgsInv, InFrame
  <2>2. CASE wire' = Tail(wire) /\ InFrame
    <3>1. /\ Len(wire) \in Nat \ {0} /\ Len(wire') = Len(wire) - 1
          /\ \A i \in 1..Len(wire') : wire'[i] = wire[i + 1]
      BY <2>2, WireMoves
    <3>2. \A i \in 1..Len(wire') : i + 1 \in 1..Len(wire)
      BY <3>1
    <3>. QED
      BY <1>2, <2>2, <3>1, <3>2 DEF ArgsInv
  <2>. QED
    BY <1>2, <2>1, <2>2
<1>3. ASSUME NEW byte, ByteStep(byte)
      PROVE  ArgsInv'
  <2>1. Wire' /\ (InFrame' => InFrame)
    BY <1>2, <1>3, ByteSteps DEF InFrame
  <2>2. CASE byte = NewLine
    <3>1. ended' = 1 /\ frame_buf' = <<>> /\ NewHistory /\ sent' = sent
      BY <1>3, <2>2, ByteSteps, ReceiveByte
    <3>. QED
      BY <2>1, <3>1 DEF ArgsInv, NewHistory, InFrame
  <2>3. CASE byte # NewLine
    <3>1. ended' = 0 /\ NewHistory /\ sent' = sent /\ byte \in Alphabet
      BY <1>3, <2>3, ByteSteps, ReceiveByte
    <3>2. begun' = begun
      BY <3>1 DEF NewHistory
    <3>3. frame_buf' = <<>> \/ frame_buf' = Append(frame_buf, byte)
      BY <1>3, <2>3, ByteSteps, ReceiveByte
    <3>4. Line'
      <4>1. CASE frame_buf' = <<>>
        BY <4>1
      <4>2. CASE frame_buf' = Append(frame_buf, byte)
        <5>1. /\ Len(frame_buf') = Len(frame_buf) + 1 /\ Len(frame_buf) \in Nat
              /\ \A i \in 1..Len(frame_buf) : frame_buf'[i] = frame_buf[i]
              /\ frame_buf'[Len(frame_buf) + 1] = byte
          BY <3>1, <4>2, Types, AppendedByte, LenProperties
        <5>2. \A c \in Commands : byte = Arg(c) => c \in begun
          BY <1>3, CommandOnTheWire
        <5>. QED
          BY <3>2, <5>1, <5>2 DEF ArgsInv
      <4>. QED
        BY <3>3, <4>1, <4>2
    <3>. QED
      BY <2>1, <3>1, <3>2, <3>4 DEF ArgsInv
  <2>. QED
    BY <2>2, <2>3
<1>4. CASE ByteLost
  <2>1. UNCHANGED <<frame_buf, sent, begun>> /\ wire' = Tail(wire) /\ InFrame
    BY <1>4 DEF ByteLost
  <2>2. Wire' /\ (InFrame' => InFrame)
    BY <1>2, <2>1
  <2>. QED
    BY <2>1, <2>2 DEF ArgsInv
<1>5. CASE Silence
  <2>1. frame_buf' = <<>> /\ ended' = 1 /\ sent' = sent /\ wire' = wire /\ NewHistory
    BY <1>5 DEF Silence, ReadTimesOut
  <2>2. Wire' /\ (InFrame' => InFrame)
    BY <1>2, <2>1
  <2>. QED
    BY <2>1, <2>2 DEF ArgsInv, NewHistory, InFrame
<1>6. CASE UNCHANGED vars
  BY <1>6 DEF vars, ArgsInv, InFrame
<1>. QED
  BY <1>1, <1>3, <1>4, <1>5, <1>6 DEF Next, ByteStep, NoiseBytes

-----------------------------------------------------------------------------
(* A frame on its way.                                                     *)

\* The head of the line is still where it was, or the line is empty.
LEMMA HeadlessStays ==
  ASSUME TypeOK, Headless, NEW byte \in AnyByte \ Heads, Receive(byte),
         wire' = <<>> \/ (InFrame /\ wire' = Tail(wire))
  PROVE  Headless'
<1>1. \A i \in 1..Len(wire') : wire'[i] \notin Heads
  <2>1. CASE wire' = <<>>
    <3>1. Len(wire') = 0
      BY <2>1
    <3>2. 1..Len(wire') = {}
      BY <3>1
    <3>. QED
      BY <3>2
  <2>2. CASE InFrame /\ wire' = Tail(wire)
    <3>1. /\ Len(wire) \in Nat \ {0} /\ Len(wire') = Len(wire) - 1
          /\ \A i \in 1..Len(wire') : wire'[i] = wire[i + 1]
      BY <2>2, WireMoves
    <3>2. \A i \in 1..Len(wire') : i + 1 \in 1..Len(wire)
      BY <3>1
    <3>. QED
      BY <3>1, <3>2 DEF Headless
  <2>. QED
    BY <2>1, <2>2
<1>2. frame_buf' = <<>> \/ frame_buf'[1] \notin Heads
  <2>1. CASE frame_buf' = <<>>
    BY <2>1
  <2>2. CASE frame_buf' = Append(frame_buf, byte) /\ byte \in Alphabet
    <3>1. /\ Len(frame_buf) \in Nat
          /\ \A i \in 1..Len(frame_buf) : frame_buf'[i] = frame_buf[i]
          /\ frame_buf'[Len(frame_buf) + 1] = byte
      BY <2>2, Types, AppendedByte, LenProperties
    <3>2. CASE frame_buf = <<>>
      <4>1. Len(frame_buf) = 0
        BY <3>2
      <4>2. frame_buf'[1] = byte
        BY <3>1, <4>1
      <4>. QED
        BY <4>2
    <3>3. CASE frame_buf # <<>>
      <4>1. Len(frame_buf) # 0
        BY <3>3, Types, EmptySeq
      <4>2. frame_buf'[1] = frame_buf[1]
        BY <3>1, <4>1
      <4>. QED
        BY <3>3, <4>2 DEF Headless
    <3>. QED
      BY <3>2, <3>3
  <2>. QED
    BY <2>1, <2>2, ReceiveByte
<1>. QED
  BY <1>1, <1>2 DEF Headless

\* What the receiver has room for.
LEMMA RoomForByte ==
  ASSUME TypeOK, Len(frame_buf) <= 4, NEW byte \in AnyByte, byte # NewLine, Receive(byte)
  PROVE  /\ Len(frame_buf) \in Nat
         /\ Len(frame_buf') = Len(frame_buf) + 1
         /\ \A i \in 1..Len(frame_buf) : frame_buf'[i] = frame_buf[i]
         /\ frame_buf'[Len(frame_buf) + 1] = byte
<1>1. Len(frame_buf) \in Nat
  BY Types, LenProperties
<1>2. Len(frame_buf) < UART_FRAME_MAX_LEN - 1
  BY <1>1, ReceiveAssumption
<1>3. frame_buf' = Append(frame_buf, byte) /\ byte \in Alphabet
  BY <1>1, <1>2, ReceiveByte, ReceiveAssumption
<1>. QED
  BY <1>1, <1>3, Types, AppendedByte

LEMMA ByteKept ==
  ASSUME TypeOK, InFrame, Len(frame_buf) + Len(wire) <= Len(Bytes(sent)),
         NEW byte \in AnyByte, byte # NewLine, Receive(byte), wire' = Tail(wire)
  PROVE  /\ Len(frame_buf) \in Nat /\ Len(wire) \in Nat \ {0}
         /\ Len(frame_buf') = Len(frame_buf) + 1
         /\ \A i \in 1..Len(frame_buf) : frame_buf'[i] = frame_buf[i]
         /\ frame_buf'[Len(frame_buf) + 1] = byte
         /\ Len(wire') = Len(wire) - 1
         /\ \A i \in 1..Len(wire') : wire'[i] = wire[i + 1]
<1>1. /\ Len(frame_buf) \in Nat /\ Len(wire) \in Nat \ {0}
      /\ Len(wire') = Len(wire) - 1
      /\ \A i \in 1..Len(wire') : wire'[i] = wire[i + 1]
  BY WireMoves, Types, LenProperties
<1>2. Len(Bytes(sent)) \in {3, 5}
  BY Types, FrameLength
<1>3. Len(frame_buf) <= 4
  <2>. DEFINE k == Len(frame_buf)
              w == Len(wire)
              n == Len(Bytes(sent))
  <2>1. k \in Nat /\ w \in Nat \ {0} /\ n \in {3, 5} /\ k + w <= n
    BY <1>1, <1>2
  <2>. HIDE DEF k, w, n
  <2>2. k <= 4
    BY <2>1
  <2>. QED
    BY <2>2 DEF k
<1>. QED
  BY <1>1, <1>3, RoomForByte

\* The next byte of a whole frame.
LEMMA NextByte ==
  ASSUME TypeOK, InFrame, Whole
  PROVE  /\ Len(frame_buf) \in 0..4
         /\ Len(frame_buf) + Len(wire) = Len(Bytes(sent))
         /\ Head(wire) = Byte(Len(frame_buf) + 1)
         /\ Head(wire) = NewLine <=> Len(wire) = 1
         /\ Head(wire) \in Heads <=> Len(frame_buf) = 0
<1>1. Len(frame_buf) \in Nat /\ Len(wire) \in Nat \ {0} /\ Head(wire) = wire[1]
  BY WireMoves, Types, LenProperties
<1>2. Len(frame_buf) + Len(wire) = Len(Bytes(sent)) /\ Len(Bytes(sent)) \in {3, 5}
  BY Types, FrameLength DEF Whole
<1>3. Head(wire) = Byte(Len(frame_buf) + 1)
  BY <1>1 DEF Whole
<1>4. Len(frame_buf) + 1 \in 1..Len(Bytes(sent))
  BY <1>1, <1>2
<1>5. /\ Head(wire) = NewLine <=> Len(frame_buf) + 1 = Len(Bytes(sent))
      /\ Head(wire) \in Heads <=> Len(frame_buf) + 1 = 1
  BY <1>3, <1>4, Types, PlacesInFrame DEF Byte
<1>6. /\ Len(frame_buf) \in 0..4
      /\ Len(frame_buf) + 1 = Len(Bytes(sent)) <=> Len(wire) = 1
      /\ Len(frame_buf) + 1 = 1 <=> Len(frame_buf) = 0
  <2>. DEFINE k == Len(frame_buf)
              w == Len(wire)
              n == Len(Bytes(sent))
  <2>1. k \in Nat /\ w \in Nat \ {0} /\ n \in {3, 5} /\ k + w = n
    BY <1>1, <1>2
  <2>. HIDE DEF k, w, n
  <2>2. /\ k \in 0..4
        /\ k + 1 = n <=> w = 1
        /\ k + 1 = 1 <=> k = 0
    BY <2>1
  <2>. QED
    BY <2>2 DEF k, w, n
<1>. QED
  BY <1>2, <1>3, <1>5, <1>6

LEMMA WholeStays ==
  ASSUME TypeOK, Whole, ByteArrives
  PROVE  IF Head(wire) = NewLine THEN frame_buf' = <<>> /\ wire' = <<>>
                                 ELSE Whole' /\ InFrame'
<1>1. /\ InFrame /\ Receive(Head(wire)) /\ Head(wire) \in AnyByte
      /\ wire' = Tail(wire) /\ sent' = sent
  BY WireMoves DEF ByteArrives
<1>2. CASE Head(wire) = NewLine
  <2>1. Len(wire') = 0 /\ wire' \in Seq(AnyByte)
    BY <1>1, <1>2, NextByte, WireMoves
  <2>2. wire' = <<>>
    BY <2>1, EmptySeq
  <2>. QED
    BY <1>1, <1>2, <2>2, ReceiveByte
<1>3. CASE Head(wire) # NewLine
  <2>1. /\ Len(frame_buf) \in Nat /\ Len(wire) \in Nat \ {0}
        /\ Len(frame_buf') = Len(frame_buf) + 1
        /\ \A i \in 1..Len(frame_buf) : frame_buf'[i] = frame_buf[i]
        /\ frame_buf'[Len(frame_buf) + 1] = Head(wire)
        /\ Len(wire') = Len(wire) - 1
        /\ \A i \in 1..Len(wire') : wire'[i] = wire[i + 1]
    BY <1>1, <1>3, ByteKept, NextByte, Types, LenProperties
  <2>2. /\ Head(wire) = Byte(Len(frame_buf) + 1)
        /\ Len(wire) # 1
        /\ Len(frame_buf) + Len(wire) = Len(Bytes(sent))
    BY <1>1, <1>3, NextByte
  <2>3. Len(wire') # 0
    BY <2>1, <2>2
  <2>4. InFrame'
    BY <2>3 DEF InFrame
  <2>5. Len(frame_buf') + Len(wire') = Len(Bytes(sent'))
    BY <1>1, <2>1, <2>2
  <2>6. \A i \in 1..Len(frame_buf') : frame_buf'[i] = Bytes(sent')[i]
    <3>. SUFFICES ASSUME NEW i \in 1..Len(frame_buf')
                  PROVE  frame_buf'[i] = Byte(i)
      BY <1>1 DEF Byte
    <3>1. i \in 1..Len(frame_buf) \/ i = Len(frame_buf) + 1
      BY <2>1
    <3>. QED
      BY <2>1, <2>2, <3>1 DEF Whole
  <2>7. \A i \in 1..Len(wire') : wire'[i] = Bytes(sent')[Len(frame_buf') + i]
    <3>. SUFFICES ASSUME NEW i \in 1..Len(wire')
                  PROVE  wire'[i] = Byte(Len(frame_buf') + i)
      BY <1>1 DEF Byte
    <3>1. i + 1 \in 1..Len(wire) /\ Len(frame_buf) + (i + 1) = Len(frame_buf') + i
      BY <2>1
    <3>2. wire[i + 1] = Byte(Len(frame_buf) + (i + 1))
      BY <3>1 DEF Whole
    <3>. QED
      BY <2>1, <3>1, <3>2
  <2>. QED
    BY <1>3, <2>4, <2>5, <2>6, <2>7 DEF Whole, Byte
<1>. QED
  BY <1>2, <1>3

LEMMA NextAfterLost ==
  ASSUME TypeOK, InFrame, NEW p \in 2..5, Lost(p)
  PROVE  /\ Len(frame_buf) + Len(wire) = Len(Bytes(sent)) - 1
         /\ Head(wire) = Byte(Len(frame_buf) + 2)
         /\ Head(wire) = NewLine <=> Len(wire) = 1
<1>1. Len(frame_buf) \in Nat /\ Len(wire) \in Nat \ {0} /\ Head(wire) = wire[1]
  BY WireMoves, Types, LenProperties
<1>2. Len(frame_buf) + Len(wire) = Len(Bytes(sent)) - 1 /\ Len(Bytes(sent)) \in {3, 5}
  BY Types, FrameLength DEF Lost
<1>3. Head(wire) = Byte(Len(frame_buf) + 2)
  <2>1. wire[1] = Byte(Len(frame_buf) + 1 + 1)
    BY <1>1 DEF Lost
  <2>2. Len(frame_buf) + 1 + 1 = Len(frame_buf) + 2
    BY <1>1
  <2>. QED
    BY <1>1, <2>1, <2>2
<1>4. Len(frame_buf) + 2 \in 1..Len(Bytes(sent))
  BY <1>1, <1>2
<1>5. Head(wire) = NewLine <=> Len(frame_buf) + 2 = Len(Bytes(sent))
  BY <1>3, <1>4, Types, PlacesInFrame DEF Byte
<1>6. Len(frame_buf) + 2 = Len(Bytes(sent)) <=> Len(wire) = 1
  <2>. DEFINE k == Len(frame_buf)
              w == Len(wire)
              n == Len(Bytes(sent))
  <2>1. k \in Nat /\ w \in Nat \ {0} /\ n \in {3, 5} /\ k + w = n - 1
    BY <1>1, <1>2
  <2>. HIDE DEF k, w, n
  <2>2. k + 2 = n <=> w = 1
    BY <2>1
  <2>. QED
    BY <2>2 DEF k, w, n
<1>. QED
  BY <1>2, <1>3, <1>5, <1>6

LEMMA LostStays ==
  ASSUME TypeOK, NEW p \in 2..5, Lost(p), ByteArrives
  PROVE  IF Head(wire) = NewLine THEN frame_buf' = <<>> /\ wire' = <<>> ELSE Lost(p)'
<1>1. /\ InFrame /\ Receive(Head(wire)) /\ Head(wire) \in AnyByte
      /\ wire' = Tail(wire) /\ sent' = sent
  BY WireMoves DEF ByteArrives
<1>2. CASE Head(wire) = NewLine
  <2>1. Len(wire') = 0 /\ wire' \in Seq(AnyByte)
    BY <1>1, <1>2, NextAfterLost, WireMoves
  <2>2. wire' = <<>>
    BY <2>1, EmptySeq
  <2>. QED
    BY <1>1, <1>2, <2>2, ReceiveByte
<1>3. CASE Head(wire) # NewLine
  <2>1. /\ Len(frame_buf) + Len(wire) = Len(Bytes(sent)) - 1
        /\ Head(wire) = Byte(Len(frame_buf) + 2)
        /\ Len(frame_buf) >= p - 1
    BY <1>1, NextAfterLost DEF Lost
  <2>2. Len(frame_buf) + Len(wire) <= Len(Bytes(sent))
    BY <2>1, Types, FrameLength, LenProperties
  <2>3. /\ Len(frame_buf) \in Nat /\ Len(wire) \in Nat \ {0}
        /\ Len(frame_buf') = Len(frame_buf) + 1
        /\ \A i \in 1..Len(frame_buf) : frame_buf'[i] = frame_buf[i]
        /\ frame_buf'[Len(frame_buf) + 1] = Head(wire)
        /\ Len(wire') = Len(wire) - 1
        /\ \A i \in 1..Len(wire') : wire'[i] = wire[i + 1]
    BY <1>1, <1>3, <2>2, ByteKept
  <2>4. Len(frame_buf') + Len(wire') = Len(Bytes(sent')) - 1 /\ Len(frame_buf') >= p - 1
    BY <1>1, <2>1, <2>3
  <2>5. \A i \in 1..Len(frame_buf') :
          frame_buf'[i] = IF i < p THEN Bytes(sent')[i] ELSE Bytes(sent')[i + 1]
    <3>. SUFFICES ASSUME NEW i \in 1..Len(frame_buf')
                  PROVE  frame_buf'[i] = IF i < p THEN Byte(i) ELSE Byte(i + 1)
      BY <1>1 DEF Byte
    <3>1. CASE i \in 1..Len(frame_buf)
      BY <2>3, <3>1 DEF Lost
    <3>2. CASE i = Len(frame_buf) + 1
      <4>1. ~(i < p) /\ i + 1 = Len(frame_buf) + 2
        BY <2>1, <2>3, <3>2
      <4>. QED
        BY <2>1, <2>3, <3>2, <4>1
    <3>3. i \in 1..Len(frame_buf) \/ i = Len(frame_buf) + 1
      BY <2>3
    <3>. QED
      BY <3>1, <3>2, <3>3
  <2>6. \A i \in 1..Len(wire') : wire'[i] = Bytes(sent')[Len(frame_buf') + 1 + i]
    <3>. SUFFICES ASSUME NEW i \in 1..Len(wire')
                  PROVE  wire'[i] = Byte(Len(frame_buf') + 1 + i)
      BY <1>1 DEF Byte
    <3>1. i + 1 \in 1..Len(wire) /\ Len(frame_buf) + 1 + (i + 1) = Len(frame_buf') + 1 + i
      BY <2>3
    <3>2. wire[i + 1] = Byte(Len(frame_buf) + 1 + (i + 1))
      BY <3>1 DEF Lost
    <3>. QED
      BY <2>3, <3>1, <3>2
  <2>. QED
    BY <1>3, <2>4, <2>5, <2>6 DEF Lost, Byte
<1>. QED
  BY <1>2, <1>3

LEMMA NextAfterGarbled ==
  ASSUME TypeOK, InFrame, NEW p \in 2..5, Garbled(p)
  PROVE  /\ Len(frame_buf) + Len(wire) = Len(Bytes(sent))
         /\ Head(wire) = Byte(Len(frame_buf) + 1)
         /\ Head(wire) = NewLine <=> Len(wire) = 1
<1>1. Len(frame_buf) \in Nat /\ Len(wire) \in Nat \ {0} /\ Head(wire) = wire[1]
  BY WireMoves, Types, LenProperties
<1>2. Len(frame_buf) + Len(wire) = Len(Bytes(sent)) /\ Len(Bytes(sent)) \in {3, 5}
  BY Types, FrameLength DEF Garbled
<1>3. Head(wire) = Byte(Len(frame_buf) + 1)
  BY <1>1 DEF Garbled
<1>4. Len(frame_buf) + 1 \in 1..Len(Bytes(sent))
  BY <1>1, <1>2
<1>5. Head(wire) = NewLine <=> Len(frame_buf) + 1 = Len(Bytes(sent))
  BY <1>3, <1>4, Types, PlacesInFrame DEF Byte
<1>6. Len(frame_buf) + 1 = Len(Bytes(sent)) <=> Len(wire) = 1
  <2>. DEFINE k == Len(frame_buf)
              w == Len(wire)
              n == Len(Bytes(sent))
  <2>1. k \in Nat /\ w \in Nat \ {0} /\ n \in {3, 5} /\ k + w = n
    BY <1>1, <1>2
  <2>. HIDE DEF k, w, n
  <2>2. k + 1 = n <=> w = 1
    BY <2>1
  <2>. QED
    BY <2>2 DEF k, w, n
<1>. QED
  BY <1>2, <1>3, <1>5, <1>6

LEMMA GarbledStays ==
  ASSUME TypeOK, NEW p \in 2..5, Garbled(p), ByteArrives
  PROVE  IF Head(wire) = NewLine THEN frame_buf' = <<>> /\ wire' = <<>> ELSE Garbled(p)'
<1>1. /\ InFrame /\ Receive(Head(wire)) /\ Head(wire) \in AnyByte
      /\ wire' = Tail(wire) /\ sent' = sent
  BY WireMoves DEF ByteArrives
<1>2. CASE Head(wire) = NewLine
  <2>1. Len(wire') = 0 /\ wire' \in Seq(AnyByte)
    BY <1>1, <1>2, NextAfterGarbled, WireMoves
  <2>2. wire' = <<>>
    BY <2>1, EmptySeq
  <2>. QED
    BY <1>1, <1>2, <2>2, ReceiveByte
<1>3. CASE Head(wire) # NewLine
  <2>1. /\ Len(frame_buf) + Len(wire) = Len(Bytes(sent))
        /\ Head(wire) = Byte(Len(frame_buf) + 1)
        /\ Len(frame_buf) >= p
    BY <1>1, NextAfterGarbled DEF Garbled
  <2>2. Len(frame_buf) + Len(wire) <= Len(Bytes(sent))
    BY <2>1, Types, FrameLength, LenProperties
  <2>3. /\ Len(frame_buf) \in Nat /\ Len(wire) \in Nat \ {0}
        /\ Len(frame_buf') = Len(frame_buf) + 1
        /\ \A i \in 1..Len(frame_buf) : frame_buf'[i] = frame_buf[i]
        /\ frame_buf'[Len(frame_buf) + 1] = Head(wire)
        /\ Len(wire') = Len(wire) - 1
        /\ \A i \in 1..Len(wire') : wire'[i] = wire[i + 1]
    BY <1>1, <1>3, <2>2, ByteKept
  <2>4. Len(frame_buf') + Len(wire') = Len(Bytes(sent')) /\ Len(frame_buf') >= p
    BY <1>1, <2>1, <2>3
  <2>5. \A i \in 1..Len(frame_buf') : IF i = p THEN frame_buf'[i] # Bytes(sent')[i]
                                               ELSE frame_buf'[i] = Bytes(sent')[i]
    <3>. SUFFICES ASSUME NEW i \in 1..Len(frame_buf')
                  PROVE  IF i = p THEN frame_buf'[i] # Byte(i) ELSE frame_buf'[i] = Byte(i)
      BY <1>1 DEF Byte
    <3>1. CASE i \in 1..Len(frame_buf)
      BY <2>3, <3>1 DEF Garbled
    <3>2. CASE i = Len(frame_buf) + 1
      <4>1. i # p
        BY <2>1, <2>3, <3>2
      <4>. QED
        BY <2>1, <2>3, <3>2, <4>1
    <3>3. i \in 1..Len(frame_buf) \/ i = Len(frame_buf) + 1
      BY <2>3
    <3>. QED
      BY <3>1, <3>2, <3>3
  <2>6. \A i \in 1..Len(wire') : wire'[i] = Bytes(sent')[Len(frame_buf') + i]
    <3>. SUFFICES ASSUME NEW i \in 1..Len(wire')
                  PROVE  wire'[i] = Byte(Len(frame_buf') + i)
      BY <1>1 DEF Byte
    <3>1. i + 1 \in 1..Len(wire) /\ Len(frame_buf) + (i + 1) = Len(frame_buf') + i
      BY <2>3
    <3>2. wire[i + 1] = Byte(Len(frame_buf) + (i + 1))
      BY <3>1 DEF Garbled
    <3>. QED
      BY <2>3, <3>1, <3>2
  <2>. QED
    BY <1>3, <2>4, <2>5, <2>6 DEF Garbled, Byte
<1>. QED
  BY <1>2, <1>3

LEMMA NextAfterInserted ==
  ASSUME TypeOK, InFrame, NEW p \in 1..5, Inserted(p)
  PROVE  /\ Len(frame_buf) + Len(wire) = Len(Bytes(sent)) + 1
         /\ Head(wire) = Byte(Len(frame_buf))
         /\ Head(wire) = NewLine <=> Len(wire) = 1
         /\ Head(wire) # NewLine => Len(frame_buf) <= 4
<1>1. Len(frame_buf) \in Nat \ {0} /\ Len(wire) \in Nat \ {0} /\ Head(wire) = wire[1]
  <2>1. Len(frame_buf) \in Nat /\ Len(frame_buf) >= p
    BY Types, LenProperties DEF Inserted
  <2>. QED
    BY <2>1, WireMoves
<1>2. Len(frame_buf) + Len(wire) = Len(Bytes(sent)) + 1 /\ Len(Bytes(sent)) \in {3, 5}
  BY Types, FrameLength DEF Inserted
<1>3. Head(wire) = Byte(Len(frame_buf))
  <2>1. wire[1] = Byte(Len(frame_buf) + 1 - 1)
    BY <1>1 DEF Inserted
  <2>2. Len(frame_buf) + 1 - 1 = Len(frame_buf)
    BY <1>1
  <2>. QED
    BY <1>1, <2>1, <2>2
<1>4. Len(frame_buf) \in 1..Len(Bytes(sent))
  BY <1>1, <1>2
<1>5. Head(wire) = NewLine <=> Len(frame_buf) = Len(Bytes(sent))
  BY <1>3, <1>4, Types, PlacesInFrame DEF Byte
<1>6. /\ Len(frame_buf) = Len(Bytes(sent)) <=> Len(wire) = 1
      /\ Len(frame_buf) # Len(Bytes(sent)) => Len(frame_buf) <= 4
  <2>. DEFINE k == Len(frame_buf)
              w == Len(wire)
              n == Len(Bytes(sent))
  <2>1. k \in Nat /\ w \in Nat \ {0} /\ n \in {3, 5} /\ k + w = n + 1
    BY <1>1, <1>2
  <2>. HIDE DEF k, w, n
  <2>2. (k = n <=> w = 1) /\ (k # n => k <= 4)
    BY <2>1
  <2>. QED
    BY <2>2 DEF k, w, n
<1>. QED
  BY <1>2, <1>3, <1>5, <1>6

LEMMA InsertedStays ==
  ASSUME TypeOK, NEW p \in 1..5, Inserted(p), ByteArrives
  PROVE  IF Head(wire) = NewLine THEN frame_buf' = <<>> /\ wire' = <<>> ELSE Inserted(p)'
<1>1. /\ InFrame /\ Receive(Head(wire)) /\ Head(wire) \in AnyByte
      /\ wire' = Tail(wire) /\ sent' = sent
  BY WireMoves DEF ByteArrives
<1>2. CASE Head(wire) = NewLine
  <2>1. Len(wire') = 0 /\ wire' \in Seq(AnyByte)
    BY <1>1, <1>2, NextAfterInserted, WireMoves
  <2>2. wire' = <<>>
    BY <2>1, EmptySeq
  <2>. QED
    BY <1>1, <1>2, <2>2, ReceiveByte
<1>3. CASE Head(wire) # NewLine
  <2>1. /\ Len(frame_buf) + Len(wire) = Len(Bytes(sent)) + 1
        /\ Head(wire) = Byte(Len(frame_buf))
        /\ Len(frame_buf) >= p /\ Len(frame_buf) <= 4
    BY <1>1, <1>3, NextAfterInserted DEF Inserted
  <2>2. /\ Len(frame_buf) \in Nat
        /\ Len(frame_buf') = Len(frame_buf) + 1
        /\ \A i \in 1..Len(frame_buf) : frame_buf'[i] = frame_buf[i]
        /\ frame_buf'[Len(frame_buf) + 1] = Head(wire)
    BY <1>1, <1>3, <2>1, RoomForByte
  <2>3. /\ Len(wire) \in Nat \ {0}
        /\ Len(wire') = Len(wire) - 1
        /\ \A i \in 1..Len(wire') : wire'[i] = wire[i + 1]
    BY <1>1, WireMoves
  <2>4. Len(frame_buf') + Len(wire') = Len(Bytes(sent')) + 1 /\ Len(frame_buf') >= p
    <3>1. Len(Bytes(sent)) \in {3, 5} /\ sent' = sent
      BY <1>1, Types, FrameLength
    <3>. QED
      BY <2>1, <2>2, <2>3, <3>1
  <2>5. frame_buf'[p] \in NoiseBytes
    <3>1. p \in 1..Len(frame_buf)
      BY <2>1, <2>2
    <3>. QED
      BY <2>2, <3>1 DEF Inserted
  <2>6. \A i \in 1..Len(frame_buf') : i # p =>
          frame_buf'[i] = IF i < p THEN Bytes(sent')[i] ELSE Bytes(sent')[i - 1]
    <3>. SUFFICES ASSUME NEW i \in 1..Len(frame_buf'), i # p
                  PROVE  frame_buf'[i] = IF i < p THEN Byte(i) ELSE Byte(i - 1)
      BY <1>1 DEF Byte
    <3>1. CASE i \in 1..Len(frame_buf)
      BY <2>2, <3>1 DEF Inserted
    <3>2. CASE i = Len(frame_buf) + 1
      <4>1. ~(i < p) /\ i - 1 = Len(frame_buf)
        BY <2>1, <2>2, <3>2
      <4>. QED
        BY <2>1, <2>2, <3>2, <4>1
    <3>3. i \in 1..Len(frame_buf) \/ i = Len(frame_buf) + 1
      BY <2>2
    <3>. QED
      BY <3>1, <3>2, <3>3
  <2>7. \A i \in 1..Len(wire') : wire'[i] = Bytes(sent')[Len(frame_buf') + i - 1]
    <3>. SUFFICES ASSUME NEW i \in 1..Len(wire')
                  PROVE  wire'[i] = Byte(Len(frame_buf') + i - 1)
      BY <1>1 DEF Byte
    <3>1. i + 1 \in 1..Len(wire) /\ Len(frame_buf) + (i + 1) - 1 = Len(frame_buf') + i - 1
      BY <2>2, <2>3
    <3>2. wire[i + 1] = Byte(Len(frame_buf) + (i + 1) - 1)
      BY <3>1 DEF Inserted
    <3>. QED
      BY <2>3, <3>1, <3>2
  <2>. QED
    BY <1>3, <2>4, <2>5, <2>6, <2>7 DEF Inserted, Byte
<1>. QED
  BY <1>2, <1>3

-----------------------------------------------------------------------------
(* The first error in a frame.                                             *)

LEMMA NoOtherHead ==
  ASSUME TypeOK, InFrame, Whole
  PROVE  /\ \A i \in 1..Len(Tail(wire)) : Tail(wire)[i] \notin Heads
         /\ Len(frame_buf) # 0 => \A i \in 1..Len(wire) : wire[i] \notin Heads
<1>1. /\ Len(frame_buf) \in Nat /\ Len(wire) \in Nat \ {0}
      /\ Len(Tail(wire)) = Len(wire) - 1
      /\ \A i \in 1..Len(Tail(wire)) : Tail(wire)[i] = wire[i + 1]
  BY WireMoves, Types, LenProperties
<1>2. ASSUME NEW i \in 1..Len(wire), Len(frame_buf) + i # 1
      PROVE  wire[i] \notin Heads
  <2>1. wire[i] = Byte(Len(frame_buf) + i) /\ Len(frame_buf) + Len(wire) = Len(Bytes(sent))
    BY DEF Whole
  <2>2. Len(Bytes(sent)) \in {3, 5}
    BY Types, FrameLength
  <2>3. Len(frame_buf) + i \in 1..Len(Bytes(sent))
    BY <1>1, <2>1, <2>2
  <2>. QED
    BY <1>2, <2>1, <2>3, Types, PlacesInFrame DEF Byte
<1>3. \A i \in 1..Len(Tail(wire)) : i + 1 \in 1..Len(wire) /\ Len(frame_buf) + (i + 1) # 1
  BY <1>1
<1>4. \A i \in 1..Len(Tail(wire)) : Tail(wire)[i] \notin Heads
  BY <1>1, <1>2, <1>3
<1>5. Len(frame_buf) # 0 => \A i \in 1..Len(wire) : Len(frame_buf) + i # 1
  BY <1>1
<1>. QED
  BY <1>2, <1>4, <1>5

LEMMA LostNow ==
  ASSUME TypeOK, sent.crc = 1, Whole, ByteLost
  PROVE  Headless' \/ \E p \in 2..5 : Lost(p)'
<1>1. /\ InFrame /\ wire' = Tail(wire) /\ sent' = sent /\ frame_buf' = frame_buf
      /\ Len(frame_buf) \in Nat /\ Len(wire) \in Nat \ {0}
      /\ Len(wire') = Len(wire) - 1
      /\ \A i \in 1..Len(wire') : wire'[i] = wire[i + 1]
  BY WireMoves, Types, LenProperties DEF ByteLost
<1>2. CASE Len(frame_buf) = 0
  <2>1. frame_buf' = <<>>
    BY <1>1, <1>2, Types, EmptySeq
  <2>2. \A i \in 1..Len(wire') : wire'[i] \notin Heads
    BY <1>1, NoOtherHead
  <2>. QED
    BY <2>1, <2>2 DEF Headless
<1>3. CASE Len(frame_buf) # 0
  <2>. PICK p : p = Len(frame_buf) + 1
    OBVIOUS
  <2>1. Len(Bytes(sent)) = 5 /\ Len(frame_buf) + Len(wire) = Len(Bytes(sent))
    BY <1>1, Types, BytesOf DEF Whole
  <2>2. p \in 2..5 /\ Len(frame_buf) >= p - 1
    BY <1>1, <1>3, <2>1
  <2>3. Len(frame_buf) + Len(wire') = Len(Bytes(sent)) - 1
    BY <1>1, <2>1
  <2>4. \A i \in 1..Len(frame_buf) : frame_buf[i] = IF i < p THEN Byte(i) ELSE Byte(i + 1)
    <3>1. \A i \in 1..Len(frame_buf) : i < p
      BY <1>1
    <3>. QED
      BY <3>1 DEF Whole
  <2>5. \A i \in 1..Len(wire') : wire'[i] = Byte(Len(frame_buf) + 1 + i)
    <3>1. \A i \in 1..Len(wire') :
            i + 1 \in 1..Len(wire) /\ Len(frame_buf) + (i + 1) = Len(frame_buf) + 1 + i
      BY <1>1
    <3>2. \A i \in 1..Len(wire') : wire[i + 1] = Byte(Len(frame_buf) + (i + 1))
      BY <3>1 DEF Whole
    <3>. QED
      BY <1>1, <3>1, <3>2
  <2>6. Lost(p)'
    BY <1>1, <2>2, <2>3, <2>4, <2>5 DEF Lost, Byte
  <2>. QED
    BY <2>2, <2>6
<1>. QED
  BY <1>2, <1>3

LEMMA GarbledNow ==
  ASSUME TypeOK, sent.crc = 1, Whole, NEW byte \in NoiseBytes, ByteGarbled(byte)
  PROVE  Headless' \/ \E p \in 2..5 : Garbled(p)'
<1>1. /\ InFrame /\ wire' = Tail(wire) /\ sent' = sent
      /\ Receive(byte) /\ byte \in AnyByte /\ byte # Head(wire)
      /\ Len(frame_buf) \in Nat /\ Len(wire) \in Nat \ {0}
  BY WireMoves, Types, LenProperties, NoiseType DEF ByteGarbled
<1>2. \A i \in 1..Len(wire') : wire'[i] \notin Heads
  BY <1>1, NoOtherHead
<1>3. CASE byte = NewLine
  <2>1. frame_buf' = <<>>
    BY <1>1, <1>3, ReceiveByte
  <2>. QED
    BY <1>2, <2>1 DEF Headless
<1>4. CASE byte # NewLine
  <2>1. /\ Len(frame_buf) + Len(wire) = Len(Bytes(sent))
        /\ Head(wire) = Byte(Len(frame_buf) + 1)
        /\ Len(Bytes(sent)) = 5
    BY <1>1, NextByte, Types, BytesOf
  <2>2. /\ Len(frame_buf') = Len(frame_buf) + 1
        /\ \A i \in 1..Len(frame_buf) : frame_buf'[i] = frame_buf[i]
        /\ frame_buf'[Len(frame_buf) + 1] = byte
        /\ Len(wire') = Len(wire) - 1
        /\ \A i \in 1..Len(wire') : wire'[i] = wire[i + 1]
    <3>1. Len(frame_buf) + Len(wire) <= Len(Bytes(sent))
      BY <2>1
    <3>. QED
      BY <1>1, <1>4, <3>1, ByteKept
  <2>3. CASE Len(frame_buf) = 0
    <3>1. byte \notin Heads
      BY BytesDiffer DEF NoiseBytes, Marks
    <3>2. frame_buf'[1] = byte
      BY <2>2, <2>3
    <3>. QED
      BY <1>2, <3>1, <3>2 DEF Headless
  <2>4. CASE Len(frame_buf) # 0
    <3>. PICK p : p = Len(frame_buf) + 1
      OBVIOUS
    <3>1. p \in 2..5 /\ Len(frame_buf') >= p /\ Len(frame_buf') = p
      BY <1>1, <2>1, <2>2, <2>4
    <3>2. Len(frame_buf') + Len(wire') = Len(Bytes(sent))
      BY <1>1, <2>1, <2>2
    <3>3. \A i \in 1..Len(frame_buf') : IF i = p THEN frame_buf'[i] # Byte(i)
                                                 ELSE frame_buf'[i] = Byte(i)
      <4>1. \A i \in 1..Len(frame_buf') : i = p \/ i \in 1..Len(frame_buf)
        BY <1>1, <2>2
      <4>2. \A i \in 1..Len(frame_buf) : i # p /\ frame_buf[i] = Byte(i)
        BY <1>1 DEF Whole
      <4>. QED
        BY <1>1, <2>1, <2>2, <4>1, <4>2
    <3>4. \A i \in 1..Len(wire') : wire'[i] = Byte(Len(frame_buf') + i)
      <4>1. \A i \in 1..Len(wire') :
              i + 1 \in 1..Len(wire) /\ Len(frame_buf) + (i + 1) = Len(frame_buf') + i
        BY <1>1, <2>2
      <4>2. \A i \in 1..Len(wire') : wire[i + 1] = Byte(Len(frame_buf) + (i + 1))
        BY <4>1 DEF Whole
      <4>. QED
        BY <2>2, <4>1, <4>2
    <3>5. Garbled(p)'
      BY <1>1, <3>1, <3>2, <3>3, <3>4 DEF Garbled, Byte
    <3>. QED
      BY <3>1, <3>5
  <2>. QED
    BY <2>3, <2>4
<1>. QED
  BY <1>3, <1>4

\* What is left of a frame cut by a silence: all of it, or no head.
LEMMA SilenceNow ==
  ASSUME TypeOK, Whole, InFrame, Silence
  PROVE  Headless' \/ Whole'
<1>1. frame_buf' = <<>> /\ wire' = wire /\ sent' = sent
  BY DEF Silence, ReadTimesOut
<1>2. CASE Len(frame_buf) = 0
  <2>1. frame_buf' = frame_buf
    BY <1>1, <1>2, Types, EmptySeq
  <2>. QED
    BY <1>1, <2>1 DEF Whole, Byte
<1>3. CASE Len(frame_buf) # 0
  BY <1>1, <1>3, NoOtherHead DEF Headless
<1>. QED
  BY <1>2, <1>3

LEMMA InsertedNow ==
  ASSUME TypeOK, sent.crc = 1, Whole, InFrame, NEW byte \in NoiseBytes, Noise(byte)
  PROVE  Headless' \/ Whole' \/ \E p \in 1..5 : Inserted(p)'
<1>1. /\ wire' = wire /\ sent' = sent /\ Receive(byte) /\ byte \in AnyByte
      /\ Len(frame_buf) \in 0..4
      /\ Len(frame_buf) + Len(wire) = Len(Bytes(sent))
      /\ Len(wire) \in Nat
  BY NextByte, WireMoves, NoiseType DEF Noise
<1>2. CASE byte = NewLine
  <2>1. frame_buf' = <<>>
    BY <1>1, <1>2, ReceiveByte
  <2>2. CASE Len(frame_buf) = 0
    <3>1. frame_buf' = frame_buf
      BY <2>1, <2>2, Types, EmptySeq
    <3>. QED
      BY <1>1, <3>1 DEF Whole, Byte
  <2>3. CASE Len(frame_buf) # 0
    BY <1>1, <2>1, <2>3, NoOtherHead DEF Headless
  <2>. QED
    BY <2>2, <2>3
<1>3. CASE byte # NewLine
  <2>. PICK p : p = Len(frame_buf) + 1
    OBVIOUS
  <2>1. /\ Len(frame_buf') = p
        /\ \A i \in 1..Len(frame_buf) : frame_buf'[i] = frame_buf[i]
        /\ frame_buf'[p] = byte
    <3>1. Len(frame_buf) <= 4
      <4>1. \A k \in 0..4 : k <= 4
        OBVIOUS
      <4>. QED
        BY <1>1, <4>1
    <3>2. /\ Len(frame_buf') = Len(frame_buf) + 1
          /\ \A i \in 1..Len(frame_buf) : frame_buf'[i] = frame_buf[i]
          /\ frame_buf'[Len(frame_buf) + 1] = byte
      BY <1>1, <1>3, <3>1, RoomForByte
    <3>. QED
      BY <3>2
  <2>2. p \in 1..5 /\ Len(frame_buf') >= p
    BY <1>1, <2>1
  <2>3. Len(frame_buf') + Len(wire') = Len(Bytes(sent')) + 1
    <3>1. Len(Bytes(sent)) \in {3, 5}
      BY Types, FrameLength
    <3>. QED
      BY <1>1, <2>1, <3>1
  <2>4. \A i \in 1..Len(frame_buf') : i # p =>
          frame_buf'[i] = IF i < p THEN Byte(i) ELSE Byte(i - 1)
    <3>1. \A i \in 1..Len(frame_buf') : i # p => i < p /\ i \in 1..Len(frame_buf)
      BY <1>1, <2>1
    <3>. QED
      BY <2>1, <3>1 DEF Whole
  <2>5. \A i \in 1..Len(wire') : wire'[i] = Byte(Len(frame_buf') + i - 1)
    <3>1. \A i \in 1..Len(wire) : Len(frame_buf') + i - 1 = Len(frame_buf) + i
      BY <1>1, <2>1
    <3>. QED
      BY <1>1, <3>1 DEF Whole
  <2>6. Inserted(p)'
    BY <1>1, <2>1, <2>2, <2>3, <2>4, <2>5 DEF Inserted, Byte
  <2>. QED
    BY <2>2, <2>6
<1>. QED
  BY <1>2, <1>3

-----------------------------------------------------------------------------
(* The invariant is inductive.                                             *)

LEMMA SentWhole ==
  ASSUME TypeOK, EndedInv, ended = 1, NEW f \in Frames, Send(f)
  PROVE  Whole' /\ InFrame'
<1>1. frame_buf' = <<>> /\ wire' = Bytes(f) /\ sent' = f
  BY DEF Send, EndedInv
<1>2. Len(Bytes(f)) \in {3, 5}
  BY FrameLength
<1>3. Len(frame_buf') = 0
  BY <1>1
<1>4. \A i \in 1..Len(wire') : wire'[i] = Bytes(sent')[Len(frame_buf') + i]
  BY <1>1, <1>2, <1>3
<1>5. Whole'
  BY <1>1, <1>2, <1>3, <1>4 DEF Whole, Byte
<1>6. InFrame'
  <2>1. Len(wire') # 0
    BY <1>1, <1>2
  <2>. QED
    BY <2>1 DEF InFrame
<1>. QED
  BY <1>5, <1>6

LEMMA CleanStep == TypeOK /\ EndedInv /\ CleanInv /\ [Next]_vars => CleanInv'
<1>. SUFFICES ASSUME TypeOK, EndedInv, CleanInv, [Next]_vars, fresh' = 1, errors' = 0
              PROVE  IF InFrame' THEN Whole' ELSE frame_buf' = <<>>
  BY DEF CleanInv
<1>1. ASSUME NEW f \in Frames, Send(f)
      PROVE  Whole' /\ InFrame'
  <2>1. ended = 1
    BY <1>1 DEF Send
  <2>. QED
    BY <1>1, <2>1, SentWhole
<1>2. CASE ByteArrives
  <2>1. Whole
    BY <1>2 DEF ByteArrives, CleanInv
  <2>. QED
    BY <1>2, <2>1, WholeStays DEF InFrame
<1>3. CASE Silence
  <2>1. ~InFrame /\ wire' = wire /\ frame_buf' = <<>>
    BY <1>3, Types DEF Silence, WireError, ReadTimesOut
  <2>. QED
    BY <2>1 DEF InFrame
<1>4. ASSUME WireError
      PROVE  FALSE
  BY <1>4, Types DEF WireError
<1>5. CASE UNCHANGED vars
  <2>1. fresh = 1 /\ errors = 0
    BY <1>5 DEF vars
  <2>. QED
    BY <1>5, <2>1 DEF vars, CleanInv, InFrame, Whole, Byte
<1>. QED
  BY <1>1, <1>2, <1>3, <1>4, <1>5 DEF Next, ByteLost, ByteGarbled, Noise

LEMMA NothingIsHeadless ==
  ASSUME wire' = <<>>, frame_buf' = <<>>
  PROVE  Headless'
<1>1. Len(wire') = 0
  OBVIOUS
<1>2. \A i \in 1..Len(wire') : wire'[i] \notin Heads
  BY <1>1
<1>. QED
  BY <1>2 DEF Headless

LEMMA OneErrorStep == TypeOK /\ CleanInv /\ OneErrorInv /\ [Next]_vars => OneErrorInv'
<1>. DEFINE Harmed == \/ Headless \/ Whole
                      \/ \E p \in 2..5 : Lost(p) \/ Garbled(p)
                      \/ \E p \in 1..5 : Inserted(p)
<1>. SUFFICES ASSUME TypeOK, CleanInv, OneErrorInv, [Next]_vars,
                     fresh' = 1, sent'.crc = 1, errors' = 1
              PROVE  Harmed'
  BY DEF OneErrorInv
<1>1. ASSUME NEW f \in Frames, Send(f)
      PROVE  FALSE
  BY <1>1 DEF Send
<1>2. CASE ByteArrives
  <2>1. /\ InFrame /\ Receive(Head(wire)) /\ wire' = Tail(wire) /\ Head(wire) \in AnyByte
        /\ fresh = 1 /\ sent.crc = 1 /\ errors = 1
    BY <1>2, WireMoves DEF ByteArrives
  <2>2. Harmed
    BY <2>1 DEF OneErrorInv
  <2>3. CASE Headless
    <3>1. Head(wire) \notin Heads
      BY <2>1, <2>3, WireMoves DEF Headless
    <3>. QED
      BY <2>1, <2>3, <3>1, HeadlessStays
  <2>4. CASE Whole
    BY <1>2, <2>4, WholeStays, NothingIsHeadless
  <2>5. ASSUME NEW p \in 2..5, Lost(p)
        PROVE  Harmed'
    <3>1. CASE Head(wire) = NewLine
      BY <1>2, <2>5, <3>1, LostStays, NothingIsHeadless
    <3>2. CASE Head(wire) # NewLine
      <4>1. Lost(p)'
        BY <1>2, <2>5, <3>2, LostStays
      <4>. QED
        BY <4>1
    <3>. QED
      BY <3>1, <3>2
  <2>6. ASSUME NEW p \in 2..5, Garbled(p)
        PROVE  Harmed'
    <3>1. CASE Head(wire) = NewLine
      BY <1>2, <2>6, <3>1, GarbledStays, NothingIsHeadless
    <3>2. CASE Head(wire) # NewLine
      <4>1. Garbled(p)'
        BY <1>2, <2>6, <3>2, GarbledStays
      <4>. QED
        BY <4>1
    <3>. QED
      BY <3>1, <3>2
  <2>7. ASSUME NEW p \in 1..5, Inserted(p)
        PROVE  Harmed'
    <3>1. CASE Head(wire) = NewLine
      BY <1>2, <2>7, <3>1, InsertedStays, NothingIsHeadless
    <3>2. CASE Head(wire) # NewLine
      <4>1. Inserted(p)'
        BY <1>2, <2>7, <3>2, InsertedStays
      <4>. QED
        BY <4>1
    <3>. QED
      BY <3>1, <3>2
  <2>. QED
    BY <2>2, <2>3, <2>4, <2>5, <2>6, <2>7
<1>3. ASSUME WireError, UNCHANGED <<sent, fresh>>
      PROVE  /\ fresh = 1 /\ sent.crc = 1
             /\ IF InFrame THEN Whole ELSE frame_buf = <<>>
  <2>1. errors = 0
    BY <1>3, Types DEF WireError
  <2>. QED
    BY <1>3, <2>1 DEF CleanInv
<1>4. CASE ByteLost
  <2>1. sent.crc = 1 /\ Whole
    BY <1>3, <1>4 DEF ByteLost
  <2>. QED
    BY <1>4, <2>1, LostNow
<1>5. ASSUME NEW byte \in NoiseBytes, ByteGarbled(byte)
      PROVE  Harmed'
  <2>1. sent.crc = 1 /\ Whole
    BY <1>3, <1>5 DEF ByteGarbled
  <2>. QED
    BY <1>5, <2>1, GarbledNow
<1>6. ASSUME NEW byte \in NoiseBytes, Noise(byte)
      PROVE  Harmed'
  <2>1. CASE InFrame
    <3>1. sent.crc = 1 /\ Whole
      BY <1>3, <1>6, <2>1 DEF Noise
    <3>. QED
      BY <1>6, <2>1, <3>1, InsertedNow
  <2>2. CASE ~InFrame
    <3>1. frame_buf = <<>> /\ wire = <<>> /\ wire' = <<>> /\ Receive(byte)
      BY <1>3, <1>6, <2>2 DEF Noise, InFrame
    <3>2. Headless
      BY <3>1 DEF Headless
    <3>3. byte \in AnyByte \ Heads
      BY NoiseType, BytesDiffer DEF NoiseBytes, Marks
    <3>. QED
      BY <3>1, <3>2, <3>3, HeadlessStays
  <2>. QED
    BY <2>1, <2>2
<1>7. CASE Silence
  <2>1. CASE InFrame
    <3>1. Whole
      BY <1>3, <1>7, <2>1 DEF Silence
    <3>. QED
      BY <1>7, <2>1, <3>1, SilenceNow
  <2>2. CASE ~InFrame
    BY <1>7, <2>2, NothingIsHeadless DEF Silence, ReadTimesOut, InFrame
  <2>. QED
    BY <2>1, <2>2
<1>8. CASE UNCHANGED vars
  <2>1. Harmed /\ UNCHANGED <<frame_buf, wire, sent>>
    BY <1>8 DEF vars, OneErrorInv
  <2>2. CASE Headless \/ Whole
    BY <2>1, <2>2 DEF Headless, Whole, Byte
  <2>3. ASSUME NEW p \in 2..5, Lost(p) \/ Garbled(p)
        PROVE  Lost(p)' \/ Garbled(p)'
    BY <2>1, <2>3 DEF Lost, Garbled, Byte
  <2>4. ASSUME NEW p \in 1..5, Inserted(p)
        PROVE  Inserted(p)'
    BY <2>1, <2>4 DEF Inserted, Byte
  <2>. QED
    BY <2>1, <2>2, <2>3, <2>4
<1>. QED
  BY <1>1, <1>2, <1>4, <1>5, <1>6, <1>7, <1>8 DEF Next, NoiseBytes

\* At the start there is neither a line nor a frame.
LEMMA InitIInv == Init => IInv
<1>. SUFFICES ASSUME Init
              PROVE  IInv
  OBVIOUS
<1>1. /\ frame_buf = <<>> /\ wire = <<>> /\ errors = 0 /\ Len(frame_buf) = 0 /\ Len(wire) = 0
      /\ frame_buf \in Seq(Alphabet) /\ wire \in Seq(AnyByte)
  BY DEF Init
<1>2. did \in Outcomes
  BY OutcomesType DEF Init
<1>3. Len(frame_buf) <= UART_FRAME_MAX_LEN - 1 /\ errors \in 0..MaxErrors
  BY <1>1, ReceiveAssumption
<1>4. TypeOK
  BY <1>1, <1>2, <1>3 DEF Init, TypeOK, AnyByte, Outcomes
<1>5. 1..Len(frame_buf) = {} /\ 1..Len(wire) = {}
  BY <1>1
<1>6. ArgsInv
  BY <1>1, <1>5 DEF ArgsInv, InFrame
<1>. QED
  BY <1>1, <1>4, <1>6 DEF IInv, EndedInv, CleanInv, OneErrorInv, InFrame

\* The invariant the properties rest on: TypeOK with what is left of a line, of the
\* frame being sent, and of a frame with one error in it.
THEOREM Inductive == Spec => []IInv
<1>1. IInv /\ [Next]_vars => IInv'
  BY TypeStep, EndedStep, ArgsStep, CleanStep, OneErrorStep DEF IInv
<1>. QED
  BY InitIInv, <1>1, PTL DEF Spec

-----------------------------------------------------------------------------
(* The properties.                                                         *)

\* Every variable keeps its type, and the accumulator always has a place left for the
\* terminator, whatever arrives (hal_uart_rx_task, NFR-2).
THEOREM TypeCorrect == Spec => []TypeOK
  BY Inductive, PTL DEF IInv

\* An event that is neither NONE nor the time-out is that of the line ended now.
LEMMA EventOfLine ==
  ASSUME TypeOK, [Next]_vars, ~UNCHANGED vars, did'.event \in Commands \cup {"1"}
  PROVE  /\ ByteStep(NewLine)
         /\ frame_buf # <<>>
         /\ did'.event \in Events(frame_buf)
<1>1. /\ Nothing.event \notin Commands \cup {"1"}
      /\ Refused.event \notin Commands \cup {"1"}
      /\ [Nothing EXCEPT !.event = "EVT_COMM_TIMEOUT"].event \notin Commands \cup {"1"}
  BY CommandsDiffer DEF Nothing, Refused
<1>2. PICK byte : ByteStep(byte)
  BY <1>1 DEF Next, Send, ByteLost, Silence, ReadTimesOut, ByteStep, NoiseBytes
<1>3. byte = NewLine
  BY <1>1, <1>2, ByteSteps, ReceiveByte
<1>4. frame_buf # <<>> /\ \E e \in Events(frame_buf) : did' = Accepted(e)
  BY <1>1, <1>2, <1>3, ByteSteps, ReceiveByte
<1>. QED
  BY <1>2, <1>3, <1>4 DEF Accepted

\* A command comes from a frame of the line it ends: what a time-out has cut off, a
\* refused or an over-long line never comes to life again in a later one.
THEOREM CommandOfItsLine == Spec => CommandOfThisLine
<1>1. IInv /\ [Next]_vars => [did'.event \in Commands => did'.event \in begun]_vars
  <2>. SUFFICES ASSUME IInv, [Next]_vars, ~UNCHANGED vars, did'.event \in Commands
                PROVE  did'.event \in begun
    OBVIOUS
  <2>1. frame_buf # <<>> /\ did'.event \in Events(frame_buf)
    BY EventOfLine DEF IInv
  <2>2. Len(frame_buf) > 1 /\ frame_buf[2] = Arg(did'.event)
    BY <2>1, Types, CommandFromText DEF IInv
  <2>3. 2 \in 1..Len(frame_buf)
    BY <2>2, Types, LenProperties DEF IInv
  <2>. QED
    BY <2>2, <2>3 DEF IInv, ArgsInv
<1>. QED
  BY Inductive, <1>1, PTL DEF Spec, CommandOfThisLine

LEMMA Sums ==
  /\ \A k \in Nat : k + 1 = 3 => k = 2
  /\ \A k \in Nat : k + 1 = 5 - 1 => k = 3
  /\ \A k \in Nat : k + 1 = 5 => k = 4
  /\ \A k \in Nat : k + 1 = 5 + 1 => k = 5
  /\ \A k \in 0..4, w \in Nat \ {0, 1} : k # 0 /\ k + w = 5 => k \in {1, 2, 3}
  OBVIOUS

\* The present frame has a CRC.
Suffixed == sent.crc = 1

\* The line that a whole frame makes is taken for what was sent.
LEMMA WholeLine ==
  ASSUME TypeOK, Whole, InFrame, Head(wire) = NewLine
  PROVE  frame_buf # <<>> /\ Events(frame_buf) = {sent.arg}
<1>1. /\ frame_buf \in Seq(Alphabet) /\ sent \in Frames
      /\ Len(frame_buf) \in Nat /\ Len(wire) = 1
      /\ Len(frame_buf) + 1 = Len(Bytes(sent))
  BY Types, LenProperties, NextByte
<1>2. Len(Bytes(sent)) \in {3, 5}
  BY <1>1, FrameLength
<1>3. Len(frame_buf) >= 2 /\ frame_buf # <<>>
  BY <1>1, <1>2, EmptySeq
<1>4. frame_buf[1] = sent.head /\ frame_buf[2] = Arg(sent.arg)
  BY <1>1, <1>3, BytesOf DEF Whole, Byte
<1>5. CASE sent.crc = 0
  <2>1. Len(frame_buf) = 2
    <3>1. Len(Bytes(sent)) = 3
      BY <1>1, <1>5, BytesOf
    <3>2. Len(frame_buf) + 1 = 3 /\ Len(frame_buf) \in Nat
      BY <1>1, <3>1
    <3>. QED
      BY <3>2, Sums
  <2>2. ~HasCrc(frame_buf)
    BY <2>1 DEF HasCrc
  <2>. QED
    BY <1>1, <1>3, <1>4, <2>1, <2>2, PlainFrame
<1>6. CASE Suffixed
  <2>1. Len(frame_buf) = 4
    <3>1. Len(Bytes(sent)) = 5
      BY <1>1, <1>6, BytesOf DEF Suffixed
    <3>2. Len(frame_buf) + 1 = 5 /\ Len(frame_buf) \in Nat
      BY <1>1, <3>1
    <3>. QED
      BY <3>2, Sums
  <2>2. frame_buf[3] = Comma /\ frame_buf[4] = Crc(sent.arg)
    BY <1>1, <1>6, <2>1, BytesOf DEF Whole, Byte, Suffixed
  <2>. QED
    BY <1>1, <1>3, <1>4, <2>1, <2>2, FrameWithCrc
<1>. QED
  BY <1>1, <1>5, <1>6, FrameParts DEF Suffixed

\* Whatever happened on the wire before, a frame that follows a line end or a silence
\* and arrives unharmed is understood by itself: its command is always acknowledged,
\* offered and feeds the watchdog.
THEOREM CleanFrameIsTaken == Spec => CleanFrameTaken
<1>. DEFINE Taken == ByteArrives /\ wire' = <<>> /\ fresh = 1 /\ errors = 0 =>
                       \/ did' = Accepted(sent.arg)
                       \/ sent.head = Sensor /\ did' = Refused
<1>1. IInv /\ [Next]_vars => [Taken]_vars
  <2>. SUFFICES ASSUME IInv, ByteArrives, wire' = <<>>, fresh = 1, errors = 0
                PROVE  \/ did' = Accepted(sent.arg)
                       \/ sent.head = Sensor /\ did' = Refused
    OBVIOUS
  <2>1. TypeOK /\ InFrame /\ Whole
    BY DEF IInv, ByteArrives, CleanInv
  <2>2. Head(wire) = NewLine
    BY <2>1, WholeStays DEF InFrame
  <2>3. frame_buf # <<>> /\ Events(frame_buf) = {sent.arg}
    BY <2>1, <2>2, WholeLine
  <2>4. did' \in Handled(frame_buf)
    BY <2>1, <2>2, <2>3, WireMoves, ReceiveByte DEF ByteArrives
  <2>5. did' = Accepted(sent.arg) \/ (sent.arg \notin Commands /\ did' = Refused)
    BY <2>3, <2>4 DEF Handled, Events
  <2>. QED
    BY <2>1, <2>5, Types, FrameParts
<1>. QED
  BY Inductive, <1>1, PTL DEF Spec, CleanFrameTaken

\* The line that a frame with a CRC makes of itself with a byte lost.
LEMMA LostLine ==
  ASSUME TypeOK, Suffixed, NEW p \in 2..5, Lost(p), InFrame, Head(wire) = NewLine
  PROVE  Events(frame_buf) \subseteq {sent.arg}
<1>1. /\ frame_buf \in Seq(Alphabet) /\ sent \in Frames /\ Len(frame_buf) \in Nat
      /\ Len(wire) = 1 /\ Len(frame_buf) + Len(wire) = Len(Bytes(sent)) - 1
      /\ Len(Bytes(sent)) = 5
  BY Types, LenProperties, NextAfterLost, BytesOf DEF Suffixed
<1>2. Len(frame_buf) = 3 /\ frame_buf # <<>> /\ p \in {2, 3, 4}
  <2>1. Len(frame_buf) = 3
    <3>1. Len(frame_buf) + 1 = 5 - 1 /\ Len(frame_buf) \in Nat
      BY <1>1
    <3>. QED
      BY <3>1, Sums
  <2>2. p - 1 <= 3
    BY <2>1 DEF Lost
  <2>3. p \in {2, 3, 4}
    BY <2>2
  <2>4. frame_buf # <<>>
    <3>1. Len(frame_buf) # 0
      BY <2>1
    <3>. QED
      BY <3>1
  <2>. QED
    BY <2>1, <2>3, <2>4
<1>3. CASE p = 2
  <2>1. frame_buf[2] = Byte(3)
    BY <1>2, <1>3 DEF Lost
  <2>2. frame_buf[2] = Comma
    BY <1>1, <2>1, BytesOf DEF Byte, Suffixed
  <2>3. HasCrc(frame_buf)
    BY <1>2, <2>2 DEF HasCrc
  <2>4. ~CrcValid(frame_buf)
    BY <1>1, <1>2, <2>3, CrcOfBody
  <2>. QED
    BY <2>4 DEF Events
<1>4. CASE p # 2
  <2>1. frame_buf[1] = Byte(1) /\ frame_buf[2] = Byte(2)
    BY <1>2, <1>4 DEF Lost
  <2>2. frame_buf[1] = sent.head /\ frame_buf[2] = Arg(sent.arg)
    BY <1>1, <2>1, BytesOf DEF Byte, Suffixed
  <2>3. frame_buf[2] # Comma
    BY <2>2, BytesDiffer DEF Marks
  <2>4. ~HasCrc(frame_buf)
    BY <1>2, <2>3 DEF HasCrc
  <2>. QED
    BY <1>1, <1>2, <2>2, <2>4, PlainFrame
<1>. QED
  BY <1>3, <1>4

\* The line that it makes with another byte in the place of one of its own.
LEMMA GarbledLine ==
  ASSUME TypeOK, Suffixed, NEW p \in 2..5, Garbled(p), InFrame, Head(wire) = NewLine
  PROVE  Events(frame_buf) \subseteq {sent.arg}
<1>1. /\ frame_buf \in Seq(Alphabet) /\ sent \in Frames /\ Len(frame_buf) \in Nat
      /\ Len(wire) = 1 /\ Len(frame_buf) + Len(wire) = Len(Bytes(sent))
      /\ Len(Bytes(sent)) = 5
  BY Types, LenProperties, NextAfterGarbled, BytesOf DEF Suffixed
<1>2. Len(frame_buf) = 4 /\ p \in {2, 3, 4}
  <2>1. Len(frame_buf) = 4
    <3>1. Len(frame_buf) + 1 = 5 /\ Len(frame_buf) \in Nat
      BY <1>1
    <3>. QED
      BY <3>1, Sums
  <2>2. p <= 4
    BY <2>1 DEF Garbled
  <2>. QED
    BY <2>1, <2>2
<1>3. /\ frame_buf[1] = sent.head
      /\ IF p = 2 THEN frame_buf[2] # Arg(sent.arg) ELSE frame_buf[2] = Arg(sent.arg)
      /\ IF p = 3 THEN frame_buf[3] # Comma ELSE frame_buf[3] = Comma
      /\ IF p = 4 THEN frame_buf[4] # Crc(sent.arg) ELSE frame_buf[4] = Crc(sent.arg)
  BY <1>1, <1>2, BytesOf DEF Garbled, Byte, Suffixed
<1>4. CASE p = 3
  <2>1. ~HasCrc(frame_buf)
    BY <1>2, <1>3, <1>4 DEF HasCrc
  <2>. QED
    BY <1>1, <1>2, <1>3, <1>4, <2>1, PlainFrame
<1>5. CASE p # 3
  <2>1. HasCrc(frame_buf)
    BY <1>2, <1>3, <1>5 DEF HasCrc
  <2>2. ~CrcValid(frame_buf)
    <3>. SUFFICES ASSUME CrcValid(frame_buf)
                  PROVE  FALSE
      OBVIOUS
    <3>1. PICK f \in Frames : frame_buf[2] = Arg(f.arg) /\ frame_buf[4] = Crc(f.arg)
      BY <1>1, <2>1, CrcOfBody
    <3>2. f.arg = sent.arg
      BY <1>2, <1>3, <1>5, <3>1, BytesDiffer
    <3>. QED
      BY <1>2, <1>3, <1>5, <3>1, <3>2
  <2>. QED
    BY <2>2 DEF Events
<1>. QED
  BY <1>4, <1>5

\* The line that it makes with a byte more.
LEMMA InsertedLine ==
  ASSUME TypeOK, Suffixed, NEW p \in 1..5, Inserted(p), InFrame, Head(wire) = NewLine
  PROVE  Events(frame_buf) \subseteq {sent.arg}
<1>1. /\ frame_buf \in Seq(Alphabet) /\ sent \in Frames /\ Len(frame_buf) \in Nat
      /\ Len(wire) = 1 /\ Len(frame_buf) + Len(wire) = Len(Bytes(sent)) + 1
      /\ Len(Bytes(sent)) = 5
  BY Types, LenProperties, NextAfterInserted, BytesOf DEF Suffixed
<1>2. Len(frame_buf) = 5 /\ frame_buf # <<>>
  <2>1. Len(frame_buf) = 5
    <3>1. Len(frame_buf) + 1 = 5 + 1 /\ Len(frame_buf) \in Nat
      BY <1>1
    <3>. QED
      BY <3>1, Sums
  <2>2. Len(frame_buf) # 0
    BY <2>1
  <2>. QED
    BY <2>1, <2>2
<1>3. CASE p = 1
  <2>1. frame_buf[1] \notin Heads
    BY <1>3, BytesDiffer DEF Inserted, NoiseBytes, Marks
  <2>2. Events(frame_buf) = {}
    BY <1>1, <1>2, <2>1, NoHeadNoEvent
  <2>. QED
    BY <2>2
<1>4. CASE frame_buf[4] = Comma
  <2>1. HasCrc(frame_buf)
    <3>1. Len(frame_buf) > 2 /\ Len(frame_buf) - 1 = 4
      BY <1>2
    <3>. QED
      BY <1>4, <3>1 DEF HasCrc
  <2>2. ~CrcValid(frame_buf)
    <3>1. CrcValid(frame_buf) => Len(frame_buf) = 4
      BY <1>1, <2>1, CrcOfBody
    <3>. QED
      BY <1>2, <3>1
  <2>. QED
    BY <2>2 DEF Events
<1>5. CASE p # 1 /\ frame_buf[4] # Comma
  <2>1. p \in {2, 3} => frame_buf[4] = Byte(3)
    BY <1>2 DEF Inserted
  <2>2. p \in {4, 5}
    BY <1>1, <1>5, <2>1, BytesOf DEF Byte, Suffixed
  <2>3. frame_buf[1] = Byte(1) /\ frame_buf[2] = Byte(2)
    BY <1>2, <2>2 DEF Inserted
  <2>4. frame_buf[1] = sent.head /\ frame_buf[2] = Arg(sent.arg)
    BY <1>1, <2>3, BytesOf DEF Byte, Suffixed
  <2>5. ~HasCrc(frame_buf)
    <3>1. Len(frame_buf) - 1 = 4
      BY <1>2
    <3>. QED
      BY <1>5, <3>1 DEF HasCrc
  <2>. QED
    BY <1>1, <1>2, <2>4, <2>5, PlainFrame
<1>. QED
  BY <1>3, <1>4, <1>5

\* The line that a line end in the middle of it makes.
LEMMA CutLine ==
  ASSUME TypeOK, Suffixed, Whole, InFrame, Head(wire) # NewLine, frame_buf # <<>>
  PROVE  Events(frame_buf) \subseteq {"0", sent.arg}
<1>1. /\ frame_buf \in Seq(Alphabet) /\ sent \in Frames
      /\ Len(frame_buf) \in 0..4 /\ Len(wire) \in Nat \ {0} /\ Len(wire) # 1
      /\ Len(frame_buf) + Len(wire) = Len(Bytes(sent))
      /\ Len(Bytes(sent)) = 5
  BY Types, WireMoves, NextByte, BytesOf DEF Suffixed
<1>2. Len(frame_buf) # 0
  BY <1>1, EmptySeq
<1>3. Len(frame_buf) \in {1, 2, 3}
  <2>1. Len(frame_buf) \in 0..4 /\ Len(wire) \in Nat \ {0, 1} /\ Len(frame_buf) + Len(wire) = 5
    BY <1>1
  <2>. QED
    BY <1>2, <2>1, Sums
<1>4. CASE Len(frame_buf) = 1
  BY <1>1, <1>4, HeadAlone
<1>5. CASE Len(frame_buf) \in {2, 3}
  <2>1. frame_buf[1] = sent.head /\ frame_buf[2] = Arg(sent.arg)
    BY <1>1, <1>5, BytesOf DEF Whole, Byte
  <2>2. frame_buf[2] # Comma
    BY <2>1, BytesDiffer DEF Marks
  <2>3. ~HasCrc(frame_buf)
    <3>1. CASE Len(frame_buf) = 2
      BY <3>1 DEF HasCrc
    <3>2. CASE Len(frame_buf) = 3
      BY <2>2, <3>2 DEF HasCrc
    <3>. QED
      BY <1>5, <3>1, <3>2
  <2>. QED
    BY <1>1, <1>5, <2>1, <2>3, PlainFrame
<1>. QED
  BY <1>3, <1>4, <1>5

\* NFR-5: one error in a frame with a CRC, a byte lost, changed or added anywhere in it
\* or a silence, makes no other command of it, and no obstruction.
THEOREM OneErrorIsHarmless == Spec => OneErrorHarmless
<1>. DEFINE Harmless ==
       fresh = 1 /\ sent.crc = 1 /\ errors' <= 1 /\ did'.event \in Commands \cup {"1"}
         => did'.event = sent.arg
<1>1. IInv /\ [Next]_vars => [Harmless]_vars
  <2>. SUFFICES ASSUME IInv, [Next]_vars, ~UNCHANGED vars, fresh = 1, sent.crc = 1,
                       errors' <= 1, did'.event \in Commands \cup {"1"}
                PROVE  did'.event = sent.arg
    OBVIOUS
  <2>1. /\ ByteStep(NewLine) /\ frame_buf # <<>> /\ did'.event \in Events(frame_buf)
        /\ TypeOK /\ errors \in Nat /\ frame_buf \in Seq(Alphabet)
    BY EventOfLine, Types DEF IInv
  <2>2. did'.event # "0"
    BY ReceiveAssumption
  <2>3. CASE ByteArrives /\ NewLine = Head(wire)
    <3>1. InFrame /\ errors \in {0, 1}
      BY <2>1, <2>3 DEF ByteArrives
    <3>2. CASE Whole
      BY <2>1, <2>3, <3>1, <3>2, WholeLine
    <3>3. CASE Headless
      BY <2>1, <3>3, NoHeadNoEvent DEF Headless
    <3>4. ASSUME NEW p \in 2..5, Lost(p) \/ Garbled(p)
          PROVE  did'.event = sent.arg
      BY <2>1, <2>3, <3>1, <3>4, LostLine, GarbledLine DEF Suffixed
    <3>5. ASSUME NEW p \in 1..5, Inserted(p)
          PROVE  did'.event = sent.arg
      BY <2>1, <2>3, <3>1, <3>5, InsertedLine DEF Suffixed
    <3>. QED
      BY <3>1, <3>2, <3>3, <3>4, <3>5 DEF IInv, CleanInv, OneErrorInv
  <2>4. ASSUME WireError
        PROVE  IF InFrame THEN Whole ELSE frame_buf = <<>>
    <3>1. errors = 0
      BY <2>1, <2>4 DEF WireError
    <3>. QED
      BY <3>1 DEF IInv, CleanInv
  <2>5. CASE ByteGarbled(NewLine)
    <3>1. InFrame /\ Whole /\ Head(wire) # NewLine
      BY <2>4, <2>5 DEF ByteGarbled
    <3>. QED
      BY <2>1, <2>2, <3>1, CutLine DEF Suffixed
  <2>6. CASE Noise(NewLine)
    <3>1. InFrame /\ Whole
      BY <2>1, <2>4, <2>6 DEF Noise
    <3>2. CASE Head(wire) = NewLine
      BY <2>1, <3>1, <3>2, WholeLine
    <3>3. CASE Head(wire) # NewLine
      BY <2>1, <2>2, <3>1, <3>3, CutLine DEF Suffixed
    <3>. QED
      BY <3>2, <3>3
  <2>. QED
    BY <2>1, <2>3, <2>5, <2>6 DEF ByteStep
<1>. QED
  BY Inductive, <1>1, PTL DEF Spec, OneErrorHarmless
=============================================================================
