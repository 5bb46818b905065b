---------------------------- MODULE ShellStream ----------------------------
(***************************************************************************)
(* The codec of the remote shell (tools/shell/shell_stream.cpp): one side  *)
(* mixes character data and control messages into a byte stream, the other *)
(* takes them apart again with a three-state machine.                      *)
(*                                                                         *)
(* The stream below is external: it delivers the bytes in order, in chunks *)
(* of any size.  Each turn of the loop in receive() is one action, because *)
(* the sender is another host and may act between any two of them.         *)
(***************************************************************************)
EXTENDS Integers, Sequences, SequencesExt

CONSTANTS
    Radix,              \* 128: a length byte carries 7 bits
    ControlMarker,      \* '\001'
    MaxControlMessage,  \* 2^24: maxControlMessage
    DataRuns,           \* the buffers given to send_data
    Messages,           \* the messages given to send_control
    MaxSent,            \* bound on the items sent
    MaxChunk            \* bound on the bytes one read_data returns

Bytes == 0..(2 * Radix - 1)

ASSUME CodeAssumption ==
    /\ Radix \in Nat \ {0, 1}
    /\ ControlMarker \in 0..(Radix - 1)
    /\ MaxControlMessage \in Nat \ {0}
ASSUME InputAssumption ==
    /\ DataRuns \subseteq Seq(Bytes)
    /\ Messages \subseteq Seq(Bytes) \ {<<>>}
    /\ MaxSent \in Nat /\ MaxChunk \in Nat \ {0}

VARIABLES
    wire,       \* bytes written by the sender and not yet read
    rxBuffer,   \* the rx_amount_ bytes at rx_data_
    rstate,     \* "RecvNormal", "RecvLength" or "RecvMessage"
    ctlLen,     \* ctl_len_
    ctlBuffer,  \* the first ctl_got_ bytes of ctl_buffer_
    failed,     \* on_error was raised and the stream was reset
    sent,       \* history: data bytes and control messages sent
    delivered   \* history: data bytes and control messages returned by receive

rxVars == <<rxBuffer, rstate, ctlLen, ctlBuffer, failed, delivered>>
vars == <<wire, rxBuffer, rstate, ctlLen, ctlBuffer, failed, sent, delivered>>

-----------------------------------------------------------------------------
DataItem(b) == [type |-> "Data", data |-> <<b>>]
DataItems(bytes) == [i \in DOMAIN bytes |-> DataItem(bytes[i])]
ControlItem(msg) == [type |-> "Control", data |-> msg]

HighBit == Radix

\* Mutant: control markers in the data are not escaped.
Escaped_Raw(b) == <<b>>

\* send_data: a control marker is followed by the length byte 0x80.
Escaped(b) == IF b = ControlMarker THEN <<b, HighBit>> ELSE <<b>>

EncodeData(bytes) == FlattenSeq([i \in DOMAIN bytes |-> Escaped(bytes[i])])

\* The digits of a positive length in base Radix, most significant first: the
\* loop takes them off the length from its low end.
Digits(len) ==
    LET rest[n \in 0..len] == IF n = 0 THEN len ELSE rest[n - 1] \div Radix
        turns == CHOOSE n \in 1..len : rest[n] = 0 /\ rest[n - 1] > 0
    IN  [i \in 1..turns |-> rest[turns - i] % Radix]

\* Mutant: the last length byte is not marked when it is the only one.
EncodeControl_ShortUnmarked(msg) ==
    LET digits == Digits(Len(msg))
        last == IF Len(digits) = 1 THEN 0 ELSE HighBit
    IN  <<ControlMarker>> \o [digits EXCEPT ![Len(digits)] = @ + last] \o msg

\* send_control: marker, length with the high bit in its last byte, message.
EncodeControl(msg) ==
    LET digits == Digits(Len(msg))
    IN  <<ControlMarker>> \o [digits EXCEPT ![Len(digits)] = @ + HighBit] \o msg

-----------------------------------------------------------------------------
Init ==
    /\ wire = <<>> /\ rxBuffer = <<>>
    /\ rstate = "RecvNormal" /\ ctlLen = 0 /\ ctlBuffer = <<>>
    /\ failed = FALSE
    /\ sent = <<>> /\ delivered = <<>>

SendData(bytes) ==
    /\ Len(sent) + Len(bytes) <= MaxSent
    /\ wire' = wire \o EncodeData(bytes)
    /\ sent' = sent \o DataItems(bytes)
    /\ UNCHANGED rxVars

SendControl(msg) ==
    /\ Len(sent) < MaxSent
    /\ wire' = wire \o EncodeControl(msg)
    /\ sent' = Append(sent, ControlItem(msg))
    /\ UNCHANGED rxVars

-----------------------------------------------------------------------------
(* receive(): what one turn of its loop does with the bytes it has.        *)

\* The buffer is empty: read_data returns some of what has arrived.
FillBuffer ==
    /\ rxBuffer = <<>> /\ ~failed
    /\ \E n \in 1..MaxChunk :
        /\ n <= Len(wire)
        /\ rxBuffer' = SubSeq(wire, 1, n)
        /\ wire' = SubSeq(wire, n + 1, Len(wire))
    /\ UNCHANGED <<rstate, ctlLen, ctlBuffer, failed, sent, delivered>>

\* RecvNormal, a control marker.
ReceiveMarker ==
    /\ rstate = "RecvNormal" /\ rxBuffer # <<>> /\ Head(rxBuffer) = ControlMarker
    /\ rstate' = "RecvLength" /\ ctlLen' = 0
    /\ rxBuffer' = Tail(rxBuffer)
    /\ UNCHANGED <<wire, ctlBuffer, failed, sent, delivered>>

\* Mutant: the run of data may reach over the next control marker.
DataRunLength_WholeBuffer(buffer) == Len(buffer)

\* memchr: how many bytes there are before the first control marker.
DataRunLength(buffer) ==
    CHOOSE n \in 0..Len(buffer) :
        /\ \A i \in 1..n : buffer[i] # ControlMarker
        /\ n < Len(buffer) => buffer[n + 1] = ControlMarker

\* RecvNormal, character data up to the next marker.
ReceiveNormal ==
    /\ rstate = "RecvNormal" /\ rxBuffer # <<>> /\ Head(rxBuffer) # ControlMarker
    /\ LET act == DataRunLength(rxBuffer) IN
        /\ delivered' = delivered \o DataItems(SubSeq(rxBuffer, 1, act))
        /\ rxBuffer' = SubSeq(rxBuffer, act + 1, Len(rxBuffer))
    /\ UNCHANGED <<wire, rstate, ctlLen, ctlBuffer, failed, sent>>

\* RecvLength, the length is too large already: the stream is reset.
RejectLength ==
    /\ rstate = "RecvLength" /\ rxBuffer # <<>> /\ ctlLen >= MaxControlMessage
    /\ failed' = TRUE
    /\ UNCHANGED <<wire, rxBuffer, rstate, ctlLen, ctlBuffer, sent, delivered>>

\* Mutant: the length is not checked before it is shifted.
ReceiveLength_Unchecked ==
    /\ rstate = "RecvLength" /\ rxBuffer # <<>>
    /\ rxBuffer' = Tail(rxBuffer)
    /\ ctlLen' = (ctlLen * Radix) + (Head(rxBuffer) % Radix)
    /\ rstate' = IF Head(rxBuffer) >= HighBit /\ ctlLen' # 0
                 THEN "RecvMessage" ELSE "RecvLength"
    /\ UNCHANGED <<wire, ctlBuffer, failed, sent, delivered>>

\* RecvLength, one more length byte.  A length of 0 is an escaped marker,
\* after which the machine stays in RecvLength.
ReceiveLength ==
    /\ rstate = "RecvLength" /\ rxBuffer # <<>> /\ ctlLen < MaxControlMessage
    /\ rxBuffer' = Tail(rxBuffer)
    /\ ctlLen' = (ctlLen * Radix) + (Head(rxBuffer) % Radix)
    /\ LET last == Head(rxBuffer) >= HighBit IN
        /\ delivered' = IF last /\ ctlLen' = 0
                        THEN Append(delivered, DataItem(ControlMarker))
                        ELSE delivered
        /\ rstate' = IF last /\ ctlLen' # 0 THEN "RecvMessage" ELSE rstate
        /\ ctlBuffer' = IF last /\ ctlLen' # 0 THEN <<>> ELSE ctlBuffer
    /\ UNCHANGED <<wire, failed, sent>>

\* RecvMessage: as much of the message as is there.
ReceiveMessage ==
    /\ rstate = "RecvMessage" /\ rxBuffer # <<>>
    /\ LET missing == ctlLen - Len(ctlBuffer)
           act == IF Len(rxBuffer) < missing THEN Len(rxBuffer) ELSE missing
           got == ctlBuffer \o SubSeq(rxBuffer, 1, act)
           done == act = missing
       IN  /\ rxBuffer' = SubSeq(rxBuffer, act + 1, Len(rxBuffer))
           /\ rstate' = IF done THEN "RecvNormal" ELSE rstate
           /\ ctlBuffer' = IF done THEN <<>> ELSE got
           /\ delivered' = IF done THEN Append(delivered, ControlItem(got))
                                   ELSE delivered
    /\ UNCHANGED <<wire, ctlLen, failed, sent>>

Receive ==
    \/ FillBuffer
    \/ ReceiveMarker \/ ReceiveNormal
    \/ ReceiveLength \/ RejectLength
    \/ ReceiveMessage

Next ==
    \/ \E bytes \in DataRuns : SendData(bytes)
    \/ \E msg \in Messages : SendControl(msg)
    \/ Receive

Spec == Init /\ [][Next]_vars

\* receive() is called again for as long as it returns something.
FairSpec == Spec /\ WF_vars(Receive)

-----------------------------------------------------------------------------
(* Properties.                                                             *)

\* The type of every variable; in particular ctl_len_ stays below
\* maxControlMessage * 2^7, so the shift cannot overflow an int.
TypeOK ==
    /\ wire \in Seq(Bytes) /\ rxBuffer \in Seq(Bytes) /\ ctlBuffer \in Seq(Bytes)
    /\ rstate \in {"RecvNormal", "RecvLength", "RecvMessage"}
    /\ ctlLen \in 0..(MaxControlMessage * Radix - 1)
    /\ rstate = "RecvMessage" => Len(ctlBuffer) < ctlLen
    /\ failed \in BOOLEAN

\* The part of what was sent that the receiver is known to decode: up to and
\* including the first control marker sent as data.
Decodable ==
    LET n == CHOOSE k \in 0..Len(sent) :
                /\ \A i \in 1..k : sent[i] # DataItem(ControlMarker)
                /\ k < Len(sent) => sent[k + 1] = DataItem(ControlMarker)
    IN  SubSeq(sent, 1, IF n < Len(sent) THEN n + 1 ELSE n)

\* However the stream cuts the bytes into chunks, receive() returns the data
\* and the control messages that were sent, in order and unaltered, up to
\* the first control marker in the data.
DecodesInOrder ==
    LET n == IF Len(delivered) < Len(Decodable) THEN Len(delivered)
                                                ELSE Len(Decodable)
    IN  SubSeq(delivered, 1, n) = SubSeq(Decodable, 1, n)

\* No byte of a message is left in the machine: once all bytes are read,
\* everything was returned, unless an oversized message stopped the stream.
NothingStuck ==
    wire = <<>> /\ rxBuffer = <<>> /\ ~failed
        => Len(delivered) >= Len(Decodable)

\* Everything sent before any marker in the data is returned in the end, or
\* the stream is reset because of an oversized control message.
EventuallyDecoded ==
    []<>(failed \/ Len(delivered) >= Len(Decodable))

\* send_data, in its comment, escapes any SOH characters: the receiver gets
\* exactly the data and messages that were sent.
RoundTrip == IsPrefix(delivered, sent)
=============================================================================
