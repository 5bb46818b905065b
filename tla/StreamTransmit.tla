--------------------------- MODULE StreamTransmit ---------------------------
(***************************************************************************)
(* The sending half of the stream layer: the streams that share one        *)
(* stream_channel, their transmit queues, their attachments to the channel *)
(* (the table transmit_sids_), the list sending_streams_ of streams in     *)
(* line to transmit, and the table waiting_ack_ of packets in flight.      *)
(*                                                                         *)
(* lib/base_stream.cpp keeps most handlers of incoming frames disabled at  *)
(* this commit, so acknowledgments do not activate an attachment: a        *)
(* stream sends optimized Init or Reply packets, or waits after an Attach  *)
(* packet.  attach_for_transmit is disabled too: SetAttaching stands for a *)
(* caller of the functions it would use, in the order it documents.        *)
(*                                                                         *)
(* may_transmit answers for the congestion window or for the socket, which *)
(* are not modelled here: it may answer either way.  transmit leaves the   *)
(* packet sequence number of the caller uninitialized, so the key under    *)
(* which a packet enters waiting_ack_ is any key.                          *)
(***************************************************************************)
EXTENDS Integers, Sequences, SequencesExt, FiniteSets, Functions

CONSTANTS
    Streams,     \* the streams of one peer, the root stream excepted
    TopLevel,    \* streams opened here on the root stream
    Accepted,    \* streams opened by the peer: they have a receive attachment
    Datagrams,   \* streams whose application writes datagrams
    Priorities,  \* the priorities in use, integers
    Sizes,       \* segment sizes, 0 for a segment without data
    SidSpace,    \* 2^16: stream ids are 16 bits wide
    Keys,        \* packet sequence numbers found in uninitialized memory
    MaxCounter,  \* bound on the stream counter
    MaxBytes,    \* bound on the bytes written to a stream
    MaxQueue     \* bound on the length of a transmit queue

ASSUME StreamAssumption ==
    /\ TopLevel \subseteq Streams /\ Accepted \subseteq Streams
    /\ Datagrams \subseteq Streams
    /\ Priorities \subseteq Int /\ 0 \in Priorities
    /\ IsFiniteSet(Keys)
ASSUME BoundAssumption ==
    /\ SidSpace \in Nat \ {0, 1} /\ Sizes \subseteq Nat
    /\ MaxCounter \in Nat /\ MaxBytes \in Nat /\ MaxQueue \in Nat

VARIABLES
    channelUp,  \* the channel exists and is active
    alive,      \* streams whose base_stream is not destroyed
    sid,        \* stream_id_ of tx_current_attachment_, -1 when not attached
    usid,       \* usid_.counter_, -1 when empty
    table,      \* transmit_sids_: the stream attached under each id, root at 0
    counter,    \* transmit_sid_counter_
    prio,       \* current_priority()
    txByteSeq,  \* tx_byte_seq_
    txQueue,    \* tx_queue_: the queued segments and datagrams
    enqueued,   \* tx_enqueued_channel_
    sending,    \* sending_streams_
    waitingAck, \* waiting_ack_: the frames in flight, by key
    looping,    \* got_ready_transmit is running
    passedBy    \* history: who transmitted since a stream got in line

attachVars == <<channelUp, alive, sid, usid, table, counter>>
queueVars == <<prio, txByteSeq, txQueue>>
lineVars == <<enqueued, sending, passedBy>>
vars == <<channelUp, alive, sid, usid, table, counter, prio, txByteSeq,
          txQueue, enqueued, sending, waitingAck, looping, passedBy>>

-----------------------------------------------------------------------------
Root == "root"
Free == "free"
Sids == 0..(SidSpace - 1)

ASSUME NamesAssumption == Root \notin Streams /\ Free \notin Streams

\* tx_frame_t: datagrams have type EMPTY; stream data and Attach packets both
\* have type STREAM, and only the model tells them apart.
Queued == [kind : {"data", "datagram"}, seq : 0..MaxBytes]
Frame == [owner : Streams, kind : {"data", "datagram", "attach"}, seq : 0..MaxBytes]

IsAttached(s) == sid[s] # -1
InFlight == DOMAIN waitingAck
Owned(s) == {k \in InFlight : waitingAck[k].owner = s}

\* tx_enqueue_packet: byte positions are unsigned, so the difference is never
\* negative and the search only passes segments at the very same position.
TxInsert(queue, packet) ==
    LET at == CHOOSE i \in 0..Len(queue) :
                /\ \A j \in 1..i : queue[j].seq = packet.seq
                /\ i < Len(queue) => queue[i + 1].seq # packet.seq
    IN  InsertAt(queue, at + 1, packet)

\* enqueue_stream: upper_bound stops at the first stream in line whose
\* priority is not lower than the new one's.
Enqueue(line, s, priority) ==
    LET at == CHOOSE i \in 0..Len(line) :
                /\ \A j \in 1..i : priority[line[j]] < priority[s]
                /\ i < Len(line) => priority[line[i + 1]] >= priority[s]
    IN  InsertAt(line, at + 1, s)

\* dequeue_stream, for every stream of a set.
Dequeue(line, S) ==
    LET kept[n \in 0..Len(line)] ==
          IF n = 0 THEN <<>>
          ELSE IF line[n] \in S THEN kept[n - 1] ELSE Append(kept[n - 1], line[n])
    IN  kept[Len(line)]

\* tx_enqueue_channel of an attached stream whose transmit queue is `queue`.
GetInLine(s, queue) ==
    LET joins == ~enqueued[s] /\ queue # <<>>
    IN  /\ sending' = IF joins THEN Enqueue(sending, s, prio) ELSE sending
        /\ enqueued' = [enqueued EXCEPT ![s] = @ \/ joins]
        /\ passedBy' = [passedBy EXCEPT ![s] = IF joins THEN {} ELSE @]

\* If may_transmit says so, got_ready_transmit runs while anyone is in line.
MayTransmit == looping' \in {looping, looping \/ sending' # <<>>}

\* Mutant: the counter is not cut to 16 bits.
SidOf_Untruncated(c) == c

\* The local stream id of a counter value: its low 16 bits.
SidOf(c) == c % SidSpace

\* Mutant: the search does not look at the table.
FreeCounters_NoSearch == counter..MaxCounter

\* Counter values from transmit_sid_counter_ on whose stream id is not in use;
\* allocate_transmit_sid takes the first one.
FreeCounters == {c \in counter..MaxCounter : table[c % SidSpace] = Free}

-----------------------------------------------------------------------------
Init ==
    /\ channelUp = TRUE /\ alive = Streams
    /\ sid = [s \in Streams |-> -1] /\ usid = [s \in Streams |-> -1]
    /\ table = [i \in Sids |-> IF i = 0 THEN Root ELSE Free]
    /\ counter = 1
    /\ prio = [s \in Streams |-> 0]
    /\ txByteSeq = [s \in Streams |-> 0]
    /\ txQueue = [s \in Streams |-> <<>>]
    /\ enqueued = [s \in Streams |-> FALSE]
    /\ sending = <<>>
    /\ waitingAck = <<>>
    /\ looping = FALSE
    /\ passedBy = [s \in Streams |-> {}]

-----------------------------------------------------------------------------
(* What the application and the peer-level code call.                      *)

\* A stream attaches to the channel: it takes a stream id, enters the table,
\* keeps its unique id if it has one, and gets in line.
SetAttaching(s) ==
    /\ ~looping /\ channelUp /\ s \in alive /\ ~IsAttached(s)
    /\ \E c \in FreeCounters :
        /\ \A d \in FreeCounters : c <= d
        /\ counter' = c + 1
        /\ sid' = [sid EXCEPT ![s] = SidOf(c)]
        /\ table' = [table EXCEPT ![SidOf(c)] = s]
        /\ usid' = [usid EXCEPT ![s] = IF @ = -1 THEN c ELSE @]
    /\ GetInLine(s, txQueue[s])
    /\ MayTransmit
    /\ UNCHANGED <<channelUp, alive, queueVars, waitingAck>>

\* tx_enqueue_packet.  The application may call what leads here from
\* on_ready_write, inside got_ready_transmit.
TxEnqueuePacket(s, packet) ==
    /\ Len(txQueue[s]) < MaxQueue
    /\ txQueue' = [txQueue EXCEPT ![s] = TxInsert(@, packet)]
    /\ \/ IsAttached(s) /\ GetInLine(s, txQueue'[s]) /\ MayTransmit
       \/ ~IsAttached(s) /\ UNCHANGED <<lineVars, looping>>

\* One turn of the loop in write_data: one segment.
WriteData(s, size) ==
    /\ s \in alive /\ txByteSeq[s] + size <= MaxBytes
    /\ txByteSeq' = [txByteSeq EXCEPT ![s] = @ + size]
    /\ TxEnqueuePacket(s, [kind |-> "data", seq |-> txByteSeq[s]])
    /\ UNCHANGED <<attachVars, prio, waitingAck>>

\* One turn of the loop in write_datagram, for an unreliable datagram.
WriteDatagram(s) ==
    /\ s \in alive \cap Datagrams
    /\ TxEnqueuePacket(s, [kind |-> "datagram", seq |-> txByteSeq[s]])
    /\ UNCHANGED <<attachVars, prio, txByteSeq, waitingAck>>

\* Mutant: the stream keeps its place in line.
SetPriority_KeepPlace(s, priority) ==
    /\ s \in alive /\ prio[s] # priority
    /\ prio' = [prio EXCEPT ![s] = priority]
    /\ UNCHANGED <<attachVars, lineVars, txByteSeq, txQueue, waitingAck, looping>>

\* set_priority moves a stream that is in line to its new place.
SetPriority(s, priority) ==
    /\ s \in alive /\ prio[s] # priority
    /\ prio' = [prio EXCEPT ![s] = priority]
    /\ sending' = IF enqueued[s] THEN Enqueue(Dequeue(sending, {s}), s, prio')
                                 ELSE sending
    /\ passedBy' = [passedBy EXCEPT ![s] = {}]
    /\ UNCHANGED <<attachVars, txByteSeq, txQueue, enqueued, waitingAck, looping>>

-----------------------------------------------------------------------------
(* got_ready_transmit: one turn of its loop is one call of transmit_on.    *)

\* The stream was opened on the root stream under its current stream id and
\* the root stream is attached, so data can travel in an Init packet.
CanInit(s) == s \in TopLevel /\ table[0] = Root /\ usid[s] % SidSpace = sid[s]

\* The peer has the stream in its own table, so data can travel in a Reply.
\* The transmit window does not stop it: frames get no payload at this commit
\* (payload_ is never assigned), so seg_size and tx_inflight_ are 0.
CanReply(s) == s \in Accepted

\* waiting_ack_.insert: nothing happens if the key is taken.
Track(frame) ==
    \E k \in Keys :
        waitingAck' = [j \in InFlight \cup {k} |-> IF j \in InFlight THEN waitingAck[j] ELSE frame]

\* waiting_ack_.erase
Untrack(keys) == waitingAck' = Restrict(waitingAck, InFlight \ keys)

OutFrame(s, packet) == [owner |-> s, kind |-> packet.kind, seq |-> packet.seq]

\* Streams of the same priority that stay in line see s pass by.
Overtakes(s, others) ==
    [t \in Streams |-> IF t \in others THEN passedBy[t] \cup {s} ELSE passedBy[t]]

\* Mutant: the stream goes back in line even when it has nothing to send.
TxData_AlwaysRequeue(s, rest) ==
    LET line == Tail(sending) IN
    /\ Track(OutFrame(s, Head(txQueue[s])))
    /\ txQueue' = [txQueue EXCEPT ![s] = rest]
    /\ sending' = Enqueue(line, s, prio)
    /\ UNCHANGED enqueued

\* Mutant: the stream does not get back in line.
TxData_NeverRequeue(s, rest) ==
    /\ Track(OutFrame(s, Head(txQueue[s])))
    /\ txQueue' = [txQueue EXCEPT ![s] = rest]
    /\ sending' = Tail(sending)
    /\ enqueued' = [enqueued EXCEPT ![s] = FALSE]

\* tx_attach_data and tx_data: the head of the queue goes out, and the
\* stream gets back in line if it has more.
TxData(s, rest) ==
    LET line == Tail(sending) IN
    /\ Track(OutFrame(s, Head(txQueue[s])))
    /\ txQueue' = [txQueue EXCEPT ![s] = rest]
    /\ sending' = IF rest = <<>> THEN line ELSE Enqueue(line, s, prio)
    /\ enqueued' = [enqueued EXCEPT ![s] = rest # <<>>]

\* tx_attach: an Attach packet without data; the stream leaves the line.
TxAttach(s) ==
    /\ Track([owner |-> s, kind |-> "attach", seq |-> 0])
    /\ sending' = Tail(sending)
    /\ enqueued' = [enqueued EXCEPT ![s] = FALSE]
    /\ UNCHANGED txQueue

\* transmit_on for the stream at the head of the line.  tx_waiting_ack_ never
\* shrinks, so no queued segment is dropped as acknowledged.
TransmitOn(s) ==
    /\ looping /\ s = Head(sending)
    /\ \/ (CanInit(s) \/ CanReply(s)) /\ TxData(s, Tail(txQueue[s]))
       \/ ~CanInit(s) /\ ~CanReply(s) /\ TxAttach(s)
    /\ passedBy' = [Overtakes(s, {t \in ToSet(Tail(sending)) : prio[t] = prio[s]})
                        EXCEPT ![s] = {}]
    /\ looping' \in {FALSE, sending' # <<>>}
    /\ UNCHANGED <<attachVars, prio, txByteSeq>>

-----------------------------------------------------------------------------
(* What the channel reports about the packets in flight.                   *)

\* acknowledged, for one packet: the stream ignores it.
Acknowledged(k) ==
    /\ ~looping /\ channelUp /\ k \in InFlight
    /\ Untrack({k})
    /\ UNCHANGED <<attachVars, queueVars, lineVars, looping>>

\* missed, for one packet.  A datagram goes back to the queue; for anything
\* else the owner gets in line, without transmitting at once.  The packet
\* stays in the table; late is set in a copy of it.
Missed(k) ==
    /\ ~looping /\ channelUp /\ k \in InFlight
    /\ LET p == waitingAck[k] IN
        \/ /\ p.kind = "datagram"
           /\ TxEnqueuePacket(p.owner, [kind |-> p.kind, seq |-> p.seq])
        \/ /\ p.kind # "datagram"
           /\ GetInLine(p.owner, txQueue[p.owner])
           /\ UNCHANGED <<txQueue, looping>>
    /\ UNCHANGED <<attachVars, prio, txByteSeq, waitingAck>>

\* expire, for one packet.
Expire(k) ==
    /\ ~looping /\ channelUp /\ k \in InFlight
    /\ Untrack({k})
    /\ UNCHANGED <<attachVars, queueVars, lineVars, looping>>

-----------------------------------------------------------------------------
(* Taking attachments down.                                                *)

\* The fields of a destroyed stream are gone.
ForLiving(field, gone) ==
    [s \in Streams |-> IF s \in alive' THEN field[s] ELSE gone]

\* A detached stream is given back a lost packet: a datagram goes back to its
\* queue; for stream data missed ends in attach_for_transmit, and the data is
\* gone.
GiveBack(queues, p) ==
    IF p.kind = "datagram"
    THEN [queues EXCEPT ![p.owner] = TxInsert(@, [kind |-> p.kind, seq |-> p.seq])]
    ELSE queues

\* The queues after the lost packets are given back, in the order of a hash
\* table.
HandBack(order) ==
    LET given[n \in 0..Len(order)] ==
          IF n = 0 THEN txQueue ELSE GiveBack(given[n - 1], waitingAck[order[n]])
    IN  ForLiving(given[Len(order)], <<>>)

\* Mutant: packets of the stream stay in waiting_ack_.
ForgetPackets_Keep(keys) ==
    /\ \E order \in SetToSeqs(keys) : txQueue' = HandBack(order)
    /\ UNCHANGED waitingAck

\* The last part of clear: the packets of the detached streams leave
\* waiting_ack_.
ForgetPackets(keys) ==
    /\ \E order \in SetToSeqs(keys) : txQueue' = HandBack(order)
    /\ Untrack(keys)

\* Mutant: tx_enqueued_channel_ stays set.
LeaveLine_KeepFlag(S) ==
    /\ sending' = Dequeue(sending, S)
    /\ passedBy' = [s \in Streams |-> IF s \in S THEN {} ELSE passedBy[s]]
    /\ UNCHANGED enqueued

LeaveLine(S) ==
    /\ sending' = Dequeue(sending, S)
    /\ enqueued' = [s \in Streams |-> enqueued[s] /\ s \notin S]
    /\ passedBy' = [s \in Streams |-> IF s \in S THEN {} ELSE passedBy[s]]

\* stream_tx_attachment::clear for the attached streams in S, of which the
\* root may be one, with their packets in flight.
Clear(S, keys) ==
    /\ sid' = [s \in Streams |-> IF s \in S THEN -1 ELSE sid[s]]
    /\ table' = [i \in Sids |-> IF table[i] \in S THEN Free ELSE table[i]]
    /\ LeaveLine(S)
    /\ ForgetPackets(keys)
    /\ usid' = ForLiving(usid, -1)
    /\ prio' = ForLiving(prio, 0)
    /\ txByteSeq' = ForLiving(txByteSeq, 0)
    /\ UNCHANGED <<counter, looping>>

InTable == {table[i] : i \in Sids} \ {Free}

ClearAttachment(s) ==
    /\ ~looping /\ IsAttached(s)
    /\ UNCHANGED <<channelUp, alive>>
    /\ Clear({s}, Owned(s))

\* base_stream::clear, before the stream is destroyed: an attachment that is
\* not in use has nothing to clear.
DestroyStream(s) ==
    /\ ~looping /\ s \in alive
    /\ alive' = alive \ {s}
    /\ LET S == {t \in {s} : IsAttached(t)} IN Clear(S, UNION {Owned(t) : t \in S})
    /\ UNCHANGED channelUp

\* detach_all: every attachment goes, and every packet in flight.
DetachAll ==
    /\ ~looping /\ channelUp
    /\ UNCHANGED <<channelUp, alive>>
    /\ Clear(InTable, InFlight)

\* stream_channel::stop: every attachment goes, each with its packets.
Stop ==
    /\ ~looping /\ channelUp
    /\ channelUp' = FALSE /\ UNCHANGED alive
    /\ Clear(InTable, UNION {Owned(s) : s \in InTable})

Next ==
    \/ \E s \in Streams :
        \/ SetAttaching(s) \/ ClearAttachment(s) \/ DestroyStream(s)
        \/ TransmitOn(s) \/ WriteDatagram(s)
        \/ \E size \in Sizes : WriteData(s, size)
        \/ \E priority \in Priorities : SetPriority(s, priority)
    \/ \E k \in Keys : Acknowledged(k) \/ Missed(k) \/ Expire(k)
    \/ DetachAll \/ Stop

Spec == Init /\ [][Next]_vars

-----------------------------------------------------------------------------
(* Properties.                                                             *)

\* The type of every variable.
TypeOK ==
    /\ channelUp \in BOOLEAN /\ looping \in BOOLEAN /\ alive \subseteq Streams
    /\ sid \in [Streams -> Sids \cup {-1}]
    /\ usid \in [Streams -> (0..MaxCounter) \cup {-1}]
    /\ table \in [Sids -> Streams \cup {Root, Free}]
    /\ counter \in 1..(MaxCounter + 1)
    /\ prio \in [Streams -> Priorities]
    /\ txByteSeq \in [Streams -> 0..MaxBytes]
    /\ txQueue \in [Streams -> Seq(Queued)]
    /\ enqueued \in [Streams -> BOOLEAN]
    /\ sending \in Seq(Streams)
    /\ InFlight \subseteq Keys /\ waitingAck \in [InFlight -> Frame]
    /\ passedBy \in [Streams -> SUBSET Streams]

\* A stream is marked as waiting exactly when it is in line, once: the flag
\* tx_enqueued_channel_ and the list sending_streams_ agree, however writes,
\* transmissions, losses and detachments interleave.
EnqueuedOnce ==
    \A s \in Streams :
        Cardinality({i \in DOMAIN sending : sending[i] = s})
            = IF enqueued[s] THEN 1 ELSE 0

\* A stream in line is attached to the channel and has a packet to send: the
\* assertions at the start of transmit_on hold when its turn comes.
SendersReady ==
    \A s \in ToSet(sending) : s \in alive /\ IsAttached(s) /\ txQueue[s] # <<>>

\* The line is in ascending order of priority, also when priorities change
\* while streams wait and got_ready_transmit runs, so that the stream with the
\* LOWEST number is served first.  upper_bound in enqueue_stream relies on the
\* order; its direction is the opposite of the documented one, where "stream
\* with absolute largest priority on the channel wins" (doc/spec.md).
LowestFirst ==
    \A i, j \in DOMAIN sending : i < j => prio[sending[i]] <= prio[sending[j]]

\* transmit_sids_ holds every attached stream at its own id and nothing else,
\* across reuse of ids after the counter wraps: no two streams share an id,
\* and the assertions of set_attaching and clear hold.
SidTableExact ==
    /\ \A s \in Streams : IsAttached(s) => s \in alive /\ table[sid[s]] = s
    /\ \A i \in Sids : table[i] \in Streams => sid[table[i]] = i
    /\ ~channelUp => InTable = {}

\* A packet in waiting_ack_ belongs to a stream that still exists and is
\* attached: acknowledged, missed and expire follow its owner pointer.
NoOrphanFrames ==
    \A k \in InFlight :
        waitingAck[k].owner \in alive /\ IsAttached(waitingAck[k].owner)

\* An attached stream with something to send that needs no Attach packet is
\* in line: no order of writes, transmissions and losses leaves its data
\* behind without anyone who would send it.
NoStreamForgotten ==
    \A s \in Streams :
        IsAttached(s) /\ txQueue[s] # <<>> /\ (CanInit(s) \/ CanReply(s))
            => enqueued[s]

\* tx_enqueue_packet, in its comment, keeps packets in order of transmit
\* sequence number.
TxQueueInOrder ==
    \A s \in Streams : \A i, j \in DOMAIN txQueue[s] :
        i < j => txQueue[s][i].seq <= txQueue[s][j].seq

\* got_ready_transmit, in its comment, goes round robin between streams: a
\* stream does not transmit twice while one of the same priority waits.
RoundRobin ==
    [][\A s \in Streams : TransmitOn(s) =>
        \A t \in ToSet(Tail(sending)) : prio[t] = prio[s] => s \notin passedBy[t]]_vars
=============================================================================
