------------------------------ MODULE Channel ------------------------------
(***************************************************************************)
(* The packet channel of lib/channel.cpp as seen by the stream layer: its  *)
(* life cycle (start, stop, self-destruction when the link goes down), the *)
(* retransmission timer, and the delayed-acknowledgment machine            *)
(* (acknowledge, flush_ack, ack_timeout and the clearing of pending        *)
(* acknowledgments in channel_transmit).                                   *)
(*                                                                         *)
(* The network may lose, duplicate and reorder packets: Acknowledge takes  *)
(* any sequence number near the newest one, any number of times.  What the *)
(* machine shows to the outside are the calls of transmit_ack(ackseq, n),  *)
(* which tell the peer that packets ackseq-n .. ackseq arrived; the union  *)
(* of these ranges is the history variable acked.                          *)
(*                                                                         *)
(* Stopping a channel is not one step: stop() reports the link as down,    *)
(* the handler deletes the channel, the destructor calls stop() again, and *)
(* when all that is done the first stop() goes on.  The calls that have    *)
(* yet to return are a stack; nothing else runs meanwhile.                 *)
(*                                                                         *)
(* Congestion control is module CongestionControl; payloads and encryption *)
(* are left out.                                                           *)
(***************************************************************************)
EXTENDS Integers, Sequences

CONSTANTS
    MaxSeq,         \* largest sequence number the peer sends (a bound)
    Reach,          \* how far from rx_ack_sequence_ a packet can be
    DiffModulus,    \* 2^32: seq_diff is kept in an int32_t
    MinAckPackets,  \* 2: min_ack_packets
    MaxAckPackets,  \* 4: max_ack_packets
    MaxAckCount     \* 15: max_ack_count

ASSUME SeqAssumption ==
    /\ MaxSeq \in Nat /\ Reach \in Nat /\ DiffModulus \in Nat
    /\ 2 * Reach < DiffModulus
ASSUME AckAssumption ==
    /\ MinAckPackets \in Nat /\ MaxAckPackets \in Nat /\ MaxAckCount \in Nat
    /\ 1 <= MinAckPackets /\ MinAckPackets <= MaxAckPackets
    /\ MaxAckPackets <= MaxAckCount + 1

VARIABLES
    life,        \* "idle" before start, "active", "stopped", "destroyed"
    link,        \* link_status_
    calls,       \* what the calls under way have yet to do, innermost first
    destructions,\* history: how often the destructor was entered (up to 2)
    statsTimer,  \* stats_timer_ is active
    rtxTimer,    \* retransmit_timer_ is active
    ackTimer,    \* ack_timer_: "off", "delayed" (10 ms) or "now" (0 ms)
    rxAckSeq,    \* rx_ack_sequence_
    rxAckCount,  \* rx_ack_count_: contiguous packets before rx_ack_sequence_
    rxUnacked,   \* rx_unacked_
    received,    \* history: sequence numbers passed to acknowledge
    acked,       \* history: sequence numbers covered by a transmit_ack call
    owed,        \* history: packets that asked for an ack and still wait for it
    overtaken,   \* history: owed packets given up by channel_transmit
    quiet        \* history: retransmit timeouts since the last transmission

rxVars == <<rxAckSeq, rxAckCount, rxUnacked, received, acked, owed>>
callVars == <<calls, destructions>>
linkVars == <<life, link, rtxTimer, statsTimer, quiet>>
vars == <<life, link, calls, destructions, rtxTimer, ackTimer, statsTimer,
          rxAckSeq, rxAckCount, rxUnacked, received, acked, owed, overtaken, quiet>>

-----------------------------------------------------------------------------
Seqs == 1..MaxSeq
Lower(a, b) == IF a < b THEN a ELSE b

\* int32_t seq_diff = pktseq - rx_ack_sequence_: the low 32 bits, signed.
SeqDiff(pktseq, base) ==
    LET low == (pktseq - base) % DiffModulus
    IN  IF 2 * low < DiffModulus THEN low ELSE low - DiffModulus

\* The packets a transmit_ack(ackseq, count) call acknowledges; count 0
\* means one packet.
AckRange(ackseq, count) == (ackseq - count)..ackseq

\* Mutant: flush_ack passes a count of 0.
FlushRange_NewestOnly == IF rxUnacked > 0 THEN AckRange(rxAckSeq, 0) ELSE {}

\* What flush_ack acknowledges: everything pending, in one range.
FlushRange == IF rxUnacked > 0 THEN AckRange(rxAckSeq, rxAckCount) ELSE {}

\* Bookkeeping of the history variables for one handler that hears of
\* packet pktseq and acknowledges the packets in `now`.
Heard(pktseq, send_ack, now) ==
    /\ received' = received \cup {pktseq}
    /\ acked' = acked \cup now
    /\ owed' = (owed \cup {q \in {pktseq} : send_ack /\ q \notin received}) \ now

\* Mutant: the first packet starts no delayed-ack timer.
ScheduleAck_NoDelay(unacked, send_ack) ==
    IF send_ack /\ unacked >= MinAckPackets THEN "now" ELSE ackTimer

\* The ack timer after a contiguous packet that is not flushed at once.
ScheduleAck(unacked, send_ack) ==
    IF ~send_ack THEN ackTimer
    ELSE IF unacked >= MinAckPackets THEN "now"
    ELSE IF ackTimer = "off" THEN "delayed" ELSE ackTimer

-----------------------------------------------------------------------------
Init ==
    /\ life = "idle" /\ link = "down" /\ calls = <<>> /\ destructions = 0
    /\ rtxTimer = FALSE /\ ackTimer = "off" /\ statsTimer = TRUE
    /\ rxAckSeq = 0 /\ rxAckCount = 0 /\ rxUnacked = 0
    /\ received = {} /\ acked = {} /\ owed = {} /\ overtaken = {}
    /\ quiet = 0

\* Mutant: <= max_ack_packets in place of <.
AckContiguous_OneMore(pktseq, send_ack) ==
    /\ SeqDiff(pktseq, rxAckSeq) = 1
    /\ rxAckSeq' = pktseq
    /\ rxAckCount' = Lower(rxAckCount + 1, MaxAckCount)
    /\ rxUnacked + 1 <= MaxAckPackets
    /\ rxUnacked' = rxUnacked + 1
    /\ ackTimer' = ScheduleAck(rxUnacked + 1, send_ack)
    /\ Heard(pktseq, send_ack, {})

\* acknowledge, seq_diff == 1: in order and contiguous.
AckContiguous(pktseq, send_ack) ==
    /\ SeqDiff(pktseq, rxAckSeq) = 1
    /\ rxAckSeq' = pktseq
    /\ rxAckCount' = Lower(rxAckCount + 1, MaxAckCount)
    /\ \/ /\ rxUnacked + 1 < MaxAckPackets
          /\ rxUnacked' = rxUnacked + 1
          /\ ackTimer' = ScheduleAck(rxUnacked + 1, send_ack)
          /\ Heard(pktseq, send_ack, {})
       \/ /\ rxUnacked + 1 >= MaxAckPackets
          /\ rxUnacked' = 0
          /\ ackTimer' = "off"
          /\ Heard(pktseq, send_ack, AckRange(rxAckSeq', rxAckCount'))

\* Mutant: the contiguous-packet counter survives a gap.
AckAfterGap_KeepCount(pktseq, send_ack) ==
    /\ SeqDiff(pktseq, rxAckSeq) > 1
    /\ rxAckSeq' = pktseq
    /\ rxUnacked' = 0
    /\ ackTimer' = "off"
    /\ Heard(pktseq, send_ack, FlushRange)
    /\ UNCHANGED rxAckCount

\* Mutant: the receive state moves on without flushing the pending range.
AckAfterGap_NoFlush(pktseq, send_ack) ==
    /\ SeqDiff(pktseq, rxAckSeq) > 1
    /\ rxAckSeq' = pktseq
    /\ rxAckCount' = 0
    /\ Heard(pktseq, send_ack, IF send_ack THEN AckRange(pktseq, 0) ELSE {})
    /\ UNCHANGED <<rxUnacked, ackTimer>>

\* acknowledge, seq_diff > 1: in order after a gap.  The pending range is
\* flushed before the receive state moves on.
AckAfterGap(pktseq, send_ack) ==
    /\ SeqDiff(pktseq, rxAckSeq) > 1
    /\ rxAckSeq' = pktseq
    /\ rxAckCount' = 0
    /\ rxUnacked' = 0
    /\ ackTimer' = "off"
    /\ Heard(pktseq, send_ack,
             FlushRange \cup (IF send_ack THEN AckRange(pktseq, 0) ELSE {}))

\* Mutant: an old packet resets rx_ack_sequence_.
AckOld_MovesBack(pktseq, send_ack) ==
    /\ SeqDiff(pktseq, rxAckSeq) < 0
    /\ rxAckSeq' = pktseq
    /\ rxAckCount' = 0
    /\ rxUnacked' = 0
    /\ ackTimer' = "off"
    /\ Heard(pktseq, send_ack, FlushRange)

\* acknowledge, seq_diff < 0: an old packet out of order.
AckOld(pktseq, send_ack) ==
    /\ SeqDiff(pktseq, rxAckSeq) < 0
    /\ rxUnacked' = 0
    /\ ackTimer' = "off"
    /\ Heard(pktseq, send_ack,
             FlushRange \cup (IF send_ack THEN AckRange(pktseq, 0) ELSE {}))
    /\ UNCHANGED <<rxAckSeq, rxAckCount>>

\* acknowledge, seq_diff == 0: the newest packet again, ignored.
AckRepeated(pktseq, send_ack) ==
    /\ SeqDiff(pktseq, rxAckSeq) = 0
    /\ UNCHANGED <<ackTimer, rxVars>>

\* The upper layer accepts a packet that receive() delivered.  An inactive
\* channel drops packets; the 24-bit sequence field keeps them in Reach.
Acknowledge(pktseq, send_ack) ==
    /\ life = "active" /\ calls = <<>>
    /\ pktseq - rxAckSeq \in (-Reach)..Reach
    /\ \/ AckContiguous(pktseq, send_ack)
       \/ AckAfterGap(pktseq, send_ack)
       \/ AckOld(pktseq, send_ack)
       \/ AckRepeated(pktseq, send_ack)
    /\ UNCHANGED <<linkVars, callVars, overtaken>>

\* ack_timeout: the delayed acknowledgment is due.
AckTimeout ==
    /\ ackTimer # "off" /\ calls = <<>>
    /\ rxUnacked' = 0
    /\ ackTimer' = "off"
    /\ acked' = acked \cup FlushRange
    /\ owed' = owed \ FlushRange
    /\ UNCHANGED <<linkVars, callVars, rxAckSeq, rxAckCount, received, overtaken>>

\* stats_timeout: the timer, started once by the constructor, logs and is over.
StatsTimeout ==
    /\ statsTimer /\ calls = <<>>
    /\ statsTimer' = FALSE
    /\ UNCHANGED <<life, link, rtxTimer, quiet, callVars, ackTimer, rxVars, overtaken>>

\* What channel_transmit does to a pending acknowledgment: it forgets it,
\* while the packet goes out with an acknowledgment field of 0.
DropPendingAck ==
    /\ rxUnacked' = 0
    /\ ackTimer' = IF rxUnacked > 0 THEN "off" ELSE ackTimer
    /\ overtaken' = IF rxUnacked > 0 THEN overtaken \cup owed ELSE overtaken
    /\ owed' = IF rxUnacked > 0 THEN {} ELSE owed
    /\ UNCHANGED <<rxAckSeq, rxAckCount, received, acked>>

\* channel_transmit, called by a stream with a packet to send.
ChannelTransmit ==
    /\ life = "active" /\ calls = <<>>
    /\ DropPendingAck
    /\ rtxTimer' = TRUE
    /\ quiet' = 0
    /\ UNCHANGED <<life, link, statsTimer, callVars>>

\* on_ready_transmit inside another handler: the streams send something or
\* have nothing to send.
ReadyTransmit(sends) ==
    IF sends THEN DropPendingAck ELSE UNCHANGED <<ackTimer, rxVars, overtaken>>

Start(sends) ==
    /\ life = "idle" /\ calls = <<>>
    /\ life' = "active" /\ link' = "up"
    /\ ReadyTransmit(sends)
    /\ rtxTimer' = TRUE
    /\ UNCHANGED <<statsTimer, quiet, callVars>>

\* Mutant: the signal is repeated, as it is for a stalled link.
DownSignal_Repeated == <<"signal">>

\* set_link_status(down): the status is set, then signalled if it is new.
DownSignal == IF link # "down" THEN <<"signal">> ELSE <<>>

\* stream_channel::stop: the timers stop, the channel is inactive, and the link
\* is down; then the streams are detached.  Its caller goes on with `rest`.
StopThen(rest) ==
    /\ rtxTimer' = FALSE /\ ackTimer' = "off" /\ statsTimer' = FALSE
    /\ life' = IF life = "active" THEN "stopped" ELSE life
    /\ link' = "down"
    /\ calls' = DownSignal \o <<"detach">> \o rest
    /\ UNCHANGED <<rxVars, overtaken, quiet>>

Stop ==
    /\ life \in {"idle", "active"} /\ calls = <<>>
    /\ StopThen(<<>>)
    /\ UNCHANGED destructions

\* retransmit_timeout(failed): the timer is restarted whatever is in flight.
RetransmitTimeout(failed, sends) ==
    /\ rtxTimer /\ calls = <<>>
    /\ ReadyTransmit(sends)
    /\ quiet' = IF sends THEN 0 ELSE Lower(quiet + 1, 2)
    /\ link' = IF failed THEN "down" ELSE "stalled"
    /\ calls' = IF failed THEN DownSignal ELSE <<>>
    /\ UNCHANGED <<life, rtxTimer, statsTimer, destructions>>

\* got_link_status_changed(down): delete this; the destructor calls stop().
LinkDown ==
    /\ calls # <<>> /\ Head(calls) = "signal"
    /\ StopThen(<<"free">> \o Tail(calls))
    /\ destructions' = Lower(destructions + 1, 2)

\* The rest of stop(): every stream in the tables of stream ids is detached
\* (module StreamTransmit).
DetachStreams ==
    /\ calls # <<>> /\ Head(calls) = "detach"
    /\ calls' = Tail(calls)
    /\ UNCHANGED <<linkVars, destructions, ackTimer, rxVars, overtaken>>

\* The rest of the destructor: the members are destroyed and the memory freed.
Free ==
    /\ calls # <<>> /\ Head(calls) = "free"
    /\ life' = "destroyed"
    /\ calls' = Tail(calls)
    /\ UNCHANGED <<link, rtxTimer, statsTimer, quiet, destructions, ackTimer, rxVars,
                   overtaken>>

\* The innermost call goes on.
Unwind == LinkDown \/ DetachStreams \/ Free

Next ==
    \/ \E pktseq \in Seqs, send_ack \in BOOLEAN : Acknowledge(pktseq, send_ack)
    \/ AckTimeout
    \/ StatsTimeout
    \/ ChannelTransmit
    \/ \E sends \in BOOLEAN : Start(sends)
    \/ Stop
    \/ \E failed, sends \in BOOLEAN : RetransmitTimeout(failed, sends)
    \/ Unwind

Spec == Init /\ [][Next]_vars

\* A running timer fires, as the host's event loop serves its timers, and a call
\* under way goes on.
FairSpec == Spec /\ WF_vars(AckTimeout) /\ WF_vars(Unwind)

-----------------------------------------------------------------------------
\* The type of every variable: in particular rx_unacked_ stays below
\* max_ack_packets and rx_ack_count_ fits its field of four bits.
TypeOK ==
    /\ life \in {"idle", "active", "stopped", "destroyed"}
    /\ destructions \in 0..2
    /\ link \in {"down", "up", "stalled"}
    /\ rtxTimer \in BOOLEAN /\ statsTimer \in BOOLEAN
    /\ ackTimer \in {"off", "delayed", "now"}
    /\ rxAckSeq \in 0..MaxSeq
    /\ rxAckCount \in 0..MaxAckCount
    /\ rxUnacked \in 0..(MaxAckPackets - 1)
    /\ received \in SUBSET Seqs /\ acked \in SUBSET (0..MaxSeq)
    /\ owed \in SUBSET Seqs /\ overtaken \in SUBSET Seqs
    /\ quiet \in 0..2

\* The channel never acknowledges a packet it has not received: over any
\* sequence of lost, repeated and reordered packets, every range handed to
\* transmit_ack holds received packets only (0 stands for the start of the
\* stream of packets, which the peer never sends).
AckOnlyReceived == acked \subseteq received \cup {0}

\* Every packet that asked for an acknowledgment and did not get it is in
\* the range of the next flush_ack, so one flush settles them all: the count
\* field never loses track of a pending packet, at its limit included.
FlushCoversOwed ==
    \A p \in owed : p \in AckRange(rxAckSeq, rxAckCount) /\ rxUnacked > 0

\* While a packet waits for its acknowledgment, the delayed-ack timer runs:
\* no order of data and ack-only packets leaves the packet to chance.
OwedHasTimer == owed # {} /\ life = "active" => ackTimer # "off"

\* However the link goes down (stop(), a failed timeout, a destructor that
\* stops the channel which is being destroyed because it stopped), the channel
\* is destroyed once.  No timer, whose callback holds a plain pointer, outlives
\* it; only the stop() that began it all goes on, in the destroyed channel.
DestroyedOnce ==
    /\ destructions <= 1
    /\ life = "destroyed" => /\ ~rtxTimer /\ ackTimer = "off" /\ ~statsTimer
                             /\ calls \in {<<>>, <<"detach">>}

\* rx_ack_sequence_ never moves backwards, whatever the order of arrival and
\* although seq_diff is cut to 32 bits.
AckSequenceAdvances == [][rxAckSeq' >= rxAckSeq]_vars

\* A packet that asked for an acknowledgment gets it from the timer or from
\* a later packet, unless a transmission overtakes it or the channel dies.
AckedUnlessOvertaken ==
    \A p \in Seqs :
        p \in owed ~> p \in acked \cup overtaken \/ life = "destroyed"

\* The inductive invariant behind the safety properties.  The next flush
\* would acknowledge received packets only, the owed packets are among the
\* last rx_unacked_ ones, and the count field reaches back over all of these.
WindowReceived ==
    /\ rxAckCount <= rxAckSeq
    /\ AckRange(rxAckSeq, rxAckCount) \subseteq received \cup {0}
OwedIsRecent == \A p \in owed : rxAckSeq - rxUnacked < p /\ p <= rxAckSeq
CountReachesBack == rxUnacked <= rxAckCount
QuietBeforeStart == life = "idle" => owed = {} /\ ~rtxTimer

\* The stacks there can be.  The status is set before it is signalled and a live
\* channel is never down, so that only the first report has a signal.
Stacks ==
    /\ \/ /\ calls = <<>> /\ life = "active"
          /\ link # "down" /\ destructions = 0
       \/ /\ link = "down" /\ destructions = 0
          /\ \/ calls \in {<<>>, <<"detach">>} /\ life = "idle"
             \/ calls = <<"signal">> /\ life = "active"
             \/ calls = <<"signal", "detach">> /\ life = "stopped"
       \/ /\ link = "down" /\ destructions = 1
          /\ \/ /\ life = "stopped"
                /\ calls \in {<<"free">>, <<"free", "detach">>, <<"detach", "free">>,
                              <<"detach", "free", "detach">>}
             \/ calls \in {<<>>, <<"detach">>} /\ life = "destroyed"
    /\ life \in {"idle", "stopped", "destroyed"} => ~rtxTimer
    /\ life \in {"stopped", "destroyed"} => ackTimer = "off" /\ ~statsTimer
IInv ==
    /\ TypeOK
    /\ WindowReceived /\ AckOnlyReceived
    /\ OwedIsRecent /\ CountReachesBack
    /\ OwedHasTimer /\ QuietBeforeStart /\ Stacks

\* channel.h: "if 'send_ack' is true, make sure an acknowledgment gets sent
\* soon: in the next transmitted packet, or in an ack packet if needed."
AckSentSoon ==
    \A p \in Seqs : p \in owed ~> p \in acked \/ life = "destroyed"

\* channel.cpp, in retransmit_timeout: when nothing is queued, "rtxtimer stays
\* disarmed until the next transmit", so that at most one timeout happens
\* between two transmissions.
IdleTimerDisarmed == quiet <= 1

=============================================================================
