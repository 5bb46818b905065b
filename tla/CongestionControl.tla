------------------------- MODULE CongestionControl -------------------------
(***************************************************************************)
(* The congestion control of lib/channel.cpp: the transmit state shared    *)
(* with the channel (shared_state), the strategies cc_tcp, cc_aggressive,  *)
(* cc_delay and cc_vegas, may_transmit, cc_and_rtt_update and the whole of *)
(* retransmit_timeout, whose loop calls the upper layer for every packet.  *)
(*                                                                         *)
(* The channel creates a cc_tcp; a strategy is chosen in Init so that each *)
(* of the others is checked too.  The body of transmit is disabled at this *)
(* commit and the code that takes acknowledgments in is gone: Transmit     *)
(* follows the disabled lines, Acked and Miss stand for the caller of      *)
(* cc_and_rtt_update and missed, and do to the shared state what its       *)
(* comments say.  Round-trip times and rates are floating point numbers:   *)
(* how they compare with earlier ones is a free choice.                    *)
(***************************************************************************)
EXTENDS Integers, FiniteSets

CONSTANTS
    Strategies,  \* the strategies to check, of "tcp", "aggressive", "delay", "vegas"
    CWND_MIN,    \* 2
    CWND_MAX,    \* 2^20
    UintModulus, \* 2^32: width of unsigned
    MaxSeq       \* bound on the packets sent

ASSUME WindowAssumption ==
    /\ CWND_MIN \in Nat /\ CWND_MAX \in Nat
    /\ 1 <= CWND_MIN /\ CWND_MIN < CWND_MAX
ASSUME WidthAssumption ==
    /\ MaxSeq \in Nat \ {0} /\ UintModulus \in Nat
    /\ MaxSeq + CWND_MAX < UintModulus
ASSUME StrategyAssumption ==
    Strategies \subseteq {"tcp", "aggressive", "delay", "vegas"}

VARIABLES
    strategy,  \* the class of congestion_control
    nocc,      \* nocc_: the socket below controls congestion itself
    txSeq,     \* tx_sequence_: next sequence number to transmit
    txAck,     \* tx_ack_sequence_: highest sequence number acknowledged
    ackMask,   \* tx_ack_mask_: the packets acknowledged
    pipe,      \* the packets in tx_events_ whose pipe_ is set
    inflight,  \* tx_inflight_count_
    mark,      \* mark_sequence_, mark_base_, mark_acks_ and mark_sent_
    cc,        \* the fields of congestion_control_strategy
    sweep,     \* seq in the loop of retransmit_timeout, 0 when it is not running
    seqlim,    \* seqlim of that loop
    cutAt      \* history: tx_sequence_ when a loss last cut the window

txVars == <<txSeq, txAck, ackMask, pipe, inflight, mark>>
loopVars == <<sweep, seqlim>>
vars == <<strategy, nocc, txSeq, txAck, ackMask, pipe, inflight, mark, cc,
          sweep, seqlim, cutAt>>

-----------------------------------------------------------------------------
Larger(a, b) == IF a > b THEN a ELSE b
Smaller(a, b) == IF a < b THEN a ELSE b

Windows == CWND_MIN..CWND_MAX
Sent == 1..(txSeq - 1)

CcState == [cwnd : Nat, limited : BOOLEAN, ssthresh : Nat,
            ssbase : Nat, recovseq : 1..(MaxSeq + 1),
            cwndinc : {-1, 1}, sstoggle : BOOLEAN]

\* congestion_control_strategy::reset
Reset == [cwnd |-> CWND_MIN, limited |-> TRUE, ssthresh |-> CWND_MAX,
          ssbase |-> 0, recovseq |-> 1, cwndinc |-> 1, sstoggle |-> TRUE]

\* How the last round trip compares with earlier ones, as far as the strategy
\* looks: acknowledgments come in on schedule, the round-trip time rose above
\* its base, the rate fell below its base, and the packets queued on the path.
Measurement ==
    [onSchedule : IF strategy \in {"aggressive", "delay"} THEN BOOLEAN ELSE {TRUE},
     rttRose : IF strategy = "delay" THEN BOOLEAN ELSE {TRUE},
     ppsFell : IF strategy = "delay" THEN BOOLEAN ELSE {TRUE},
     queued : IF strategy = "vegas" THEN {"few", "some", "many"} ELSE {"some"}]

-----------------------------------------------------------------------------
(* update(new_packets), called for every acknowledgment.                   *)

\* Mutant: the threshold does not stop slow start.
SlowStart_NoThreshold(c, n) ==
    IF n > 0 /\ c.limited THEN [c EXCEPT !.cwnd = c.cwnd + 2 * n] ELSE c

\* cc_tcp::update: slow start up to the threshold.
SlowStart(c, n) ==
    IF n > 0 /\ c.limited /\ c.cwnd < c.ssthresh
    THEN [c EXCEPT !.cwnd = Smaller(c.cwnd + n, c.ssthresh)]
    ELSE c

\* cc_aggressive::update: slow start on schedule, above the baseline.
Boost(c, n, acks, m) ==
    IF acks > c.ssbase /\ m.onSchedule
    THEN [c EXCEPT !.cwnd = c.cwnd + Smaller(n, acks - c.ssbase)]
    ELSE c

\* cc_vegas::update: slow start every other time.
VegasUpdate(c, n) ==
    IF c.sstoggle THEN SlowStart([c EXCEPT !.sstoggle = FALSE], n)
                  ELSE [c EXCEPT !.sstoggle = TRUE]

Update(c, n, acks, m) ==
    CASE strategy = "tcp" -> SlowStart(c, n)
      [] strategy = "aggressive" -> Boost(c, n, acks, m)
      [] strategy = "delay" -> IF c.cwndinc < 0 THEN c ELSE Boost(c, n, acks, m)
      [] strategy = "vegas" -> VegasUpdate(c, n)

-----------------------------------------------------------------------------
(* rtt_update, called once per round trip.                                 *)

\* cc_tcp::rtt_update
TcpRttUpdate(c) ==
    [c EXCEPT !.cwnd = IF c.limited THEN c.cwnd + 1 ELSE c.cwnd, !.limited = FALSE]

\* cc_delay::rtt_update, before the window is clamped.
DelayStep(c, m) ==
    CASE c.cwndinc > 0 /\ (m.rttRose \/ c.cwnd >= CWND_MAX) ->
            [c EXCEPT !.cwndinc = -1]
      [] c.cwndinc > 0 /\ ~(m.rttRose \/ c.cwnd >= CWND_MAX) ->
            [c EXCEPT !.cwnd = c.cwnd + 1]
      [] c.cwndinc <= 0 /\ (m.ppsFell \/ c.cwnd <= CWND_MIN) ->
            [c EXCEPT !.ssbase = c.cwnd, !.cwnd = c.cwnd + 1, !.cwndinc = 1]
      [] c.cwndinc <= 0 /\ ~(m.ppsFell \/ c.cwnd <= CWND_MIN) ->
            [c EXCEPT !.cwnd = c.cwnd - 1]

DelayRttUpdate(c, m) ==
    LET d == DelayStep(c, m)
    IN  [d EXCEPT !.cwnd = Smaller(CWND_MAX, Larger(CWND_MIN, d.cwnd))]

\* Mutant: the window shrinks without looking at the smallest one.
VegasRttUpdate_NoMinimum(c, m) ==
    CASE m.queued = "few" /\ c.cwnd < CWND_MAX /\ c.limited ->
            [c EXCEPT !.cwnd = c.cwnd + 1]
      [] m.queued = "many" -> [c EXCEPT !.cwnd = c.cwnd - 1]
      [] OTHER -> c

\* cc_vegas::rtt_update; it leaves cwnd_limited_ alone.
VegasRttUpdate(c, m) ==
    CASE m.queued = "few" /\ c.cwnd < CWND_MAX /\ c.limited ->
            [c EXCEPT !.cwnd = c.cwnd + 1]
      [] m.queued = "many" /\ c.cwnd > CWND_MIN ->
            [c EXCEPT !.cwnd = c.cwnd - 1, !.ssthresh = Smaller(c.ssthresh, c.cwnd - 1)]
      [] OTHER -> c

RttUpdate(c, m) ==
    CASE strategy = "tcp" -> TcpRttUpdate(c)
      [] strategy = "aggressive" -> c
      [] strategy = "delay" -> DelayRttUpdate(c, m)
      [] strategy = "vegas" -> VegasRttUpdate(c, m)

-----------------------------------------------------------------------------
(* missed(pktseq), called for a packet taken for lost.                     *)

\* Mutant: the recovery window is not entered.
CutWindow_NoRecovery(c, p) ==
    IF p <= c.recovseq THEN c
    ELSE LET half == Larger(c.cwnd \div 2, CWND_MIN)
         IN  [c EXCEPT !.ssthresh = half, !.cwnd = half]

\* congestion_control_strategy::missed: a new loss event halves the window;
\* losses in the fast recovery window are part of the same event.
CutWindow(c, p) ==
    IF p <= c.recovseq THEN c
    ELSE LET half == Larger(c.cwnd \div 2, CWND_MIN)
         IN  [c EXCEPT !.ssthresh = half, !.cwnd = half, !.recovseq = txSeq]

\* Mutant: the difference is signed.
ClampToExpected_Signed(c) ==
    LET lost == Larger(0, (txAck - mark.base) - mark.acks)
        expected == mark.sent - lost
    IN  IF expected < c.cwnd
        THEN [c EXCEPT !.ssbase = expected, !.cwnd = Larger(CWND_MIN, expected)]
        ELSE c

\* cc_aggressive::missed: the window drops to the number of packets still
\* expected, an unsigned difference.
ClampToExpected(c) ==
    LET lost == Larger(0, (txAck - mark.base) - mark.acks)
        expected == (mark.sent - lost) % UintModulus
    IN  IF expected < c.cwnd
        THEN [c EXCEPT !.ssbase = expected, !.cwnd = Larger(CWND_MIN, expected)]
        ELSE c

MissedPacket(c, p) == IF strategy = "aggressive" THEN ClampToExpected(c) ELSE CutWindow(c, p)

-----------------------------------------------------------------------------
\* The state after start: nocc_ is what the socket says of itself.
Init ==
    /\ strategy \in Strategies /\ nocc \in BOOLEAN
    /\ txSeq = 1 /\ txAck = 0 /\ ackMask = {}
    /\ pipe = {} /\ inflight = 0
    /\ mark = [seq |-> 1, base |-> 0, acks |-> 0, sent |-> 0]
    /\ cc = Reset
    /\ sweep = 0 /\ seqlim = 0
    /\ cutAt = 0

\* Mutant: the mark is counted from the packet after it.
BumpTxSequence_Late ==
    /\ mark' = IF txSeq = mark.seq
               THEN [mark EXCEPT !.acks = 0, !.base = txAck, !.sent = txSeq - txAck - 1]
               ELSE mark
    /\ txSeq' = txSeq + 1

\* bump_tx_sequence: the marked packet starts the measurement of a round trip.
BumpTxSequence ==
    /\ mark' = IF txSeq = mark.seq
               THEN [mark EXCEPT !.acks = 0, !.base = txAck, !.sent = txSeq - txAck]
               ELSE mark
    /\ txSeq' = txSeq + 1

\* transmit: a data packet counts as in flight, an acknowledgment does not.
Transmit(isData) ==
    /\ txSeq <= MaxSeq
    /\ BumpTxSequence
    /\ pipe' = IF isData THEN pipe \cup {txSeq} ELSE pipe
    /\ inflight' = IF isData THEN inflight + 1 ELSE inflight
    /\ UNCHANGED <<strategy, nocc, txAck, ackMask>>

\* may_transmit lets a stream send.  The upper layer may do so from its
\* handler of missed, inside the loop of retransmit_timeout.
SendData ==
    /\ nocc \/ cc.cwnd > inflight
    /\ Transmit(TRUE)
    /\ UNCHANGED <<cc, loopVars, cutAt>>

\* may_transmit answers 0 and notes that the window held the sender back.
Blocked ==
    /\ ~nocc /\ cc.cwnd <= inflight
    /\ cc' = [cc EXCEPT !.limited = TRUE]
    /\ UNCHANGED <<strategy, nocc, txVars, loopVars, cutAt>>

\* An acknowledgment packet is sent without asking the congestion window.
SendAck ==
    /\ sweep = 0
    /\ Transmit(FALSE)
    /\ UNCHANGED <<cc, loopVars, cutAt>>

\* cc_and_rtt_update(new_packets, ackseq), with the shared state as the
\* taker of the acknowledgment leaves it.
CcAndRttUpdate(n, ackseq, m) ==
    LET acks == mark.acks + n
        roundTrip == ackseq >= mark.seq
        updated == IF nocc THEN cc ELSE Update(cc, n, acks, m)
        final == IF nocc \/ ~roundTrip THEN updated ELSE RttUpdate(updated, m)
    IN  /\ mark' = [mark EXCEPT !.acks = acks,
                                !.seq = IF roundTrip THEN txSeq ELSE mark.seq]
        /\ cc' = [final EXCEPT !.cwnd = Smaller(final.cwnd, CWND_MAX)]

\* An acknowledgment for the packets in A arrives, the newest being ackseq.
Acked(A, ackseq, m) ==
    /\ sweep = 0
    /\ A \subseteq Sent \ ackMask /\ ackseq \in A /\ \A p \in A : p <= ackseq
    /\ ackMask' = ackMask \cup A
    /\ txAck' = Larger(txAck, ackseq)
    /\ pipe' = pipe \ A
    /\ inflight' = inflight - Cardinality(pipe \cap A)
    /\ CcAndRttUpdate(Cardinality(A), ackseq, m)
    /\ UNCHANGED <<strategy, nocc, txSeq, loopVars, cutAt>>

\* A packet older than an acknowledged one is taken for lost.
Miss(p) ==
    /\ sweep = 0
    /\ p \in pipe /\ p < txAck
    /\ pipe' = pipe \ {p} /\ inflight' = inflight - 1
    /\ cc' = IF nocc THEN cc ELSE MissedPacket(cc, p)
    /\ cutAt' = IF cc'.cwnd < cc.cwnd THEN txSeq ELSE cutAt
    /\ UNCHANGED <<strategy, nocc, txSeq, txAck, ackMask, mark, loopVars>>

-----------------------------------------------------------------------------
(* retransmit_timeout: the timer is restarted at once and the loop takes   *)
(* every packet in flight for lost, up to the sequence number it read      *)
(* before its first call of missed.                                        *)

\* congestion_control_strategy::timeout
TimeoutWindow(c) ==
    [c EXCEPT !.ssthresh = Larger(inflight \div 2, CWND_MIN), !.cwnd = CWND_MIN]

TimeoutBegin ==
    /\ sweep = 0
    /\ cc' = IF nocc THEN cc ELSE TimeoutWindow(cc)
    /\ sweep' = 1 /\ seqlim' = txSeq
    /\ UNCHANGED <<strategy, nocc, txVars, cutAt>>

\* Mutant: the packet keeps its place in the count.
TimeoutStep_KeepCount ==
    /\ 0 < sweep /\ sweep < seqlim
    /\ pipe' = pipe \ {sweep}
    /\ sweep' = sweep + 1
    /\ UNCHANGED <<strategy, nocc, txSeq, txAck, ackMask, inflight, mark, cc, seqlim, cutAt>>

\* One turn of the loop.
TimeoutStep ==
    /\ 0 < sweep /\ sweep < seqlim
    /\ pipe' = pipe \ {sweep}
    /\ inflight' = IF sweep \in pipe THEN inflight - 1 ELSE inflight
    /\ sweep' = sweep + 1
    /\ UNCHANGED <<strategy, nocc, txSeq, txAck, ackMask, mark, cc, seqlim, cutAt>>

\* on_ready_transmit sends a packet, if there is one, without asking
\* may_transmit.
TimeoutEnd ==
    /\ sweep # 0 /\ sweep = seqlim
    /\ sweep' = 0 /\ seqlim' = 0
    /\ \/ Transmit(TRUE)
       \/ UNCHANGED <<strategy, nocc, txVars>>
    /\ UNCHANGED <<cc, cutAt>>

RetransmitTimeout == TimeoutBegin \/ TimeoutStep \/ TimeoutEnd

Next ==
    \/ SendData
    \/ Blocked
    \/ SendAck
    \/ \E A \in SUBSET (Sent \ ackMask), m \in Measurement : \E ackseq \in A : Acked(A, ackseq, m)
    \/ \E p \in pipe : Miss(p)
    \/ TimeoutBegin
    \/ TimeoutStep
    \/ TimeoutEnd

Spec == Init /\ [][Next]_vars

\* The retransmission timer is always running: start starts it and every
\* timeout restarts it.
FairSpec == Spec /\ WF_vars(RetransmitTimeout)

-----------------------------------------------------------------------------
\* The type of every variable.
TypeOK ==
    /\ strategy \in Strategies /\ nocc \in BOOLEAN
    /\ txSeq \in 1..(MaxSeq + 1) /\ txAck \in 0..MaxSeq
    /\ ackMask \in SUBSET (1..MaxSeq) /\ pipe \in SUBSET (1..MaxSeq)
    /\ inflight \in 0..MaxSeq
    /\ mark \in [seq : 1..(MaxSeq + 1), base : 0..MaxSeq, acks : 0..MaxSeq, sent : 0..MaxSeq]
    /\ cc \in CcState
    /\ sweep \in 0..(MaxSeq + 1) /\ seqlim \in 0..(MaxSeq + 1)
    /\ cutAt \in 0..(MaxSeq + 1)

\* Between handlers the congestion window and the slow start threshold are
\* within the limits, whatever strategy halves, increments and clamps them:
\* the window never closes for good and never runs past CWND_MAX.
WindowInRange == cc.cwnd \in Windows /\ cc.ssthresh \in Windows

\* stats_update divides by mark_sent_: when an acknowledgment can complete a
\* round trip the mark was placed, and counts at least one packet.
MarkCounted == mark.seq <= txSeq /\ (mark.seq < txSeq => mark.sent >= 1)

\* The count of packets in flight is the number of packets that wait for an
\* acknowledgment; and, as retransmit_timeout asserts, when its loop is done
\* and the upper layer sent nothing meanwhile, none is left.
InflightExact ==
    /\ inflight = Cardinality(pipe)
    /\ sweep # 0 /\ sweep = seqlim /\ seqlim = txSeq => inflight = 0

\* Losses among the packets sent before a cut do not cut the window again
\* (the strategies that use the common missed).
OneCutPerFlight ==
    [][\A p \in pipe :
        strategy # "aggressive" /\ Miss(p) /\ cc'.cwnd < cc.cwnd => p >= cutAt]_vars

\* A sender held back by a full window gets room again, acknowledgments or
\* not: a timeout empties the pipe and leaves a window that is not empty.
NeverStuck == ~nocc /\ cc.cwnd <= inflight ~> cc.cwnd > inflight

\* Every strategy keeps the contract with the network, unless the socket
\* below controls congestion itself and the window is not used.
Contract == INSTANCE WindowContract
                WITH Smallest <- CWND_MIN, Largest <- CWND_MAX,
                     window <- cc.cwnd,
                     out <- IF nocc THEN 0 ELSE inflight,
                     acked <- Cardinality(ackMask),
                     probe <- ~nocc /\ sweep # 0
KeepsContract == Contract!ContractSpec
=============================================================================
