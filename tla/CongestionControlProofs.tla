---------------------- MODULE CongestionControlProofs ----------------------
(***************************************************************************)
(* Proofs about module CongestionControl, for every window limit, every    *)
(* width of unsigned and every number of packets that satisfy its          *)
(* assumptions, and for each of the four strategies.                       *)
(***************************************************************************)
EXTENDS CongestionControl, FiniteSetTheorems, TLAPS

\* A state of a strategy between handlers.
Sound(c) == c \in CcState /\ c.cwnd \in Windows /\ c.ssthresh \in Windows

\* Inside cc_and_rtt_update the window may be past CWND_MAX.
Growing(c) == c \in CcState /\ c.cwnd >= CWND_MIN /\ c.ssthresh \in Windows

\* A strategy's record keeps its type when fields are assigned values of theirs.
LEMMA Assignments ==
    ASSUME NEW c \in CcState
    PROVE  /\ \A b \in BOOLEAN : [c EXCEPT !.limited = b] \in CcState
           /\ \A b \in BOOLEAN : [c EXCEPT !.sstoggle = b] \in CcState
           /\ \A i \in {-1, 1} : [c EXCEPT !.cwndinc = i] \in CcState
           /\ \A w \in Nat : [c EXCEPT !.cwnd = w] \in CcState
           /\ \A w \in Nat : [c EXCEPT !.cwnd = w, !.limited = FALSE] \in CcState
           /\ \A w, t \in Nat : /\ [c EXCEPT !.ssbase = t, !.cwnd = w] \in CcState
                               /\ [c EXCEPT !.cwnd = w, !.ssthresh = t] \in CcState
           /\ \A w, t \in Nat, i \in {-1, 1} :
                 [c EXCEPT !.ssbase = t, !.cwnd = w, !.cwndinc = i] \in CcState
           /\ \A w, t \in Nat, r \in 1..(MaxSeq + 1) :
                 [c EXCEPT !.ssthresh = t, !.cwnd = w, !.recovseq = r] \in CcState
BY Zenon DEF CcState

\* The fields of a strategy's record.
LEMMA Fields ==
    ASSUME NEW c \in CcState
    PROVE  /\ c.cwnd \in Nat /\ c.ssthresh \in Nat /\ c.ssbase \in Nat
           /\ c.recovseq \in 1..(MaxSeq + 1) /\ c.cwndinc \in {-1, 1}
           /\ c.limited \in BOOLEAN /\ c.sstoggle \in BOOLEAN
BY DEF CcState

\* update opens the window by at most the packets newly acknowledged.
LEMMA UpdateBounds ==
    ASSUME NEW c, Growing(c), NEW n \in Nat, NEW acks \in Nat,
           NEW m \in Measurement, strategy \in Strategies
    PROVE  /\ Growing(Update(c, n, acks, m))
           /\ Update(c, n, acks, m).cwnd <= c.cwnd + n
           /\ Update(c, n, acks, m).recovseq = c.recovseq
<1> USE WindowAssumption DEF Growing, Windows
<1> DEFINE Opens(d) == /\ Growing(d) /\ d.cwnd <= c.cwnd + n
                       /\ d.recovseq = c.recovseq
<1>1. ASSUME NEW d, Growing(d), d.cwnd = c.cwnd, d.recovseq = c.recovseq
      PROVE  Opens(SlowStart(d, n))
  <2>1. PICK w \in Nat : w = Smaller(d.cwnd + n, d.ssthresh)
    BY <1>1, Fields DEF Smaller
  <2>2. [d EXCEPT !.cwnd = w] \in CcState
    BY <1>1, Assignments
  <2>3. CASE n > 0 /\ d.limited /\ d.cwnd < d.ssthresh
    <3>1. SlowStart(d, n) = [d EXCEPT !.cwnd = w]
      BY <2>1, <2>3 DEF SlowStart
    <3> QED BY <1>1, <2>1, <2>2, <2>3, <3>1, Fields DEF CcState, Smaller
  <2>4. CASE ~(n > 0 /\ d.limited /\ d.cwnd < d.ssthresh)
    BY <1>1, <2>4, Fields DEF SlowStart
  <2> QED BY <2>3, <2>4
<1>2. Opens(Boost(c, n, acks, m))
  <2>1. CASE acks > c.ssbase /\ m.onSchedule
    <3>1. PICK w \in Nat : w = c.cwnd + Smaller(n, acks - c.ssbase)
      BY <2>1, Fields DEF Smaller
    <3>2. Boost(c, n, acks, m) = [c EXCEPT !.cwnd = w]
      BY <2>1, <3>1 DEF Boost
    <3>3. [c EXCEPT !.cwnd = w] \in CcState
      BY Assignments
    <3>4. w >= CWND_MIN /\ w <= c.cwnd + n
      BY <2>1, <3>1, Fields DEF Smaller
    <3> QED BY <3>2, <3>3, <3>4 DEF CcState
  <2>2. CASE ~(acks > c.ssbase /\ m.onSchedule)
    BY <2>2, Fields DEF Boost
  <2> QED BY <2>1, <2>2
<1>3. Opens(VegasUpdate(c, n))
  <2> DEFINE off == [c EXCEPT !.sstoggle = FALSE]
             on == [c EXCEPT !.sstoggle = TRUE]
  <2>1. off \in CcState /\ on \in CcState
    BY Assignments, Zenon
  <2>2. /\ off.cwnd = c.cwnd /\ off.recovseq = c.recovseq /\ off.ssthresh = c.ssthresh
        /\ on.cwnd = c.cwnd /\ on.recovseq = c.recovseq /\ on.ssthresh = c.ssthresh
    BY DEF CcState
  <2>3. VegasUpdate(c, n) \in {SlowStart(off, n), on}
    BY DEF VegasUpdate
  <2> HIDE DEF off, on
  <2>4. Opens(SlowStart(off, n)) /\ Opens(on)
    BY <1>1, <2>1, <2>2, Fields
  <2> QED BY <2>3, <2>4
<1>4. Opens(c) /\ Opens(SlowStart(c, n))
  BY <1>1, Fields
<1>5. strategy \in {"tcp", "aggressive", "delay", "vegas"}
  BY StrategyAssumption
<1>6. Update(c, n, acks, m) \in {SlowStart(c, n), Boost(c, n, acks, m), c, VegasUpdate(c, n)}
  BY <1>5 DEF Update
<1> QED BY <1>2, <1>3, <1>4, <1>6

\* rtt_update opens the window by at most one packet.
LEMMA RttUpdateBounds ==
    ASSUME NEW c, Growing(c), NEW m \in Measurement, strategy \in Strategies
    PROVE  /\ Growing(RttUpdate(c, m))
           /\ RttUpdate(c, m).cwnd <= c.cwnd + 1
           /\ RttUpdate(c, m).recovseq = c.recovseq
<1> USE WindowAssumption DEF Growing, Windows
<1> DEFINE Opens(d) == /\ Growing(d) /\ d.cwnd <= c.cwnd + 1
                       /\ d.recovseq = c.recovseq
<1>1. Opens(TcpRttUpdate(c))
  <2>1. PICK w \in Nat : w = (IF c.limited THEN c.cwnd + 1 ELSE c.cwnd)
    BY Fields
  <2>2. TcpRttUpdate(c) = [c EXCEPT !.cwnd = w, !.limited = FALSE]
    BY <2>1 DEF TcpRttUpdate
  <2>3. [c EXCEPT !.cwnd = w, !.limited = FALSE] \in CcState
    BY Assignments
  <2>4. w >= CWND_MIN /\ w <= c.cwnd + 1
    BY <2>1, Fields
  <2> QED BY <2>2, <2>3, <2>4 DEF CcState
<1>2. Opens(DelayRttUpdate(c, m))
  <2> DEFINE d == DelayStep(c, m)
             Near(e) == /\ e \in CcState /\ e.cwnd <= c.cwnd + 1
                        /\ e.ssthresh = c.ssthresh /\ e.recovseq = c.recovseq
  <2>0. m.rttRose \in BOOLEAN /\ m.ppsFell \in BOOLEAN
    BY DEF Measurement
  <2>1. Near(d)
    <3>1. CASE c.cwndinc > 0 /\ (m.rttRose \/ c.cwnd >= CWND_MAX)
      <4>1. d = [c EXCEPT !.cwndinc = -1]
        BY <3>1, Fields, <2>0 DEF DelayStep
      <4>2. [c EXCEPT !.cwndinc = -1] \in CcState
        BY Assignments
      <4> QED BY <4>1, <4>2 DEF CcState
    <3>2. CASE c.cwndinc > 0 /\ ~(m.rttRose \/ c.cwnd >= CWND_MAX)
      <4>0. PICK x \in Nat : x = c.cwnd + 1
        BY Fields
      <4>1. d = [c EXCEPT !.cwnd = x]
        BY <3>2, <4>0, Fields, <2>0 DEF DelayStep
      <4>2. [c EXCEPT !.cwnd = x] \in CcState
        BY Assignments
      <4> QED BY <4>0, <4>1, <4>2 DEF CcState
    <3>3. CASE c.cwndinc <= 0 /\ (m.ppsFell \/ c.cwnd <= CWND_MIN)
      <4>0. PICK x \in Nat : x = c.cwnd + 1
        BY Fields
      <4>1. d = [c EXCEPT !.ssbase = c.cwnd, !.cwnd = x, !.cwndinc = 1]
        BY <3>3, <4>0 DEF DelayStep
      <4>2. [c EXCEPT !.ssbase = c.cwnd, !.cwnd = x, !.cwndinc = 1] \in CcState
        <5>1. c.cwnd \in Nat /\ 1 \in {-1, 1}
          BY Fields
        <5> QED BY <5>1, Assignments, Zenon
      <4> QED BY <4>0, <4>1, <4>2 DEF CcState
    <3>4. CASE c.cwndinc <= 0 /\ ~(m.ppsFell \/ c.cwnd <= CWND_MIN)
      <4>0. PICK x \in Nat : x = c.cwnd - 1
        BY <3>4, Fields
      <4>1. d = [c EXCEPT !.cwnd = x]
        BY <3>4, <4>0 DEF DelayStep
      <4>2. [c EXCEPT !.cwnd = x] \in CcState
        BY Assignments
      <4> QED BY <4>0, <4>1, <4>2 DEF CcState
    <3>5. c.cwndinc > 0 \/ c.cwndinc <= 0
      BY Fields
    <3> QED BY <3>1, <3>2, <3>3, <3>4, <3>5
  <2>2. PICK w \in Nat : w = Smaller(CWND_MAX, Larger(CWND_MIN, d.cwnd))
    BY <2>1, Fields DEF Smaller, Larger
  <2>3. DelayRttUpdate(c, m) = [d EXCEPT !.cwnd = w]
    BY <2>2 DEF DelayRttUpdate
  <2> HIDE DEF d
  <2>4. [d EXCEPT !.cwnd = w] \in CcState
    BY <2>1, Assignments
  <2>5. w >= CWND_MIN /\ w <= c.cwnd + 1
    BY <2>1, <2>2, Fields DEF Smaller, Larger
  <2> QED BY <2>1, <2>3, <2>4, <2>5 DEF CcState
<1>3. Opens(VegasRttUpdate(c, m))
  <2>1. CASE m.queued = "few" /\ c.cwnd < CWND_MAX /\ c.limited
    <3>0. PICK x \in Nat : x = c.cwnd + 1
      BY Fields
    <3>1. VegasRttUpdate(c, m) = [c EXCEPT !.cwnd = x]
      BY <2>1, <3>0 DEF VegasRttUpdate
    <3>2. [c EXCEPT !.cwnd = x] \in CcState
      BY Assignments
    <3> QED BY <3>0, <3>1, <3>2 DEF CcState
  <2>2. CASE m.queued = "many" /\ c.cwnd > CWND_MIN
    <3>1. PICK x \in Nat : x = c.cwnd - 1
      BY <2>2, Fields
    <3>2. PICK t \in Nat : t = Smaller(c.ssthresh, x)
      BY <3>1, Fields DEF Smaller
    <3>3. VegasRttUpdate(c, m) = [c EXCEPT !.cwnd = x, !.ssthresh = t]
      BY <2>2, <3>1, <3>2 DEF VegasRttUpdate
    <3>4. [c EXCEPT !.cwnd = x, !.ssthresh = t] \in CcState
      BY Assignments, Zenon
    <3>5. t \in Windows /\ x >= CWND_MIN /\ x <= c.cwnd + 1
      BY <2>2, <3>1, <3>2, Fields DEF Smaller
    <3> QED BY <3>3, <3>4, <3>5 DEF CcState
  <2>3. CASE /\ ~(m.queued = "few" /\ c.cwnd < CWND_MAX /\ c.limited)
             /\ ~(m.queued = "many" /\ c.cwnd > CWND_MIN)
    BY <2>3, Fields DEF VegasRttUpdate
  <2> QED BY <2>1, <2>2, <2>3
<1>4. Opens(c)
  BY Fields
<1>5. strategy \in {"tcp", "aggressive", "delay", "vegas"}
  BY StrategyAssumption
<1>6. RttUpdate(c, m) \in {TcpRttUpdate(c), c, DelayRttUpdate(c, m), VegasRttUpdate(c, m)}
  BY <1>5 DEF RttUpdate
<1> QED BY <1>1, <1>2, <1>3, <1>4, <1>6

\* missed leaves a window in range that is not larger than before; a strategy
\* that uses the common missed notes where its recovery ends.
LEMMA MissedBounds ==
    ASSUME TypeOK, NEW c, Sound(c), NEW p
    PROVE  /\ Sound(MissedPacket(c, p))
           /\ MissedPacket(c, p).cwnd <= c.cwnd
           /\ MissedPacket(c, p).recovseq \in {c.recovseq, txSeq}
           /\ strategy # "aggressive" =>
                 \/ MissedPacket(c, p) = c
                 \/ ~(p <= c.recovseq) /\ MissedPacket(c, p).recovseq = txSeq
<1> USE WindowAssumption, WidthAssumption DEF Sound, Windows
<1>1. CASE strategy = "aggressive"
  <2> DEFINE lost == Larger(0, (txAck - mark.base) - mark.acks)
             expected == (mark.sent - lost) % UintModulus
  <2>1. lost \in Nat /\ mark.sent - lost \in Int
    BY DEF TypeOK, Larger
  <2>2. expected \in Nat
    BY <2>1
  <2> HIDE DEF expected
  <2>3. PICK w \in Nat : w = Larger(CWND_MIN, expected)
    BY <2>2 DEF Larger
  <2>4. ClampToExpected(c) = IF expected < c.cwnd
                             THEN [c EXCEPT !.ssbase = expected, !.cwnd = w] ELSE c
    BY <2>3 DEF ClampToExpected, expected
  <2>5. [c EXCEPT !.ssbase = expected, !.cwnd = w] \in CcState
    BY <2>2, Assignments, Zenon
  <2>6. expected < c.cwnd => w \in Windows /\ w <= c.cwnd
    BY <2>2, <2>3, Fields DEF Larger
  <2>7. MissedPacket(c, p) = ClampToExpected(c)
    BY <1>1 DEF MissedPacket
  <2>8. CASE expected < c.cwnd
    BY <1>1, <2>4, <2>5, <2>6, <2>7, <2>8 DEF CcState
  <2>9. CASE ~(expected < c.cwnd)
    BY <1>1, <2>4, <2>7, <2>9
  <2> QED BY <2>8, <2>9
<1>2. CASE strategy # "aggressive"
  <2> DEFINE half == Larger(c.cwnd \div 2, CWND_MIN)
  <2>1. half \in Nat /\ half \in Windows /\ half <= c.cwnd
    BY Fields DEF Larger
  <2>2. txSeq \in 1..(MaxSeq + 1)
    BY DEF TypeOK
  <2> HIDE DEF half
  <2>3. MissedPacket(c, p) = IF p <= c.recovseq THEN c
        ELSE [c EXCEPT !.ssthresh = half, !.cwnd = half, !.recovseq = txSeq]
    BY <1>2 DEF MissedPacket, CutWindow, half
  <2>4. [c EXCEPT !.ssthresh = half, !.cwnd = half, !.recovseq = txSeq] \in CcState
    BY <2>1, <2>2, Assignments, Zenon
  <2>5. CASE p <= c.recovseq
    BY <2>3, <2>5
  <2>6. CASE ~(p <= c.recovseq)
    BY <2>1, <2>3, <2>4, <2>6 DEF CcState
  <2> QED BY <2>5, <2>6
<1> QED BY <1>1, <1>2

-----------------------------------------------------------------------------
(* The inductive invariant.                                                *)

\* Acknowledged packets and packets in flight were sent, and the marks are of
\* the past.
Positions ==
    /\ txAck < txSeq
    /\ ackMask \subseteq Sent /\ pipe \subseteq Sent
    /\ mark.acks <= Cardinality(ackMask)
    /\ cutAt <= txSeq

\* What the loop of retransmit_timeout has passed is no longer in flight; the
\* window is the smallest one, and packets that the upper layer sends from
\* inside the loop fit in it.
Sweeping ==
    /\ sweep = 0 => seqlim = 0
    /\ sweep <= seqlim /\ seqlim <= txSeq
    /\ \A p \in pipe : sweep <= p
    /\ sweep # 0 /\ ~nocc => /\ cc.cwnd = CWND_MIN
                             /\ txSeq = seqlim \/ inflight <= CWND_MIN

\* A channel that uses the window has at most CWND_MAX packets in flight, the
\* probe after a timeout included.
Room == ~nocc => inflight <= CWND_MAX

\* The last cut is inside the recovery window.
CutsRecover == strategy # "aggressive" => cutAt <= cc.recovseq

IInv ==
    /\ TypeOK /\ WindowInRange /\ MarkCounted
    /\ inflight = Cardinality(pipe)
    /\ Positions /\ Sweeping /\ Room /\ CutsRecover

\* The numbers behind the invariant.
LEMMA Numbers ==
    ASSUME IInv
    PROVE  /\ txSeq \in 1..(MaxSeq + 1) /\ txAck \in 0..MaxSeq /\ txAck < txSeq
           /\ inflight \in 0..MaxSeq /\ sweep \in 0..(MaxSeq + 1)
           /\ seqlim \in 0..(MaxSeq + 1) /\ cutAt \in 0..(MaxSeq + 1)
           /\ mark.seq \in 1..(MaxSeq + 1) /\ mark.base \in 0..MaxSeq
           /\ mark.acks \in 0..MaxSeq /\ mark.sent \in 0..MaxSeq
           /\ Sound(cc)
           /\ cc.cwnd \in Nat /\ cc.ssthresh \in Nat /\ cc.recovseq \in 1..(MaxSeq + 1)
           /\ IsFiniteSet(pipe) /\ IsFiniteSet(ackMask)
           /\ Cardinality(ackMask) \in Nat /\ Cardinality(ackMask) <= txSeq - 1
<1>1. Sound(cc)
  BY DEF IInv, TypeOK, WindowInRange, Sound
<1>2. cc.cwnd \in Nat /\ cc.ssthresh \in Nat /\ cc.recovseq \in 1..(MaxSeq + 1)
  BY <1>1, Fields DEF Sound
<1>3. txSeq \in 1..(MaxSeq + 1)
  BY DEF IInv, TypeOK
<1>4. IsFiniteSet(Sent) /\ Cardinality(Sent) = txSeq - 1
  BY <1>3, FS_Interval, WidthAssumption DEF Sent
<1>5. /\ IsFiniteSet(pipe) /\ IsFiniteSet(ackMask)
      /\ Cardinality(ackMask) <= txSeq - 1 /\ Cardinality(ackMask) \in Nat
  <2>1. pipe \in SUBSET Sent /\ ackMask \in SUBSET Sent
    BY DEF IInv, Positions
  <2> QED BY <1>4, <2>1, FS_Subset, FS_CardinalityType
<1>6. /\ mark.seq \in 1..(MaxSeq + 1) /\ mark.base \in 0..MaxSeq
      /\ mark.acks \in 0..MaxSeq /\ mark.sent \in 0..MaxSeq
  BY DEF IInv, TypeOK
<1> QED BY <1>1, <1>2, <1>3, <1>5, <1>6 DEF IInv, TypeOK, Positions

\* The type of the marks.
Marks == [seq : 1..(MaxSeq + 1), base : 0..MaxSeq, acks : 0..MaxSeq, sent : 0..MaxSeq]

\* A transmission keeps the counts and the marks.
LEMMA TransmitKeeps ==
    ASSUME IInv, NEW isData \in BOOLEAN, Transmit(isData)
    PROVE  /\ strategy' = strategy /\ nocc' = nocc /\ txAck' = txAck /\ ackMask' = ackMask
           /\ txSeq' = txSeq + 1 /\ txSeq' \in 1..(MaxSeq + 1)
           /\ mark' \in Marks /\ mark'.acks <= mark.acks
           /\ mark'.seq <= txSeq' /\ (mark'.seq < txSeq' => mark'.sent >= 1)
           /\ pipe' \subseteq pipe \cup {txSeq}
           /\ inflight' = Cardinality(pipe') /\ inflight' \in 0..MaxSeq
           /\ inflight' = IF isData THEN inflight + 1 ELSE inflight
<1> USE WidthAssumption
<1>1. /\ strategy' = strategy /\ nocc' = nocc /\ txAck' = txAck /\ ackMask' = ackMask
      /\ txSeq' = txSeq + 1 /\ txSeq <= MaxSeq
      /\ pipe' \subseteq pipe \cup {txSeq}
      /\ inflight' = IF isData THEN inflight + 1 ELSE inflight
  BY DEF Transmit, BumpTxSequence
<1>2. /\ mark' \in Marks /\ mark'.acks <= mark.acks
      /\ mark'.seq <= txSeq' /\ (mark'.seq < txSeq' => mark'.sent >= 1)
  <2>0. mark \in Marks
    BY DEF IInv, TypeOK, Marks
  <2>1. CASE txSeq = mark.seq
    <3>1. PICK gap \in 0..MaxSeq : gap = txSeq - txAck
      BY <1>1, Numbers
    <3>2. mark' = [mark EXCEPT !.acks = 0, !.base = txAck, !.sent = gap]
      BY <2>1, <3>1 DEF Transmit, BumpTxSequence
    <3>3. 0 \in 0..MaxSeq /\ txAck \in 0..MaxSeq
      BY Numbers
    <3>4. [mark EXCEPT !.acks = 0, !.base = txAck, !.sent = gap] \in Marks
      BY <2>0, <3>3, Zenon DEF Marks
    <3>5. gap >= 1
      BY <3>1, Numbers
    <3>6. mark'.acks = 0 /\ mark'.seq = mark.seq /\ mark'.sent = gap
      BY <2>0, <3>2 DEF Marks
    <3> QED BY <1>1, <2>1, <3>2, <3>4, <3>5, <3>6, Numbers
  <2>2. CASE txSeq # mark.seq
    <3>1. mark' = mark
      BY <2>2 DEF Transmit, BumpTxSequence
    <3> QED BY <1>1, <2>0, <2>2, <3>1, Numbers DEF IInv, MarkCounted
  <2> QED BY <2>1, <2>2
<1>3. inflight' = Cardinality(pipe')
  <2>1. txSeq \notin pipe
    BY Numbers DEF IInv, Positions, Sent
  <2>2. CASE isData
    BY <1>1, <2>1, <2>2, FS_AddElement, Numbers DEF Transmit, IInv
  <2>3. CASE ~isData
    BY <2>3 DEF Transmit, IInv
  <2> QED BY <2>2, <2>3
<1>4. inflight' \in 0..MaxSeq
  <2>1. pipe' \in SUBSET (1..txSeq)
    BY <1>1, Numbers DEF IInv, Positions, Sent
  <2>2. IsFiniteSet(1..txSeq) /\ Cardinality(1..txSeq) = txSeq
    BY FS_Interval, Numbers
  <2>3. Cardinality(pipe') \in Nat /\ Cardinality(pipe') <= txSeq
    BY <2>1, <2>2, FS_Subset, FS_CardinalityType
  <2> QED BY <1>1, <1>3, <2>3, Numbers
<1> QED BY <1>1, <1>2, <1>3, <1>4, Numbers

\* Transmissions outside of retransmit_timeout, or from inside its loop.
LEMMA SendPreserves ==
    ASSUME IInv, SendData \/ SendAck
    PROVE  IInv'
<1> USE WidthAssumption, WindowAssumption
<1>1. PICK isData \in BOOLEAN :
        /\ Transmit(isData)
        /\ UNCHANGED <<cc, sweep, seqlim, cutAt>>
        /\ isData => nocc \/ cc.cwnd > inflight
        /\ ~isData => sweep = 0
  <2>1. CASE SendData
    BY <2>1, TRUE \in BOOLEAN DEF SendData, loopVars
  <2>2. CASE SendAck
    BY <2>2, FALSE \in BOOLEAN DEF SendAck, loopVars
  <2> QED BY <2>1, <2>2
<1>t. /\ strategy' = strategy /\ nocc' = nocc /\ txAck' = txAck /\ ackMask' = ackMask
      /\ txSeq' = txSeq + 1 /\ txSeq' \in 1..(MaxSeq + 1)
      /\ mark' \in Marks /\ mark'.acks <= mark.acks
      /\ mark'.seq <= txSeq' /\ (mark'.seq < txSeq' => mark'.sent >= 1)
      /\ pipe' \subseteq pipe \cup {txSeq}
      /\ inflight' = Cardinality(pipe') /\ inflight' \in 0..MaxSeq
      /\ inflight' = IF isData THEN inflight + 1 ELSE inflight
  BY <1>1, TransmitKeeps
<1> USE <1>t
<1>2. TypeOK'
  BY <1>1, Numbers DEF IInv, TypeOK, Positions, Sent, Marks
<1>3. WindowInRange' /\ MarkCounted' /\ CutsRecover' /\ inflight' = Cardinality(pipe')
  BY <1>1 DEF IInv, WindowInRange, Windows, MarkCounted, CutsRecover
<1>4. Positions'
  BY <1>1, Numbers DEF IInv, Positions, Sent, Marks
<1>5. Sweeping'
  BY <1>1, Numbers DEF IInv, Sweeping, Positions, Sent
<1>6. Room'
  BY <1>1, Numbers DEF IInv, Room, WindowInRange, Windows
<1> QED BY <1>2, <1>3, <1>4, <1>5, <1>6 DEF IInv

\* may_transmit refuses: only the note that the window was too small changes.
LEMMA BlockedPreserves ==
    ASSUME IInv, Blocked
    PROVE  IInv'
<1>1. /\ cc' = [cc EXCEPT !.limited = TRUE]
      /\ UNCHANGED <<strategy, nocc, txSeq, txAck, ackMask, pipe, inflight, mark,
                     sweep, seqlim, cutAt>>
  BY DEF Blocked, txVars, loopVars
<1>2. cc' \in CcState
  BY <1>1, Assignments, Zenon DEF IInv, TypeOK
<1>3. cc'.cwnd = cc.cwnd /\ cc'.ssthresh = cc.ssthresh /\ cc'.recovseq = cc.recovseq
  BY <1>1 DEF IInv, TypeOK, CcState
<1> QED BY <1>1, <1>2, <1>3
        DEF IInv, TypeOK, WindowInRange, Windows, MarkCounted, Positions, Sent, Sweeping, Room, CutsRecover

\* The steps of retransmit_timeout.
LEMMA TimeoutPreserves ==
    ASSUME IInv, RetransmitTimeout
    PROVE  IInv'
<1> USE WidthAssumption, WindowAssumption
<1>1. CASE TimeoutBegin
  <2>0. /\ sweep = 0 /\ sweep' = 1 /\ seqlim' = txSeq
        /\ cc' = IF nocc THEN cc ELSE TimeoutWindow(cc)
        /\ UNCHANGED <<strategy, nocc, txSeq, txAck, ackMask, pipe, inflight, mark, cutAt>>
    BY <1>1 DEF TimeoutBegin, txVars
  <2>1. PICK t \in Nat : t = Larger(inflight \div 2, CWND_MIN)
    BY Numbers DEF Larger
  <2>2. ~nocc => t \in Windows
    BY <2>1, Numbers DEF Larger, Windows, IInv, Room
  <2>3. ~nocc => cc' = [cc EXCEPT !.ssthresh = t, !.cwnd = CWND_MIN]
    BY <2>0, <2>1 DEF TimeoutWindow
  <2>4. [cc EXCEPT !.ssthresh = t, !.cwnd = CWND_MIN] \in CcState
    BY Zenon, WindowAssumption DEF IInv, TypeOK, CcState
  <2>5. /\ cc' \in CcState /\ cc'.cwnd \in Windows /\ cc'.ssthresh \in Windows
        /\ cc'.recovseq = cc.recovseq /\ (~nocc => cc'.cwnd = CWND_MIN)
    <3>1. CASE nocc
      BY <2>0, <3>1 DEF IInv, TypeOK, WindowInRange
    <3>2. CASE ~nocc
      <4>1. cc' \in CcState
        BY <2>3, <2>4, <3>2
      <4>2. cc'.cwnd = CWND_MIN /\ cc'.ssthresh = t /\ cc'.recovseq = cc.recovseq
        BY <2>3, <3>2 DEF CcState, IInv, TypeOK
      <4> QED BY <2>2, <3>2, <4>1, <4>2 DEF Windows
    <3> QED BY <3>1, <3>2
  <2>6. Sweeping'
    BY <2>0, <2>5, Numbers DEF IInv, Sweeping, Positions, Sent
  <2> QED BY <2>0, <2>5, <2>6, Numbers
          DEF IInv, TypeOK, WindowInRange, Windows, MarkCounted, Positions, Sent, Room, CutsRecover
<1>2. CASE TimeoutStep
  <2>0. /\ 0 < sweep /\ sweep < seqlim /\ sweep' = sweep + 1
        /\ pipe' = pipe \ {sweep}
        /\ inflight' = IF sweep \in pipe THEN inflight - 1 ELSE inflight
        /\ UNCHANGED <<strategy, nocc, txSeq, txAck, ackMask, mark, cc, seqlim, cutAt>>
    BY <1>2 DEF TimeoutStep
  <2>1. /\ inflight' = Cardinality(pipe') /\ inflight' \in 0..MaxSeq /\ inflight' <= inflight
    <3>1. /\ Cardinality(pipe') = IF sweep \in pipe THEN inflight - 1 ELSE inflight
          /\ IsFiniteSet(pipe')
      BY <2>0, FS_RemoveElement, Numbers DEF IInv
    <3>2. Cardinality(pipe') \in Nat
      BY <3>1, FS_CardinalityType
    <3> QED BY <2>0, <3>1, <3>2, Numbers
  <2>2. Sweeping'
    BY <2>0, <2>1, Numbers DEF IInv, Sweeping, Positions, Sent
  <2> QED BY <2>0, <2>1, <2>2, Numbers
          DEF IInv, TypeOK, WindowInRange, Windows, MarkCounted, Positions, Sent, Room, CutsRecover
<1>3. CASE TimeoutEnd
  <2>0. sweep # 0 /\ sweep = seqlim /\ sweep' = 0 /\ seqlim' = 0 /\ UNCHANGED <<cc, cutAt>>
    BY <1>3 DEF TimeoutEnd
  <2>1. ~nocc => inflight <= CWND_MIN
    <3>1. CASE txSeq = seqlim
      <4>1. pipe = {}
        BY <2>0, <3>1, Numbers DEF IInv, Sweeping, Positions, Sent
      <4> QED BY <4>1, FS_EmptySet DEF IInv
    <3>2. CASE txSeq # seqlim
      BY <2>0, <3>2 DEF IInv, Sweeping
    <3> QED BY <3>1, <3>2
  <2>2. CASE Transmit(TRUE)
    <3>0. /\ strategy' = strategy /\ nocc' = nocc /\ txAck' = txAck /\ ackMask' = ackMask
          /\ txSeq' = txSeq + 1 /\ txSeq' \in 1..(MaxSeq + 1)
          /\ mark' \in Marks /\ mark'.acks <= mark.acks
          /\ mark'.seq <= txSeq' /\ (mark'.seq < txSeq' => mark'.sent >= 1)
          /\ pipe' \subseteq pipe \cup {txSeq}
          /\ inflight' = Cardinality(pipe') /\ inflight' \in 0..MaxSeq
          /\ inflight' = IF TRUE THEN inflight + 1 ELSE inflight
      BY <2>2, TransmitKeeps, TRUE \in BOOLEAN
    <3> USE <3>0
    <3>1. TypeOK'
      BY <2>0, Numbers DEF IInv, TypeOK, Positions, Sent, Marks
    <3>2. WindowInRange' /\ MarkCounted' /\ CutsRecover' /\ inflight' = Cardinality(pipe')
      BY <2>0 DEF IInv, WindowInRange, Windows, MarkCounted, CutsRecover
    <3>3. Positions'
      BY <2>0, Numbers DEF IInv, Positions, Sent, Marks
    <3>4. Sweeping'
      BY <2>0, Numbers DEF IInv, Sweeping, Positions, Sent
    <3>5. Room'
      BY <2>0, <2>1, Numbers DEF Room
    <3> QED BY <3>1, <3>2, <3>3, <3>4, <3>5 DEF IInv
  <2>3. CASE UNCHANGED <<strategy, nocc, txVars>>
    BY <2>0, <2>3, Numbers
       DEF IInv, TypeOK, WindowInRange, Windows, MarkCounted, Positions, Sent, Sweeping, Room, CutsRecover, txVars
  <2> QED BY <1>3, <2>2, <2>3 DEF TimeoutEnd
<1> QED BY <1>1, <1>2, <1>3 DEF RetransmitTimeout

\* cc_and_rtt_update opens the window by at most the packets newly
\* acknowledged and one, and never past CWND_MAX.
LEMMA AckUpdateBounds ==
    ASSUME IInv, NEW n \in Nat, mark.acks + n <= MaxSeq, NEW ackseq,
           NEW m \in Measurement, CcAndRttUpdate(n, ackseq, m)
    PROVE  /\ Sound(cc') /\ cc'.cwnd <= cc.cwnd + n + 1 /\ cc'.recovseq = cc.recovseq
           /\ nocc => cc'.cwnd = cc.cwnd
           /\ mark' \in Marks /\ mark'.acks = mark.acks + n /\ mark'.sent = mark.sent
           /\ mark'.seq \in {mark.seq, txSeq}
<1> USE WindowAssumption
<1> DEFINE updated == IF nocc THEN cc ELSE Update(cc, n, mark.acks + n, m)
           final == IF nocc \/ ~(ackseq >= mark.seq) THEN updated ELSE RttUpdate(updated, m)
<1>0. strategy \in Strategies /\ mark.acks + n \in Nat
  BY Numbers DEF IInv, TypeOK
<1>1. Growing(cc)
  BY Numbers, Fields DEF Sound, Growing, Windows
<1>2. /\ Growing(updated) /\ updated.cwnd <= cc.cwnd + n /\ updated.recovseq = cc.recovseq
      /\ nocc => updated = cc
  <2>1. CASE nocc
    BY <1>1, <2>1, Numbers
  <2>2. CASE ~nocc
    BY <1>0, <1>1, <2>2, UpdateBounds
  <2> QED BY <2>1, <2>2
<1> HIDE DEF updated
<1>3. /\ Growing(final) /\ final.cwnd <= cc.cwnd + n + 1 /\ final.recovseq = cc.recovseq
      /\ nocc => final = cc
  <2>1. updated.cwnd \in Nat /\ cc.cwnd \in Nat
    BY <1>2, Numbers, Fields DEF Growing
  <2>2. CASE nocc \/ ~(ackseq >= mark.seq)
    BY <1>2, <2>1, <2>2
  <2>3. CASE ~(nocc \/ ~(ackseq >= mark.seq))
    <3>1. /\ Growing(RttUpdate(updated, m)) /\ RttUpdate(updated, m).cwnd <= updated.cwnd + 1
          /\ RttUpdate(updated, m).recovseq = updated.recovseq
      BY <1>0, <1>2, RttUpdateBounds
    <3>2. RttUpdate(updated, m).cwnd \in Nat
      BY <3>1, Fields DEF Growing
    <3> QED BY <1>2, <2>1, <2>3, <3>1, <3>2
  <2> QED BY <2>2, <2>3
<1>4. cc' = [final EXCEPT !.cwnd = Smaller(final.cwnd, CWND_MAX)]
  BY DEF CcAndRttUpdate, updated
<1> HIDE DEF final
<1>5. PICK w \in Nat : w = Smaller(final.cwnd, CWND_MAX)
  BY <1>3, Fields DEF Smaller, Growing
<1>6. [final EXCEPT !.cwnd = w] \in CcState
  BY <1>3, Assignments DEF Growing
<1>7. w \in Windows /\ w <= cc.cwnd + n + 1 /\ (nocc => w = cc.cwnd)
  BY <1>3, <1>5, Fields, Numbers DEF Smaller, Growing, Windows, Sound
<1>8. /\ cc'.cwnd = w /\ cc'.ssthresh = final.ssthresh /\ cc'.recovseq = final.recovseq
  BY <1>3, <1>4, <1>5 DEF Growing, CcState
<1>9. Sound(cc')
  BY <1>3, <1>4, <1>5, <1>6, <1>7, <1>8 DEF Growing, Sound
<1>10. /\ mark' \in Marks /\ mark'.acks = mark.acks + n /\ mark'.sent = mark.sent
       /\ mark'.seq \in {mark.seq, txSeq}
  <2>0. mark \in Marks
    BY DEF IInv, TypeOK, Marks
  <2>1. PICK a \in 0..MaxSeq : a = mark.acks + n
    BY <1>0
  <2>2. PICK q \in 1..(MaxSeq + 1) : q = (IF ackseq >= mark.seq THEN txSeq ELSE mark.seq)
    BY Numbers
  <2>3. mark' = [mark EXCEPT !.acks = a, !.seq = q]
    BY <2>1, <2>2 DEF CcAndRttUpdate
  <2>4. [mark EXCEPT !.acks = a, !.seq = q] \in Marks
    BY <2>0, Zenon DEF Marks
  <2>5. mark'.acks = a /\ mark'.seq = q /\ mark'.sent = mark.sent
    BY <2>0, <2>3 DEF Marks
  <2> QED BY <2>1, <2>2, <2>3, <2>4, <2>5
<1> QED BY <1>3, <1>7, <1>8, <1>9, <1>10

\* What an acknowledgment does to the sets of packets.
LEMMA AckedCounts ==
    ASSUME IInv, NEW A, NEW ackseq, NEW m \in Measurement, Acked(A, ackseq, m)
    PROVE  /\ Cardinality(A) \in Nat /\ Cardinality(A) >= 1
           /\ ackMask' \subseteq Sent
           /\ Cardinality(ackMask') = Cardinality(ackMask) + Cardinality(A)
           /\ Cardinality(ackMask') <= MaxSeq
           /\ inflight' = Cardinality(pipe') /\ inflight' \in Nat /\ inflight' <= inflight
           /\ inflight' >= inflight - Cardinality(A)
<1> USE WidthAssumption
<1>0. /\ A \subseteq Sent \ ackMask /\ ackseq \in A
      /\ ackMask' = ackMask \cup A /\ pipe' = pipe \ A
      /\ inflight' = inflight - Cardinality(pipe \cap A)
  BY DEF Acked
<1>1. IsFiniteSet(Sent) /\ Cardinality(Sent) = txSeq - 1
  <2>1. 1 \in Int /\ txSeq - 1 \in Int /\ txSeq - 1 >= 0
    BY Numbers
  <2>2. /\ IsFiniteSet(1..(txSeq - 1))
        /\ Cardinality(1..(txSeq - 1)) = IF 1 > txSeq - 1 THEN 0 ELSE (txSeq - 1) - 1 + 1
    BY <2>1, FS_Interval
  <2> QED BY <2>1, <2>2 DEF Sent
<1>2. IsFiniteSet(A) /\ Cardinality(A) \in Nat /\ Cardinality(A) # 0
  <2>1. A \in SUBSET Sent
    BY <1>0
  <2>2. IsFiniteSet(A)
    BY <1>1, <2>1, FS_Subset
  <2> QED BY <1>0, <2>2, FS_CardinalityType, FS_EmptySet
<1>3. ackMask' \in SUBSET Sent
  BY <1>0 DEF IInv, Positions
<1>4. Cardinality(ackMask') <= txSeq - 1
  BY <1>1, <1>3, FS_Subset
<1>5. Cardinality(ackMask') = Cardinality(ackMask) + Cardinality(A)
  <2>1. ackMask \cap A = {}
    BY <1>0
  <2>2. IsFiniteSet(ackMask) /\ Cardinality(ackMask) \in Nat
    BY Numbers
  <2>3. Cardinality(ackMask \cup A)
            = Cardinality(ackMask) + Cardinality(A) - Cardinality(ackMask \cap A)
    BY <1>2, <2>2, FS_Union
  <2>4. Cardinality(ackMask \cap A) = 0
    BY <2>1, FS_EmptySet
  <2> QED BY <1>0, <1>2, <2>2, <2>3, <2>4
<1>6. /\ IsFiniteSet(pipe') /\ IsFiniteSet(pipe \cap A)
      /\ Cardinality(pipe \cap A) \in Nat /\ Cardinality(pipe') \in Nat
      /\ Cardinality(pipe \cap A) <= Cardinality(A)
  <2>1. pipe' \in SUBSET pipe /\ pipe \cap A \in SUBSET A
    BY <1>0
  <2> QED BY <1>2, <2>1, FS_Subset, FS_CardinalityType, Numbers
<1>7. Cardinality(pipe') = Cardinality(pipe) - Cardinality(pipe \cap A)
  <2>1. IsFiniteSet(pipe)
    BY Numbers
  <2>2. Cardinality(pipe \ A) = Cardinality(pipe) - Cardinality(pipe \cap A)
    BY <2>1, FS_Difference
  <2> QED BY <1>0, <2>2
<1> QED BY <1>0, <1>2, <1>3, <1>4, <1>5, <1>6, <1>7, Numbers DEF IInv

\* An acknowledgment.
LEMMA AckedPreserves ==
    ASSUME IInv, NEW A, NEW ackseq, NEW m \in Measurement, Acked(A, ackseq, m)
    PROVE  IInv'
<1> USE WidthAssumption, WindowAssumption
<1> DEFINE n == Cardinality(A)
<1>0. /\ sweep = 0 /\ A \subseteq Sent /\ ackseq \in A
      /\ ackMask' = ackMask \cup A /\ pipe' = pipe \ A
      /\ txAck' = Larger(txAck, ackseq)
      /\ CcAndRttUpdate(n, ackseq, m)
      /\ UNCHANGED <<strategy, nocc, txSeq, sweep, seqlim, cutAt>>
  BY DEF Acked, loopVars
<1>1. /\ n \in Nat /\ n >= 1 /\ ackMask' \subseteq Sent
      /\ Cardinality(ackMask') = Cardinality(ackMask) + n /\ Cardinality(ackMask') <= MaxSeq
      /\ inflight' = Cardinality(pipe') /\ inflight' \in Nat /\ inflight' <= inflight
  BY AckedCounts
<1> HIDE DEF n
<1>2. mark.acks + n <= MaxSeq
  BY <1>1, Numbers DEF IInv, Positions
<1>3. /\ Sound(cc') /\ cc'.recovseq = cc.recovseq
      /\ mark' \in Marks /\ mark'.acks = mark.acks + n /\ mark'.sent = mark.sent
      /\ mark'.seq \in {mark.seq, txSeq}
  BY <1>0, <1>1, <1>2, AckUpdateBounds
<1>4. ackseq \in 1..MaxSeq /\ ackseq < txSeq /\ txAck' \in 0..MaxSeq /\ txAck' < txSeq
  BY <1>0, Numbers DEF Sent, Larger
<1>5. TypeOK'
  BY <1>0, <1>1, <1>3, <1>4, Numbers DEF IInv, TypeOK, Marks, Sound, Sent
<1>6. MarkCounted'
  BY <1>0, <1>3, Numbers DEF IInv, MarkCounted
<1>7. Positions'
  BY <1>0, <1>1, <1>3, <1>4, Numbers DEF IInv, Positions, Sent
<1>8. Sweeping' /\ Room' /\ CutsRecover' /\ WindowInRange'
  BY <1>0, <1>1, <1>3, Numbers
     DEF IInv, Sweeping, Room, CutsRecover, WindowInRange, Windows, Sound
<1> QED BY <1>1, <1>5, <1>6, <1>7, <1>8 DEF IInv

\* A loss.
LEMMA MissPreserves ==
    ASSUME IInv, NEW p \in pipe, Miss(p)
    PROVE  IInv'
<1> USE WidthAssumption, WindowAssumption
<1>0. /\ sweep = 0 /\ pipe' = pipe \ {p} /\ inflight' = inflight - 1
      /\ cc' = IF nocc THEN cc ELSE MissedPacket(cc, p)
      /\ cutAt' = IF cc'.cwnd < cc.cwnd THEN txSeq ELSE cutAt
      /\ UNCHANGED <<strategy, nocc, txSeq, txAck, ackMask, mark, sweep, seqlim>>
  BY DEF Miss, loopVars
<1>1. /\ inflight' = Cardinality(pipe') /\ inflight' \in 0..MaxSeq /\ inflight' <= inflight
  <2>1. Cardinality(pipe') = inflight - 1 /\ IsFiniteSet(pipe')
    BY <1>0, FS_RemoveElement, Numbers DEF IInv
  <2>2. Cardinality(pipe') \in Nat
    BY <2>1, FS_CardinalityType
  <2> QED BY <1>0, <2>1, <2>2, Numbers
<1>2. /\ Sound(cc') /\ cc'.recovseq \in {cc.recovseq, txSeq}
      /\ strategy # "aggressive" => cc' = cc \/ cc'.recovseq = txSeq
  <2>1. CASE nocc
    BY <1>0, <2>1, Numbers
  <2>2. CASE ~nocc
    BY <1>0, <2>2, MissedBounds, Numbers DEF IInv
  <2> QED BY <2>1, <2>2
<1>3. CutsRecover'
  <2>1. CASE cc' = cc
    BY <1>0, <2>1, Numbers DEF IInv, CutsRecover
  <2>2. CASE cc' # cc
    BY <1>0, <1>2, <2>2, Numbers DEF IInv, CutsRecover, Positions
  <2> QED BY <2>1, <2>2
<1>4. TypeOK'
  BY <1>0, <1>1, <1>2, Numbers DEF IInv, TypeOK, Sound
<1>5. Positions' /\ MarkCounted' /\ WindowInRange' /\ Sweeping' /\ Room'
  BY <1>0, <1>1, <1>2, Numbers
     DEF IInv, Positions, Sent, MarkCounted, WindowInRange, Windows, Sweeping, Room, Sound
<1> QED BY <1>1, <1>3, <1>4, <1>5 DEF IInv

-----------------------------------------------------------------------------
\* The invariant holds at the start and is kept by every step.
LEMMA InitIInv == Init => IInv
<1> SUFFICES ASSUME Init PROVE IInv
  OBVIOUS
<1> USE WindowAssumption, WidthAssumption DEF Init
<1>1. Reset \in CcState
  BY DEF Reset, CcState
<1>2. mark \in Marks /\ mark.seq = 1 /\ mark.acks = 0
  BY DEF Marks
<1>3. Cardinality({}) = 0
  BY FS_EmptySet
<1>4. TypeOK
  BY <1>1, <1>2 DEF TypeOK, Marks
<1>5. cc.cwnd = CWND_MIN /\ cc.ssthresh = CWND_MAX /\ cc.recovseq = 1
  BY DEF Reset
<1> QED BY <1>2, <1>3, <1>4, <1>5
        DEF IInv, WindowInRange, Windows, MarkCounted, Positions, Sent, Sweeping, Room, CutsRecover

LEMMA NextIInv == IInv /\ [Next]_vars => IInv'
<1> SUFFICES ASSUME IInv, [Next]_vars PROVE IInv'
  OBVIOUS
<1>1. CASE SendData \/ SendAck
  BY <1>1, SendPreserves
<1>2. CASE Blocked
  BY <1>2, BlockedPreserves
<1>3. ASSUME NEW A \in SUBSET (Sent \ ackMask), NEW m \in Measurement, NEW ackseq \in A,
             Acked(A, ackseq, m)
      PROVE  IInv'
  BY <1>3, AckedPreserves
<1>4. ASSUME NEW p \in pipe, Miss(p)
      PROVE  IInv'
  BY <1>4, MissPreserves
<1>5. CASE TimeoutBegin \/ TimeoutStep \/ TimeoutEnd
  BY <1>5, TimeoutPreserves DEF RetransmitTimeout
<1>6. CASE UNCHANGED vars
  BY <1>6 DEF vars, IInv, TypeOK, WindowInRange, Windows, MarkCounted, Positions, Sent,
              Sweeping, Room, CutsRecover
<1> QED BY <1>1, <1>2, <1>3, <1>4, <1>5, <1>6 DEF Next

LEMMA SpecIInv == Spec => []IInv
BY InitIInv, NextIInv, PTL DEF Spec

\* Every variable keeps its type: no count of packets runs below 0 or past the
\* packets sent, in any strategy.
THEOREM TypeCorrect == Spec => []TypeOK
<1>1. IInv => TypeOK
  BY DEF IInv
<1> QED BY <1>1, SpecIInv, PTL

\* Whatever halves, increments and clamps them, the congestion window and the
\* slow start threshold stay within the limits between handlers.
THEOREM WindowStaysInRange == Spec => []WindowInRange
<1>1. IInv => WindowInRange
  BY DEF IInv
<1> QED BY <1>1, SpecIInv, PTL

\* stats_update never divides by a mark_sent_ of 0.
THEOREM MarkIsCounted == Spec => []MarkCounted
<1>1. IInv => MarkCounted
  BY DEF IInv
<1> QED BY <1>1, SpecIInv, PTL

\* tx_inflight_count_ counts the packets in flight, and the loop of
\* retransmit_timeout leaves none of those it found.
THEOREM InflightIsExact == Spec => []InflightExact
<1>1. ASSUME IInv PROVE InflightExact
  <2>1. ASSUME sweep # 0, sweep = seqlim, seqlim = txSeq
        PROVE  inflight = 0
    <3>1. pipe = {}
      BY <1>1, <2>1, Numbers DEF IInv, Sweeping, Positions, Sent
    <3> QED BY <1>1, <3>1, FS_EmptySet DEF IInv
  <2> QED BY <1>1, <2>1 DEF IInv, InflightExact
<1> QED BY <1>1, SpecIInv, PTL

\* A loss among the packets sent before the last cut does not cut the window.
THEOREM CutsOncePerFlight == Spec => OneCutPerFlight
<1>1. ASSUME IInv, NEW p \in pipe, strategy # "aggressive", Miss(p), cc'.cwnd < cc.cwnd
      PROVE  p >= cutAt
  <2>0. p \in Int
    BY <1>1, Numbers DEF IInv, Positions, Sent
  <2>1. cc' # cc
    BY <1>1, Numbers
  <2>2. cc' = MissedPacket(cc, p)
    BY <1>1, <2>1 DEF Miss
  <2>3. ~(p <= cc.recovseq)
    BY <1>1, <2>1, <2>2, MissedBounds, Numbers DEF IInv
  <2> QED BY <1>1, <2>0, <2>3, Numbers DEF IInv, CutsRecover
<1>2. IInv => \A p \in pipe :
        strategy # "aggressive" /\ Miss(p) /\ cc'.cwnd < cc.cwnd => p >= cutAt
  BY <1>1
<1> QED BY <1>2, SpecIInv, PTL DEF OneCutPerFlight

-----------------------------------------------------------------------------
(* Every strategy implements WindowContract.                               *)

\* A transmission, from may_transmit or as the probe after a timeout.
LEMMA TransmitKeepsContract ==
    ASSUME IInv, SendData \/ SendAck \/ TimeoutEnd
    PROVE  [Contract!ContractNext]_(Contract!contractVars)
<1> USE DEF Contract!contractVars, Contract!ContractNext
<1>1. CASE SendData
  <2>1. /\ UNCHANGED <<cc, nocc, ackMask, sweep>> /\ inflight' = inflight + 1
        /\ nocc \/ inflight < cc.cwnd
    BY <1>1, Numbers DEF SendData, Transmit, loopVars
  <2> QED BY <2>1 DEF Contract!Send
<1>2. CASE SendAck
  <2>1. UNCHANGED <<cc, nocc, ackMask, sweep, inflight>>
    BY <1>2 DEF SendAck, Transmit, loopVars
  <2> QED BY <2>1
<1>3. CASE TimeoutEnd
  <2>0. sweep # 0 /\ sweep' = 0 /\ UNCHANGED cc
    BY <1>3 DEF TimeoutEnd
  <2>1. CASE Transmit(TRUE)
    <3>1. UNCHANGED <<nocc, ackMask>> /\ inflight' = inflight + 1
      BY <2>1 DEF Transmit
    <3>2. CASE nocc
      BY <2>0, <3>1, <3>2
    <3>3. CASE ~nocc
      BY <2>0, <3>1, <3>3 DEF Contract!Send
    <3> QED BY <3>2, <3>3
  <2>2. CASE UNCHANGED <<strategy, nocc, txVars>>
    <3>1. UNCHANGED <<nocc, ackMask, inflight>>
      BY <2>2 DEF txVars
    <3> QED BY <2>0, <3>1 DEF Contract!NoProbe
  <2> QED BY <1>3, <2>1, <2>2 DEF TimeoutEnd
<1> QED BY <1>1, <1>2, <1>3

\* Acknowledgments, losses and timeouts.
LEMMA AckedKeepsContract ==
    ASSUME IInv, NEW A, NEW ackseq, NEW m \in Measurement, Acked(A, ackseq, m)
    PROVE  Contract!Acked
<1> DEFINE n == Cardinality(A)
<1>0. CcAndRttUpdate(n, ackseq, m) /\ UNCHANGED <<nocc, sweep>>
  BY DEF Acked, loopVars
<1>1. /\ n \in Nat /\ n >= 1
      /\ Cardinality(ackMask') = Cardinality(ackMask) + n /\ Cardinality(ackMask') <= MaxSeq
      /\ inflight' \in Nat /\ inflight' <= inflight /\ inflight' >= inflight - n
  BY AckedCounts
<1> HIDE DEF n
<1>2. mark.acks + n <= MaxSeq
  BY <1>1, Numbers, WidthAssumption DEF IInv, Positions
<1>3. Sound(cc') /\ cc'.cwnd <= cc.cwnd + n + 1
  BY <1>0, <1>1, <1>2, AckUpdateBounds
<1>4. cc'.cwnd \in CWND_MIN..CWND_MAX
  BY <1>3 DEF Sound, Windows
<1> QED BY <1>0, <1>1, <1>3, <1>4, Numbers DEF Contract!Acked, Contract!Windows

LEMMA MissKeepsContract ==
    ASSUME IInv, NEW p \in pipe, Miss(p)
    PROVE  [Contract!Lost]_(Contract!contractVars)
<1>0. /\ inflight' = inflight - 1 /\ UNCHANGED <<nocc, ackMask, sweep>>
      /\ cc' = IF nocc THEN cc ELSE MissedPacket(cc, p)
  BY DEF Miss, loopVars
<1>1. CASE nocc
  BY <1>0, <1>1 DEF Contract!contractVars
<1>2. CASE ~nocc
  <2>1. Sound(cc') /\ cc'.cwnd <= cc.cwnd
    BY <1>0, <1>2, MissedBounds, Numbers DEF IInv
  <2> QED BY <1>0, <1>2, <2>1 DEF Contract!Lost, Contract!Windows, Sound, Windows
<1> QED BY <1>1, <1>2

LEMMA TimeoutKeepsContract ==
    ASSUME IInv, TimeoutBegin \/ TimeoutStep
    PROVE  [Contract!Collapse \/ Contract!Lost]_(Contract!contractVars)
<1>1. CASE TimeoutBegin
  <2>1. /\ sweep = 0 /\ sweep' = 1 /\ UNCHANGED <<nocc, ackMask, inflight>>
        /\ cc' = IF nocc THEN cc ELSE TimeoutWindow(cc)
    BY <1>1 DEF TimeoutBegin, txVars
  <2>2. CASE nocc
    BY <2>1, <2>2 DEF Contract!contractVars
  <2>3. CASE ~nocc
    <3>1. cc'.cwnd = CWND_MIN
      BY <2>1, <2>3 DEF TimeoutWindow, IInv, TypeOK, CcState
    <3> QED BY <2>1, <2>3, <3>1 DEF Contract!Collapse
  <2> QED BY <2>2, <2>3
<1>2. CASE TimeoutStep
  <2>1. /\ 0 < sweep /\ sweep' = sweep + 1 /\ UNCHANGED <<nocc, ackMask, cc>>
        /\ inflight' = IF sweep \in pipe THEN inflight - 1 ELSE inflight
    BY <1>2 DEF TimeoutStep
  <2>2. sweep # 0 /\ sweep' # 0
    BY <2>1, Numbers
  <2>3. cc.cwnd \in CWND_MIN..CWND_MAX /\ cc.cwnd <= cc.cwnd
    BY Numbers DEF Sound, Windows
  <2>4. CASE nocc \/ sweep \notin pipe
    BY <2>1, <2>2, <2>4 DEF Contract!contractVars
  <2>5. CASE ~nocc /\ sweep \in pipe
    BY <2>1, <2>2, <2>3, <2>5 DEF Contract!Lost, Contract!Windows
  <2> QED BY <2>4, <2>5
<1> QED BY <1>1, <1>2

\* The channel keeps its contract with the network under every strategy: the
\* initial state is the contract's, and every step of the channel is a step of
\* the contract or leaves its view unchanged.
THEOREM ImplementsContract == Spec => KeepsContract
<1>1. Init => Contract!ContractInit
  BY FS_EmptySet DEF Init, Reset, Contract!ContractInit
<1>2. IInv /\ [Next]_vars => [Contract!ContractNext]_(Contract!contractVars)
  <2> SUFFICES ASSUME IInv, [Next]_vars
               PROVE  [Contract!ContractNext]_(Contract!contractVars)
    OBVIOUS
  <2>1. CASE SendData \/ SendAck \/ TimeoutEnd
    BY <2>1, TransmitKeepsContract
  <2>2. CASE Blocked
    <3>1. cc'.cwnd = cc.cwnd /\ UNCHANGED <<nocc, inflight, ackMask, sweep>>
      BY <2>2 DEF Blocked, txVars, loopVars, IInv, TypeOK, CcState
    <3> QED BY <3>1 DEF Contract!contractVars
  <2>3. ASSUME NEW A \in SUBSET (Sent \ ackMask), NEW m \in Measurement, NEW ackseq \in A,
               Acked(A, ackseq, m)
        PROVE  Contract!ContractNext
    BY <2>3, AckedKeepsContract DEF Contract!ContractNext
  <2>4. ASSUME NEW p \in pipe, Miss(p)
        PROVE  [Contract!ContractNext]_(Contract!contractVars)
    BY <2>4, MissKeepsContract DEF Contract!ContractNext
  <2>5. CASE TimeoutBegin \/ TimeoutStep
    BY <2>5, TimeoutKeepsContract DEF Contract!ContractNext
  <2>6. CASE UNCHANGED vars
    BY <2>6 DEF vars, Contract!contractVars
  <2> QED BY <2>1, <2>2, <2>3, <2>4, <2>5, <2>6 DEF Next
<1> QED BY <1>1, <1>2, SpecIInv, PTL DEF Spec, KeepsContract, Contract!ContractSpec
=============================================================================
