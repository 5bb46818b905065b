--------------------------- MODULE ChannelProofs ---------------------------
(***************************************************************************)
(* Proofs about module Channel, for every sequence range, every width of   *)
(* seq_diff and every setting of the delayed-ack thresholds that satisfies *)
(* the assumptions of Channel.                                             *)
(***************************************************************************)
EXTENDS Channel, TLAPS

\* Within Reach, cutting pktseq - rx_ack_sequence_ to an int32_t loses
\* nothing: acknowledge compares the true distance.
LEMMA SeqDiffExact ==
    ASSUME NEW p \in Int, NEW b \in Int, p - b \in (-Reach)..Reach
    PROVE  SeqDiff(p, b) = p - b
<1> DEFINE d == p - b
<1>0. d \in Int /\ -Reach <= d /\ d <= Reach
  BY SeqAssumption
<1>1. CASE d >= 0
  <2>1. d % DiffModulus = d
    BY <1>0, <1>1, SeqAssumption
  <2> QED BY <1>0, <1>1, <2>1, SeqAssumption DEF SeqDiff
<1>2. CASE d < 0
  <2>1. d % DiffModulus = d + DiffModulus
    BY <1>0, <1>2, SeqAssumption
  <2> QED BY <1>0, <1>2, <2>1, SeqAssumption DEF SeqDiff
<1> QED BY <1>0, <1>1, <1>2

-----------------------------------------------------------------------------
\* A packet handed to acknowledge keeps the inductive invariant, whichever
\* of the four cases of seq_diff it falls in.
LEMMA AcknowledgePreserves ==
    ASSUME IInv, NEW pktseq \in Seqs, NEW send_ack \in BOOLEAN,
           Acknowledge(pktseq, send_ack)
    PROVE  IInv'
<1> USE SeqAssumption, AckAssumption DEF Seqs
<1>0. /\ life = "active"
      /\ pktseq \in Int /\ rxAckSeq \in Int
      /\ pktseq - rxAckSeq \in (-Reach)..Reach
      /\ UNCHANGED <<life, link, rtxTimer, statsTimer, quiet, overtaken, calls,
                     destructions>>
  BY DEF Acknowledge, IInv, TypeOK, linkVars, callVars
<1>t. Stacks'
  BY <1>0 DEF IInv, Stacks
<1>n. /\ rxAckCount \in 0..MaxAckCount /\ rxUnacked \in 0..(MaxAckPackets - 1)
      /\ rxAckSeq \in 0..MaxSeq /\ pktseq \in 1..MaxSeq
      /\ rxUnacked <= rxAckCount
      /\ \A q \in owed : q \in Int /\ rxAckSeq - rxUnacked < q /\ q <= rxAckSeq
  BY DEF IInv, TypeOK, CountReachesBack, OwedIsRecent
<1>s. /\ received \subseteq 1..MaxSeq /\ acked \subseteq 0..MaxSeq
      /\ owed \subseteq 1..MaxSeq /\ overtaken \subseteq 1..MaxSeq
      /\ acked \subseteq received \cup {0}
  BY DEF IInv, TypeOK, AckOnlyReceived
<1>1. SeqDiff(pktseq, rxAckSeq) = pktseq - rxAckSeq
  BY <1>0, SeqDiffExact
<1>2. CASE AckContiguous(pktseq, send_ack)
  <2>1. pktseq = rxAckSeq + 1
    BY <1>0, <1>1, <1>2 DEF AckContiguous
  <2>2. /\ rxAckCount' \in 0..MaxAckCount /\ rxAckCount' <= rxAckCount + 1
        /\ rxAckCount' = MaxAckCount \/ rxAckCount' = rxAckCount + 1
        /\ rxAckSeq' = pktseq
    BY <1>2 DEF AckContiguous, Lower, IInv, TypeOK
  <2>3. WindowReceived' /\ received' = received \cup {pktseq}
    <3>1. received' = received \cup {pktseq}
      BY <1>2 DEF AckContiguous, Heard
    <3>c. PICK cnt \in Int : cnt = rxAckCount'
      BY <2>2
    <3>2. ASSUME NEW q \in Int, pktseq - cnt <= q, q <= pktseq
          PROVE  q \in received' \cup {0}
      <4>1. CASE q = pktseq
        BY <3>1, <4>1
      <4>2. CASE q # pktseq
        <5>1. q \in (rxAckSeq - rxAckCount)..rxAckSeq
          <6>1. cnt <= rxAckCount + 1
            BY <2>2, <3>c
          <6> QED BY <1>n, <2>1, <3>2, <4>2, <6>1
        <5> QED BY <3>1, <5>1 DEF IInv, WindowReceived, AckRange
      <4> QED BY <4>1, <4>2
    <3>3. rxAckCount' <= rxAckSeq'
      BY <2>1, <2>2 DEF IInv, TypeOK, WindowReceived
    <3>4. \A q \in (pktseq - cnt)..pktseq : q \in received' \cup {0}
      BY <1>n, <3>2
    <3> QED BY <2>2, <3>1, <3>c, <3>3, <3>4 DEF WindowReceived, AckRange
  <2>4. CASE rxUnacked + 1 < MaxAckPackets
    <3>1. /\ rxUnacked' = rxUnacked + 1
          /\ ackTimer' = ScheduleAck(rxUnacked + 1, send_ack)
          /\ acked' = acked
          /\ owed' = owed \cup {q \in {pktseq} : send_ack /\ q \notin received}
      BY <1>2, <2>4 DEF AckContiguous, Heard, IInv, TypeOK
    <3>2. TypeOK'
      <4>1. rxUnacked' \in 0..(MaxAckPackets - 1)
        BY <1>n, <2>4, <3>1
      <4>2. /\ received' \in SUBSET Seqs /\ owed' \in SUBSET Seqs
            /\ acked' \in SUBSET (0..MaxSeq)
        BY <1>n, <1>s, <2>3, <3>1
      <4>3. ackTimer' \in {"off", "delayed", "now"}
        BY <3>1 DEF IInv, TypeOK, ScheduleAck
      <4> QED BY <1>0, <1>n, <2>2, <4>1, <4>2, <4>3 DEF IInv, TypeOK
    <3>3. AckOnlyReceived'
      BY <2>3, <3>1 DEF IInv, AckOnlyReceived
    <3>4. OwedIsRecent' /\ CountReachesBack'
      BY <2>1, <2>2, <2>4, <3>1
         DEF IInv, TypeOK, OwedIsRecent, CountReachesBack
    <3>5. OwedHasTimer'
      BY <1>0, <3>1 DEF IInv, TypeOK, OwedHasTimer, ScheduleAck
    <3> QED BY <1>0, <1>t, <2>3, <3>2, <3>3, <3>4, <3>5 DEF IInv, QuietBeforeStart
  <2>5. CASE ~(rxUnacked + 1 < MaxAckPackets)
    <3>1. /\ rxUnacked' = 0 /\ ackTimer' = "off"
          /\ acked' = acked \cup AckRange(rxAckSeq', rxAckCount')
          /\ owed' \subseteq (owed \cup {pktseq}) \ AckRange(rxAckSeq', rxAckCount')
      BY <1>2, <2>5 DEF AckContiguous, Heard, IInv, TypeOK
    <3>2. owed' = {}
      <4>1. ASSUME NEW q \in owed \cup {pktseq}
            PROVE  q \in (rxAckSeq' - rxAckCount')..rxAckSeq'
        BY <1>n, <2>1, <2>2, <2>5
      <4> QED BY <3>1, <4>1 DEF AckRange
    <3>3. AckRange(rxAckSeq', rxAckCount') \subseteq received' \cup {0}
      BY <2>3 DEF WindowReceived
    <3>4. TypeOK'
      <4>1. received' \in SUBSET Seqs /\ acked' \in SUBSET (0..MaxSeq)
        <5>1. received' \subseteq 1..MaxSeq
          BY <1>n, <1>s, <2>3
        <5>2. acked' \subseteq acked \cup received' \cup {0}
          BY <3>1, <3>3
        <5> QED BY <1>s, <5>1, <5>2
      <4> QED BY <1>0, <1>n, <2>2, <3>1, <3>2, <4>1 DEF IInv, TypeOK
    <3>5. AckOnlyReceived'
      BY <2>3, <3>1, <3>3 DEF IInv, AckOnlyReceived
    <3> QED BY <1>0, <1>t, <2>2, <2>3, <3>1, <3>2, <3>4, <3>5
            DEF IInv, OwedIsRecent, CountReachesBack, OwedHasTimer, QuietBeforeStart
  <2> QED BY <2>4, <2>5
<1>3. CASE AckAfterGap(pktseq, send_ack) \/ AckOld(pktseq, send_ack)
  <2>1. /\ rxUnacked' = 0 /\ ackTimer' = "off"
        /\ \/ rxAckSeq' = pktseq /\ rxAckCount' = 0
           \/ UNCHANGED <<rxAckSeq, rxAckCount>>
        /\ Heard(pktseq, send_ack,
                 FlushRange \cup (IF send_ack THEN AckRange(pktseq, 0) ELSE {}))
    BY <1>3 DEF AckAfterGap, AckOld
  <2>2. AckRange(pktseq, 0) = {pktseq}
    BY DEF AckRange
  <2>3. FlushRange \subseteq received \cup {0}
    BY DEF FlushRange, IInv, WindowReceived
  <2>4. owed' = {}
    <3>1. ASSUME NEW q \in owed PROVE q \in FlushRange
      BY DEF IInv, TypeOK, OwedIsRecent, CountReachesBack, FlushRange, AckRange
    <3> QED BY <2>1, <2>2, <3>1 DEF Heard
  <2>5. /\ received' = received \cup {pktseq}
        /\ acked' \subseteq acked \cup received \cup {pktseq, 0}
    BY <2>1, <2>2, <2>3 DEF Heard
  <2>6. TypeOK' /\ AckOnlyReceived'
    BY <1>0, <2>1, <2>4, <2>5 DEF IInv, TypeOK, AckOnlyReceived
  <2>7. WindowReceived'
    <3>1. CASE rxAckSeq' = pktseq /\ rxAckCount' = 0
      BY <2>2, <2>5, <3>1 DEF WindowReceived
    <3>2. CASE UNCHANGED <<rxAckSeq, rxAckCount>>
      BY <2>5, <3>2 DEF IInv, WindowReceived
    <3> QED BY <2>1, <3>1, <3>2
  <2> QED BY <1>0, <1>t, <2>1, <2>4, <2>6, <2>7
          DEF IInv, TypeOK, OwedIsRecent, CountReachesBack, OwedHasTimer, QuietBeforeStart
<1>4. CASE AckRepeated(pktseq, send_ack)
  BY <1>0, <1>4, <1>t DEF AckRepeated, rxVars, IInv, TypeOK, WindowReceived, AckRange,
     AckOnlyReceived, OwedIsRecent, CountReachesBack, OwedHasTimer, QuietBeforeStart
<1> QED BY <1>2, <1>3, <1>4 DEF Acknowledge

\* Transmitting a packet (channel_transmit, alone or inside another handler)
\* keeps every part of the invariant that the transmission can touch.
LEMMA DropPendingAckPreserves ==
    ASSUME IInv, DropPendingAck
    PROVE  /\ rxUnacked' = 0 /\ ackTimer' \in {"off", ackTimer}
           /\ owed' = {} /\ overtaken' \in SUBSET Seqs
           /\ UNCHANGED <<rxAckSeq, rxAckCount, received, acked>>
<1>1. rxUnacked = 0 => owed = {}
  BY DEF IInv, TypeOK, OwedIsRecent, Seqs
<1> QED BY <1>1 DEF DropPendingAck, IInv, TypeOK

\* So does the whole invariant, when a handler transmits a packet and leaves
\* the channel alive.
LEMMA DropPendingAckKeepsIInv ==
    ASSUME IInv, DropPendingAck, life' = "active",
           link' \in {"down", "up", "stalled"}, destructions' \in 0..2,
           rtxTimer' \in BOOLEAN, statsTimer' = statsTimer, quiet' \in 0..2, Stacks'
    PROVE  IInv'
<1> USE SeqAssumption, AckAssumption
<1>1. /\ rxUnacked' = 0 /\ ackTimer' \in {"off", ackTimer}
      /\ owed' = {} /\ overtaken' \in SUBSET Seqs
      /\ UNCHANGED <<rxAckSeq, rxAckCount, received, acked>>
  BY DropPendingAckPreserves
<1>2. TypeOK'
  BY <1>1 DEF IInv, TypeOK, Seqs
<1>3. WindowReceived' /\ AckOnlyReceived'
  BY <1>1 DEF IInv, WindowReceived, AckOnlyReceived, AckRange
<1>4. OwedIsRecent' /\ OwedHasTimer' /\ QuietBeforeStart'
  BY <1>1 DEF OwedIsRecent, OwedHasTimer, QuietBeforeStart
<1>5. CountReachesBack'
  BY <1>1 DEF IInv, TypeOK, CountReachesBack
<1> QED BY <1>2, <1>3, <1>4, <1>5 DEF IInv

\* The same for on_ready_transmit inside start and retransmit_timeout,
\* whether or not the streams send something.
LEMMA ReadyTransmitPreserves ==
    ASSUME IInv, NEW sends \in BOOLEAN, ReadyTransmit(sends),
           life' = "active", life \in {"idle", "active"}, destructions' \in 0..2,
           link' \in {"down", "up", "stalled"}, rtxTimer' \in BOOLEAN, quiet' \in 0..2,
           statsTimer' = statsTimer, Stacks'
    PROVE  IInv'
<1> USE SeqAssumption, AckAssumption
<1>1. CASE sends
  <2>1. DropPendingAck
    BY <1>1 DEF ReadyTransmit
  <2> QED BY <2>1, DropPendingAckKeepsIInv
<1>2. CASE ~sends
  BY <1>2 DEF ReadyTransmit, rxVars, IInv, TypeOK, WindowReceived, AckRange,
     AckOnlyReceived, OwedIsRecent, CountReachesBack, OwedHasTimer, QuietBeforeStart
<1> QED BY <1>1, <1>2

-----------------------------------------------------------------------------
(* The stack of calls.                                                     *)

\* What there is to do in a call.
Steps == {"signal", "detach", "free"}

\* A sequence of two or three items is the tuple of its items.
LEMMA PairTuple ==
    ASSUME NEW S, NEW s \in Seq(S), Len(s) = 2 PROVE s = <<s[1], s[2]>>
OBVIOUS

LEMMA TripleTuple ==
    ASSUME NEW S, NEW s \in Seq(S), Len(s) = 3 PROVE s = <<s[1], s[2], s[3]>>
OBVIOUS

\* A stack that is empty, and one with something on it.
LEMMA Emptiness ==
    /\ <<"detach">> # <<>> /\ <<"signal">> # <<>> /\ <<"signal", "detach">> # <<>>
    /\ <<"free">> # <<>> /\ <<"free", "detach">> # <<>> /\ <<"detach", "free">> # <<>>
    /\ <<"detach", "free", "detach">> # <<>>
<1>1. <<"detach">> # <<>> /\ <<"signal">> # <<>> /\ <<"free">> # <<>>
  OBVIOUS
<1>2. <<"signal", "detach">> # <<>> /\ <<"free", "detach">> # <<>>
  OBVIOUS
<1>3. <<"detach", "free">> # <<>> /\ <<"detach", "free", "detach">> # <<>>
  OBVIOUS
<1> QED BY <1>1, <1>2, <1>3

\* Pushing a call on a stack of one or two.
LEMMA PushOnOne ==
    ASSUME NEW a \in Steps, NEW b \in Steps PROVE <<a>> \o <<b>> = <<a, b>>
<1> DEFINE t == <<a>> \o <<b>>
<1>1. t \in Seq(Steps) /\ Len(t) = 2 /\ t[1] = a /\ t[2] = b
  OBVIOUS
<1>2. t = <<t[1], t[2]>>
  <2> HIDE DEF t
  <2> QED BY <1>1, PairTuple
<1> QED BY <1>1, <1>2

LEMMA PushOnTwo ==
    ASSUME NEW a \in Steps, NEW b \in Steps, NEW c \in Steps
    PROVE  <<a>> \o <<b, c>> = <<a, b, c>>
<1> DEFINE t == <<a>> \o <<b, c>>
<1>1. t \in Seq(Steps) /\ Len(t) = 3 /\ t[1] = a /\ t[2] = b /\ t[3] = c
  OBVIOUS
<1>2. t = <<t[1], t[2], t[3]>>
  <2> HIDE DEF t
  <2> QED BY <1>1, TripleTuple
<1> QED BY <1>1, <1>2

\* A step that changes nothing but the timers, which it may stop, the life of
\* the channel, its link and the stack.
LEMMA StackStep ==
    ASSUME IInv, UNCHANGED <<rxVars, overtaken, quiet>>, Stacks',
           life' = "idle" => life = "idle",
           life' = "active" => life = "active" /\ ackTimer' = ackTimer,
           life' \in {"idle", "active", "stopped", "destroyed"},
           link' \in {"down", "up", "stalled"}, destructions' \in 0..2,
           rtxTimer' \in BOOLEAN, statsTimer' \in BOOLEAN,
           ackTimer' \in {"off", "delayed", "now"}
    PROVE  IInv'
<1>1. UNCHANGED <<rxAckSeq, rxAckCount, rxUnacked, received, acked, owed, overtaken, quiet>>
  BY DEF rxVars
<1>2. TypeOK'
  BY <1>1 DEF IInv, TypeOK
<1>3. /\ WindowReceived' /\ AckOnlyReceived' /\ OwedIsRecent' /\ CountReachesBack'
      /\ OwedHasTimer'
  BY <1>1 DEF IInv, WindowReceived, AckRange, AckOnlyReceived, OwedIsRecent, CountReachesBack,
     OwedHasTimer
<1>4. QuietBeforeStart'
  BY <1>1 DEF IInv, QuietBeforeStart, Stacks
<1> QED BY <1>2, <1>3, <1>4 DEF IInv

LEMMA StopPreserves ==
    ASSUME IInv, Stop
    PROVE  IInv'
<1>1. /\ life \in {"idle", "active"} /\ calls = <<>> /\ rtxTimer' = FALSE /\ ackTimer' = "off"
      /\ statsTimer' = FALSE
      /\ link' = "down" /\ destructions' = destructions
      /\ life' = IF life = "active" THEN "stopped" ELSE life
      /\ calls' = DownSignal \o <<"detach">> \o <<>>
      /\ UNCHANGED <<rxVars, overtaken, quiet>>
  BY DEF Stop, StopThen
<1>2. Stacks'
  <2>1. CASE life = "idle"
    <3>1. link = "down" /\ destructions = 0
      BY <1>1, <2>1, Emptiness DEF IInv, Stacks
    <3>2. calls' = <<"detach">>
      BY <1>1, <3>1 DEF DownSignal
    <3> QED BY <1>1, <2>1, <3>1, <3>2 DEF Stacks
  <2>2. CASE life = "active"
    <3>1. link # "down" /\ destructions = 0
      BY <1>1, <2>2, Emptiness DEF IInv, Stacks
    <3>2. calls' = <<"signal", "detach">>
      <4>1. <<"signal">> \o <<"detach">> = <<"signal", "detach">>
        BY PushOnOne DEF Steps
      <4>2. <<"signal", "detach">> \o <<>> = <<"signal", "detach">>
        OBVIOUS
      <4> QED BY <1>1, <3>1, <4>1, <4>2 DEF DownSignal
    <3> QED BY <1>1, <2>2, <3>1, <3>2 DEF Stacks
  <2> QED BY <1>1, <2>1, <2>2
<1> QED BY <1>1, <1>2, StackStep DEF IInv, TypeOK

LEMMA LinkDownPreserves ==
    ASSUME IInv, LinkDown
    PROVE  IInv'
<1>1. /\ calls # <<>> /\ Head(calls) = "signal" /\ rtxTimer' = FALSE /\ ackTimer' = "off"
      /\ statsTimer' = FALSE
      /\ link' = "down" /\ destructions' = Lower(destructions + 1, 2)
      /\ life' = IF life = "active" THEN "stopped" ELSE life
      /\ calls' = DownSignal \o <<"detach">> \o (<<"free">> \o Tail(calls))
      /\ UNCHANGED <<rxVars, overtaken, quiet>>
  BY DEF LinkDown, StopThen
<1>2. calls \in {<<"signal">>, <<"signal", "detach">>} /\ link = "down"
  BY <1>1 DEF IInv, Stacks
<1>3. life \in {"active", "stopped"} /\ destructions = 0
  BY <1>1 DEF IInv, Stacks
<1>4. calls' \in {<<"detach", "free">>, <<"detach", "free", "detach">>}
  <2>1. /\ <<"free">> \o <<"detach">> = <<"free", "detach">>
        /\ <<"detach">> \o <<"free">> = <<"detach", "free">>
    BY PushOnOne DEF Steps
  <2>2. <<"detach">> \o <<"free", "detach">> = <<"detach", "free", "detach">>
    BY PushOnTwo DEF Steps
  <2>3. <<>> \o <<"detach">> = <<"detach">> /\ <<"free">> \o <<>> = <<"free">>
    OBVIOUS
  <2>4. calls' = <<"detach">> \o (<<"free">> \o Tail(calls))
    BY <1>1, <1>2, <2>3 DEF DownSignal
  <2>5. CASE calls = <<"signal">>
    <3>1. Tail(calls) = <<>>
      BY <2>5
    <3> QED BY <2>1, <2>3, <2>4, <3>1
  <2>6. CASE calls = <<"signal", "detach">>
    <3>1. Tail(calls) = <<"detach">>
      BY <2>6
    <3> QED BY <2>1, <2>2, <2>4, <3>1
  <2> QED BY <1>2, <2>5, <2>6
<1>5. Stacks'
  BY <1>1, <1>3, <1>4 DEF Stacks, Lower
<1>6. destructions' = 1 /\ life' = "stopped"
  BY <1>1, <1>3 DEF Lower
<1>7. /\ life' # "idle" /\ life' # "active"
      /\ life' \in {"idle", "active", "stopped", "destroyed"} /\ destructions' \in 0..2
      /\ link' \in {"down", "up", "stalled"} /\ ackTimer' \in {"off", "delayed", "now"}
  BY <1>1, <1>6
<1>8. rtxTimer' \in BOOLEAN /\ statsTimer' \in BOOLEAN
  BY <1>1
<1> QED BY <1>1, <1>5, <1>7, <1>8, StackStep

LEMMA DetachPreserves ==
    ASSUME IInv, DetachStreams
    PROVE  IInv'
<1>1. /\ calls # <<>> /\ Head(calls) = "detach" /\ calls' = Tail(calls)
      /\ UNCHANGED <<life, link, destructions, rtxTimer, ackTimer, statsTimer, rxVars,
                     overtaken, quiet>>
  BY DEF DetachStreams, linkVars
<1>2. calls \in {<<"detach">>, <<"detach", "free">>, <<"detach", "free", "detach">>}
  BY <1>1 DEF IInv, Stacks
<1>3. \/ calls = <<"detach">> /\ calls' = <<>>
      \/ calls = <<"detach", "free">> /\ calls' = <<"free">>
      \/ calls = <<"detach", "free", "detach">> /\ calls' = <<"free", "detach">>
  <2>1. /\ Tail(<<"detach">>) = <<>> /\ Tail(<<"detach", "free">>) = <<"free">>
        /\ Tail(<<"detach", "free", "detach">>) = <<"free", "detach">>
    OBVIOUS
  <2> QED BY <1>1, <1>2, <2>1
<1>4. Stacks'
  BY <1>1, <1>3 DEF IInv, Stacks
<1> QED BY <1>1, <1>4, StackStep DEF IInv, TypeOK

LEMMA FreePreserves ==
    ASSUME IInv, Free
    PROVE  IInv'
<1>1. /\ calls # <<>> /\ Head(calls) = "free" /\ calls' = Tail(calls) /\ life' = "destroyed"
      /\ UNCHANGED <<link, destructions, rtxTimer, ackTimer, statsTimer, rxVars, overtaken,
                     quiet>>
  BY DEF Free
<1>2. calls \in {<<"free">>, <<"free", "detach">>}
  BY <1>1 DEF IInv, Stacks
<1>3. life = "stopped" /\ destructions = 1 /\ link = "down" /\ ~rtxTimer /\ ackTimer = "off"
      /\ ~statsTimer
  BY <1>1 DEF IInv, Stacks
<1>4. calls' \in {<<>>, <<"detach">>}
  <2>1. Tail(<<"free">>) = <<>> /\ Tail(<<"free", "detach">>) = <<"detach">>
    OBVIOUS
  <2> QED BY <1>1, <1>2, <2>1
<1>5. Stacks'
  BY <1>1, <1>3, <1>4 DEF Stacks
<1> QED BY <1>1, <1>5, StackStep DEF IInv, TypeOK

\* The inductive invariant holds in every reachable state.
THEOREM Invariance == Spec => []IInv
<1>1. Init => IInv
  <2> USE SeqAssumption, AckAssumption
  <2> SUFFICES ASSUME Init PROVE IInv
    OBVIOUS
  <2>1. TypeOK
    <3>1. 0 \in 0..MaxSeq /\ 0 \in 0..MaxAckCount /\ 0 \in 0..(MaxAckPackets - 1)
      OBVIOUS
    <3>2. rtxTimer \in BOOLEAN /\ statsTimer \in BOOLEAN
      BY DEF Init
    <3> QED BY <3>1, <3>2 DEF Init, TypeOK
  <2>2. WindowReceived /\ AckOnlyReceived
    BY DEF Init, WindowReceived, AckRange, AckOnlyReceived
  <2>3. OwedIsRecent /\ CountReachesBack /\ OwedHasTimer /\ QuietBeforeStart /\ Stacks
    BY DEF Init, OwedIsRecent, CountReachesBack, OwedHasTimer, QuietBeforeStart, Stacks
  <2> QED BY <2>1, <2>2, <2>3 DEF IInv
<1>2. IInv /\ [Next]_vars => IInv'
  <2> SUFFICES ASSUME IInv, [Next]_vars PROVE IInv'
    OBVIOUS
  <2> USE SeqAssumption, AckAssumption
  <2>1. CASE \E pktseq \in Seqs, send_ack \in BOOLEAN : Acknowledge(pktseq, send_ack)
    BY <2>1, AcknowledgePreserves
  <2>2. CASE AckTimeout
    <3>1. FlushRange \subseteq received \cup {0}
      BY DEF FlushRange, IInv, WindowReceived
    <3>2. ASSUME NEW q \in owed PROVE q \in FlushRange
      BY DEF IInv, TypeOK, OwedIsRecent, CountReachesBack, FlushRange, AckRange, Seqs
    <3>3. owed' = {} /\ acked' \subseteq acked \cup received \cup {0}
      BY <2>2, <3>1, <3>2 DEF AckTimeout
    <3>4. /\ rxUnacked' = 0 /\ ackTimer' = "off"
          /\ UNCHANGED <<life, link, rtxTimer, statsTimer, quiet, rxAckSeq, rxAckCount,
                         received, overtaken, calls, destructions>>
      BY <2>2 DEF AckTimeout, linkVars, callVars
    <3>5. TypeOK'
      <4>1. acked' \in SUBSET (0..MaxSeq)
        BY <3>3 DEF IInv, TypeOK, Seqs
      <4> QED BY <3>3, <3>4, <4>1 DEF IInv, TypeOK
    <3>6. WindowReceived' /\ AckOnlyReceived'
      BY <3>3, <3>4 DEF IInv, WindowReceived, AckOnlyReceived, AckRange
    <3>7. CountReachesBack'
      BY <3>4 DEF IInv, TypeOK, CountReachesBack
    <3>8. OwedIsRecent' /\ OwedHasTimer' /\ QuietBeforeStart'
      BY <3>3, <3>4 DEF IInv, OwedIsRecent, OwedHasTimer, QuietBeforeStart
    <3>9. Stacks'
      BY <3>4, Emptiness DEF IInv, Stacks
    <3> QED BY <3>5, <3>6, <3>7, <3>8, <3>9 DEF IInv
  <2>3. CASE ChannelTransmit
    <3>1. /\ DropPendingAck /\ life = "active" /\ calls = <<>> /\ rtxTimer' = TRUE /\ quiet' = 0
          /\ UNCHANGED <<life, link, statsTimer, calls, destructions>>
      BY <2>3 DEF ChannelTransmit, callVars
    <3>2. Stacks'
      BY <3>1, Emptiness DEF IInv, Stacks
    <3> QED BY <3>1, <3>2, DropPendingAckKeepsIInv DEF IInv, TypeOK
  <2>4. CASE \E sends \in BOOLEAN : Start(sends)
    <3> PICK sends \in BOOLEAN : Start(sends)
      BY <2>4
    <3>1. /\ life = "idle" /\ life' = "active" /\ link' = "up" /\ rtxTimer' = TRUE
          /\ quiet' = quiet /\ ReadyTransmit(sends) /\ calls = <<>>
          /\ UNCHANGED <<calls, destructions, statsTimer>>
      BY DEF Start, callVars
    <3>2. Stacks'
      BY <3>1, Emptiness DEF IInv, Stacks
    <3> QED BY <3>1, <3>2, ReadyTransmitPreserves DEF IInv, TypeOK
  <2>5. CASE Unwind
    BY <2>5, LinkDownPreserves, DetachPreserves, FreePreserves DEF Unwind
  <2>6. CASE Stop
    BY <2>6, StopPreserves
  <2>7. CASE \E failed, sends \in BOOLEAN : RetransmitTimeout(failed, sends)
    <3> PICK failed \in BOOLEAN, sends \in BOOLEAN : RetransmitTimeout(failed, sends)
      BY <2>7
    <3>1. /\ rtxTimer /\ calls = <<>> /\ ReadyTransmit(sends)
          /\ UNCHANGED <<life, rtxTimer, statsTimer, destructions>>
          /\ quiet' = 0 \/ quiet' = Lower(quiet + 1, 2)
          /\ link' = IF failed THEN "down" ELSE "stalled"
          /\ calls' = IF failed THEN DownSignal ELSE <<>>
      BY DEF RetransmitTimeout
    <3>2. life = "active" /\ link # "down" /\ destructions = 0
      BY <3>1, Emptiness DEF IInv, Stacks
    <3>3. quiet' \in 0..2
      BY <3>1 DEF IInv, TypeOK, Lower
    <3>4. Stacks'
      <4>1. CASE failed
        <5>1. calls' = <<"signal">> /\ link' = "down"
          BY <3>1, <3>2, <4>1 DEF DownSignal
        <5> QED BY <3>1, <3>2, <5>1 DEF Stacks
      <4>2. CASE ~failed
        <5>1. calls' = <<>> /\ link' = "stalled"
          BY <3>1, <4>2
        <5> QED BY <3>1, <3>2, <5>1 DEF Stacks
      <4> QED BY <4>1, <4>2
    <3>5. link' \in {"down", "up", "stalled"}
      BY <3>1
    <3> QED BY <3>1, <3>2, <3>3, <3>4, <3>5, ReadyTransmitPreserves DEF IInv, TypeOK
  <2>8. CASE UNCHANGED vars
    BY <2>8 DEF vars, IInv, TypeOK, WindowReceived, AckRange, AckOnlyReceived,
       OwedIsRecent, CountReachesBack, OwedHasTimer, QuietBeforeStart, Stacks
  <2>9. CASE StatsTimeout
    <3>1. /\ UNCHANGED <<life, link, rtxTimer, quiet, calls, destructions, ackTimer, rxVars,
                         overtaken>>
          /\ statsTimer' = FALSE
      BY <2>9 DEF StatsTimeout, callVars
    <3>2. Stacks'
      BY <3>1 DEF IInv, Stacks
    <3> QED BY <3>1, <3>2, StackStep DEF IInv, TypeOK
  <2> QED BY <2>1, <2>2, <2>3, <2>4, <2>5, <2>6, <2>7, <2>8, <2>9 DEF Next
<1> QED BY <1>1, <1>2, PTL DEF Spec

-----------------------------------------------------------------------------
\* Type correctness: in particular rx_unacked_ stays below max_ack_packets
\* and rx_ack_count_ within its four-bit field.
THEOREM TypeCorrect == Spec => []TypeOK
<1>1. IInv => TypeOK
  BY DEF IInv
<1> QED BY <1>1, Invariance, PTL

\* transmit_ack never covers a packet that did not arrive.
THEOREM AcksAreHonest == Spec => []AckOnlyReceived
<1>1. IInv => AckOnlyReceived
  BY DEF IInv
<1> QED BY <1>1, Invariance, PTL

\* One flush_ack settles every packet that waits for an acknowledgment.
THEOREM FlushSettlesAll == Spec => []FlushCoversOwed
<1>1. IInv => FlushCoversOwed
  BY DEF IInv, TypeOK, OwedIsRecent, CountReachesBack, FlushCoversOwed, AckRange, Seqs
<1> QED BY <1>1, Invariance, PTL

\* A waiting packet always has a running delayed-ack timer.
THEOREM WaitingPacketHasTimer == Spec => []OwedHasTimer
<1>1. IInv => OwedHasTimer
  BY DEF IInv
<1> QED BY <1>1, Invariance, PTL

\* The nested calls of stop() and of the destructor end with one destruction,
\* after which no timer runs and nothing is left to do but the rest of the
\* first stop(): set_link_status signals only what is new, and stores it first.
THEOREM DestructionHappensOnce == Spec => []DestroyedOnce
<1>1. IInv => DestroyedOnce
  <2> SUFFICES ASSUME IInv PROVE DestroyedOnce
    OBVIOUS
  <2>1. destructions <= 1
    BY DEF IInv, Stacks
  <2>2. life = "destroyed" => calls \in {<<>>, <<"detach">>}
    BY DEF IInv, Stacks
  <2> QED BY <2>1, <2>2 DEF IInv, Stacks, DestroyedOnce
<1> QED BY <1>1, Invariance, PTL

\* rx_ack_sequence_ only grows.
THEOREM AckSequenceOnlyGrows == Spec => AckSequenceAdvances
<1>1. IInv /\ [Next]_vars => [rxAckSeq' >= rxAckSeq]_vars
  <2> SUFFICES ASSUME IInv, Next PROVE rxAckSeq' >= rxAckSeq
    OBVIOUS
  <2>0. rxAckSeq \in Int
    BY DEF IInv, TypeOK
  <2>1. ASSUME NEW pktseq \in Seqs, NEW send_ack \in BOOLEAN,
               Acknowledge(pktseq, send_ack)
        PROVE  rxAckSeq' >= rxAckSeq
    <3>1. SeqDiff(pktseq, rxAckSeq) = pktseq - rxAckSeq
      BY <2>0, <2>1, SeqDiffExact DEF Acknowledge, Seqs
    <3> QED BY <2>0, <2>1, <3>1 DEF Acknowledge, AckContiguous, AckAfterGap, AckOld,
              AckRepeated, rxVars, Seqs
  <2>2. ASSUME DropPendingAck \/ UNCHANGED rxVars
        PROVE  rxAckSeq' >= rxAckSeq
    BY <2>0, <2>2 DEF DropPendingAck, rxVars
  <2>3. ASSUME AckTimeout \/ StatsTimeout \/ ChannelTransmit \/ Stop
        PROVE  rxAckSeq' >= rxAckSeq
    <3>1. rxAckSeq' = rxAckSeq \/ DropPendingAck
      BY <2>3 DEF AckTimeout, StatsTimeout, ChannelTransmit, Stop, StopThen, rxVars
    <3> QED BY <2>0, <2>2, <3>1
  <2>4. ASSUME NEW sends \in BOOLEAN, ReadyTransmit(sends)
        PROVE  rxAckSeq' >= rxAckSeq
    BY <2>2, <2>4 DEF ReadyTransmit
  <2>5. ASSUME NEW sends \in BOOLEAN, Start(sends)
        PROVE  rxAckSeq' >= rxAckSeq
    BY <2>4, <2>5 DEF Start
  <2>6. ASSUME NEW failed \in BOOLEAN, NEW sends \in BOOLEAN,
               RetransmitTimeout(failed, sends)
        PROVE  rxAckSeq' >= rxAckSeq
    BY <2>4, <2>6 DEF RetransmitTimeout
  <2>7. ASSUME Unwind
        PROVE  rxAckSeq' >= rxAckSeq
    <3>1. UNCHANGED rxVars
      BY <2>7 DEF Unwind, LinkDown, StopThen, DetachStreams, Free
    <3> QED BY <2>2, <3>1
  <2> QED BY <2>1, <2>3, <2>5, <2>6, <2>7 DEF Next
<1> QED BY <1>1, Invariance, PTL DEF Spec, AckSequenceAdvances
=============================================================================
