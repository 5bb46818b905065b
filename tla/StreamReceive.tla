--------------------------- MODULE StreamReceive ---------------------------
(***************************************************************************)
(* The receiving half of a stream (lib/base_stream.cpp): segments received *)
(* in order and waiting to be read, the sizes of the records among them,   *)
(* the count of buffered bytes, the window advertised to the peer, reading *)
(* data and records, shutting down, and the datagrams received on the      *)
(* stream (lib/datagram_stream.cpp).                                       *)
(*                                                                         *)
(* The handlers of incoming packets are disabled at this commit:           *)
(* RxSegment and RxDatagram stand for their calls of rx_enqueue_segment    *)
(* and received_datagrams_.push_back.  The reorder buffer readahead_ is    *)
(* filled by a disabled handler only and stays empty.  Assertions are      *)
(* compiled out, as in a release build: a read smaller than the next       *)
(* segment takes the whole segment off the queue and past its buffer (the  *)
(* code has a @fixme there).  The history cut keeps these apart from the   *)
(* records that the reader gets whole.                                     *)
(***************************************************************************)
EXTENDS Integers, Sequences, SequencesExt, FiniteSetsExt

CONSTANTS
    SegSizes,     \* sizes of received segments, 0 for a segment without data
    DatagramSizes,\* sizes of received datagrams
    ReadSizes,    \* values of max_size
    BufSizes,     \* arguments of set_receive_buffer_size
    DefaultBuf,   \* 65536: default_rx_buffer_size
    MinBuf,       \* 2 * mtu: min_receive_buffer_size
    MaxSegments,  \* bound on the segments received
    MaxDatagrams  \* bound on the datagrams received

\* 1 << n.
Shift[n \in 0..30] == IF n = 0 THEN 1 ELSE 2 * Shift[n - 1]

\* The sizes of buffers are ints.  At the largest one, 2^31 - 1, the loop that
\* looks for the window would shift 2 out of an int.
BufRange == 0..(2 * (Shift[30] - 1))

ASSUME SizeAssumption ==
    /\ SegSizes \subseteq Nat /\ DatagramSizes \subseteq Nat /\ ReadSizes \subseteq Nat
    /\ BufSizes \subseteq BufRange
    /\ DefaultBuf \in BufRange /\ MinBuf \in BufRange /\ 0 < MinBuf /\ MinBuf <= DefaultBuf
ASSUME CountAssumption == MaxSegments \in Nat /\ MaxDatagrams \in Nat

VARIABLES
    rx,        \* segs, recs, avail, recAvail, used and endRead: see Empty
    linkUp,    \* is_link_up: state_ is connected
    bufSize,   \* receive_buf_size_
    winByte,   \* receive_window_byte_
    datagrams, \* received_datagrams_
    delivered, \* history: the segments with data received so far
    taken,     \* history: the segments with data that reads took off the queue
    cut,       \* history: those of them that the reader did not get whole, as
               \* size of the record and max_size of the read
    stale,     \* history: the buffer changed since the window was calculated
    rxDatagrams,   \* history: the datagrams received
    readDatagrams  \* history: what read_datagram returned

bufVars == <<linkUp, bufSize, winByte, stale>>
dgVars == <<datagrams, rxDatagrams, readDatagrams>>
vars == <<rx, linkUp, bufSize, winByte, datagrams, delivered, taken, cut, stale,
          rxDatagrams, readDatagrams>>

-----------------------------------------------------------------------------
Larger(a, b) == IF a > b THEN a ELSE b
Smaller(a, b) == IF a < b THEN a ELSE b
Total(sizes) ==
    LET sum[n \in 0..Len(sizes)] == IF n = 0 THEN 0 ELSE sum[n - 1] + sizes[n]
    IN  sum[Len(sizes)]
Sizes(segs) == [i \in DOMAIN segs |-> segs[i].size]

\* The receive state of a new stream: rx_segments_, rx_record_sizes_,
\* rx_available_, rx_record_available_, rx_buffer_used_, end_read_.
Empty == [segs |-> <<>>, recs |-> <<>>, avail |-> 0, recAvail |-> 0,
          used |-> 0, endRead |-> FALSE]

\* The window that a byte promises: recalculate_transmit_window at the peer.
Promised(byte) == Shift[byte] - 1

\* Mutant: out-of-order bytes are not counted, and the exponent is one too big.
WindowByte_TooLarge(r, size) ==
    LET rwin == Larger(0, size - r.used)
    IN  CHOOSE i \in 0..30 : Promised(i) > rwin /\ \A j \in 0..(i - 1) : Promised(j) <= rwin

\* recalculate_receive_window: the first i such that 2^(i + 1) - 1 bytes do not
\* fit.
WindowByte(r, size) ==
    LET free == Larger(0, size - r.used)
        rwin == IF r.avail = 0 /\ r.used > 0 THEN Larger(free, MinBuf) ELSE free
    IN  CHOOSE i \in 0..30 :
            2 * Shift[i] - 1 > rwin /\ \A j \in 0..(i - 1) : 2 * Shift[j] - 1 <= rwin

Recalculate(r) ==
    /\ winByte' = WindowByte(r, bufSize)
    /\ stale' = FALSE

\* Mutant: the counters survive the shutdown.
ShutRead_KeepCounters(r, up) ==
    IF up /\ ~r.endRead THEN [r EXCEPT !.segs = <<>>, !.recs = <<>>, !.endRead = TRUE] ELSE r

\* shutdown(read): everything received is dropped, if the link is up.
ShutRead(r, up) == IF up /\ ~r.endRead THEN [Empty EXCEPT !.endRead = TRUE] ELSE r

-----------------------------------------------------------------------------
(* read_data(data, max_size), turn by turn.                                *)

\* Taking the first segment off the queue: the record it is part of shrinks.
TakeSegment(r) ==
    LET size == Head(r.segs).size
        rest == [r EXCEPT !.segs = Tail(r.segs), !.avail = r.avail - size,
                          !.used = r.used - size]
    IN  IF r.recs # <<>> THEN [rest EXCEPT !.recs[1] = r.recs[1] - size]
                         ELSE [rest EXCEPT !.recAvail = r.recAvail - size]

\* Mutant: the read goes on past the end of a record.
ReadTurn_PastRecord(l) ==
    LET r == TakeSegment(l.r)
        ends == l.r.recs # <<>> /\ r.recs[1] = 0
    IN  [r |-> IF ends THEN [r EXCEPT !.recs = Tail(r.recs)] ELSE ShutRead(r, linkUp),
         left |-> l.left - Head(l.r.segs).size,
         out |-> Append(l.out, Head(l.r.segs)),
         stop |-> FALSE]

\* One turn: a segment that ends a record ends the read; after any other
\* segment the stream is shut down for reading.
ReadTurn(l) ==
    LET r == TakeSegment(l.r)
        ends == l.r.recs # <<>> /\ r.recs[1] = 0
    IN  [r |-> IF ends THEN [r EXCEPT !.recs = Tail(r.recs)] ELSE ShutRead(r, linkUp),
         left |-> l.left - Head(l.r.segs).size,
         out |-> Append(l.out, Head(l.r.segs)),
         stop |-> ends]

\* The whole loop; there are at most as many turns as segments.
ReadLoop(r, max) ==
    LET loop[n \in 0..MaxSegments] ==
            IF n = 0 THEN [r |-> r, left |-> max, out |-> <<>>, stop |-> FALSE]
            ELSE LET l == loop[n - 1]
                 IN  IF l.stop \/ l.left <= 0 \/ l.r.avail <= 0 THEN l ELSE ReadTurn(l)
    IN  loop[MaxSegments]

\* The segments with data in a sequence of segments.
WithData(segs) ==
    LET kept[n \in 0..Len(segs)] ==
          IF n = 0 THEN <<>>
          ELSE IF segs[n].size > 0 THEN Append(kept[n - 1], segs[n]) ELSE kept[n - 1]
    IN  kept[Len(segs)]

\* The records among the segments out, as read with room for max bytes.
Cut(out, max) == {[size |-> seg.size, max |-> max] : seg \in ToSet(WithData(out))}

\* Mutant: what was queued when the read began is dropped at its end.
AfterRead_DropRest(l, whole, max) ==
    /\ rx' = [Empty EXCEPT !.endRead = l.r.endRead]
    /\ taken' = taken \o WithData(l.out)
    /\ cut' = IF whole THEN cut ELSE cut \cup Cut(l.out, max)
    /\ Recalculate(rx')
    /\ UNCHANGED <<linkUp, bufSize, delivered, dgVars>>

\* What a read of at most max bytes leaves behind; whole: the reader had room
\* for all that was taken off the queue.
AfterRead(l, whole, max) ==
    /\ rx' = l.r
    /\ taken' = taken \o WithData(l.out)
    /\ cut' = IF whole THEN cut ELSE cut \cup Cut(l.out, max)
    /\ Recalculate(l.r)
    /\ UNCHANGED <<linkUp, bufSize, delivered, dgVars>>

-----------------------------------------------------------------------------
Init ==
    /\ rx = Empty /\ linkUp = FALSE
    /\ bufSize = DefaultBuf /\ winByte = WindowByte(Empty, DefaultBuf)
    /\ datagrams = <<>>
    /\ delivered = <<>> /\ taken = <<>> /\ cut = {} /\ stale = FALSE
    /\ rxDatagrams = <<>> /\ readDatagrams = <<>>

\* The stream is connected: got_service_request or got_service_reply.
LinkUp ==
    /\ ~linkUp
    /\ linkUp' = TRUE
    /\ UNCHANGED <<rx, bufSize, winByte, stale, delivered, taken, cut, dgVars>>

\* Mutant: data that completes no record is not counted as buffered.
EnqueueSegment_Uncounted(seg) ==
    LET r == [rx EXCEPT !.segs = Append(rx.segs, seg), !.avail = rx.avail + seg.size]
    IN  IF seg.size > 0 THEN [r EXCEPT !.recs = Append(rx.recs, seg.size)] ELSE r

\* rx_enqueue_segment: the test of the segment's flags is disabled, so every
\* segment with data completes a record.
EnqueueSegment(seg) ==
    LET record == rx.recAvail + seg.size
        r == [rx EXCEPT !.segs = Append(rx.segs, seg), !.avail = rx.avail + seg.size,
                        !.used = rx.used + seg.size]
    IN  IF record > 0 THEN [r EXCEPT !.recs = Append(rx.recs, record), !.recAvail = 0]
                      ELSE [r EXCEPT !.recAvail = record]

\* A segment arrives in order.  After the end of the stream it is ignored.
RxSegment(size) ==
    LET seg == [id |-> Len(delivered) + 1, size |-> size] IN
    /\ ~rx.endRead
    /\ Len(delivered) < MaxSegments /\ Len(rx.segs) < MaxSegments
    /\ rx' = EnqueueSegment(seg)
    /\ delivered' = IF size > 0 THEN Append(delivered, seg) ELSE delivered
    /\ Recalculate(rx')
    /\ UNCHANGED <<linkUp, bufSize, taken, cut, dgVars>>

\* The data overruns the buffer when more was taken than fits.
ReadData(max) == LET l == ReadLoop(rx, max) IN AfterRead(l, l.left >= 0, max)

\* read_record: when the read did not reach the end of the record, the rest is
\* read into nullptr, which discards it.
ReadRecord(max) ==
    /\ rx.recs # <<>>
    /\ LET first == ReadLoop(rx, max)
           skip == ReadLoop(first.r, Total(Sizes(first.r.segs)))
       IN  IF Len(first.r.recs) = Len(rx.recs)
           THEN AfterRead([skip EXCEPT !.out = first.out \o skip.out], FALSE, max)
           ELSE AfterRead(first, first.left >= 0, max)

\* shutdown(read), called by the application.
ShutdownRead ==
    /\ rx' = ShutRead(rx, linkUp)
    /\ stale' = TRUE
    /\ UNCHANGED <<linkUp, bufSize, winByte, delivered, taken, cut, dgVars>>

\* disconnect, by shutdown(reset) or a failure: what was received stays.
Disconnect ==
    /\ linkUp
    /\ linkUp' = FALSE
    /\ UNCHANGED <<rx, bufSize, winByte, stale, delivered, taken, cut, dgVars>>

\* set_receive_buffer_size does not calculate the window anew.
SetReceiveBufferSize(size) ==
    /\ bufSize' = Larger(size, MinBuf)
    /\ stale' = TRUE
    /\ UNCHANGED <<rx, linkUp, winByte, delivered, taken, cut, dgVars>>

-----------------------------------------------------------------------------
(* Datagrams: a datagram_stream has a payload and a read position.         *)

Remain(d) == d.size - d.pos

RxDatagram(size) ==
    LET d == [id |-> Len(rxDatagrams) + 1, size |-> size, pos |-> 0] IN
    /\ Len(rxDatagrams) < MaxDatagrams
    /\ datagrams' = Append(datagrams, d)
    /\ rxDatagrams' = Append(rxDatagrams, d)
    /\ UNCHANGED <<rx, bufVars, delivered, taken, cut, readDatagrams>>

\* Mutant: the first datagram is taken, readable or not.
Pending_Any == DOMAIN datagrams

\* The datagrams with a record waiting to be read.
Pending == {i \in DOMAIN datagrams : Remain(datagrams[i]) > 0}

\* get_datagram and read_datagram: the rest of the datagram is discarded.
ReadDatagram(max) ==
    /\ Pending # {}
    /\ LET i == Min(Pending)
           n == Smaller(Remain(datagrams[i]), max)
       IN  /\ datagrams' = RemoveAt(datagrams, i)
           /\ readDatagrams' = Append(readDatagrams, [id |-> datagrams[i].id, size |-> n])
    /\ UNCHANGED <<rx, bufVars, delivered, taken, cut, rxDatagrams>>

Next ==
    \/ LinkUp
    \/ Disconnect
    \/ ShutdownRead
    \/ \E size \in SegSizes : RxSegment(size)
    \/ \E max \in ReadSizes : ReadData(max) \/ ReadRecord(max)
    \/ \E size \in BufSizes : SetReceiveBufferSize(size)
    \/ \E size \in DatagramSizes : RxDatagram(size)
    \/ \E max \in ReadSizes : ReadDatagram(max)

Spec == Init /\ [][Next]_vars

-----------------------------------------------------------------------------
\* The type of every variable.
TypeOK ==
    /\ rx.avail \in Nat /\ rx.recAvail \in Nat /\ rx.used \in Nat
    /\ rx.endRead \in BOOLEAN
    /\ \A i \in DOMAIN rx.recs : rx.recs[i] \in Nat \ {0}
    /\ \A i \in DOMAIN rx.segs : rx.segs[i].size \in SegSizes
    /\ linkUp \in BOOLEAN /\ stale \in BOOLEAN
    /\ bufSize \in Nat /\ bufSize >= MinBuf
    /\ winByte \in 0..30

\* The counters agree with the queues through reads of any size, records and
\* shutdowns: the bytes available, the bytes in complete records, and the
\* bytes charged to the buffer are the bytes of the queued segments.
AccountingExact ==
    /\ rx.avail = Total(Sizes(rx.segs))
    /\ rx.avail = Total(rx.recs) + rx.recAvail
    /\ rx.used = rx.avail

\* The advertised window fits in what is left of the buffer, and is the
\* largest of its kind that does: unless the application has just resized or
\* shut the stream, the peer is neither invited to overrun the buffer nor
\* held back by space that was freed long ago.
WindowTight ==
    LET free == Larger(0, bufSize - rx.used)
    IN  ~stale => Promised(winByte) <= free /\ free <= 2 * Promised(winByte)

\* Reads take every record received off the queue once and in order: while the
\* stream is open, what was taken and what waits make up what was received.
\* A reader gets the whole record unless its max_size is too small for it: data
\* is discarded, or runs past the buffer, in no other case.
NothingLost ==
    /\ ~rx.endRead => taken \o WithData(rx.segs) = delivered
    /\ \A c \in cut : c.max < c.size

\* A read ends at the end of a record.
OneRecordPerRead == [][Len(taken') <= Len(taken) + 1]_vars

\* Datagrams are read in the order of arrival, each once; one without data
\* never hides the ones behind it.
DatagramsInOrder ==
    LET Ids(s) == [i \in DOMAIN s |-> s[i].id]
    IN  Ids(readDatagrams) \o Ids(WithData(datagrams)) = Ids(WithData(rxDatagrams))
=============================================================================
