# TLA+ models of libsss

libsss implements Structured Streams (SSS, a descendant of SST): many
prioritised, hierarchical streams over one encrypted packet channel per pair of
hosts. This directory holds TLA+ models of its core, the TLC configurations that
check them on small instances, and TLAPS proofs for every value of the
constants. `PROJECT.json` lists components, runs, mutants, findings, hazards and
theorems, and maps each definition to the lines it models.

## The state of the source

At this commit the library is in the middle of a rewrite. Large parts of
`lib/channel.cpp` and `lib/base_stream.cpp` are commented out: `transmit` assigns
no sequence number and sends nothing, the handlers of incoming frames are empty,
`attach_for_transmit` has no body. The models describe the **live** code, one
function at a time. Where a live function has no live caller, the caller is the
environment: it may call the function whenever its documented contract and its
assertions allow. An `assert` is never a guard; it becomes a property. A read of
an uninitialised variable is a choice among all values.

## Inventory

| Component | State | Operations | Hard parts |
|---|---|---|---|
| channel (`lib/channel.cpp`) | link status, retransmit, ack and statistics timers, `rx_ack_sequence_`, `rx_ack_count_`, `rx_unacked_` | start, stop, acknowledge, flush_ack, ack_timeout, channel_transmit, retransmit_timeout | loss, duplication, reordering; timers against transmissions; self-destruction in a callback, from inside stop |
| congestion control (`lib/channel.cpp` 164-678) | `cwnd_`, `ssthresh`, `recovseq`, packets in flight, mark of the round trip | update, rtt_update, missed, timeout, may_transmit, the loop of retransmit_timeout | window limits, one cut per loss event, the upper layer called from the loop |
| sending streams (`lib/base_stream.cpp`, `lib/stream_channel.cpp`) | attachments, `transmit_sids_`, `tx_queue_`, `sending_streams_`, `waiting_ack_` | write_data, write_datagram, set_priority, transmit_on, acknowledged, missed, expire, clear, detach_all, stop | callbacks inside the transmit loop, raw pointers in tables, reuse of 16-bit ids |
| receiving streams (`lib/base_stream.cpp`, `lib/datagram_stream.cpp`) | `rx_segments_`, record sizes, byte counts, receive window, received datagrams | rx_enqueue_segment, read_data, read_record, shutdown, set_receive_buffer_size, read_datagram | four counters for one queue, record boundaries, a window that must be neither too large nor stale |
| connection set-up (`lib/stream.cpp`, `lib/server.cpp`, `lib/base_stream.cpp`) | stream objects, base streams, listeners, queues of incoming streams, services | connect_to, connect_at, disconnect, shutdown, listen, accept, open_substream, accept_substream, requests and replies | links in both directions between objects of different life, requests that travel while ends are reset |
| peer lookup (`lib/stream_peer.cpp`) | peers, lookups, signal connections, key exchanges | connect_channel, connect_routing_client, lookup_done, regclient_destroyed, add_location_hint | late and repeated answers, clients that vanish and whose address is used again |
| channel set-up (`lib/stream_responder.cpp`) | none of its own | one object built after a key exchange | the state is in a submodule |
| framing (`lib/framing`) | none | enframe (disabled), deframe | termination of the loop |
| shell codec (`tools/shell/shell_stream.cpp`) | decoder state, pending length | send_data, send_control, receive | messages cut anywhere by the stream |
| shell sessions (`tools/shell/server`, `tools/shell/client`) | terminal settings, descriptors, child process, watcher thread | setup_terminal, run_shell, open_pty, run, child_done, exit | one of several system calls failing; the end of the child seen by another thread |
| key exchange, identities, sockets | in submodules that are not part of the repository | | |

Interaction: the application holds `stream` objects, each linked to a base stream;
connecting one creates its peer object, which looks the peer up. The application
writes to streams; a stream gets in line on its channel's `sending_streams_`; the
channel calls `on_ready_transmit` when the congestion window lets it transmit, and
`got_ready_transmit` lets streams send one packet each. The channel reports packets
as acknowledged, missed or expired to the stream that owns them. When a link goes
down the channel deletes itself, which detaches every stream. The shell writes its
coded data to one stream.

Correctness, per component: acknowledgments cover only what arrived and cover all of
it in time; a channel is destroyed once and leaves no timer behind; the window stays
in its limits, is cut once per loss event and always opens again; the line, the
flags, the id table and the table of packets in flight agree at every point of every
interleaving; no stream with data is forgotten; records and datagrams are read once
and in order, complete where the reader has room for them, and the counters match
the queues; the two links between a stream object and its base stream agree, and an
incoming stream is handed to one place; a search for a peer ends exactly when there
is no hope left; a decoder returns what was encoded; terminal settings survive the
trip, no descriptor is lost, and the end of the child reaches the user.

## Modules

### Channel

State: `life`, `link`, the three timers, the calls under way, and the three counters
of the delayed-ack machine. Sequence numbers are compared by `SeqDiff`, which cuts
to `DiffModulus` (2^32) and takes the sign, as the `int32_t` does. The network is
`Acknowledge` with any packet within `Reach` of the newest one, any number of times,
with or without `send_ack`; its four cases are the branches of `acknowledge`.
`AckTimeout` is the ack timer, `ChannelTransmit` a packet sent by a stream,
`RetransmitTimeout` the other timer with everything it calls, `Start` and `Stop` the
life cycle, `StatsTimeout` the timer that the constructor starts once.

A channel is destroyed from inside its own functions: `stop` sets the link status
to down, the handler of that report deletes the channel, the destructor calls `stop`
again, and when it has freed the object the first `stop` goes on. `calls` is the stack of
what these calls have yet to do: `"signal"` (report the status, `LinkDown`), `"detach"`
(the loops of `stream_channel::stop`, `DetachStreams`) and `"free"` (the end of the
destructor, `Free`). While it is not empty nothing else runs: there is one thread.
`destructions` counts how often the destructor was entered. An owner that deletes a
live channel is not modelled: who owns a channel is decided in a submodule.

What the machine shows outside are its calls of `transmit_ack`, which at this
commit builds no packet; the history variable `acked` collects the ranges.
`owed` holds the packets that asked for an acknowledgment and wait for it,
`overtaken` those whose acknowledgment `channel_transmit` dropped.

### StreamTransmit

One channel and the streams on it. `txQueue` holds queued segments and datagrams
with their byte positions, `sending` the line, `waitingAck` the packets in flight,
`table` the stream ids. Actions: `SetAttaching`, `WriteData`, `WriteDatagram`
(unreliable datagrams, frames of type EMPTY), `SetPriority`, `TransmitOn` (one turn
of the loop in `got_ready_transmit`), `Acknowledged`, `Missed`, `Expire`,
`ClearAttachment`, `DestroyStream`, `DetachAll`, `Stop`. While the loop runs
(`looping`) only the application acts, from `on_ready_write`: it may write and
change priorities.

- `may_transmit` may answer either way: the congestion window is not modelled here.
- Frames carry no payload in the live code (`payload_` is never set), so windows
  and in-flight byte counts never limit a transmission.
- No acknowledgment activates an attachment, so a stream sends Init packets
  (`CanInit`), Reply packets (`CanReply`) or an Attach packet and waits.
- A missed report, or a detachment, puts a datagram back in its stream's queue
  (`Missed`, `HandBack`); stream data is not put back. On a detachment the packets
  come in the order of a hash table, so in any order.
- `tx_attach_data` asserts that it never sends a datagram, but nothing keeps one
  away; the model goes on, as a build without assertions does.
- The fields of a destroyed stream return to fixed values (`ForLiving`).
- `transmit` does not set the packet's sequence number: a packet enters
  `waiting_ack_` under any key, and not at all if the key is taken (`Track`).
- `attach_for_transmit` has no body; `SetAttaching` is a caller that takes an id,
  attaches and gets in line, in the order its comments document.

### CongestionControl, WindowContract

`WindowContract` is what a channel promises its network, in four variables: a
window between two limits, packets out, packets acknowledged, and the one probe a
timeout allows. It says when a packet may go out, by how much the window may open
(the packets newly acknowledged and one), that a loss never opens it and that a
timeout closes it to the smallest one.

`CongestionControl` is the code: the shared transmit state, the strategies `cc_tcp`,
`cc_aggressive`, `cc_delay` and `cc_vegas` (chosen in `Init`; the channel itself
creates a `cc_tcp`), `may_transmit` (`SendData`, `Blocked`), `cc_and_rtt_update`
(`CcAndRttUpdate`) and `retransmit_timeout`. The loop of the last calls
`missed` of the upper layer for every packet, and the upper layer may send from
there, so begin, one turn and end are steps of their own (`TimeoutBegin`,
`TimeoutStep`, `TimeoutEnd`; `sweep` is the loop's position, `seqlim` the limit it
read before the first call).

- The body of `transmit` is disabled and the code that takes acknowledgments in is
  gone. `Transmit` follows the disabled lines; `Acked` and `Miss` are the caller of
  `cc_and_rtt_update` and `missed`, for any set of packets in any order.
- Round-trip times, rates and their bases are floating point numbers: how the last
  one compares with earlier ones is a free choice (`Measurement`).
- The unsigned difference of `cc_aggressive::missed` keeps its width (`UintModulus`).
- `cc_ctcp`, whose `update` asserts false, and `cc_fixed`, an abstract class, cannot
  run. The cumulative averages only go to the log.

The mapping of `KeepsContract`: `window` is `cwnd_`, `out` the count of packets in
flight (0 if the socket below controls congestion and the window is not used),
`acked` the number of acknowledged packets, `probe` is set while the loop of a
timeout runs.

### StreamReceive

Segments received in order (`rx.segs`), the sizes of complete records, three byte
counts, the advertised window, and datagrams. `ReadData` is the whole loop of
`read_data`, `ReadRecord` calls it up to twice, `ShutRead` is `shutdown(read)`, which
`read_data` calls too.

- The handlers of incoming packets are disabled: `RxSegment` and `RxDatagram` are
  their calls of `rx_enqueue_segment` and of `push_back`. The reorder buffer is
  filled by a disabled handler only and stays empty.
- The test of the segment's flags is disabled, so every segment with data completes
  a record, and a segment without data ends the stream for reading when it is read.
- Assertions are compiled out: a read smaller than the next segment takes all of it
  off the queue, although the reader has no room for it.
- Sizes of buffers are ints (`BufRange`). The largest int itself is left out: there
  the loop of `recalculate_receive_window` would shift 2 out of an int.
- History: `delivered` and `taken` (segments received and taken off the queue by
  reads), `cut` (the size of each segment that a reader did not get whole, because
  it was discarded or ran past the buffer, with the `max_size` of that reader),
  `rxDatagrams` and `readDatagrams`, and `stale`, which is true from a call that
  changes the buffer without recalculating the window to the next one that does.

### PeerLookup, StreamConnect, MCStreamConnect

`PeerLookup` has the peers of a host, the lookups they have asked of routing
clients and the handlers they have connected to the clients' signals. Routing
clients and key exchanges are external: a client comes and goes at any time, at an
address used before too, and answers late or twice. `reconnect_timer_` has no
handler, so that it is started has no effect. The history `news` says what the
streams waiting for a peer know: that the search goes on, that it failed, or that
the report is left to the timer or to the key exchange.

`StreamConnect` extends it with the application's stream objects (`user`), base
streams (`ends`, two for each stream: `Near` at the host that opened it, `Far` at
its peer) and the servers. `ConnectTo` is a step of both parts: it creates the
stream and asks the peer to be found. Request and reply of a service are steps of
the environment as far as their arrival goes; what the code does with them is
`RxTopLevel`, `RxSubstream`, the handling of the request at the far end and of the
reply at the near end. A stream is its own unique id. Signals of link status and the
receive side's table of 16-bit ids are left out.

`MCStreamConnect` adds the symmetry of the stream objects and of the routing clients,
which no definition tells apart.

### ShellStream, MCShellStream

Both ends of the codec. Each turn of the loop in `receive` is an action; the
stream between them keeps order and cuts chunks anywhere. A byte has two parts,
the high bit and a digit below `Radix`, so the small instance (two-bit bytes)
still has lengths of several digits, digits equal to the control marker and a
length above the limit.

### TerminalModes, ShellSession, MCShellSession

`TerminalModes` has `termpack` and `termunpack` flag by flag, through the words that
travel (`Bit` is the table of bits, `PackFlags` adds them up, `IsSet` tests one).
Nine special characters travel (`CarriedChars`); the others, for which VMIN and
VTIME stand, come out as 0. `Portable` says independently what should survive.
`ShellSession` has the client, the session with its descriptors and pseudo-terminal,
the child and the watcher's thread. System calls may fail wherever the code looks at
the result; a fatal error ends the program without its exit handler.
`termiosRestore` only logs a failure and the client exits with the terminal raw
(`restoreFailed`). `async_file` never reads or writes at this commit: data has no
effect at the session, and input at the terminal ends the client. The client asks
for one terminal and one command, so the session's refusals of a second one are not
reached. `MCShellSession` gives three terminals: everything on, everything off with
a size and speed that the protocol cannot say, and a usual one.

### Proof modules

`ChannelProofs`, `CongestionControlProofs`, `StreamConnectProofs`,
`StreamTransmitProofs`, `StreamReceiveProofs`, `ShellStreamProofs` and
`ShellSessionProofs` hold the theorems about the module they are named after; the
second has the refinement of `WindowContract` too, the third the theorems about
`PeerLookup`, the last those about `TerminalModes`. `SequenceFacts` has what
they share about numbers, recursive functions and sequences.

Loops of the code that walk a queue, a word or a number are recursive functions in
the models (`Dequeue`, `HandBack`, `Total`, `WithData`, `Shift`, `Digits`,
`PackFlags`): both TLC and the provers can work with these.

## Runs

| Run | Checks | Size |
|---|---|---|
| `channel` | type, 4 invariants, 1 action property, 1 liveness property | 779 thousand states, 80 s |
| `congestion` | type, 3 invariants, 1 action property, 1 liveness property, refinement | 220 thousand states, 24 s |
| `stream_transmit` | type, 6 invariants | 414 thousand states, 40 s |
| `stream_receive` | type, 4 invariants, 1 action property | 951 thousand states, 60 s |
| `stream_connect` | type, 5 invariants | 1.1 million states, 75 s |
| `shell_stream` | type, 2 invariants, 1 liveness property | 16 thousand states, 3 s |
| `shell_session` | 2 invariants, 1 liveness property | 642 states, 1 s |
| `channel_ack_soon`, `channel_idle_timer`, `transmit_queue_order`, `transmit_round_robin`, `shell_escape` | one documented claim each, which the code does not keep | seconds |

`channel`. `AckOnlyReceived`: no range covers a packet that did not arrive.
`FlushCoversOwed`: one flush settles every waiting packet. `OwedHasTimer`: a
waiting packet has a running timer. `DestroyedOnce`: however `stop`, the report, the
destructor and the `stop` in it are nested, the destructor runs once, no timer is left
running, and the one call that goes on in the freed object is the first `stop` (a
finding); it depends on `set_link_status` storing a new status before it reports
it and reporting it once. `AckSequenceAdvances`: the newest number never moves back.
`AckedUnlessOvertaken`: every packet that asks for an acknowledgment gets it,
unless a transmission cancels it (the finding of `channel_ack_soon`) or the
channel dies.

`congestion`. `WindowInRange`: whatever halves, increments and clamps it, the window
never reaches 0 and never passes its limit. `MarkCounted`: `stats_update` never
divides by 0. `InflightExact`: the count is exact even while the upper layer sends
from inside the timeout's loop, and the assertion after the loop holds.
`OneCutPerFlight`: losses among the packets sent before a cut do not cut again.
`NeverStuck`: a sender held back by a full window gets room, acknowledgments or
not. `KeepsContract`: all four strategies implement `WindowContract`.

`stream_transmit`. `EnqueuedOnce` and `SendersReady`: the flag and the line agree
and the assertions of `transmit_on` hold. `LowestFirst`: the stream with the lowest
number stands first while priorities change; the header, the specification and a
test want the highest (a finding). `SidTableExact`: ids and streams match one to one
across reuse. `NoOrphanFrames`: no packet in flight points to a detached or
destroyed stream. `NoStreamForgotten`: an attached stream with data it can send is
in line.

`stream_receive`. `AccountingExact`: bytes available, bytes in records, bytes
charged to the buffer and bytes in the queue are the same, through reads that cross
records and through shutdowns. `WindowTight`: unless the buffer was just resized or
shut, the window, `2^k - 1` bytes, fits in the free space and is the largest of this
form that does. `NothingLost`, `OneRecordPerRead`: records are taken off the queue
in order, once, and one at a time, and a reader gets a record whole unless its
`max_size` is too small for it; beyond `max_size` data is discarded, as the headers
say, or runs past the buffer, where the code has an assertion marked as a bug.
`DatagramsInOrder`: the same for datagrams; an empty one hides none.

`stream_connect`. `OwnerExact`: stream objects and base streams point at each other,
through reconnecting and destruction. `HandedOnce`: an incoming stream waits at one
place, once, and has no owner while it waits. `ConnectedMeansServed`: a stream that
is connected here was handed to the server of that service there. `LookupsAreHeard`:
a peer has handlers at exactly the clients it has noted, all alive, so every answer
is heard and no pointer dangles. `SearchesEnd`: a search is under way exactly while a
lookup or a key exchange is left. Nothing is reported before, and when the last of
them goes the failure is reported, left to the key exchange, or left to the reconnect
timer, which has no handler (a finding).

`shell_stream`. `DecodesInOrder`, `NothingStuck`, `EventuallyDecoded`: what is
decoded is what was sent, up to the first control marker in the data, which is
where the finding of `shell_escape` begins.

`shell_session`. `DescriptorsAccounted`: after any failing call the open descriptors
are those the session will close. `SettingsSurvive`: the pseudo-terminal gets what
the protocol can say of the client's settings before it turned off input processing.
The user's terminal is raw only while the client runs with the original settings
saved, after a fatal error, or after an exit that failed to restore it.
`ExitReported`: the end of the child makes the client exit with its code, 1 if it
was killed, or 0 if the stream ended first.

### Bounds

- `channel`: `MaxSeq` 6 and `Reach` 3 let a gap, an old packet and the count limit
  (`MaxAckCount` 4 for 15) occur together; `DiffModulus` 8 is the smallest power
  of two above twice the reach. The ack thresholds 2 and 4 are the code's own.
- `congestion`: `CWND_MIN` 1 and `CWND_MAX` 4 leave room to halve twice and to clamp
  at both ends; five packets fill the window, complete several round trips and
  let a loss, a timeout and packets sent from inside its loop occur together.
  `UintModulus` 1000 stands for 2^32: any value above all sums shows a negative
  difference as a huge one.
- `stream_transmit`: two streams, one of each kind; `SidSpace` 3 with counters up
  to 4 wraps and skips an id in use; two keys; two priorities. `MaxQueue` 2,
  `MaxBytes` 1 and datagrams on the stream opened here allow entries at equal and
  at different positions, and two datagrams handed back at once. The runs of the
  documented claims allow a second byte and empty segments too.
- `stream_receive`: segments of 0, 1 and 3 bytes, reads of 0, 1 and 4, so that a read is
  smaller than, equal to and larger than a segment and than two records; buffers of
  1 (raised to the minimum of 2) and 8, so that the buffer is overrun by what is
  queued when it is made smaller; four segments; two datagrams, empty or not.
- `stream_connect`: one peer, service and server, two routing clients, so that one may
  fail while the other is still asked, three stream objects and two streams: an
  object that reconnects, a substream with its parent, and an object for the accepted
  end. A second peer or server multiplies the states without a new interaction;
  that a stream goes to the right one of several servers rests on the proof.
- `shell_stream`: four items, chunks of up to three bytes, messages of 1, 3 and 4
  bytes with headers of 1, 2 and 3 length bytes, the last above the limit.
- `shell_session`: one client and session (sessions share nothing), three terminals,
  exit codes 0, 1 and 3. The run has 642 states because the programs do little.

No run checks for deadlock: a destroyed channel, a stopped channel or a stream with
all bounds reached, a sender that has sent everything and a client that has exited
are ends the program really has.

### Fairness

`channel`: weak fairness of `AckTimeout`; a timer that runs fires, because the
host's event loop serves its timers, and of `Unwind`; a call that was made returns.
`congestion`: weak fairness of
`RetransmitTimeout`; `start` starts the timer and every timeout restarts it, so it
always runs, and the loop of the handler ends. `shell_stream`: weak fairness of
`Receive`; client and server call `receive` until it returns nothing and again on
`on_ready_read`. `shell_session`: weak fairness of `OutReady` and `ChildDone`; the
stream below delivers, the client's event loop and the watcher's thread run.
Nothing else is assumed fair: streams need not send, the peer need not transmit or
acknowledge, a child need not end, a lookup need not be answered. `stream_transmit`,
`stream_receive` and `stream_connect` check safety only.

## Proofs

`ChannelProofs` proves type correctness, the four invariants and the action
property of `channel` for every number of packets, every modulus above twice the
reach, and all thresholds with `1 <= MinAckPackets <= MaxAckPackets <=
MaxAckCount + 1` (`SeqAssumption`, `AckAssumption`).

`AckOnlyReceived` is not inductive: it says what was acknowledged, not what the
next flush would acknowledge. `IInv` adds that the range
`rx_ack_sequence_ - rx_ack_count_ .. rx_ack_sequence_` holds received packets
(`WindowReceived`), that the waiting packets are among the last `rx_unacked_`
(`OwedIsRecent`), that the count reaches back over these (`CountReachesBack`, which
is where the assumption on the thresholds is needed: the count saturates at
`MaxAckCount`, and `rx_unacked_` is reset before it gets there), and that nothing
happens before `start` (`QuietBeforeStart`). `Stacks` lists the stacks of calls there
can be, each with the life and the link it occurs with: a live channel is never down
outside a call, so that only the first report is new and a `"signal"` is never below
a `"free"`. `DestroyedOnce` follows from it. `SeqDiffExact` shows that the 32-bit
difference is the true one within reach. Each branch of `acknowledge` and each
other handler then preserves `IInv` (`AcknowledgePreserves`,
`DropPendingAckPreserves`, `ReadyTransmitPreserves`, `StopPreserves`,
`LinkDownPreserves`, `DetachPreserves`, `FreePreserves`).

`CongestionControlProofs` proves type correctness, the three invariants and the
action property of `congestion`, and the refinement, for all four strategies, every
`1 <= CWND_MIN < CWND_MAX`, every number of packets and every modulus above
`MaxSeq + CWND_MAX` (`WindowAssumption`, `WidthAssumption`, `StrategyAssumption`).
The window functions are first bounded one by one (`MissedBounds` and its
companions). `IInv` then adds to the invariants that acknowledged packets and
packets in flight were sent and the marks are of the past (`Positions`), what the
timeout's loop has passed is not in flight and what the upper layer sends meanwhile
fits in the smallest window (`Sweeping`), at most `CWND_MAX` packets are in flight
(`Room`), and the last cut is inside the recovery window (`CutsRecover`, from which
`OneCutPerFlight` follows). `Room` and `Sweeping` are what the refinement needs: the
difference of `cc_aggressive` does not go below 0, and the packet of `TimeoutEnd`
is the probe of the contract.

`StreamConnectProofs` proves type correctness and the five invariants of
`stream_connect`, for every set of peers, clients, services, servers and stream
objects and every number of streams (`NoneIsNothing`, `StreamBound`, `ModesExist`).
- `LookupsAreHeard` and `SearchesEnd` are inductive together with the types of
  the lookup variables (`LookupInv`). `HintPreserves` covers the steps of streams
  that reach the peer, `LookupPreserves` those of the peer itself.
- `OwnerExact`, `HandedOnce` and `ConnectedMeansServed` follow from `CInv`: an end
  that does not exist yet, or whose service is not known yet, has no owner (`Unborn`);
  an end in a queue is idle, without an owner (`QueuesIdle`), and waits once, in one
  queue (`QueuesApart`, over the queues of all servers and of all parents); each end
  is in the states of its side (`Sides`); a stream that is not a substream was opened
  for a service (`ForService`); a positive reply means that the stream was handed to
  the server that listens, and only such a reply connects a stream (`Served`).
  `HandedOnce` alone is not inductive: it does not keep an end that is queued from
  being queued again. `QueuesRest` covers the queues in steps that append nothing.

`StreamTransmitProofs` proves type correctness and the six invariants of
`stream_transmit`, for every set of streams and priorities, every width of the ids
and every bound (`StreamAssumption`, `BoundAssumption`, `NamesAssumption`). `TInv`
joins the six, because they need each other, and adds that the loop of
`got_ready_transmit` runs only while somebody is in line (`LoopHasWork`); without it a
turn of the loop would take the head of an empty line. `EnqueuedOnce` is used in the
form that the line has no stream twice and the flags say who is in it (`LineExact`).
The lemmas say what insertion by priority and removal do to a sorted line without
repetitions (`EnqueueLine`, `DequeueLine`, `TailLine`), and that packets handed back,
in any order, touch only the queues of their owners (`HandBackFacts`).

`StreamReceiveProofs` proves type correctness, the four invariants and the action
property of `stream_receive`, for all sizes of segments and reads and every buffer an
int holds (`SizeAssumption`, `CountAssumption`). Four counters and two queues are one
value: `RInv` says that `rx` is one of `RxStates`, that is, its counters and records are
those of its segments (`Rx(queue, Open)`), or it is empty and shut. `LoopReads`
shows, by induction over the turns, that the whole loop of `read_data` goes from such
a state to such a state and takes at most one record (`Reads`).
`WindowSearch` shows that the loop of `recalculate_receive_window` ends for every
free size, and `WindowFacts` that the window it finds fits and is the largest. Of
datagrams, `DInv` says that what was read, followed by what waits and has data, is
what was received and has data.

`ShellStreamProofs` proves type correctness and the two invariants of `shell_stream`,
for every width of a byte, every marker, every limit and all messages
(`CodeAssumption`, `InputAssumption`). `DecodesInOrder` and `NothingStuck` are not
inductive: they speak of what was returned, and what the next turn returns depends
on the bytes that are left. `SInv` says that the receiver is in step with the sender
(`InStep`) or has passed an escaped marker (`Lost`), after which nothing is claimed.
In step means: what was returned is a prefix of what was sent, and the bytes left, in
the buffer and on the way, are the code of the rest, from the place that `rstate`
names: at its start, within the digits of a length that amounts to `ctl_len_` so far,
or within a message. `StaysInStep` shows that a turn of the loop keeps this. It rests
on the lemmas that a length written digit by digit is read back as itself, and that the
code of a longer input is the code of its parts.

`ShellSessionProofs` proves the two invariants of `shell_session`, for any set of
settings (`CodesAreCodes`, `TerminalsAssumption`), and `SettingsRoundTrip`:
`termunpack` after `termpack` gives `Portable` of any settings. This is arithmetic of
bits: a sum of distinct powers of two has, at each place, the bit that was put there
(`HigherBit`, `BitOfWord`, `PackedBits`). `HInv` adds to `DescriptorsAccounted` the
kinds of the descriptors, that the settings saved are the original ones as long as
the client may exit, and that a request on its way carries them.

Induction. The induction theorems of the library take a property as an operator, and
no installed prover can use them. `SequenceFacts` states induction over a set
instead: a set that holds 0 and the successor of each of its members holds all
natural numbers (`NatInd`, from the well-foundedness of `<` by `LeastNat`), and the
same for ranges and for sequences (`RangeInd`, `SeqInd`). A property is then proved by
showing that the set of values that have it is such a set. `Recursion` shows that
a recursive function defined step by step exists and satisfies its equation.

Only model-checked: the liveness properties `AckedUnlessOvertaken`, `NeverStuck`,
`EventuallyDecoded` and `ExitReported`, which need fairness and `ENABLED` and are
beyond the prover. Every other property of a passing run is a theorem.

## Findings

Eight claims of comments, headers and tests that the code does not keep (details and
quotations in `PROJECT.json`). The first five have a run of their own, which
violates the claim; the others are shown by what a passing run says instead:

1. A transmission cancels a pending acknowledgment without carrying it.
2. The retransmission timer of an idle channel is not disarmed, so an idle channel
   ends in a failed timeout and deletes itself.
3. The transmit queue of a stream is not in order of position: the comparison of
   unsigned positions puts later segments first.
4. Streams of one priority are not served in turn, but last in, first out.
5. The shell decoder stays in the wrong state after an escaped control marker.
6. `stream_channel::stop` goes on in the freed object after `super::stop` has deleted the
   channel (`DestroyedOnce` names the call that is left).
7. The stream with the lowest priority number transmits first, not the one with the
   highest (`LowestFirst`).
8. When the last routing client disappears the waiting streams are not told: the
   reconnect timer has no handler (`SearchesEnd` has the report as due).

Seen while reading, without a run:

- `transmit` never assigns the sequence number its header promises.
- Detaching a stream does not return its data in flight to the transmit queue: the
  stream is told after it is detached (`lib/base_stream.cpp` 2133).
- The guard of the 2^16-byte limit asserted in `tx_attach_data` is disabled, and so
  is the one that keeps datagrams away from it, so that a datagram on an attachment
  not yet acknowledged trips the assertion on line 1015.
- A segment without data ends the stream for reading (`lib/base_stream.cpp` 540):
  the call of `shutdown` is outside the disabled test of the end-of-stream flag.
- A read smaller than the next segment trips an assertion (line 504).
- A stream object stays hooked to the link status of the first peer it connected to
  (`lib/stream.cpp` 163), where `stream.h` 77 speaks of the current peer.
- `framing_t::deframe` hands its handlers a copy of the buffer and never advances.
- Reads and writes of `async_file` always fail.
- The control-message limit of the shell is tested before the last length byte is
  added, so a longer message passes.

## Not modelled

- Key exchange, identities, sockets and event loop: submodules not in the
  repository. With them goes the set-up of channels after a key exchange, whose
  state is in a base class there.
- Encryption and packet layout, statistics and logging: no state a property is
  about. Frame layouts are declared with a library outside the repository.
- Framing: the loop of `deframe` does not advance and `enframe` is disabled; there
  is no behaviour to check.
- Handlers of incoming packets, the reorder buffer, `derive_packet_seq` (no caller),
  `tx_datagram` and `tx_reset` (no caller), reliable datagrams (a substream that is
  opened and left): disabled or unreachable at this commit.
- Headers with drafts of congestion control that nothing includes.
- Platform code, command-line front ends, the test simulator.

## Plan

1. Models and runs of all components in the inventory that have behaviour at this
   commit: done. Proofs of all safety and action properties: done.
2. An abstract specification of the line of senders (a set of ready streams, the
   lowest priority number first) that `StreamTransmit` implements, and of the codec
   (a queue of items) that `ShellStream` implements up to an escaped marker.
3. The calls nested in `stream_channel::stop` joined with `StreamTransmit`, so that the
   detaching of streams by the inner and by the outer call is one model.
