# A TLA+ model of the sponge TCP/IP stack

The repository is a user-space TCP/IP stack in C++: a TCP connection made of a
byte stream, a reassembler, a receiver and a sender (`libsponge/`), the socket
that runs it in a thread (`tcp_helpers/tcp_sponge_socket.cc`), a network
interface with ARP, an IP router, and programs built on them. This directory
models them, from the bytes on the wire to the threads of a program, checks them
with TLC on small instances and proves with TLAPS the safety of the sender, the
receiver, the reassembler, two connections over a faulty network, the network
interface, the routing table and the adapters of lab7. `PROJECT.json` lists the
components, the runs, the source lines behind every definition, the hazards and
the theorems.

## 1. The system and its parts

| part | state | operations that change it | talks to |
|---|---|---|---|
| `ByteStream` | queue, capacity, counters, ended, error | `write`, `pop_output`, `read`, `end_input`, `set_error` | application, reassembler, sender |
| `StreamReassembler` | map index -> byte, count, next index, eof flag | `push_substring` | writes a `ByteStream` |
| `WrappingInt32` | none | `wrap`, `unwrap`, `+`, `-` | receiver, sender |
| `TCPReceiver` | isn, SYN/FIN flags, checkpoint, seqno of the FIN | `segment_received` (`ackno`, `window_size` observe) | reassembler |
| `TCPSender`, `Timer` | next seqno, outstanding queue, window, last ackno, RTO, timer | `fill_window`, `ack_received`, `tick`, `send_empty_segment` | reads a `ByteStream` |
| `TCPConnection` | sender, receiver, active, linger, idle time | `segment_received`, `write`, `end_input_stream`, `connect`, `tick`, destructor | the peer's connection |
| `TCPState` | none (a view) | – | tests, socket |
| `EventLoop` | the rules that are not cancelled | `wait_next_event` | descriptors, callbacks |
| `TCPSpongeSocket` | four rules, shutdown flags, thread, abort flag | `connect`, rule callbacks, `_tcp_loop`, `wait_until_closed`, destructor | connection, adapter, owner |
| `FileDescriptor`, `Socket` | end-of-file flag, counts of reads and writes | `read`, `write`, `shutdown` | the kernel |
| `bidirectional_stream_copy` | two streams, four rules | rule callbacks | standard streams, a socket |
| headers, segments, datagrams, frames, ARP messages, buffers, checksum | none | `parse`, `serialize` | adapters, interface |
| adapters | addresses, listening flag | `read`, `write`, `tick` | a UDP socket, TUN or TAP device |
| `NetworkInterface` | ARP cache with ages, queue of waiting datagrams | `send_datagram`, `recv_frame`, `tick` | an Ethernet, router or host |
| `Router`, `AsyncNetworkInterface` | routing table, interfaces with received datagrams | `add_interface`, `add_route`, `route` | interfaces |
| `network_simulator` | hosts with expectations, links | `send_to`, `expect`, `simulate`, `check` | a router |
| `lab7`, `bouncer` | host, router, network thread; learnt peers | the thread's rules, `tick`; forwarding | each other, over UDP |

What is hard about it:

* segments and acknowledgements that are lost, repeated, reordered or late, in
  both directions at once;
* numbers of an unbounded stream sent as 32-bit numbers and recovered from a
  checkpoint that itself moves back and forth;
* buffers, windows and maps that are exactly full;
* closing: who lingers, when both streams count as finished, what a late
  segment does to a connection that is about to close;
* the retransmission timer and the queue it guards;
* ARP requests, replies and expiries interleaved with datagrams;
* routes that form a loop, and routes added under way;
* two threads with an event loop each, a pipe between them that takes part of
  what it is given, poll results that are out of date when they are served;
* packets damaged or cut short;
* an adapter that binds itself to the first of several clients.

`hazards` in `PROJECT.json` pins each of these to the line where it bites.

## 2. Modules

A C++ class is a module of operators on a record: the record is the object, an
operator is a method that maps the object before the call to the object after
it, and carries the method's name. A `...Spec` module puts such objects into an
environment (VARIABLES, Init, actions, Next), states the properties, and is what
TLC runs. `MC...` modules only give values to constants that a `.cfg` cannot
write. A comment in each module says what its state stands for.

| module | models |
|---|---|
| `ByteStream` | `byte_stream.cc`, a stream of bytes; `write` takes what fits |
| `StreamReassembler` | `stream_reassembler.cc`: slicing off what was assembled, storing, assembling, announcing the end |
| `InOrderDelivery` | abstract service: a growing prefix of the peer's stream, ended only when complete |
| `PeerStream` | the stream a peer sends to a reassembler or receiver, and what is read of it |
| `ReassemblerSpec` | one reassembler, a reader, and a peer that pushes anything or (`conforming`, chosen in the initial state) only what the window allows |
| `WrappingIntegers` | `wrapping_integers.cc`, with `Mod` for 2^32 |
| `TCPSegment` | the header fields the protocol uses |
| `TCPReceiver`, `ReceiverSpec` | `tcp_receiver.cc`; a network that delivers the peer's segments in any order; every seqno is unwrapped against the one before |
| `TCPSender`, `SenderSpec` | `tcp_sender.cc`; the loops of `fill_window` and `ack_received` are steps, `pc` tells which call is running |
| `TCPConnection` | `tcp_connection.cc`, the destructor included; the sender's loops run to their end (recursive functions) |
| `TCPState` | `tcp_state.cc`: the summaries and the table of official states |
| `TwoEndpoints` | client and server connection, driven by the rules of the socket's event loop, over a reliable network or one with faults |
| `EventLoop` | `eventloop.cc`: `wait_next_event`, cut where other threads can be seen; the rules are its constants, its state is the set of those that are not cancelled, and the two loops are instances |
| `LocalSocketPair` | a pair of Unix sockets, with the partial reads and writes of `file_descriptor.cc` |
| `TCPSpongeSocket` | `tcp_sponge_socket.cc`: the four rules, the loop, connecting, the end of the thread |
| `StreamCopy` | `apps/bidirectional_stream_copy.cc` |
| `SocketSpec` | `apps/tcp_udp.cc` or `apps/webget.cc` as the owner of a socket, its TCP thread, and the server and network of `TwoEndpoints` |
| `WireFormats` | `parser.cc`, the checksum of `util.cc`, and all headers and packets of `tcp_helpers/`, to the byte; a list of buffers (`buffer.cc`) is its bytes |
| `Adapters` | what the UDP and IPv4 adapters let through, and how they bind |
| `WireSpec` | one packet: serialized, sent, perhaps damaged or cut, read by an adapter or interface |
| `NetworkInterface`, `InterfaceSpec` | `network_interface.cc`; several hosts on an Ethernet that loses frames, each with its clock |
| `Router`, `RoutedNetwork` | `router.cc` and `AsyncNetworkInterface`; hosts and routers on links, with the expectations and checks of `apps/network_simulator.cc` |
| `Lab7` | `apps/lab7.cc` as a server and one or two clients, with `apps/bouncer.cc` between them |
| `TCPLemmas` | what the operators of sequence numbers, streams and the reassembler compute (section 5) |
| `ReceivingProofs`, `SenderProofs` | theorems about `ReassemblerSpec` and `ReceiverSpec`, and about `SenderSpec` |
| `LinkLemmas`, `ConnectionLemmas` | what the methods of sender, receiver and connection keep of the relation between an endpoint and its peer |
| `EndpointProofs` | theorems about `TwoEndpoints` |
| `InterfaceProofs`, `RouterProofs` | theorems about `InterfaceSpec`, and about `RoutedNetwork` and `Lab7` |

Bytes are represented by their index in the stream (`Substring(i, n)` is the
bytes i .. i+n-1), so a byte in the wrong place differs from the right one.
Datagrams carry an identity instead of a payload. A frame's Ethernet addresses,
type and ARP fields are kept. Layout, byte order and checksums are in
`WireFormats` alone; 32-bit fields are pairs of 16-bit halves there.

`TwoEndpoints` takes one step per callback. Rule 1 is `Receive`, rule 2 is
`WriteApp` or `EndApp`, rule 3 is `ReadApp`, `_tcp_loop`'s tick is `Tick`. Rule 4
(passing segments to the network) belongs to the step that made them; sending
later looks like a slower network. `Abort` is the owner setting `_abort`: the
connection is destroyed, and what its destructor queues is lost with it. The
network may lose, duplicate and overtake, and a timeout may come while a segment
is still under way; each such event is a fault, chosen by `Faults` and bounded
by `MaxFaults`. The variable `reliable`, chosen in the initial state, tells
behaviours without faults, which must close and follow the state diagram, from
the others. `ReassemblerSpec` (`conforming`), `RoutedNetwork` (`orderly`) and
`Lab7` (`rival`) use the same device.

`SocketSpec` replaces the client of `TwoEndpoints` by a whole program. The TCP
thread takes a step per poll (`ThreadPoll`: cancel, ask for interest, poll) and
per result that is served (`ThreadServe`); so does the owner in the stream copy
(`CopyPoll`, `CopyServe`), or it is webget (`WebgetWrite`, `WebgetRead`,
`WebgetClose`, `WebgetUnwound`). What the copy does for the standard streams
concerns no other thread and is part of the step before it (`with_standards`).
Between any two steps the other thread may read,
write or shut down the pair. The end of a turn (`socket_pass_end`) is part of the
step that serves its last result: it looks at `_abort` and ticks. `died` records
a signal or an exception that ends the process. The server's application writes
as much as fits (`ServerApplication`); writes of any size are in `TwoEndpoints`.

In `WireSpec` `Send` puts the whole packet on the wire: a TUN or TAP device takes
what one `writev` gives it as one packet, so the loop of `FileDescriptor::write`
runs once, and `sendmsg_helper`, for UDP, has no loop. (Partial writes happen on
the local sockets, in `LocalSocketPair`.) `Damage` changes one bit or all bits of a
byte, `CutShort` drops the end, and `Receive` is the `read` of the receiver's
adapter; of a frame it begins with the check of the destination.

In `Lab7` each program has the adapter of its host, a router with two interfaces
and a network thread that takes one turn per step; TCP is reduced to what the
adapters see, a SYN that is repeated until it is answered, the answer and an
acknowledgement.

## 3. Runs

Twelve configurations. The 40 invariants and properties of the passing runs each
have a mutant in `PROJECT.json`: a plausible bug in the modelled code that makes
TLC report that property.

| run | module | what it shows |
|---|---|---|
| `reasm` | ReassemblerSpec | whatever is pushed, the output is a prefix of the stream, and the map holds only later bytes, counted once; with a conforming peer it implements `InOrderDelivery`, takes every next byte and completes |
| `receiver` | ReceiverSpec | acknowledges exactly what was written; neither ackno nor window edge retreats; in-order delivery over a stream longer than the sequence space; `unwrap` returns the number closest to the checkpoint |
| `sender` | SenderSpec | the timer, the queue, the window, the bytes sent and the FIN: the invariants proved in section 5 |
| `tcp` | TwoEndpoints | reliable: the TCP state diagram is followed, both streams are delivered in order, both sides close, and no byte is missing but the last one of a stream that met a full window; with faults of every kind: delivery is a prefix, only what was sent is acknowledged, and what is not acknowledged is kept |
| `socket` | SocketSpec | no byte is lost between the threads, no exception ends the TCP thread, an end of file comes behind every byte, a dropped socket is joined, everything is copied (with the same exception) and the program ends |
| `wire` | MCWire | packets arrive unchanged, only where they belong, and no damage makes another packet of one |
| `interface` | MCInterface | the ARP cache is true and recent, requests keep their distance, no datagram is doubled, every queued datagram arrives if nothing is lost |
| `router` | MCRouted | the longest prefix wins, drops have one of three reasons, nothing circulates for ever, the first datagram arrives; sent as the simulator sends them, datagrams pass its checks |
| `lab7` | Lab7 | the server is bound to one client and hears nobody else, a client takes only its own answers, a lone client connects |
| `tcp_early_end` | TwoEndpoints | *violation*, see below |
| `tcp_late_ack` | TwoEndpoints | *violation*, see below |
| `router_prefix` | MCRouted | *violation*, see below |

### Where the code disagrees with what it says

* `tcp_early_end`: the end of a stream is announced before its last byte, without
  any fault of the network. A window of 0 counts as 1 (`tcp_sender.cc:69-71`), so
  the last byte is sent to a receiver that is full, and dropped
  (`stream_reassembler.cc:44`). The application reads, the next segment of the
  receiver opens the window, and `fill_window` sends the FIN, in a segment without
  payload, behind the missing byte. `push_substring("", index, true)` latches eof
  and, as the map is empty, ends the stream (`stream_reassembler.cc:82`); the
  retransmitted byte is then dropped by `ByteStream::write`. The documentation
  (`stream_reassembler.hh:35`) says that the last byte of the substring with eof is
  the last byte of the stream. A data segment that is lost before its FIN has the
  same effect (`ClientLen = 1`, `Faults = {"loss"}`, `MaxFaults = 1`). Hence the
  premises `EofInPlace` and `FinInPlace` in the environments of `reasm` and
  `receiver`, and the exception `LastByteCut` below.
* `tcp_late_ack`: a duplicate acknowledgement that arrives late sets
  `_recent_abs_ackno` back after everything was acknowledged. Nothing is
  outstanding, so no further acknowledgement comes, `is_fin_acked()` stays false
  and `tick()` never ends the connection, although `tcp_connection.hh:83`
  describes `active()` as a stream still running or lingering.
* `router_prefix`: the destination is masked but the route prefix is not, so a
  route with bits set below its length (like 128.30.76.255/16 in
  `network_simulator.cc:232`) matches nothing; `router.cc:22` speaks of the
  high-order bits of both.

What remains true on a reliable network is stated with that one exception.
`LastByteCut(p)` says that the stream to `p` has ended exactly one byte short and
that its sender was told of a full window (`_is_window_size_0`, which nothing
clears, remembers it). `InOrder` and `ClosesWhenReliable` of `TwoEndpoints`,
`EndOfFileIsTrue` and `Completes` of `SocketSpec` require the whole stream in every
other case: no other byte is ever missing, none when the reader keeps up, and both
connections close without an error even then. More than one byte cannot go
missing this way: bytes sent behind the dropped one are stored, and while the map
holds any the end waits.

Smaller observations, in the model but without a run:

* a full map refuses the next byte of the stream when a peer goes past the
  window (`stream_reassembler.cc:55`), so `NextByteIsTaken` is stated for
  conforming peers;
* `_is_window_size_0` is set by a zero window and never cleared
  (`tcp_sender.cc:71`), so back-off stays off afterwards;
* the RST made by the destructor is never sent (`tcp_connection.cc:163`): after
  the loop no rule runs any more, although `tcp_sponge_socket.hh:75` says "When a
  connected socket is destructed, it will send a RST";
* the owner of a socket cannot tell a reset from the end of the stream, and a
  write after a reset raises SIGPIPE, which no program handles (`Survives`
  allows it only there);
* webget closes its socket before `wait_until_closed`: `shutdown` fails in the
  owner, then in the TCP thread, and the process is terminated, after all output
  was printed (`webget.cc:39-41`, `tcp_sponge_socket.cc:261-269`);
* when the connection has gone while bytes wait for a full pair, rule 2 of the copy
  is cancelled and rule 1 goes on to read input that nobody takes
  (`bidirectional_stream_copy.cc:31-52`; `BytesConserved` allows it only there, and
  it needs a copy buffer of three bytes to happen);
* a hang-up on a rule without interest makes `poll` return at once; while the
  connection lingers the loop spins (`eventloop.cc:86`);
* `IPv4Datagram::parse`, `TCPSegment::parse` and `EthernetFrame::parse` ignore
  what the header's `parse` returns (`ipv4_datagram.cc:13`, `tcp_segment.cc:20`,
  `ethernet_frame.cc:13`); `HeaderDamageIsFound` says that the header's parser
  does notice, `DamageIsHarmless` what protects the packet all the same;
* two clients of lab7 with the same addresses take each other's answers away at
  the bouncer, which serves the one heard last (`bouncer.cc:32`);
* the router of lab7 ages 50 ms in every turn, however short it was
  (`lab7.cc:254`);
* a datagram sent while an ARP request for its next hop is pending is dropped
  (`network_interface.cc:40`), and an ARP reply flushes one queued datagram
  only; `QueuedArrives` and `DropsAreJustified` say what remains true.

### Bounds

* Moduli of 12 to 40 stand for 2^32, chosen so that streams of `receiver` and
  `sender` are longer than the sequence space, and that in `TwoEndpoints` the
  client's numbers wrap in the handshake (ISN 38 of 40). The assumption kept is
  the real one: windows and lateness are well below half the sequence space.
* Capacities of 2 to 4 against streams of 1 to 18 bytes make windows and buffers
  full, empty and reopened; payloads of 1 or 2 bytes make several segments.
* `MaxStale` bounds how far back a late segment or ackno lies; 1 or 2 suffices
  to move the checkpoint back over an acknowledged segment.
* In `tcp`, `MaxFaults = 2` allows pairs such as a loss and an early timeout, or a
  duplicate that overtakes. The client sends two bytes; the server three on the
  reliable network, one more than the receiver can hold, so that its last byte
  meets a full window, is dropped and is repeated, before or after the FIN. Where
  there are faults the server sends none (`LossyServerLen`).
* `socket`: one byte in each direction of the pair and in the copy's buffers, so
  that every transfer is partial or blocks; four bytes from the server (none
  where there are faults), one from the client; one fault. With three, no byte
  would meet a full window: the pair holds one and the connection two. With two,
  no byte would be left in the connection behind a full pair when the end of the
  stream has come.
* `wire`: four segments and two ARP messages, with and without options, with
  payloads of 0 to 3 bytes and fields at their limits; every byte that may be
  damaged, every length it may be cut to.
* `lab7`: a pending time of 3 and a mapping time of 4 turns: entries expire
  during the handshake. The server is started first: before that nothing
  answers, and the queue of waiting datagrams grows with every repeated SYN.
* `RtTimeout = 1`, `LingerFactor` 1 or 2 (10 in the code), `MAX_RETX_ATTEMPTS` 1 or
  2 (8 in the code): giving up and lingering happen within a few ticks.
* `interface`: three hosts, of which two send and tick, two datagrams, one lost
  frame, a pending time of 2 and a mapping time of 3 ticks (5 s and 30 s in the
  code; what counts is that a pending entry expires first).
* `router`: three-bit addresses, two routers, three links, two datagrams with a
  time to live of 2, used up on the way, or 4, enough for both routers and for
  the loop to end one of them.

Deadlock checking is off except in `interface` and `lab7`: streams end,
connections close and networks fall silent, and the runs ask about that with
liveness properties.

### Fairness

* `Completes`: the peer retransmits what is missing (the sender's timer) and the
  application reads (rule 3).
* `ClosesWhenReliable`, `Closes`: the event loop polls every rule on every turn
  and wakes at least every 10 ms, so an enabled rule and the tick eventually run; the network
  delivers what it does not lose. The application writes and closes while it
  can: that is an assumption on the application. For steps that run the loops of
  a connection weak fairness is written out (`[]<>~Enabled \/ []<>Step`) because
  TLC is slow in finding their enabledness.
* `DropEnds` and `Completes` of `SocketSpec`: both threads are scheduled, and the
  server is as fair as above. An actor that can change its part of the state
  does so eventually; turns that change nothing do not count.
* `Connects`: the network threads, the hosts' loops and the bouncer handle what
  has come, poll calls time out, and TCP repeats its SYN (strong fairness: it is
  possible only when nothing is under way).
* `QueuedArrives`, `NothingCirculates`, `FirstArrives`: the owner of an interface
  keeps taking frames and calling `route`, as `Network::simulate` does.

No fairness is assumed of faults, ticks of hosts, or new datagrams.

## 4. Refinement

`InOrderDelivery` has two variables: what was delivered and whether the end was
announced. A step extends the delivered prefix, and the end comes only when it
is complete. `ReassemblerSpec`, `ReceiverSpec` and (twice, once per direction)
`TwoEndpoints` implement it, with `delivered` mapped to what the application
popped followed by what is buffered, and `ended` to `input_ended`, in
`TwoEndpoints` only on a reliable network and unless `LastByteCut`. TLC checks
each as the property `InOrder` (`ReassemblesInOrder` for the first); for the
first two TLAPS proves it (`ReassemblerRefines`, `ReceiverRefines`). Of
`TwoEndpoints` it proves the part about bytes (`Delivery`), for a network with
faults, too; that the end is announced only when all is delivered does not hold
there (`tcp_early_end`).

## 5. Proofs

TLAPS checks the following for all values of the constants that satisfy the
named assumptions. From nothing the proofs take about an hour and a half
when the modules are checked one after the other.

| what a run checks | theorem |
|---|---|
| `reasm`: `DeliveredIsPrefix`, `MapIsAhead`, `NextByteIsTaken`, `ReassemblesInOrder` | `ReassemblerDelivers`, `ReassemblerCounts`, `ReassemblerProgresses`, `ReassemblerRefines` |
| `receiver`: `AckedIsDelivered`, `WindowNeverRetreats`, `ClosestToCheckpoint`, `InOrder` | `ReceiverAcks`, `ReceiverNeverRetreats`, `ClosestAlways`, `ReceiverRefines` |
| `sender`: all six | `SenderTimer`, `SenderQueue`, `SenderKeeps`, `SenderWindow`, `SenderGenuine`, `SenderFin` |
| `tcp`: `DeliveredIsPrefix`, `AckedWasSent` | `Delivery`, `Acknowledgement` |
| `interface`: `CacheIsTrue`, `RequestsAreSpaced`, `AtMostOnce` | `InterfaceCache`, `InterfaceSpacesRequests`, `InterfaceNeverDoubles` |
| `router`: `LongestPrefixWins` | `RoutersUseLongestPrefix` |
| `lab7`: `OnlyFromPeer`, `AnswersAreMine` | `ServerHearsItsPeer`, `ClientsTakeTheirAnswers` |

**Sequence numbers.** `UnwrapInvertsWrap`: for every modulus, a number less than
half the modulus away from the checkpoint is recovered by `unwrap` from its
wrapped form. It rests on facts about `%` (`ModRange`, `ModUnique`,
`ModDivides`), and a case split on the branch `unwrap` takes. `UnwrapIsClosest`:
no number with the same wrapped form is closer to the checkpoint; two such
numbers are a multiple of the modulus apart (`MultiplesApart`), and each branch
leaves at most half of it. `RoundTripAlways` and `ClosestAlways` lift both to the
receiver of `ReceiverSpec`, whatever segments arrived.
`RoundTrip` and, of the sender, `TypeOK` and `SeqnosUsedOnce` are proved only:
the first follows from `ClosestToCheckpoint`, the others are parts of `IInv`.

**The reassembler.** `ReassemblerInvariant` is
`ReassemblerSpec => []ReassemblerInv`. What is needed
beside the properties is in two predicates of `TCPLemmas`. `Sound` holds
whatever is pushed: the output holds the bytes of the stream before
`num_written`, the map only bytes from `next_index` on, each at its own index,
and the two counters agree until the end was announced (afterwards `write`
takes nothing while `next_index` may still move, which is why they are kept
apart). `Conforms` holds with a peer that respects the window: the map stays
inside window and stream, and once eof was seen the last byte is assembled or
waits, so the stream is ended exactly when nothing waits. `PushFacts` says what
`push_substring` does to a sound object, in the order of the code: slicing off,
storing up to the capacity, taking the longest contiguous run that fits
(`MaxIsGreatest`), announcing the end. The counting facts come from the library's
theorems on finite sets. `NextByteIsTaken` is the deepest use of them: all that
waits lies inside the window, so the map never grows past the capacity and line
55 refuses nothing. `Conforms` is kept under the premise `EofInPlace`,
which the run `tcp_early_end` shows to be necessary.

**The receiver.** The same lemmas serve for the object it
contains. Its `IInv` adds that the SYN fixed the initial number, that the FIN's
number is known exactly when eof is latched, and `CheckpointInv`: the
checkpoint, which is the number of the last segment and so jumps back and forth,
is not beyond the window's end nor more than `MaxStale + Capacity` behind the
next index. The next segment is then less than `MaxStale + 2 * Capacity + 2`
away from it, which is what makes `UnwrapInvertsWrap` applicable; only so is the
index given to `push_substring` right. `ReceiverConstants` assumes that this
distance is at most half of `Mod` (windows of 2^16 against 2^32) and that
`StreamLen < Mod * Mod` (stream indices are 64-bit numbers).

**The sender.** `SenderInvariant` is `Spec => []IInv`; from it follow
`SenderTypes`, `SenderTimer` (`tick` never takes the front of an empty queue),
`SenderNumbers` (every number is used once, FIN last), `SenderQueue` (the queue
is contiguous), `SenderKeeps` (it has all that is unacknowledged), `SenderWindow`,
`SenderGenuine` (all that is sent, retransmissions included, is a piece of the
stream at its own place) and `SenderFin`.

None of these is inductive alone. To drop a segment from the queue, the code
unwraps its 32-bit number with `_recent_abs_ackno` as the checkpoint; that the
result is right needs the first outstanding segment and the checkpoint to be
close, which needs the window to have been respected and acknos to be late by a
bounded amount. So `IInv` joins the stated properties with

* `StreamInv`: what is in the outbound stream is genuine (`TCPLemmas`:
  `write`, `peek_output` and `pop_output` keep it so);
* `TimerInv`, `SynInv`: the timer and flags in every phase of a call;
* `LengthInv`, `FirstInv`: lengths of the queued segments, and that the first one
  is not covered by `_recent_abs_ackno`;
* `NearInv`: checkpoint, running ackno and right window edge lie within
  `MaxStale + MaxWin + 2` of each other.

There is one lemma per action (`WriteInv`, ..., `FillStepInv`) and `NextInv`
joins them. `AcknoRecovered` and `HeadRecovered` are the two places where
`UnwrapInvertsWrap` is used.

Assumptions: `SenderConstants`, of which the one that matters is
`2 * (MaxStale + MaxWin + 2) < Mod`: windows (at most 2^16) and the lateness of
acknos are far below half of 2^32. The environment acknowledges only what was
sent (`AckCall`). `MaxRetx` and `StreamLen` bound TLC's runs and are arbitrary in
the proofs.

**Two connections.** `Inductive` is `Spec => []IInv` for `TwoEndpoints`: for all
lengths of the streams, capacities, payload sizes, initial numbers and moduli,
with any number of faults of every kind, early timeouts and aborts included. What
was an assumption on the environment of the sender and of the receiver alone is
proved here of the peer: acknowledgements acknowledge what was sent, segments
are pieces of the stream. The heart of `IInv` is a relation between the objects
at the two ends, for either direction:

* `Link(s, r)`, for a sender and the receiver of its peer: the numbers used are
  those of the SYN, of the bytes taken from the stream and of the FIN
  (`Numbered`); what is outstanding is contiguous up to `next_seqno` (`Queued`);
  the sender has let go of nothing that the receiver has not acknowledged, and
  has heard nothing before the receiver has the SYN (`Heard`); the receiver has
  the peer's initial number, a sound reassembler and no byte that was not sent
  (`Tracks`);
* `InTransit`: a segment under way is a piece of the sender's stream at its own
  number, or empty, and its ackno is the present one of its receiver or an
  earlier one. Lateness needs no bound: these facts stay true while both ends
  move on (`Grows`, `Progresses`);
* `Paired` adds that the timer runs only while something is outstanding, `Ready`
  that the application wrote no more than it has, `Got` that it got what was read.

`LinkLemmas` shows of each method of the sender that it keeps `Link` (`AckRounds`
and `FillRounds` are the loops of `ack_received` and `fill_window`, followed
round by round up to the one where they stop); `ConnectionLemmas` does so for
the receiver and for `segment_received`, `write`, `tick` and the other methods of
the connection, RST and destructor included; `EndpointProofs` takes the actions
of `TwoEndpoints` one by one. Each is a `Step(p)`, which leaves the peer's
connection alone. `Delivery` and `Acknowledgement` follow from `Link`.
Assumption: `EndpointConstants`, which says that the streams fit into half of the
sequence space. It is needed because the network of the model may keep a
segment for ever. Streams longer than the sequence space are the subject of
`ReceiverSpec` and `SenderSpec`, where lateness is bounded instead.

**The interface.** `InterfaceInvariant` is `Spec => []IInv` for any set of hosts,
any number of datagrams and any losses. `IInv` joins

* `TypeInv`: the frames of a host are its own ARP messages or datagrams
  addressed to their next hop, a cache entry is the address of its host or marks
  a request and is younger than its lifetime, what is passed up has arrived where
  it was meant to;
* `HeardInv`: a learnt entry is at least as old as the last ARP message of its
  host is long ago; with the lifetime this is `CacheIsTrue`;
* `AskedInv`: while less than `PENDING_TIME` has passed since a request, the
  entry is there and no older than the request, be it still pending or replaced
  by a reply; this is why no second request is sent;
* `CopyInv`: the copies of a datagram in `frames_out`, in `ARP_queue` and passed
  up add up to one at most, at one host, and to none before it is sent.

One lemma says what each method does to an interface (`SendFacts`, `RecvFacts`
with `LearnFacts`, `FlushFacts` and `AnswerFacts`, `TickFacts`), one what each
action does to the invariant (`SendInv`, `TransmitInv`, `TickInv`). The delicate
point of `AtMostOnce` is that `recv_frame` sends a datagram from the queue it is
still in and erases it afterwards; copies are therefore counted
(`NumberAppend`, `NumberTail`, `NumberErased`). Assumptions: Ethernet addresses
differ and are not the broadcast address (`HostAssumption`), and
`PENDING_TIME <= MAPPING_TIME` (`TimeAssumption`; 5 s and 30 s in the code).
`RequestsAreSpaced` needs the latter: with a shorter `MAPPING_TIME` a reply could
expire within the pending time, and the next datagram would ask again.

**The routing table.** `LongestMatch`: on a table of any length, whose routes
have no bits set below their length, the loop of `route_one_datagram` returns the
longest agreeing route, the first of several, or none if none agrees. The premise
is the one the run `router_prefix` shows to be necessary. The argument is the
loop invariant `BestOf`; masking and comparing high bits are related by
`ClearedIsHigh`. `RoutersUseLongestPrefix` lifts it to every network and every
reachable table: `route` never touches the table (`OneKeeps`, `QueueKeeps`,
`RouteKeeps`, one per loop) and `add_route` appends an aligned route. Loops are
recursive functions here; that the function exists and what it keeps is shown
from the least number where it would fail (`UpTo`), as the library's induction
theorems cannot be used. `BitsAssumption` contains one arithmetic fact, that
powers of two are positive numbers, because the provers know nothing about
exponents; TLC evaluates it.

**lab7.** `Lab7Invariant` is `Lab7Spec => []Lab7Inv`, for every `Tick`, every
lifetime of ARP entries and requests and every order in which threads, hosts and
bouncer run, with one client or two. `ServerHearsItsPeer` says that the server is
bound to the first client whose SYN came up; the delicate theorem is
`ClientsTakeTheirAnswers`. Both clients have the same address, and the bouncer
gives the server's datagrams to the one heard last, so an answer does reach the
wrong host; only the port tells. `Lab7Inv` therefore says of a set `P` of ports,
empty at first and then the one port the server is bound to, that every segment
from the server's port, wherever it is, goes to a port in `P`: in the frames
between host and router, in a queue that waits for an ARP reply, in a router's
received datagrams, with the bouncer (`ProgramOk`, `RecordsOk`). That interfaces
and routers neither make nor change a datagram, but for its time to live, is
proved method by method (`SendOk`, `RecvOk`, `TickOk`, `RouteOk` in
`RouterProofs`), the loops of `route` as in the section above. A turn of the
network thread serves the rules that were ready when it began; `TurnOk` carries
along that each of them still has its frame when it is served, although the
rules before it have worked on the same router (`NetworkTurnOk`).

**Only model-checked.**

* Liveness: `Completes`, `ClosesWhenReliable`, `Closes`, `DropEnds`,
  `QueuedArrives`, `NothingCirculates`, `FirstArrives`, `Connects`. The prover
  has no support for fairness and ENABLED.
* `FollowsDiagram` and `InOrder` of `TwoEndpoints`: both are about the reliable
  network only, and need to know which segments can be under way together.
* `BytesConserved`, `Survives` and `EndOfFileIsTrue` of `SocketSpec`: what each
  of the two event loops may still do depends on the poll results it holds, the
  flags of both ends of the pair and where the other thread is.
* All of `WireSpec`: the parsers use RECURSIVE operators, which the prover cannot
  handle, and what they compute is an induction over the bytes.
* `DropsAreJustified`: the queues of all interfaces are concatenated
  (`Received`), and what a whole pass of `route` does with each datagram is an
  induction over them.
* `ChecksPass`: it depends on the topology, and that every datagram has settled
  before the check is an argument about termination.

## 6. Not modelled

* Addresses, TUN and TAP devices, opening and binding of sockets, wrappers of
  system calls: pure I/O. A signal that interrupts `poll`, and POLLERR.
* Printing (`to_string`, `summary`, hexdump, debugging output) and the options of
  the command-line programs. `tcp_ipv4`, `tcp_ip_ethernet` and `tcp_native` are
  `tcp_udp` with another adapter or the kernel's TCP; `udp_tcpdump` and `tun`
  print what they read.
* `tcp_benchmark`: one fixed schedule of two connections, among those of
  `TwoEndpoints`.
* The end of `lab7` (`exit_flag`, join) and its full TCP: its state space and
  that of `TwoEndpoints` do not fit into one run. For the same reason the
  listening adapter and `LossyFdAdapter` are not composed: a SYN dropped after
  the adapter has bound itself to its sender is seen by neither run.
* Back-off of the retransmission timer relative to real time (`tcp_sender.cc:112`):
  the clocks of the models count timeouts, not milliseconds.

## 7. Plan

Done: the TCP classes and their composition, the socket with its threads and
event loops, the programs on top, the wire formats and adapters, the interface,
the router and the networks made of them; the theorems on sequence numbers, the
sender, the reassembler, the receiver, two connections, the interface, the
routing table and lab7. Next:

1. Proofs: `BytesConserved` on top of `EndpointProofs`, thread by thread;
   `DropsAreJustified`, queue by queue.
2. A run that contradicts `tcp_sponge_socket.hh:75` (the RST of a destroyed
   socket), and a clock for the back-off of the sender.
