# A TLA+ development for the Sponge TCP/IP stack

The repository is a set of networking labs. `all-lab/` holds the complete user-space
TCP/IP stack ("Sponge"): byte streams, a reassembler, TCP sender, receiver and
connection, an ARP-speaking network interface, a router, and the socket that runs all of
it in a thread. `lab2/` holds a small chat server and client over kernel sockets. `lab4/`
is an earlier snapshot of classes that `all-lab/` completes, and `lab3/` has no code.

This directory models the stack in TLA+: modules that follow the C++ classes, TLC
configurations that check them on small instances, and proofs, checked by TLAPS, that hold
for every instance. `PROJECT.json` records which definition stands for which lines, which
mutated definition breaks which property, and what is known to be hard in the code.

## 1. Inventory

| Part (source) | State | Operations | Talks to |
|---|---|---|---|
| `ByteStream` | buffer, capacity, counts of bytes read and written, ended, error | write, peek, pop, end_input, set_error | both ends of a connection |
| `StreamReassembler` | map from index to waiting substring, next index, count of unassembled bytes, eof index, output stream | push_substring | fed by the receiver, read by the application |
| `WrappingInt32` | none | wrap, unwrap | sender and receiver |
| `TCPReceiver` | peer's ISN, SYN seen, reassembler | segment_received, ackno, window_size | connection |
| `TCPSender` | ISN, outbound stream, next number, last acknowledged number, window, outstanding segments, timer, timeout, retransmission count | fill_window, ack_received, tick, send_empty_segment | connection |
| `TCPConnection` | the two above, linger flag, active flag, time since the last segment, queue of segments | connect, write, end_input_stream, segment_received, tick, destructor | socket thread |
| `NetworkInterface` | ARP table with lifetimes, pending datagrams and a timer per address asked for | send_datagram, recv_frame, tick | Ethernet, router |
| `Router` | routes, interfaces | add_route, route | interfaces |
| `EventLoop` | rules: fd, direction, interest, callback, cancel | add_rule, wait_next_event | socket, applications |
| `TCPSpongeSocket` | TCP thread, socket pair to the owner, abort flag, shutdown flags | connect, listen_and_accept, the loop, wait_until_closed | event loop, adapters, connection |
| adapters | listening flag, addresses, loss rates; over TAP, an interface | read, write, tick | kernel sockets, TUN and TAP devices |
| `bidirectional_stream_copy` | two byte streams, which of them were shut down | the four rules of an event loop | standard input and output, a socket |
| `Buffer`, `BufferList` | shared strings and offsets | append, concatenate, remove_prefix | packets, `FileDescriptor::write` |
| formats (IPv4, TCP, ARP, Ethernet) | none | parse, serialize | everything below TCP |
| chat server, chat client | client list under a mutex; response queue under a mutex, polled | accept, requests, disconnect; connect, send, receive | each other |

How the parts interact: the socket's thread is the only caller of a `TCPConnection`; the
event loop calls it back for datagrams that arrive, bytes that the owner writes, room to
send, and room to deliver, and calls `tick` in between. A connection feeds an incoming
segment to its receiver (data) and then to its sender (acknowledgment and window), and
puts its own acknowledgment number and window on whatever the sender has queued. The two
ends share nothing but the network, which loses, repeats, delays and reorders.

What is hard: segments and acknowledgments applied out of order; 32-bit sequence numbers
that wrap; the window edge and closed windows; retransmission timers across partial, old
and unacceptable acknowledgments; two ends that close at the same time and decide
separately whether to linger; an end that dies; ARP requests, replies and expiry that
race with datagrams; two threads around one shutdown; the shared list of the chat server.
`PROJECT.json` lists these as hazards, each with its line and the properties aimed at it.

What makes each part correct:

* reassembler: the reader gets the stream, in order and once; a byte accepted within the
  window is never given up; the end is signalled exactly at the end;
* sender: it remembers exactly what is in flight, its timer runs just then, it respects
  the window in force, and segments keep their bytes;
* connection: each direction is a pipe; a clean close means that everything arrived; at
  least one end lingers; under benign conditions both ends do finish;
* interface: datagrams go to the right host, in order, none forgotten; addresses are not
  asked for too often and are resolved in the end;
* router: the longest matching prefix wins, no datagram circulates for ever, and one with
  hops to spare arrives at its host;
* socket: it is a pipe across both threads, its thread ends with its work done, and the
  owner's wait for it returns;
* adapters: only what the peer of the connection sent to its port reaches it, unchanged;
  a listening adapter answers from the address that was contacted;
* stream copy: both directions are pipes, and it ends when both are through;
* buffers: removing a prefix leaves the rest, and a write in parts writes everything once;
* chat server: the list has one entry per handler that has not left it, ids are distinct,
  and no handler serves an entry that was never made;
* chat client: answers are printed in order and once, what one thread leaves for the other
  is taken up, and neither locks the other out.

## 2. Modules

| Module | Stands for |
|---|---|
| `ByteStream` | `byte_stream.cc`: a stream is a record, a method an operator from stream to stream |
| `WrappingIntegers` | `wrapping_integers.cc` over any even modulus `MOD` |
| `StreamReassembler` | `stream_reassembler.cc`: `push_substring` in closed form |
| `TCPSegment` | the header fields and the payload that the logic reads |
| `TCPSender`, `TCPReceiver`, `TCPState`, `TCPConnection` | the classes of the same names |
| `NetworkInterface` | `network_interface.cc` |
| `Reassembly` | a reassembler that is handed any substrings of one stream in any order |
| `Sending` | a sender against any acknowledgments, windows and clock |
| `TCPPeers` | two connections, their applications and the network between them |
| `Networks` | the two networks: adversarial (set), and a queue that loses a bounded number |
| `StreamChannel` | abstract specification of one direction of a connection: a pipe |
| `EthernetLan` | hosts with interfaces on one lossy Ethernet |
| `Router` | `router.cc`: routes in the order they were added, interfaces that keep what they receive |
| `Internet` | hosts and routers on several Ethernets, as `network_simulator.cc` wires them |
| `SpongeSocket` | `tcp_sponge_socket.cc` and `util/eventloop.cc`: the owner, the TCP thread with its four rules, the socket pair between them, and a peer |
| `Datagrams` | `ipv4_header.cc`, `ipv4_datagram.cc`, `tcp_header.cc`, `tcp_segment.cc`: checksum, parsing and serialising of sequences of words |
| `Adapter` | `tcp_over_ip.cc`, `tuntap_adapter.hh`: what a TUN device delivers and what reaches the connection |
| `Frames` | `ethernet_header.cc`, `ethernet_frame.cc`, `arp_message.cc` on sequences of words |
| `TapAdapter` | `tuntap_adapter.cc`: `Adapter` over a TAP device, with a `NetworkInterface` of its own |
| `StreamCopy` | `bidirectional_stream_copy.cc` on `util/eventloop.cc` and `util/file_descriptor.cc` |
| `Buffers` | `util/buffer.{hh,cc}`: operators on records and sequences |
| `ChatServer` | `lab2/server/server.cpp`: main, the handler threads, the shared list, descriptors |
| `ChatClient` | `lab2/client/client.cpp`: the menu, the receiving threads, the queue between them, and the server's two-part sends |
| `MCReassembler`, `MCSending`, `MCPeers`, `MCLan`, `MCInternet`, `MCSocket`, `MCAdapter`, `MCStreamCopy`, `MCBuffers`, `MCChat`, `MCChatClient` | instances for TLC |
| `WrappingProofs`, `SendingProofs`, `ReassemblyProofs`, `PeersProofs`, `EthernetLanProofs`, `StreamCopyProofs`, `ChatProofs`, `ChatClientProofs` | theorems |

A class without threads of its own is modelled as a record and one operator per method,
so that the same definitions are used where the class is exercised alone (`Reassembly`,
`Sending`, `EthernetLan`) and where it is part of something larger (`TCPPeers`). The
modules that exercise them hold the variables and have one action per call the code's
callers make; an action is the whole call, with everything the method calls in turn.
Fields keep the names of the source without the leading underscore, shortened in places
(`next` for `_next_seqno`, `last_ack` for the oldest unacknowledged number).

Data is abstracted to what the properties tell apart. Bytes are distinct small numbers, so
that a byte out of place is visible. A segment has the header fields that the logic reads.
A datagram is a model value. Sequence numbers live modulo a small even number with initial
numbers just below it, so that they wrap during every run. In `Datagrams`, where parsing and
checksums are the subject, a datagram is a sequence of words and a header field is one word.

### Closed forms and loops

`push_substring`, `fill_window` and `ack_received` contain loops. In the modules that are
proved about they are written without recursion (what the loop leaves, rather than how).
`MCReassembler` and `MCSending` define the loops literally, statement by statement, as
recursive operators, and the invariants `ClosedFormMatchesLoops` and `SenderMatchesLoops`
compare the two in every reachable state for every input of the instance. `MCBuffers` does
the same for the loops of `buffer.cc` and of `FileDescriptor::write`, over every list of up
to three strings of up to two bytes; nothing there has state, so these are assumptions, which
TLC evaluates at the start of the run `adapter`.

## 3. Runs

Passing runs.

| Run | Instance | Shows |
|---|---|---|
| `reassembler` | 8 bytes, capacity 4, every substring, with and without the end mark | the reader gets the stream; a byte within the window is kept and never lost; the end is signalled at the end, and only there; the closed form is the loop |
| `sender` | modulus 20 with ISN 17, 5 bytes, windows 0..5, payload 2, two timeouts in a row, every acknowledgment number | what is outstanding is what is in flight; timer; accounting; window; payloads; the closed forms are the loops |
| `peers` | 1 byte to a server with a two-byte window, so that the FIN can overtake it, adversarial network, timeouts at any moment, one retransmission before the reset, server may be destroyed | acknowledgments are truthful, the connection is a pipe, a clean close delivers everything, one end lingers |
| `peers_fair` | 2 and 1 bytes, one loss on each path, at most 3 retransmissions | both ends finish cleanly, and both applications have read exactly what was written |
| `lan` | 2 hosts, 2 datagrams, one lost frame, entries live 3 and requests 2 time units | ARP bookkeeping, truth of the table, request rate, order, nothing forgotten, resolution |
| `internet` | 2 hosts behind 2 routers that are each other's default route, routes added in any order, a datagram to nowhere | longest prefix first, TTL runs out, a routing loop ends, what has hops to spare arrives at its host |
| `socket` | 1 byte to and 2 bytes from the peer through a socket pair that holds one; connect and listen; resets, early waits and destruction at any moment | the socket is a pipe both ways; the thread destroys the connection only when that is over and everything was delivered both ways, resets and what the owner shut out excepted; `wait_until_closed` and the destructor return |
| `adapter` | words of 4 bits, 2 addresses and 2 ports at either end, listening or connected, one word of a datagram changed or its end cut off; over TAP, one peer, two next-hop addresses, frames cut off anywhere, two segments written | what is handed over is what the peer sent, unchanged; the peer's adapter understands what is written; over TAP it leaves in order once the next hop is known |
| `stream_copy` | streams and copies of up to 2 bytes, pipes and sockets that hold one, input that is a pipe or not; the socket may end or be reset, the reader may leave | both directions are pipes; the copy ends when both are through, or the socket fails |
| `chat_client` | 2 connections, 3 requests, a message of another client; the server may leave, `recv` may return short | answers in order and once; what waits for main is taken up unless the user stays in the middle of a message; the mutex is taken twice only after a wait in vain |
| `chat` | 4 clients, room for 3, connecting and leaving at any moment | the list counts handlers, stays within the array, ids stay in order, and no handler serves an entry that was never made |

One run ends in a violation of a sentence in the repository (section 6): `socket_throw`.

### Bounds, and why they are enough

* *Reassembler.* With eight bytes and capacity 4 a substring can lie before, across, inside
  and past the window, overlap two waiting ones partly and cover a third, and the output
  can be full. `MaxMiscount` caps only the drift of a counter (`unassembled_bytes()` in section 6).
* *Sender.* Five bytes in payloads of two give three data segments plus SYN and FIN; the
  acknowledgment number ranges over the whole modulus, so partial, repeated, old,
  unacceptable and wrapped ones occur, each with every window. `MaxTries` caps
  retransmissions in a row.
* *Peers.* The adversarial path is the set of everything ever sent, from which any element may
  arrive again at any time: loss, duplication, delay and reordering in one. `MaxInNet` (no
  timeout while a path holds more segments) keeps that set finite. A window of two lets a FIN
  arrive before the byte that precedes it, but a byte cannot overrun it, and numbers do not
  cross an era: the first rests on `AcksTellTheTruth` and `ConnectionIsPipe`, the second on
  `UnwrapOfWrap` and `SenderKeepsFlight` (section 5). In `peers_fair` two bytes fill the window,
  so that it closes and is probed.
* *LAN.* The lifetime (3) and the retry interval (2) keep the order of the code's 30 s and
  5 s, and ticks of 1 and 3 let a timer run down in steps or be overshot. `MaxOnWire` plays
  the role of `MaxInNet`.
* *Internet.* Frames are not lost and no timer runs, which is the subject of the LAN. Two
  routers that send everything unknown to each other are the smallest routing loop; with it come
  TTLs that are 0 from the start, run out in the loop, and are one and two more than the hops,
  in either direction.
* *Socket.* With room for one byte in the pair, a stream of two is handed over in parts and
  fills it; a window of two can be full. The network neither loses nor reorders, which is
  the subject of the peers: here the interleaving of the two threads is.
* *Adapter.* With one word changed, any bad version, length, protocol, address, port, flag or
  checksum occurs, each in an otherwise well-formed datagram, and cut datagrams end at
  every place. `Kept = {2}` leaves the header length alone in the passing run: with it, the
  segment is looked for at another place of the datagram, and nothing but a header checksum
  that is not looked at would tell (section 6).
  Over TAP the datagrams and the segments are few (the filter is the same), but every
  prefix of every frame arrives, for the host, for all and for others; entries live for two
  ticks, so that the next hop is forgotten and asked for again while segments wait.
* *Stream copy.* With room for one byte in every pipe and two in the streams, each side can be
  full while the other is empty, each write is split, and every end comes before, with and
  after the last byte, in the same `poll()` or a later one.
* *Chat client.* Two requests make an answer late and a second one follow it, the third shows
  what is printed when. The second connection is made while a thread may still read from the
  first. One message suffices to fall between the two parts of an answer.
* *Chat.* Three entries and a fourth client: a client in front of, behind and between others may
  leave, a client may be refused, and an entry and a descriptor may be used again. A handler may
  end while its client is still there, as it does when `recv` returns less than it asked for.

Deadlock checking is off for the two `peers` runs, because two closed
connections legitimately stop, for `internet`, where every datagram is delivered or gone
in the end, for the chat runs, where every client has left, stopped or stuck in the end, for
the socket runs, where the socket is gone in the end, and for `stream_copy`, where the program has
ended; it is on elsewhere.

### Fairness

`peers_fair` assumes what the code's event loop provides when the network is benign: an
application eventually closes its stream and reads what is there, a segment that is in the
network and not lost arrives, and time passes. It further assumes that the retransmission
timeout exceeds a round trip and the time an application takes to read: clocks advance
together and only when nothing is under way. Without that, eight spurious timeouts would
reset any connection, which is what `TCPConfig::MAX_RETX_ATTEMPTS` is for. The fairness
conditions are weak fairness written out with the enabling condition of each action,
because TLC is slow at evaluating `ENABLED` for them. Losses are bounded (one each way)
and below the retransmission limit; nothing is assumed of the order of steps.

`lan` assumes weak fairness of receiving and of ticking at every host: frames that are not
lost arrive, and the owner calls `tick`.

`socket` assumes that the TCP thread runs when it can, that the owner reads what is there
and returns from `join` once the thread has ended, and that segments arrive. As in
`peers_fair`, a retransmission timeout passes only when nothing is under way.

`internet` assumes that what can be done is done by each host and router: frames on a wire
are exchanged, received, and routed, as the simulator's loop does in every round.

`chat_client` assumes only that the main thread goes on where it does not wait for the user:
`select` times out and sleeps end. The user may choose whatever and whenever, and the
receiving thread may rest for ever. A user who has chosen to send a message may also leave
it half typed for ever, with main blocked in `scanf` or `fgets`, where it looks at neither the
queue nor the pipe (`"typing"`); that this is not so is the condition of `TakenUp`, and
without it TLC finds the property violated there.

`stream_copy` assumes weak fairness of the program as a whole, of the far end's reads and of
the reader of standard output. The user and the far end need never write or end; that both
directions end is the condition of `Completes`.

### Mutants

Every property of a passing run is shown to depend on the code: for each there is a
mutated form of a mapped definition (a dropped guard, an off-by-one, a missing reset)
under which TLC finds it violated. The mutants stand before the definitions they change.

## 4. Refinement

`StreamChannel` states what a connection promises to its applications: bytes come out in
the order in which they went in, each once, and the end comes out after the last byte and
only if the writer ended the stream. `TCPPeers` instantiates it for each direction with
the bytes written, and the bytes already read or waiting at the other end. `PipeToServer`
(adversarial network, aborts and resets) is this refinement. `SpongeSocket` instantiates it
for the whole path through both threads (`CarriesBothWays`), and `StreamCopy` for both
directions between the user's terminal and the far end (`CopiesBothWays`), so that the same
promise is made at each level: connection, socket, application.

## 5. Proofs

All theorems are for arbitrary constants; the assumptions are stated where the constants
are declared and are evaluated by TLC in every run.

**`WrappingProofs`** needs only `MODAssumption` (the modulus is even and positive).
`UnwrapOfWrap`: an absolute number less than half the space away from the checkpoint is
recovered from its wrapped form. `WrapOfUnwrap`: `unwrap` yields a natural number that
wraps to what it was given. Division by the modulus is reduced to two facts (`DivMod`,
`ModShift`), and the two candidates of the code are compared by cases.

**`SendingProofs`**, from `MODAssumption`, `SenderAssumption`, `SendingAssumption` and
`FlightAssumption` (window, plus payload, plus 2, is below half the sequence space: 65535
and 1000 against 2^31). The sender stores only 32-bit numbers with its outstanding
segments, so the statement that they lie end to end (`OutstandingIsInFlight`) is about
unwrapped numbers and is not inductive. The inductive invariant is

* the types, the outbound buffer within its capacity, and `SequenceSpaceAccounted`;
* there is a sequence of absolute positions, one per outstanding segment, that increases by
  each segment's length from at most `last_ack` to `next` and whose members wrap to the
  stored numbers (`Flight`);
* each outstanding segment holds the part of the stream that belongs at its position, only
  that at 0 has the SYN, and a FIN is the last number (`Carries`, `Chain`); what is buffered is
  the stream from the first byte that was not read (`OfStream`);
* everything in flight is closer than half the space, so the positions are what `unwrap`
  returns;
* the timer runs if and only if something is outstanding.

New segments extend the positions (`FlightGrows`, `NewSegmentsChain`), an acknowledgment
cuts them at the first segment not fully acknowledged (`FirstUnacked`, `FlightShrinks`),
and a tick leaves them alone. From it follow `SenderTyped`, `SenderTimerRuns`,
`SenderAccounts`, `SenderKeepsFlight`, `SegmentsKeepStream` and the action property
`SenderStaysInWindow`.

**`ReassemblyProofs`**, from `ReassemblyAssumption`: whatever substrings of the stream arrive,
the reader gets the stream in order (`DeliveryIsInOrder`), and the two action properties say
that no call gives up a byte within the window (`WindowIsNotForgotten`) and that each accepts
what it is handed there (`WindowIsAccepted`). The invariant says of the reassembler that every
entry of the map is the part of the stream at its index and that no two overlap (`Sound`), and
of the output that what was popped and what is buffered are the first `next` bytes, with the
end marked only at the end (`Delivered`). There is a lemma for each stage of
`push_substring`: where the new part starts, what it swallows, where it is clipped, where it is
put, and what the assembling loop takes from the map.

**`PeersProofs`**, from `PeersAssumption` and those of sender and connection:
`SomebodyAlwaysLingers`. `SomeoneLingers` is far from inductive: that both peers stop lingering
is excluded because each does so only when the other's FIN has been assembled and its own is
not sent yet, so that each FIN would have had to come before the other. The invariant
(`PeersInv`) therefore follows the FIN: only a sender that has cut it off its stream has
segments with a FIN among its outstanding and queued ones, or on a path; only from such a segment
is the end marked in the peer's reassembler; and `linger` is false only behind that mark. Under
it lies the type of everything two connections keep, and the sender's accounting of sequence
numbers, without which "SYN_ACKED" would not tell that the FIN is not sent.
The network is a hypothesis, `HonestNetwork`: an arriving segment is one that was sent on
the path, and losing or delivering one adds none. `AnyOrderIsHonest` and `FifoIsHonest` prove it of
both networks of the runs. There is no bound on the stream, so the theorem covers
connections whose 32-bit numbers are used again.

The other three theorems of the module, `AcksTellTheTruth`, `CleanClosesDeliver` and
`ConnectionIsPipe`, state `AcksAreTruthful`, `CleanCloseDeliversAll` and `PipeToServer`. They add
`CountsInv`, which follows the numbers and the bytes rather than the FIN. What one end may rely on
of the other is a view of it (`PeerView`): its initial sequence number, how far its sender has
come, whether its FIN is sent, what its receiver has acknowledged, and the two texts that the
applications write. Views only grow (`Grows`). `CountsInv` says of each end, in terms of the view
of the other:

* each segment outstanding, queued or on a path has a place in the stream of its sender, all of
  it taken off the stream before, holds the bytes of the text at that place, and acknowledges no
  more than was assembled (`Numbered`, `Place`);
* the reassembler's entries, its output and its end mark lie within what the other sender has
  taken off its stream, and every byte in them is that of the text at its index
  (`ReassemblerCounts`);
* `last_ack` is at most what the other receiver has acknowledged, which is at most `next`; what
  waits in the outbound stream is the text from the first byte that was not taken off
  (`SenderCounts`);
* who is inactive has failed or closed both streams (`Concluded`);
* what the application has read is the beginning of the other's text, as far as its stream was
  read (`HasRead`).

For each operation of receiver, sender and connection a lemma says that it keeps this and lets the
view grow (`ReceivesCounts`, `FillCounts`, `AckCounts`, `ConnSegmentReceivedMoves`, ...); then what
holds of a path or of the other end before the step still does after it (`MadeAsMore`,
`PeerCountsLater`). Where a segment repeats
bytes of another, in the map or on a path, the two cannot disagree, since both hold the text
(`Matches`): so neither the order of arrival nor the cut of a retransmitted segment matters.

For the refinement the same lemmas say what a step does to the two ends of a pipe (`Turn`): a
stream is written to only while it has not ended, the output only grows, and its end is not
undone. `Piped`, which follows from the invariant, says that what was read or waits to be read is
the beginning of what was written, as long as the counter of the output says, and all of it once
that output has ended. So a turn of the client is a `Put`, a `Close` or a stutter, and one of the
server an `Arrive` or a stutter (`PipeStep`); reading, in particular, moves bytes from the buffer
to the application and leaves the pipe as it is.

`FindsPlace` rests on `UnwrapOfWrap`: from any checkpoint in the stream,
`unwrap` finds the place of the segment. This needs `ShortStreams`: each application writes less
than half the sequence space (2^31 bytes in the code). Such a bound cannot be dropped on these networks,
which may repeat a segment at any later time: beyond it an old number is taken for a new one.

**`EthernetLanProofs`**, from `ArpAssumption`, `LanAssumption` and, for the request rate,
`ArpRetry <= ArpTtl` (5 s and 30 s). `ArpIsConsistent`: the three maps of every interface (table,
pending datagrams, timers) agree after every call, for any number of hosts, any timeouts,
losses and frames. `LearnedIsTrue`: an entry maps an address to its host, because every ARP
message on the Ethernet is about its sender (`LanTrue`). `RequestsAreRateLimited`: a request is repeated
only when the timer of the address has run out; the invariant relates that timer to the time since
the last request, and needs that a table entry that was learned meanwhile outlives it
(`LanRated`). `NothingIsForgotten`: while no frame is lost, a datagram waits in its sender's
interface, is on the wire to its next hop, or was handed up there (`LanKept`).

**`StreamCopyProofs`**, from the assumptions of `StreamCopy`: `CopyingImplementsPipes`, the refinement of
`StreamChannel` in both directions. The invariant `CopyInv` says where the bytes of each
direction are: read one after the other, the stages (kernel queue, `ByteStream`, kernel queue,
what has arrived) give what was written, from the last to the first (`Stages`); what the
flags at each stage say about its end (`End`); and what the results of an earlier
`poll()` still guarantee when the loop acts on them (`Results`), which is where an
interleaving with the two far ends could do harm (`BytesAreAccountedFor`). Every
step is then a step of the pipe or a stutter. The theorem is about `Spec`, which `FairSpec`, the
specification of the run, implies.

The module ends with two theorems about the Buffers that the bytes are written from, which need
no assumption: `NewBufferShowsAll` and `RemovePrefixDrops` together say that a `Buffer` shows
what is left of its string after any removals, although the last one lets the string go and
keeps the offset. They need that a `Buffer` with storage has some of it left. What the loops
over lists do is model-checked (`MCBuffers`).

**`ChatProofs`**, from `ChatAssumption`: `ServerCounts`, `IdsAlwaysAscend` and
`ServerServesSomebody`. None is inductive: that main adds a handler rather than restarting
one needs that a connection which has not been entered has none (`UnstartedInv`), and that a
removal at a stale index stays within the array needs that the index was a valid one. The stale index does no harm
to either: shifting a suffix down by one, or cutting the last entry off, keeps an
ascending list ascending. For `ServerServesSomebody`, whose handlers read the list without
the mutex, the invariant is about entries past the end of the list too: what lies on the list,
and what lies at the index of any handler, was written by main (`WrittenInv`); removals only
overwrite it with other entries of that kind.

**`ChatClientProofs`**, from `ChatClientAssumption` (the bounds are natural numbers):
`ClientAnswersInOrder` and `ClientStuckOnlyAfterGivingUp`. The first is about what was printed
and queued only; the invariant follows an answer from the request on. On each connection the
numbers grow from what was printed, over the queue, the hands of the receiving thread, the wire
and the half of an answer that was sent, to what was asked (`Line`). The second needs to know
when the queue is empty: until main has given up on an answer, all that is not printed is at one
place (`AllAt`), and it is nowhere unless main waits (`AtMostOne`), so the queue is empty when
main looks at it ten milliseconds after printing it. Both parts are claimed only as long as no
thread has taken bytes that are not for it (`confused`), where the behaviours of the model end.
The code does not end there: once two receiving threads read one connection, or two handlers of
the server have sent to one client at once, it may queue anything, and neither theorem says what
then becomes of the answers or of the mutex. Actions that move no answer are handled by one
lemma (`LineKept`), the others by one each.

Model-checked only:

* the liveness properties and everything under fairness, and the equality of closed forms and
  loops (recursion over data), which are out of the prover's reach;
* order on the LAN (`DeliveredInOrder`), which is stated with the folds of `SelectSeq`: its proof would
  be an induction over data too;
* the properties of routers and the internet, the socket and the adapters.

## 6. What the models showed

A sentence of the repository that is not what the code does:

* *"TCPConnection::write() accepted less than advertised length"*, an assertion of
  `tcp_sponge_socket.cc`: it fails when a RST and bytes of the owner arrive within one round
  of the event loop, and its exception ends the program. Run `socket_throw`.

More observations have no run of their own:

* *"remove a client from the list"* (`lab2/server/server.cpp:149`): a handler removes the
  entry at the index its client had when it connected, which after another removal is
  another client's (line 151). Three clients suffice: when the first has left, the entries of
  the others lie at 0 and 1; when the second leaves, its handler removes the entry at 1, that
  of the third, and its own stays listed with a closed descriptor. `CountsHandlers` and `IdsAscend`, which
  hold, and are proved, say what the list keeps in spite of it.
* After the TCP thread has ended, the first bytes the user types end the stream copy by
  SIGPIPE, and a connection that failed looks to it like one that was closed:
  standard output ends without an error (`Completes` makes the failed socket an exception).
* An event loop with rules that are not interested polls their descriptors all the same, and
  `poll()` reports a hangup or error of these too, at once: for errors `wait_next_event`
  throws, and for hangups it comes round again without a pause (`eventloop.cc:82-127`).
* An Ethernet frame shorter than its header parses without an error, as one of type 0 from
  and to address 0 (`ethernet_frame.cc:13`); no interface takes it. Frames are dropped if
  their datagram is padded to the Ethernet minimum, because the length must match
  (`ipv4_datagram.cc`).

* *"It is important to check for (at least) the following potential errors"*
  (`ipv4_header.cc:13`, with the version and the checksum in the list): the header's parse
  does check, but `IPv4Datagram::parse` drops its result, so that such a datagram is
  accepted. As `adapter` shows, the checksum of the segment still keeps out what was changed
  on the way, except where the header length was: with `Kept = {}` TLC finds a segment that
  was sent to another port and is handed over. `TCPSegment::parse` and `EthernetFrame::parse`
  drop results too.
* When two answers are in the queue within ten milliseconds of each other, the chat client
  locks `queue_mutex` twice and stops for good (`client.cpp:186-188`).
  `StuckOnlyAfterGivingUp` says when: an earlier wait of 2.5 s was in vain.
* A receiving thread that is in `recv` when main closes the connection goes on with the next
  connection, beside its own thread (`client.cpp:155`, `294`); and a message that the server
  forwards between the two sends of a reply (`server.cpp:70`) is taken for the reply's
  payload. The model follows both up to the first bytes that are taken wrongly.

* `unassembled_bytes()` is *"the number of bytes in the substrings stored but not yet
  reassembled"* (`stream_reassembler.hh:45`), but bytes cut off because the output is full
  are erased and remain counted, so that `empty()` stays false. `Reassembly` models it;
  delivery does not depend on the counter.
* *"Repeated ACKs and outdated ACKs are harmless"* (`tests/send_extra.cc:400`, which repeats one
  window): an old acknowledgment that arrives late replaces the current window by its own, and
  the sender overruns the receiver until the next acknowledgment. The pipe holds nevertheless,
  because the receiver drops what does not fit. The run `peers`, with one byte and a window of
  two, is too small to overrun; this is shown by the theorems (`AcksTellTheTruth`,
  `ConnectionIsPipe`), which hold for every window and every stream below half the sequence
  space.
* After a reset with unread bytes rule 3 of the socket stays interested for ever, so that
  `wait_until_closed` does not return (`WaitsReturn` excepts resets for that reason).
* The RST that the destructor of a socket promises (`tcp_sponge_socket.hh:75`) is queued by
  `~TCPConnection` (`tcp_connection.cc:112`) and destroyed with the queue.
* The reassembler stores a substring that starts within the window and ends past it as a
  whole, beyond *"the memory limits of the `capacity`"* (`stream_reassembler.hh`); a comment
  in `push_substring` accepts that.

## 7. Not modelled

* The bit layout of headers, which the repository tests byte by byte.
* An adapter that listens over TAP, and random losses over TUN or TAP: the parts are
  modelled, their combination adds nothing that the code decides by.
* Addresses, TUN devices and the rest of `util/`: wrappers of system calls. Signals, and the
  check of the event loop for callbacks that neither read nor write: all of these rules do.
* Option parsing in the applications, `webget`, the simulator's scenarios.
* The official TCP states (`tcp_state.cc`) other than those the socket waits in, which only
  tests use.
* Overflow of 64-bit absolute numbers and counters, which no connection reaches.

## 8. Plan

Done: the reassembler, sender, receiver, connection and their composition; the ARP
interface and its Ethernet; the router and the internet; the socket with its event loop;
IPv4, TCP, Ethernet and ARP parsing and the adapters for TUN and TAP; the stream copy;
buffers; the chat server and client; the theorems of section 5. Next, in order:

1. Theorems: `EndsAfterWork` of the socket, `TtlSpent`, `WrittenGoesOut`.
2. A peer that sends arbitrary segments to a connection (an ACK before a SYN).
