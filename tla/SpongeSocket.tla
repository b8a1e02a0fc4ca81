----------------------------- MODULE SpongeSocket -----------------------------
(***************************************************************************)
(* tcp_helpers/tcp_sponge_socket.cc on util/eventloop.cc: the owner thread *)
(* and the TCP thread around one TCPConnection.  They share a pair of      *)
(* connected stream sockets (up: from the owner, down: to it) and _abort.  *)
(* The TCP thread (during connect() and listen_and_accept(): the owner)    *)
(* calls wait_next_event() and tick() in turn.  At the other end of a      *)
(* network that neither loses nor reorders is a connection whose           *)
(* application reads at once and may reset the connection.                 *)
(***************************************************************************)
EXTENDS TCPConnection

CONSTANTS Byte,
          OwnerData, PeerData,   \* what the owner and the peer's application will write
          OwnerIsn, PeerIsn,
          Capacity,              \* of the connections' streams
          PipeRoom,              \* the bytes that each direction of the socket pair holds
          Resets                 \* whether the peer may reset the connection

ASSUME SocketAssumption ==
  /\ OwnerData \in Seq(Byte) /\ PeerData \in Seq(Byte)
  /\ OwnerIsn \in WrappingInt32 /\ PeerIsn \in WrappingInt32
  /\ Capacity \in Nat \ {0} /\ PipeRoom \in Nat \ {0}
  /\ Resets \in BOOLEAN

VARIABLES owner,      \* what the owner is doing: "new", "connecting", "listening", "open",
                      \* "waiting" (wait_until_closed), "destructing", "gone"
          loop,       \* the TCP loop: "idle", "poll", "callbacks", "tick", "done", "threw", "killed"
          ready,      \* the rules whose callbacks wait_next_event() has yet to call
          rules,      \* the rules that have not been cancelled
          tcp,        \* _tcp, and once the loop is done what it was when _tcp.reset() destroyed it
          listening,  \* the adapter's flag
          inbound_shutdown, outbound_shutdown,
          abort,
          up, down,   \* bytes on their way between the threads
          up_shut, down_shut,   \* the socket pair was shut down in that direction
          thread_eof, \* _thread_data.eof()
          wrote,      \* the number of bytes that the owner has written
          got,        \* the bytes that the owner has read
          got_eof,    \* the owner has read the end of the stream
          peer, peer_got,
          to_tcp, to_peer   \* the network

pair   == <<up, down, up_shut, down_shut>>
far    == <<peer, peer_got>>
owned  == <<wrote, got, got_eof>>
flags  == <<inbound_shutdown, outbound_shutdown, thread_eof>>
vars == <<owner, loop, ready, rules, tcp, listening, abort, to_tcp, to_peer, pair, far, owned, flags>>

Init ==
  /\ owner = "new" /\ loop = "idle" /\ ready = {} /\ rules = 1 .. 4
  /\ tcp = NewConnection(OwnerIsn, Capacity, Capacity)
  /\ listening = FALSE /\ abort = FALSE
  /\ inbound_shutdown = FALSE /\ outbound_shutdown = FALSE /\ thread_eof = FALSE
  /\ up = <<>> /\ down = <<>> /\ up_shut = FALSE /\ down_shut = FALSE
  /\ wrote = 0 /\ got = <<>> /\ got_eof = FALSE
  /\ peer = NewConnection(PeerIsn, Capacity, Capacity) /\ peer_got = <<>>
  /\ to_tcp = <<>> /\ to_peer = <<>>

outbound == tcp.sender.stream
inbound  == inbound_stream(tcp)

-----------------------------------------------------------------------------
(* The owner. *)

Connect ==
  /\ owner = "new"
  /\ owner' = "connecting" /\ loop' = "poll"
  /\ tcp' = connect(tcp)
  /\ UNCHANGED <<ready, rules, listening, abort, to_tcp, to_peer, pair, far, owned, flags>>

ListenAndAccept ==
  /\ owner = "new"
  /\ owner' = "listening" /\ loop' = "poll"
  /\ listening' = TRUE
  /\ UNCHANGED <<ready, rules, tcp, abort, to_tcp, to_peer, pair, far, owned, flags>>

\* The owner writes its bytes one by one, and then shuts down its side.
Write ==
  /\ owner = "open" /\ ~up_shut
  /\ Len(up) < PipeRoom /\ wrote < Len(OwnerData)
  /\ up' = Append(up, OwnerData[wrote + 1])
  /\ wrote' = wrote + 1
  /\ UNCHANGED <<owner, loop, ready, rules, tcp, listening, abort, to_tcp, to_peer,
                 down, up_shut, down_shut, far, got, got_eof, flags>>

ShutdownWrite ==
  /\ owner = "open" /\ ~up_shut /\ wrote = Len(OwnerData)
  /\ up_shut' = TRUE
  /\ UNCHANGED <<owner, loop, ready, rules, tcp, listening, abort, to_tcp, to_peer,
                 up, down, down_shut, far, owned, flags>>

Read ==
  /\ owner = "open" /\ ~got_eof
  /\ down # <<>> \/ down_shut
  /\ got' = got \o down
  /\ down' = <<>>
  /\ got_eof' = (down = <<>>)
  /\ UNCHANGED <<owner, loop, ready, rules, tcp, listening, abort, to_tcp, to_peer,
                 up, up_shut, down_shut, far, wrote, flags>>

\* wait_until_closed(): shutdown(SHUT_RDWR), then join().
WaitUntilClosed ==
  /\ owner = "open"
  /\ owner' = "waiting"
  /\ up_shut' = TRUE /\ down_shut' = TRUE
  /\ UNCHANGED <<loop, ready, rules, tcp, listening, abort, to_tcp, to_peer, up, down, far, owned, flags>>

\* ~TCPSpongeSocket(), and join().
Destruct ==
  /\ owner = "open"
  /\ owner' = "destructing"
  /\ abort' = TRUE
  /\ UNCHANGED <<loop, ready, rules, tcp, listening, to_tcp, to_peer, pair, far, owned, flags>>

Join ==
  /\ owner \in {"waiting", "destructing"} /\ loop = "done"
  /\ owner' = "gone"
  /\ UNCHANGED <<loop, ready, rules, tcp, listening, abort, to_tcp, to_peer, pair, far, owned, flags>>

-----------------------------------------------------------------------------
(* wait_next_event(): interests, poll(), callbacks. *)

\* Rule 2 is cancelled once its descriptor is at eof: _tcp->end_input_stream() again.
cancels_2 == 2 \in rules /\ thread_eof
polled    == IF cancels_2 THEN end_input_stream(tcp) ELSE tcp
remaining == IF cancels_2 THEN rules \ {2} ELSE rules

\* Mutation: rule 1 ends with the outbound stream.
interest_until_shutdown(i, c) ==
  CASE i = 1 -> active(c) /\ ~outbound_shutdown
    [] i = 2 -> active(c) /\ ~outbound_shutdown /\ remaining_capacity(c.sender.stream) > 0
    [] i = 3 -> \/ inbound_stream(c).buffer # <<>>
                \/ (eof(inbound_stream(c)) \/ inbound_stream(c).error) /\ ~inbound_shutdown
    [] i = 4 -> c.segments_out # <<>>

\* Mutation: rule 3 stays interested after the end was handed over.
interest_ever_after(i, c) ==
  CASE i = 1 -> active(c)
    [] i = 2 -> active(c) /\ ~outbound_shutdown /\ remaining_capacity(c.sender.stream) > 0
    [] i = 3 -> inbound_stream(c).buffer # <<>> \/ eof(inbound_stream(c)) \/ inbound_stream(c).error
    [] i = 4 -> c.segments_out # <<>>

interest(i, c) ==
  CASE i = 1 -> active(c)
    [] i = 2 -> active(c) /\ ~outbound_shutdown /\ remaining_capacity(c.sender.stream) > 0
    [] i = 3 -> \/ inbound_stream(c).buffer # <<>>
                \/ (eof(inbound_stream(c)) \/ inbound_stream(c).error) /\ ~inbound_shutdown
    [] i = 4 -> c.segments_out # <<>>

interested == {i \in remaining : interest(i, IF i = 1 THEN tcp ELSE polled)}

is_ready(i) ==
  CASE i = 1 -> to_tcp # <<>>
    [] i = 2 -> up # <<>> \/ up_shut
    [] i = 3 -> Len(down) < PipeRoom
    [] i = 4 -> TRUE

\* Nothing but a hangup on a descriptor that is polled: the rule is cancelled.
hung_up == IF up_shut /\ down_shut THEN {i \in interested \cap {2, 3} : ~is_ready(i)} ELSE {}

after_cancels == tcp' = polled /\ outbound_shutdown' = (outbound_shutdown \/ cancels_2)

\* Some descriptor is ready, or has hung up.
PollReturns ==
  LET found == {i \in interested : is_ready(i)}
  IN  /\ loop = "poll"
      /\ found # {} \/ hung_up # {}
      /\ ready' = found
      /\ rules' = remaining \ hung_up
      /\ loop' = IF found = {} THEN "tick" ELSE "callbacks"
      /\ after_cancels
      /\ UNCHANGED <<owner, listening, abort, to_tcp, to_peer, pair, far, owned, inbound_shutdown, thread_eof>>

Called(i) ==
  /\ loop = "callbacks"
  /\ i \in ready /\ \A j \in ready : i <= j
  /\ ready' = ready \ {i}

Returned == loop' = IF ready' = {} THEN "tick" ELSE "callbacks"

\* A listening adapter drops everything up to a SYN.
dropped(seg) == listening /\ ~(seg.syn /\ ~seg.rst)

\* Rule 1.
ReceiveSegment ==
  LET seg == Head(to_tcp)
  IN  /\ Called(1)
      /\ to_tcp' = Tail(to_tcp)
      /\ tcp' = IF dropped(seg) THEN tcp ELSE conn_segment_received(tcp, seg)
      /\ listening' = (listening /\ dropped(seg))
      /\ Returned
      /\ UNCHANGED <<owner, rules, abort, to_peer, pair, far, owned, flags>>

\* FileDescriptor::read of _thread_data: reading nothing means its eof.
read_limited(limit) == SubSeq(up, 1, Smaller(limit, Len(up)))

\* Mutation: a shutdown is taken for the end, though bytes may be left.
ReadFromOwner_until_shutdown ==
  LET data == read_limited(remaining_capacity(outbound))
      c == conn_write(tcp, data)
  IN  /\ Called(2)
      /\ up' = IF up_shut THEN up ELSE SubSeq(up, Len(data) + 1, Len(up))
      /\ thread_eof' = up_shut
      /\ tcp' = IF up_shut THEN end_input_stream(tcp) ELSE c
      /\ outbound_shutdown' = (outbound_shutdown \/ up_shut)
      /\ Returned
      /\ UNCHANGED <<owner, rules, listening, abort, to_tcp, to_peer, down, up_shut, down_shut,
                     far, owned, inbound_shutdown>>

\* Rule 2.  The connection takes what its stream has room for, unless rule 1 has put
\* the stream in error since its interest was asked: then write() takes nothing.
ReadFromOwner ==
  LET data == read_limited(remaining_capacity(outbound))
      at_end == thread_eof \/ data = <<>>
      c == conn_write(tcp, data)
  IN  /\ Called(2)
      /\ up' = SubSeq(up, Len(data) + 1, Len(up))
      /\ thread_eof' = at_end
      /\ tcp' = IF at_end THEN end_input_stream(c) ELSE c
      /\ outbound_shutdown' = (outbound_shutdown \/ at_end)
      /\ IF accepts(outbound, Len(data)) = Len(data) THEN Returned ELSE loop' = "threw"
      /\ UNCHANGED <<owner, rules, listening, abort, to_tcp, to_peer, down, up_shut, down_shut,
                     far, owned, inbound_shutdown>>

\* FileDescriptor::write to _thread_data: how many bytes of data it may take.
write_sizes(data) == IF data = <<>> THEN {0} ELSE 1 .. Smaller(PipeRoom - Len(down), Len(data))

\* Rule 3.  The socket pair may take a part only.  Writing something to a pair that is shut
\* down raises SIGPIPE; writing nothing, as from a stream in error, does not.
WriteToOwner ==
  LET data == peek_output(inbound, Len(inbound.buffer))
  IN  /\ Called(3)
      /\ IF data # <<>> /\ down_shut
         THEN loop' = "killed" /\ UNCHANGED <<tcp, down, down_shut, inbound_shutdown>>
         ELSE \E n \in write_sizes(data) :
                LET after == pop_output(inbound, n)
                    over  == eof(after) \/ after.error
                IN  /\ down' = down \o SubSeq(data, 1, n)
                    /\ tcp' = [tcp EXCEPT !.receiver.reassembler = pop_assembled(@, n)]
                    /\ inbound_shutdown' = (inbound_shutdown \/ over)
                    /\ down_shut' = (down_shut \/ over)
                    /\ Returned
      /\ UNCHANGED <<owner, rules, listening, abort, to_tcp, to_peer, up, up_shut,
                     far, owned, outbound_shutdown, thread_eof>>

\* Rule 4.
SendSegments ==
  /\ Called(4)
  /\ to_peer' = to_peer \o tcp.segments_out
  /\ tcp' = [tcp EXCEPT !.segments_out = <<>>]
  /\ Returned
  /\ UNCHANGED <<owner, rules, listening, abort, to_tcp, pair, far, owned, flags>>

-----------------------------------------------------------------------------
(* _tcp_loop(): tick() after every event, and the end of the loop. *)

\* connect() and listen_and_accept() return, and start the thread, once the handshake
\* has left its first states, or the loop has ended.
hands_over(c) ==
  \/ owner = "connecting" /\ state(c) # SYN_SENT
  \/ owner = "listening" /\ state(c) \notin {LISTEN, SYN_RCVD, SYN_SENT}

Continue(c) ==
  /\ owner' = IF hands_over(c) THEN "open" ELSE owner
  /\ loop' = "poll"

\* The loop ends: the thread shuts down the pair and destroys the connection.  If that
\* was active its destructor queues a RST, which is destroyed with the queue.
EndLoop(c) ==
  IF owner \in {"connecting", "listening"}
  THEN /\ owner' = "open" /\ loop' = "poll" /\ tcp' = c
       /\ UNCHANGED <<up_shut, down_shut>>
  ELSE /\ loop' = "done" /\ tcp' = c
       /\ up_shut' = TRUE /\ down_shut' = TRUE
       /\ UNCHANGED owner

Tick ==
  /\ loop = "tick"
  /\ IF abort
     THEN EndLoop(tcp)
     ELSE /\ tcp' = IF active(tcp) THEN conn_tick(tcp, 0) ELSE tcp
          /\ Continue(tcp')
          /\ UNCHANGED <<up_shut, down_shut>>
  /\ UNCHANGED <<ready, rules, listening, abort, to_tcp, to_peer, up, down, far, owned, flags>>

\* Result::Exit: there is nothing to poll.
Exit ==
  /\ loop = "poll"
  /\ interested = {}
  /\ EndLoop(polled)
  /\ rules' = remaining
  /\ outbound_shutdown' = (outbound_shutdown \/ cancels_2)
  /\ UNCHANGED <<ready, listening, abort, to_tcp, to_peer, up, down, far, owned, inbound_shutdown, thread_eof>>

\* Result::Timeout.  The clocks of both ends advance together, and by a retransmission
\* timeout only when nothing is under way; _abort is seen after any timeout.
nothing_ready == loop = "poll" /\ interested # {} /\ hung_up = {} /\ \A i \in interested : ~is_ready(i)
quiet         == to_tcp = <<>> /\ to_peer = <<>> /\ down = <<>>

Timeout ==
  /\ nothing_ready
  /\ abort \/ quiet
  /\ rules' = remaining
  /\ outbound_shutdown' = (outbound_shutdown \/ cancels_2)
  /\ IF abort
     THEN EndLoop(polled) /\ UNCHANGED <<peer, to_tcp>>
     ELSE LET q == conn_tick(peer, RtTimeout)
          IN  /\ tcp' = IF active(polled) THEN conn_tick(polled, RtTimeout) ELSE polled
              /\ Continue(tcp')
              /\ peer' = [q EXCEPT !.segments_out = <<>>]
              /\ to_tcp' = q.segments_out
              /\ UNCHANGED <<up_shut, down_shut>>
  /\ UNCHANGED <<ready, listening, abort, to_peer, up, down, peer_got, owned, inbound_shutdown, thread_eof>>

-----------------------------------------------------------------------------
(* The peer: external, except that it is a TCPConnection too. *)

PeerBecomes(c) ==
  /\ peer' = [c EXCEPT !.segments_out = <<>>]
  /\ to_tcp' = to_tcp \o c.segments_out
  /\ UNCHANGED <<owner, loop, ready, rules, tcp, listening, abort, pair, owned, flags>>

PeerConnect ==
  /\ owner = "listening" /\ peer.sender.next = 0
  /\ PeerBecomes(connect(peer))
  /\ UNCHANGED <<to_peer, peer_got>>

PeerReceive ==
  LET c  == conn_segment_received(peer, Head(to_peer))
      in == inbound_stream(c)
  IN  /\ to_peer # <<>>
      /\ to_peer' = Tail(to_peer)
      /\ peer_got' = peer_got \o peek_output(in, Len(in.buffer))
      /\ PeerBecomes([c EXCEPT !.receiver.reassembler = pop_assembled(@, Len(in.buffer))])

PeerWrite ==
  /\ peer.is_active /\ peer.sender.next > 0 /\ ~peer.sender.stream.ended
  /\ LET w == peer.sender.stream.written
     IN  /\ w < Len(PeerData) /\ remaining_capacity(peer.sender.stream) > 0
         /\ PeerBecomes(conn_write(peer, <<PeerData[w + 1]>>))
  /\ UNCHANGED <<to_peer, peer_got>>

PeerClose ==
  /\ peer.is_active /\ peer.sender.next > 0 /\ ~peer.sender.stream.ended
  /\ peer.sender.stream.written = Len(PeerData)
  /\ PeerBecomes(end_input_stream(peer))
  /\ UNCHANGED <<to_peer, peer_got>>

PeerReset ==
  /\ Resets /\ active(peer) /\ peer.sender.next > 0
  /\ PeerBecomes(set_rst_state(peer, TRUE))
  /\ UNCHANGED <<to_peer, peer_got>>

-----------------------------------------------------------------------------
Owner  == Connect \/ ListenAndAccept \/ Write \/ ShutdownWrite \/ Read \/ WaitUntilClosed \/ Destruct \/ Join
Thread == \/ PollReturns \/ ReceiveSegment \/ ReadFromOwner \/ WriteToOwner \/ SendSegments
          \/ Tick \/ Exit \/ Timeout
Peer   == PeerConnect \/ PeerReceive \/ PeerWrite \/ PeerClose \/ PeerReset

\* A signal or an exception out of the thread ends the process.
Next == loop \notin {"threw", "killed"} /\ (Owner \/ Thread \/ Peer)

Spec == Init /\ [][Next]_vars

\* The thread runs, segments arrive, and the owner reads and joins.
can_run == \/ loop \in {"callbacks", "tick"}
           \/ loop = "poll" /\ (interested = {} \/ hung_up # {} \/ ~nothing_ready \/ abort \/ quiet)

FairSpec ==
  /\ Spec
  /\ <>[]can_run         => []<><<Thread>>_vars
  /\ <>[](to_peer # <<>>) => []<><<PeerReceive>>_vars
  /\ <>[](owner = "open" /\ ~got_eof /\ (down # <<>> \/ down_shut)) => []<><<Read>>_vars
  /\ <>[](owner \in {"waiting", "destructing"} /\ loop = "done") => []<><<Join>>_vars

-----------------------------------------------------------------------------
crashed == loop \in {"threw", "killed"}

\* From the owner to the application at the other end.  The owner ends the stream by any
\* shutdown of the socket pair.
ToPeer == INSTANCE StreamChannel WITH
  written <- SubSeq(OwnerData, 1, wrote),
  closed  <- up_shut,
  arrived <- peer_got,
  ended   <- inbound_stream(peer).ended

\* From there to the owner.  Any end that the owner reads is one of the stream, except that
\* a reset also lets it read one, though the stream had not ended or had bytes left.
ToOwner == INSTANCE StreamChannel WITH
  written <- SubSeq(PeerData, 1, peer.sender.stream.written),
  closed  <- peer.sender.stream.ended,
  arrived <- got \o down,
  ended   <- got_eof /\ (eof(inbound) \/ ~inbound.error)

\* The socket is a pipe in both directions, across the threads, partial reads and writes
\* of the socket pair, and shutdowns of either side.
CarriesBothWays == ToPeer!ChanSpec /\ ToOwner!ChanSpec

\* Unless it is told to abort, the TCP thread destroys a connection only when it is no
\* longer active, and with its work done: what the owner wrote, and the end of it, has
\* arrived at the other end, unless the connection was reset; and everything was handed to
\* the owner, the end included, unless the owner had shut that out.
EndsAfterWork ==
  loop = "done" /\ ~abort =>
    /\ ~active(tcp)
    /\ outbound.error \/
         (up = <<>> /\ peer_got = SubSeq(OwnerData, 1, wrote) /\ eof(inbound_stream(peer)))
    /\ 3 \in rules => inbound.buffer = <<>> /\ inbound_shutdown

CloseReturns    == (owner = "waiting" /\ got_eof) ~> (owner = "gone" \/ inbound.error)
DestructReturns == owner = "destructing" ~> (owner = "gone" \/ crashed)

\* "Calling this function is only advisable if the socket has reached EOF": then
\* wait_until_closed() returns, if the connection was not reset.  The destructor returns
\* whatever the thread is doing.
WaitsReturn == CloseReturns /\ DestructReturns

\* "TCPConnection::write() accepted less than advertised length" is never thrown.
AcceptsAdvertised == loop # "threw"
=============================================================================
