------------------------------ MODULE StreamCopy ------------------------------
(***************************************************************************)
(* apps/bidirectional_stream_copy.cc on util/eventloop.cc and              *)
(* util/file_descriptor.cc: four rules copy standard input to a socket,    *)
(* and the socket to standard output, through two byte streams.  The       *)
(* socket is the owner's side of a TCPSpongeSocket or a TCP socket of the  *)
(* kernel; the user, the far end of the socket and the reader of standard  *)
(* output are external.                                                    *)
(***************************************************************************)
EXTENDS ByteStream

CONSTANTS Byte,
          Typed, FarData,    \* what the user and the far end will write
          BufferSize,        \* buffer_size
          MaxCopyLength,     \* max_copy_length
          Room               \* the bytes that the kernel holds of each pipe or socket direction

ASSUME CopyAssumption ==
  /\ Typed \in Seq(Byte) /\ FarData \in Seq(Byte)
  /\ {BufferSize, MaxCopyLength, Room} \subseteq Nat \ {0}

VARIABLES at,         \* "poll", "callbacks", "exit", "threw", "killed"
          rules,      \* EventLoop::_rules, by their numbers in the source
          results,    \* what poll() found of the rules that are still to be looked at
          outbound, inbound,
          outbound_shutdown, inbound_shutdown,
          eofs,       \* the descriptors that are at eof: FDWrapper::_eof
          closed,     \* the descriptors that were closed: FDWrapper::_closed
          stdin,      \* the user's pipe, file or terminal
          sock,       \* the two directions of the socket, and its fate
          far,        \* what the far end has done
          stdout      \* the pipe to the reader of standard output

streams == <<outbound, inbound, outbound_shutdown, inbound_shutdown>>
fds     == <<eofs, closed>>
world   == <<stdin, sock, far, stdout>>
vars    == <<at, rules, results, streams, fds, world>>

\* Standard input that hangs up is a pipe: at its end poll() reports that, and not that
\* it can be read.
Init ==
  /\ at = "poll" /\ rules = 1 .. 4 /\ results = <<>>
  /\ outbound = NewByteStream(BufferSize) /\ inbound = NewByteStream(BufferSize)
  /\ outbound_shutdown = FALSE /\ inbound_shutdown = FALSE
  /\ eofs = {} /\ closed = {}
  /\ \E pipe \in BOOLEAN : stdin = [queue |-> <<>>, typed |-> 0, shut |-> FALSE, hangs_up |-> pipe]
  /\ sock = [tx |-> <<>>, rx |-> <<>>, tx_shut |-> FALSE, rx_shut |-> FALSE, fate |-> "up"]
  /\ far = [wrote |-> 0, shut |-> FALSE, got |-> <<>>, got_eof |-> FALSE]
  /\ stdout = [queue |-> <<>>, shown |-> <<>>, gone |-> FALSE]

-----------------------------------------------------------------------------
(* wait_next_event(): rules that are cancelled, interests, and poll(). *)

FdOf(i) == CASE i = 1 -> "stdin" [] i \in {2, 3} -> "socket" [] i = 4 -> "stdout"
In == {1, 3}

cancelled == {i \in rules : (i \in In /\ FdOf(i) \in eofs) \/ FdOf(i) \in closed}
remaining == rules \ cancelled

\* The cancel callbacks: the stream that the rule serves gets no more input.
after_cancels(S) ==
  /\ outbound' = IF S \cap {1, 2} # {} THEN end_input(outbound) ELSE outbound
  /\ inbound'  = IF S \cap {3, 4} # {} THEN end_input(inbound) ELSE inbound

interest(i, out, in) ==
  CASE i = 1 -> ~out.error /\ remaining_capacity(out) > 0 /\ ~in.error
    [] i = 2 -> out.buffer # <<>> \/ (eof(out) /\ ~outbound_shutdown)
    [] i = 3 -> ~in.error /\ remaining_capacity(in) > 0 /\ ~out.error
    [] i = 4 -> in.buffer # <<>> \/ (eof(in) /\ ~inbound_shutdown)

\* (Interests are asked after the cancel callbacks of this round.)
interested == {i \in remaining : interest(i, outbound', inbound')}

is_ready(i) ==
  CASE i = 1 -> stdin.queue # <<>> \/ (stdin.shut /\ ~stdin.hangs_up)
    [] i = 2 -> Len(sock.tx) < Room
    [] i = 3 -> sock.rx # <<>> \/ sock.rx_shut
    [] i = 4 -> Len(stdout.queue) < Room

hung_up(i) ==
  CASE i = 1 -> stdin.shut /\ stdin.hangs_up
    [] i \in {2, 3} -> sock.fate = "ended" \/ (sock.tx_shut /\ sock.rx_shut)
    [] i = 4 -> FALSE

failed(i) ==
  CASE i = 1 -> FALSE
    [] i \in {2, 3} -> sock.fate = "reset"
    [] i = 4 -> stdout.gone

\* What the loop over the results will do with rule i, "" for nothing.  Descriptors of rules
\* that are not interested are polled for errors.
result(i) ==
  IF failed(i) THEN "error"
  ELSE IF i \notin interested THEN ""
  ELSE IF is_ready(i) THEN "ready"
  ELSE IF hung_up(i) THEN "hangup" ELSE ""

Poll ==
  /\ at = "poll"
  /\ after_cancels(cancelled)
  /\ interested # {}
  /\ LET found == {i \in remaining : result(i) # ""}
     IN  /\ found # {}
         /\ results' = [i \in found |-> result(i)]
  /\ at' = "callbacks"
  /\ rules' = remaining
  /\ UNCHANGED <<outbound_shutdown, inbound_shutdown, fds, world>>

\* Result::Exit: nothing to poll.
Exit ==
  /\ at = "poll"
  /\ after_cancels(cancelled)
  /\ interested = {}
  /\ at' = "exit"
  /\ rules' = remaining
  /\ UNCHANGED <<results, outbound_shutdown, inbound_shutdown, fds, world>>

-----------------------------------------------------------------------------
(* wait_next_event(): the results of poll(), in the order of the rules. *)

\* It is rule i's turn, which poll() found so.
Turn(i, found) ==
  /\ at = "callbacks"
  /\ i \in DOMAIN results /\ results[i] = found
  /\ \A j \in DOMAIN results : i <= j
  /\ results' = [j \in DOMAIN results \ {i} |-> results[j]]

Returned == at' = IF DOMAIN results' = {} THEN "poll" ELSE "callbacks"

\* "EventLoop: error on polled file descriptor".
Throw(i) ==
  /\ Turn(i, "error")
  /\ at' = "threw"
  /\ UNCHANGED <<rules, streams, fds, world>>

\* Mutation: a rule whose descriptor hung up is dropped without being told.
Cancel_silently(i) ==
  /\ Turn(i, "hangup")
  /\ rules' = rules \ {i}
  /\ Returned
  /\ UNCHANGED <<streams, fds, world>>

Cancel(i) ==
  /\ Turn(i, "hangup")
  /\ rules' = rules \ {i}
  /\ after_cancels({i})
  /\ Returned
  /\ UNCHANGED <<outbound_shutdown, inbound_shutdown, fds, world>>

\* FileDescriptor::read: what of the queue fits, and eof for reading nothing.
read_limited(queue, limit) == SubSeq(queue, 1, Smaller(limit, Len(queue)))
eofs_after_read(fd, data, limit) == IF limit > 0 /\ data = <<>> THEN eofs \cup {fd} ELSE eofs

\* FileDescriptor::write without write_all: how many bytes of data the kernel may take.
write_sizes(data, queue) == IF data = <<>> THEN {0} ELSE 1 .. Smaller(Room - Len(queue), Len(data))

\* Socket::shutdown(SHUT_WR), and the socket after a write.
shutdown_write(s) == [s EXCEPT !.tx_shut = TRUE]

sent_on(bytes, last) ==
  LET wrote == [sock EXCEPT !.tx = @ \o bytes]
  IN  IF last THEN shutdown_write(wrote) ELSE wrote

\* FDWrapper::close: it counts as the end of the file too.
close(fd) == closed' = closed \cup {fd} /\ eofs' = eofs \cup {fd}

\* Rule 1.
ReadInput ==
  LET limit == remaining_capacity(outbound)
      data  == read_limited(stdin.queue, limit)
      s     == write(outbound, data)
  IN  /\ Turn(1, "ready")
      /\ stdin' = [stdin EXCEPT !.queue = SubSeq(@, Len(data) + 1, Len(@))]
      /\ eofs' = eofs_after_read("stdin", data, limit)
      /\ outbound' = IF "stdin" \in eofs' THEN end_input(s) ELSE s
      /\ Returned
      /\ UNCHANGED <<rules, inbound, outbound_shutdown, inbound_shutdown, closed, sock, far, stdout>>

\* Mutation: all bytes that were offered are taken off the stream.
WriteSocket_popping_all ==
  LET data == peek_output(outbound, MaxCopyLength)
  IN  /\ Turn(2, "ready")
      /\ sock.fate = "up"
      /\ \E n \in write_sizes(data, sock.tx) :
           /\ outbound' = pop_output(outbound, Len(data))
           /\ sock' = sent_on(SubSeq(data, 1, n), eof(outbound'))
           /\ outbound_shutdown' = (outbound_shutdown \/ eof(outbound'))
           /\ Returned
      /\ UNCHANGED <<rules, inbound, inbound_shutdown, fds, stdin, far, stdout>>

\* Rule 2.  Writing something to a socket pair that the TCP thread has shut down raises
\* SIGPIPE, which nothing handles; any call on a connection that was reset throws.
WriteSocket ==
  LET data == peek_output(outbound, MaxCopyLength)
  IN  /\ Turn(2, "ready")
      /\ IF sock.fate = "reset" THEN at' = "threw" /\ UNCHANGED <<outbound, sock, outbound_shutdown>>
         ELSE IF sock.fate = "ended" /\ data # <<>>
         THEN at' = "killed" /\ UNCHANGED <<outbound, sock, outbound_shutdown>>
         ELSE \E n \in write_sizes(data, sock.tx) :
                /\ outbound' = pop_output(outbound, n)
                /\ sock' = sent_on(SubSeq(data, 1, n), eof(outbound'))
                /\ outbound_shutdown' = (outbound_shutdown \/ eof(outbound'))
                /\ Returned
      /\ UNCHANGED <<rules, inbound, inbound_shutdown, fds, stdin, far, stdout>>

\* Rule 3.
ReadSocket ==
  LET limit == remaining_capacity(inbound)
      data  == read_limited(sock.rx, limit)
      s     == write(inbound, data)
  IN  /\ Turn(3, "ready")
      /\ IF sock.fate = "reset" THEN at' = "threw" /\ UNCHANGED <<inbound, sock, eofs>>
         ELSE /\ sock' = [sock EXCEPT !.rx = SubSeq(@, Len(data) + 1, Len(@))]
              /\ eofs' = eofs_after_read("socket", data, limit)
              /\ inbound' = IF "socket" \in eofs' THEN end_input(s) ELSE s
              /\ Returned
      /\ UNCHANGED <<rules, outbound, outbound_shutdown, inbound_shutdown, closed, stdin, far, stdout>>

\* Rule 4.  Writing something that nobody will read raises SIGPIPE.
WriteOutput ==
  LET data == peek_output(inbound, MaxCopyLength)
  IN  /\ Turn(4, "ready")
      /\ IF stdout.gone /\ data # <<>>
         THEN at' = "killed" /\ UNCHANGED <<inbound, inbound_shutdown, fds, stdout>>
         ELSE \E n \in write_sizes(data, stdout.queue) :
                /\ inbound' = pop_output(inbound, n)
                /\ stdout' = [stdout EXCEPT !.queue = @ \o SubSeq(data, 1, n)]
                /\ IF eof(inbound') THEN close("stdout") ELSE UNCHANGED fds
                /\ inbound_shutdown' = (inbound_shutdown \/ eof(inbound'))
                /\ Returned
      /\ UNCHANGED <<rules, outbound, outbound_shutdown, stdin, sock, far>>

-----------------------------------------------------------------------------
(* The user, the far end, and the reader of standard output. *)

Inside == <<at, rules, results, streams, fds>>

Type ==
  /\ ~stdin.shut /\ stdin.typed < Len(Typed) /\ Len(stdin.queue) < Room
  /\ stdin' = [stdin EXCEPT !.queue = Append(@, Typed[stdin.typed + 1]), !.typed = @ + 1]
  /\ UNCHANGED <<Inside, sock, far, stdout>>

EndInput ==
  /\ ~stdin.shut
  /\ stdin' = [stdin EXCEPT !.shut = TRUE]
  /\ UNCHANGED <<Inside, sock, far, stdout>>

can_take == sock.fate = "up" /\ (sock.tx # <<>> \/ (sock.tx_shut /\ ~far.got_eof))

FarRead ==
  /\ can_take
  /\ far' = [far EXCEPT !.got = @ \o sock.tx, !.got_eof = (sock.tx = <<>>)]
  /\ sock' = [sock EXCEPT !.tx = <<>>]
  /\ UNCHANGED <<Inside, stdin, stdout>>

FarWrite ==
  /\ sock.fate = "up" /\ ~far.shut /\ far.wrote < Len(FarData) /\ Len(sock.rx) < Room
  /\ far' = [far EXCEPT !.wrote = @ + 1]
  /\ sock' = [sock EXCEPT !.rx = Append(@, FarData[far.wrote + 1])]
  /\ UNCHANGED <<Inside, stdin, stdout>>

FarShut ==
  /\ sock.fate = "up" /\ ~far.shut
  /\ far' = [far EXCEPT !.shut = TRUE]
  /\ sock' = [sock EXCEPT !.rx_shut = TRUE]
  /\ UNCHANGED <<Inside, stdin, stdout>>

\* The TCP thread ends, and shuts its side of the pair down; or a RST arrives.
SocketFails ==
  /\ sock.fate = "up"
  /\ \E fate \in {"ended", "reset"} : sock' = [sock EXCEPT !.fate = fate, !.rx_shut = TRUE]
  /\ UNCHANGED <<Inside, stdin, far, stdout>>

Show ==
  /\ ~stdout.gone /\ stdout.queue # <<>>
  /\ stdout' = [stdout EXCEPT !.shown = @ \o stdout.queue, !.queue = <<>>]
  /\ UNCHANGED <<Inside, stdin, sock, far>>

ReaderLeaves ==
  /\ ~stdout.gone
  /\ stdout' = [stdout EXCEPT !.gone = TRUE]
  /\ UNCHANGED <<Inside, stdin, sock, far>>

-----------------------------------------------------------------------------
Copy     == \/ Poll \/ Exit \/ ReadInput \/ WriteSocket \/ ReadSocket \/ WriteOutput
            \/ \E i \in 1 .. 4 : Throw(i) \/ Cancel(i)
External == Type \/ EndInput \/ FarRead \/ FarWrite \/ FarShut \/ SocketFails \/ Show \/ ReaderLeaves

Next == at \notin {"threw", "killed"} /\ (Copy \/ External)

Spec == Init /\ [][Next]_vars

\* The program runs, and the other ends read.
FairSpec == Spec /\ WF_vars(Copy) /\ WF_vars(FarRead) /\ WF_vars(Show)

-----------------------------------------------------------------------------
\* From the user to the far end.
Outward == INSTANCE StreamChannel WITH
  written <- SubSeq(Typed, 1, stdin.typed),
  closed  <- stdin.shut,
  arrived <- far.got,
  ended   <- far.got_eof

\* From the far end to the reader of standard output, whose end is one of the stream unless
\* the socket failed first.
Inward == INSTANCE StreamChannel WITH
  written <- SubSeq(FarData, 1, far.wrote),
  closed  <- far.shut,
  arrived <- stdout.shown,
  ended   <- far.shut /\ "stdout" \in closed /\ stdout.queue = <<>>

\* Both directions are pipes, however the kernel splits reads and writes, whatever changes
\* between poll() and a callback, and in whatever order the ends come.
CopiesBothWays == Outward!ChanSpec /\ Inward!ChanSpec

running == at \in {"poll", "callbacks"}
copied  == /\ far.got = SubSeq(Typed, 1, stdin.typed) /\ far.got_eof
           /\ stdout.shown = SubSeq(FarData, 1, far.wrote) /\ "stdout" \in closed

\* Once the user has ended the input, and the far end has ended its stream or the socket has
\* failed, the program does not stay: it returns with everything copied, unless the socket
\* failed, after which it returns, throws or is killed, or unless nobody reads its output.
Completes ==
  stdin.shut /\ (far.shut \/ sock.fate # "up")
    ~> (at = "exit" /\ copied) \/ (sock.fate # "up" /\ ~running) \/ stdout.gone
=============================================================================
