--------------------------- MODULE EthernetLanProofs ---------------------------
(***************************************************************************)
(* What holds of every Ethernet, whatever the number of hosts, the         *)
(* timeouts and the frames that are lost: the bookkeeping of ARP is        *)
(* consistent, what was learned is true, requests keep their distance, and *)
(* no datagram is forgotten.                                               *)
(*                                                                         *)
(* Each operation of an interface is first described field by field        *)
(* (SendResult, RecvResult, TickResult).  Three inductive invariants build *)
(* on one another: AllConsistent (the maps of each interface), LanTrue     *)
(* (and what is in them and on the wires), and on top of it LanRated (the  *)
(* clocks of the requests) and LanKept (where each datagram is).           *)
(***************************************************************************)
EXTENDS EthernetLan, FiniteSetTheorems, SequenceTheorems, TLAPS

IsEntry(e) == e = [eth |-> e.eth, ttl |-> e.ttl] /\ e.ttl \in 1 .. ArpTtl

IsTimer(v) == v \in 1 .. ArpRetry

\* The bookkeeping in the three maps of an interface.
Book(arp_table, pending, timers) ==
  /\ DOMAIN timers = DOMAIN pending
  /\ DOMAIN arp_table \cap DOMAIN pending = {}
  /\ \A ip \in DOMAIN pending : pending[ip] # <<>> /\ IsTimer(timers[ip])
  /\ \A ip \in DOMAIN arp_table : IsEntry(arp_table[ip])

Interface(eth, ip, frames_out, arp_table, pending, timers) ==
  [eth |-> eth, ip |-> ip, frames_out |-> frames_out,
   arp_table |-> arp_table, pending |-> pending, timers |-> timers]

IsInterface(n) == n = Interface(n.eth, n.ip, n.frames_out, n.arp_table, n.pending, n.timers)

\* n is an interface with consistent maps.
Consistent(n) == IsInterface(n) /\ Book(n.arp_table, n.pending, n.timers)

-----------------------------------------------------------------------------
\* An interface built from consistent maps is consistent.
LEMMA BookSuffices ==
  ASSUME NEW e, NEW i, NEW f, NEW a, NEW p, NEW t, Book(a, p, t)
  PROVE  Consistent(Interface(e, i, f, a, p, t))
BY DEF Consistent, IsInterface, Interface

\* The maps of a new interface are empty.
LEMMA NewIsConsistent ==
  ASSUME NEW eth, NEW ip
  PROVE  Consistent(NewInterface(eth, ip))
<1>1. DOMAIN <<>> = {}
  OBVIOUS
<1>2. Book(<<>>, <<>>, <<>>)
  BY <1>1 DEF Book
<1> QED
  BY <1>2, BookSuffices DEF NewInterface, Interface

\* An interface is consistent whatever its outgoing frames.
LEMMA FramesIrrelevant ==
  ASSUME NEW n, Consistent(n), NEW f
  PROVE  Consistent([n EXCEPT !.frames_out = f])
<1>1. [n EXCEPT !.frames_out = f] = Interface(n.eth, n.ip, f, n.arp_table, n.pending, n.timers)
  BY DEF Consistent, IsInterface, Interface
<1> QED
  BY <1>1, BookSuffices DEF Consistent

\* A first datagram for an unknown address waits and its timer starts.
LEMMA BookRequest ==
  ASSUME NEW a, NEW p, NEW t, Book(a, p, t), NEW ip, ip \notin DOMAIN a, NEW q, q # <<>>
  PROVE  Book(a, With(p, ip, q), With(t, ip, ArpRetry))
<1>1. IsTimer(ArpRetry)
  BY ArpAssumption DEF IsTimer
<1> QED
  BY <1>1 DEF Book, With

\* A further datagram for an address that was asked for waits with the others.
LEMMA BookWait ==
  ASSUME NEW a, NEW p, NEW t, Book(a, p, t), NEW ip \in DOMAIN p, NEW q, q # <<>>
  PROVE  Book(a, With(p, ip, q), t)
<1>1. DOMAIN With(p, ip, q) = DOMAIN p
  BY DEF With
<1>2. \A y \in DOMAIN p : With(p, ip, q)[y] # <<>>
  BY DEF With, Book
<1> QED
  BY <1>1, <1>2 DEF Book

\* A learned address has no request left.
LEMMA BookLearn ==
  ASSUME NEW a, NEW p, NEW t, Book(a, p, t), NEW ip, NEW entry, IsEntry(entry)
  PROVE  Book(With(a, ip, entry), Without(p, ip), Without(t, ip))
BY DEF Book, With, Without

\* An address may be learned that nothing waits for.
LEMMA BookLearnUnasked ==
  ASSUME NEW a, NEW p, NEW t, Book(a, p, t), NEW ip, ip \notin DOMAIN p, NEW entry, IsEntry(entry)
  PROVE  Book(With(a, ip, entry), p, t)
BY DEF Book, With

\* Entries age by less than their lifetime or go.
LEMMA BookExpire ==
  ASSUME NEW a, NEW p, NEW t, Book(a, p, t), NEW ms \in Nat
  PROVE  Book([ip \in {x \in DOMAIN a : a[x].ttl > ms} |-> [a[ip] EXCEPT !.ttl = @ - ms]], p, t)
<1>1. ASSUME NEW e, IsEntry(e), e.ttl > ms
      PROVE  IsEntry([e EXCEPT !.ttl = @ - ms])
  <2>1. [e EXCEPT !.ttl = @ - ms] = [eth |-> e.eth, ttl |-> e.ttl - ms]
    BY <1>1 DEF IsEntry
  <2>2. e.ttl - ms \in 1 .. ArpTtl
    BY <1>1, ArpAssumption DEF IsEntry
  <2> QED
    BY <2>1, <2>2 DEF IsEntry
<1> QED
  BY <1>1 DEF Book

\* Timers run; one that runs out starts again.
LEMMA BookRestart ==
  ASSUME NEW a, NEW p, NEW t, Book(a, p, t), NEW u,
         DOMAIN u = DOMAIN t, \A ip \in DOMAIN t : IsTimer(u[ip])
  PROVE  Book(a, p, u)
BY DEF Book

-----------------------------------------------------------------------------
(* What each operation makes of an interface, field by field. *)

\* What send_datagram() does: the frame goes out, or the datagram waits and its next
\* hop is asked for, or it waits with the others.
SendsFrame(n, d, ip) ==
  /\ ip \in DOMAIN n.arp_table
  /\ send_datagram(n, d, ip) =
       Interface(n.eth, n.ip, Append(n.frames_out, ipv4_frame(n, n.arp_table[ip].eth, d)),
                 n.arp_table, n.pending, n.timers)

SendsRequest(n, d, ip) ==
  /\ ip \notin DOMAIN n.arp_table /\ ip \notin DOMAIN n.pending
  /\ send_datagram(n, d, ip) =
       Interface(n.eth, n.ip, Append(n.frames_out, arp_frame(n, Broadcast, Request, ip)),
                 n.arp_table, With(n.pending, ip, <<d>>), With(n.timers, ip, ArpRetry))

LetsWait(n, d, ip) ==
  /\ ip \in DOMAIN n.pending
  /\ send_datagram(n, d, ip) =
       Interface(n.eth, n.ip, n.frames_out,
                 n.arp_table, With(n.pending, ip, Append(n.pending[ip], d)), n.timers)

\* send_datagram() does one of the three.
LEMMA SendResult ==
  ASSUME NEW n, Consistent(n), NEW d, NEW ip
  PROVE  SendsFrame(n, d, ip) \/ SendsRequest(n, d, ip) \/ LetsWait(n, d, ip)
<1> DEFINE q      == Append(waiting(n, ip), d)
           queued == [n EXCEPT !.pending = With(@, ip, q)]
           frame  == arp_frame(queued, Broadcast, Request, ip)
<1>1. queued = Interface(n.eth, n.ip, n.frames_out, n.arp_table, With(n.pending, ip, q), n.timers)
  BY DEF Consistent, IsInterface, Interface
<1>2. frame = arp_frame(n, Broadcast, Request, ip)
  BY <1>1 DEF arp_frame, Interface
<1>3. CASE knows(n, ip)
  <2>1. send_datagram(n, d, ip) = push_frame(n, ipv4_frame(n, n.arp_table[ip].eth, d))
    BY <1>3 DEF send_datagram
  <2>2. ASSUME NEW f
        PROVE  push_frame(n, f) =
                 Interface(n.eth, n.ip, Append(n.frames_out, f), n.arp_table, n.pending, n.timers)
    BY DEF push_frame, Consistent, IsInterface, Interface
  <2> QED
    BY <1>3, <2>1, <2>2 DEF SendsFrame, knows
<1>4. CASE ~knows(n, ip) /\ timer_idle(n, ip)
  <2>1. send_datagram(n, d, ip) = request_address(queued, ip)
    BY <1>4 DEF send_datagram
  <2>2. request_address(queued, ip) =
          Interface(n.eth, n.ip, Append(n.frames_out, frame), n.arp_table,
                    With(n.pending, ip, q), With(n.timers, ip, ArpRetry))
    <3> HIDE DEF q, queued
    <3>1. request_address(queued, ip) =
            [queued EXCEPT !.frames_out = Append(@, frame), !.timers = With(@, ip, ArpRetry)]
      BY <1>1 DEF request_address, push_frame, Interface, frame
    <3> HIDE DEF frame
    <3> QED
      BY <1>1, <3>1 DEF Interface
  <2>3. ip \notin DOMAIN n.arp_table
    <3>1. ASSUME ip \in DOMAIN n.arp_table PROVE FALSE
      <4>1. n.arp_table[ip].ttl \in 1 .. ArpTtl
        BY <3>1 DEF Consistent, Book, IsEntry
      <4> QED
        BY <1>4, <3>1, <4>1, ArpAssumption DEF knows
    <3> QED
      BY <3>1
  <2>4. ip \notin DOMAIN n.pending
    <3>1. ASSUME ip \in DOMAIN n.pending PROVE FALSE
      <4>1. ip \in DOMAIN n.timers /\ n.timers[ip] \in 1 .. ArpRetry
        BY <3>1 DEF Consistent, Book, IsTimer
      <4> QED
        BY <1>4, <4>1, ArpAssumption DEF timer_idle
    <3> QED
      BY <3>1
  <2>5. q = <<d>>
    BY <2>4 DEF waiting
  <2> QED
    BY <1>2, <2>1, <2>2, <2>3, <2>4, <2>5 DEF SendsRequest
<1>5. CASE ~knows(n, ip) /\ ~timer_idle(n, ip)
  <2>1. send_datagram(n, d, ip) = queued
    BY <1>5 DEF send_datagram
  <2>2. ip \in DOMAIN n.pending
    BY <1>5 DEF timer_idle, Consistent, Book
  <2>3. q = Append(n.pending[ip], d)
    BY <2>2 DEF waiting
  <2> QED
    BY <1>1, <2>1, <2>2, <2>3 DEF LetsWait
<1> QED
  BY <1>3, <1>4, <1>5

\* The frames that answer an ARP message to n: a reply to a request for its address.
Replies(n, msg) ==
  IF msg.opcode = Request /\ msg.target_ip = n.ip
  THEN <<arp_frame(n, msg.sender_eth, Reply, msg.sender_ip)>> ELSE <<>>

\* The frames that carry what was waiting for ip.
Flushed(n, ip, eth) == [i \in 1 .. Len(n.pending[ip]) |-> ipv4_frame(n, eth, n.pending[ip][i])]

Learned(n, msg) == With(n.arp_table, msg.sender_ip, [eth |-> msg.sender_eth, ttl |-> ArpTtl])

\* What recv_frame() does with an ARP message for it: it learns the sender's address,
\* answers, and sends what was waiting for the sender, if anything.
LearnsOnly(n, frame) ==
  LET msg == frame.payload
  IN  /\ msg.sender_ip \notin DOMAIN n.pending
      /\ recv_frame(n, frame) =
           Interface(n.eth, n.ip, n.frames_out \o Replies(n, msg), Learned(n, msg), n.pending, n.timers)

LearnsAndFlushes(n, frame) ==
  LET msg == frame.payload
      ip  == msg.sender_ip
  IN  /\ ip \in DOMAIN n.pending
      /\ recv_frame(n, frame) =
           Interface(n.eth, n.ip, (n.frames_out \o Replies(n, msg)) \o Flushed(n, ip, msg.sender_eth),
                     Learned(n, msg), Without(n.pending, ip), Without(n.timers, ip))

\* recv_frame() ignores a frame, or does one of the two.
LEMMA RecvResult ==
  ASSUME NEW n, Consistent(n), NEW S, n.frames_out \in Seq(S), NEW frame
  PROVE  IF ~accepts_frame(n, frame) \/ frame.type # "ARP" THEN recv_frame(n, frame) = n
         ELSE LearnsOnly(n, frame) \/ LearnsAndFlushes(n, frame)
<1> DEFINE msg == frame.payload
           ip  == msg.sender_ip
           a   == Learned(n, msg)
           f   == n.frames_out \o Replies(n, msg)
           n1  == learn(n, ip, msg.sender_eth)
           n2  == answer(n1, msg)
<1>1. SUFFICES ASSUME ~(~accepts_frame(n, frame) \/ frame.type # "ARP")
               PROVE  LearnsOnly(n, frame) \/ LearnsAndFlushes(n, frame)
  BY DEF recv_frame
<1>2. recv_frame(n, frame) = flush(n2, ip, msg.sender_eth)
  BY <1>1 DEF recv_frame
<1>3. n1 = Interface(n.eth, n.ip, n.frames_out, a, n.pending, n.timers)
  BY DEF learn, Learned, Consistent, IsInterface, Interface
<1>4. n2 = Interface(n.eth, n.ip, f, a, n.pending, n.timers)
  <2>1. n1.ip = n.ip /\ n1.frames_out = n.frames_out
    BY <1>3 DEF Interface
  <2>2. arp_frame(n1, msg.sender_eth, Reply, ip) = arp_frame(n, msg.sender_eth, Reply, ip)
    BY <1>3 DEF arp_frame, Interface
  <2>3. CASE msg.opcode = Request /\ msg.target_ip = n.ip
    <3>1. f = Append(n.frames_out, arp_frame(n, msg.sender_eth, Reply, ip))
      BY <2>3 DEF Replies
    <3>2. n2 = [n1 EXCEPT !.frames_out = f]
      BY <2>1, <2>2, <2>3, <3>1 DEF answer, push_frame
    <3> HIDE DEF f, a, n1, n2
    <3> QED
      BY <1>3, <3>2 DEF Interface
  <2>4. CASE ~(msg.opcode = Request /\ msg.target_ip = n.ip)
    <3>1. f = n.frames_out
      <4>1. Replies(n, msg) = <<>>
        BY <2>4 DEF Replies
      <4> HIDE DEF msg
      <4> QED
        BY <4>1, ConcatEmptySeq
    <3>2. n2 = n1
      BY <2>1, <2>4 DEF answer
    <3> QED
      BY <1>3, <3>1, <3>2
  <2> QED
    BY <2>3, <2>4
<1>5. n2.pending = n.pending /\ n2.frames_out = f
  <2> HIDE DEF n2, f, a
  <2> QED
    BY <1>4 DEF Interface
<1>6. CASE ip \notin DOMAIN n.pending
  <2>1. flush(n2, ip, msg.sender_eth) = n2
    BY <1>5, <1>6 DEF flush
  <2> QED
    BY <1>2, <1>4, <1>6, <2>1 DEF LearnsOnly
<1>7. CASE ip \in DOMAIN n.pending
  <2> DEFINE g == f \o Flushed(n, ip, msg.sender_eth)
  <2>1. waiting(n2, ip) = n.pending[ip]
    BY <1>5, <1>7 DEF waiting
  <2>2. ASSUME NEW d
        PROVE  ipv4_frame(n2, msg.sender_eth, d) = ipv4_frame(n, msg.sender_eth, d)
    BY <1>4 DEF ipv4_frame, Interface
  <2>3. [i \in 1 .. Len(n.pending[ip]) |-> ipv4_frame(n2, msg.sender_eth, n.pending[ip][i])] =
          Flushed(n, ip, msg.sender_eth)
    BY <2>2 DEF Flushed
  <2>4. flush(n2, ip, msg.sender_eth) =
          [n2 EXCEPT !.frames_out = g, !.pending = Without(@, ip), !.timers = Without(@, ip)]
    BY <1>5, <1>7, <2>1, <2>3 DEF flush
  <2> HIDE DEF f, g, a, n1, n2
  <2>5. flush(n2, ip, msg.sender_eth) =
          Interface(n.eth, n.ip, g, a, Without(n.pending, ip), Without(n.timers, ip))
    BY <1>4, <2>4 DEF Interface
  <2> QED
    BY <1>2, <1>7, <2>5 DEF LearnsAndFlushes, f, g, a
<1> QED
  BY <1>6, <1>7

\* What tick() makes of the entries and the timers, and what it asks for again.
Aged(a, ms) == [ip \in {x \in DOMAIN a : a[x].ttl > ms} |-> [a[ip] EXCEPT !.ttl = @ - ms]]

Overdue(t, ms) == {ip \in DOMAIN t : t[ip] <= ms}

Restarted(t, ms) == [ip \in DOMAIN t |-> IF t[ip] <= ms THEN ArpRetry ELSE t[ip] - ms]

Requests(n, order) == [i \in 1 .. Len(order) |-> arp_frame(n, Broadcast, Request, order[i])]

\* The addresses that a tick asks for are those whose timer has run out.
LEMMA UnansweredIsOverdue ==
  ASSUME NEW n, Consistent(n), NEW ms \in Nat
  PROVE  unanswered(run_timers(n, ms)) = Overdue(n.timers, ms)
<1> DEFINE t == [ip \in DOMAIN n.timers |-> IF n.timers[ip] <= ms THEN 0 ELSE n.timers[ip] - ms]
           m == run_timers(n, ms)
<1>1. m.pending = n.pending /\ m.timers = t
  BY DEF run_timers, Consistent, IsInterface, Interface
<1>2. unanswered(m) = {ip \in DOMAIN n.pending : t[ip] = 0}
  BY <1>1 DEF unanswered, timer_idle, Consistent, Book
<1>3. ASSUME NEW ip \in DOMAIN n.timers
      PROVE  t[ip] = 0 <=> n.timers[ip] <= ms
  <2>1. n.timers[ip] \in 1 .. ArpRetry
    BY DEF Consistent, Book, IsTimer
  <2> QED
    BY <2>1, ArpAssumption
<1> QED
  BY <1>2, <1>3 DEF Overdue, Consistent, Book

\* tick() ages the entries, runs the timers and repeats the requests that run out.
LEMMA TickResult ==
  ASSUME NEW n, Consistent(n), NEW ms \in Nat, NEW order
  PROVE  interface_tick(n, ms, order) =
           Interface(n.eth, n.ip, n.frames_out \o Requests(n, order),
                     Aged(n.arp_table, ms), n.pending, Restarted(n.timers, ms))
<1> DEFINE a  == Aged(n.arp_table, ms)
           t  == [ip \in DOMAIN n.timers |-> IF n.timers[ip] <= ms THEN 0 ELSE n.timers[ip] - ms]
           n1 == expire_entries(n, ms)
           n2 == run_timers(n1, ms)
           f  == n.frames_out \o Requests(n, order)
           u  == [ip \in DOMAIN n2.timers \cup unanswered(n2) |->
                    IF ip \in unanswered(n2) THEN ArpRetry ELSE n2.timers[ip]]
<1>1. n1 = Interface(n.eth, n.ip, n.frames_out, a, n.pending, n.timers)
  BY DEF expire_entries, Aged, Consistent, IsInterface, Interface
<1>2. n2 = Interface(n.eth, n.ip, n.frames_out, a, n.pending, t)
  <2>1. n2 = [n1 EXCEPT !.timers = t]
    BY <1>1 DEF run_timers, Interface
  <2> QED
    BY <1>1, <2>1 DEF Interface
<1>3. unanswered(n2) = Overdue(n.timers, ms)
  <2>1. unanswered(n2) = unanswered(run_timers(n, ms))
    <3>1. run_timers(n, ms) = Interface(n.eth, n.ip, n.frames_out, n.arp_table, n.pending, t)
      BY DEF run_timers, Consistent, IsInterface, Interface
    <3> QED
      BY <1>2, <3>1 DEF unanswered, timer_idle, Interface
  <2> QED
    BY <2>1, UnansweredIsOverdue
<1>4. u = Restarted(n.timers, ms)
  <2>1. n2.timers = t
    BY <1>2 DEF Interface
  <2> QED
    BY <1>3, <2>1 DEF Overdue, Restarted
<1>5. Requests(n2, order) = Requests(n, order)
  <2>1. ASSUME NEW ip
        PROVE  arp_frame(n2, Broadcast, Request, ip) = arp_frame(n, Broadcast, Request, ip)
    BY <1>2 DEF arp_frame, Interface
  <2> QED
    BY <2>1 DEF Requests
<1>6. interface_tick(n, ms, order) = [n2 EXCEPT !.frames_out = f, !.timers = u]
  <2>1. n2.frames_out = n.frames_out
    BY <1>2 DEF Interface
  <2> QED
    BY <1>5, <2>1 DEF interface_tick, resend_requests, Requests
<1> HIDE DEF f, u, a, t, n2
<1>7. interface_tick(n, ms, order) = Interface(n.eth, n.ip, f, a, n.pending, u)
  BY <1>2, <1>6 DEF Interface
<1> QED
  BY <1>4, <1>7 DEF f, a

-----------------------------------------------------------------------------
\* send_datagram() keeps the bookkeeping.
LEMMA SendConsistent ==
  ASSUME NEW n, Consistent(n), NEW d, NEW ip
  PROVE  Consistent(send_datagram(n, d, ip))
<1>1. CASE SendsFrame(n, d, ip)
  BY <1>1, BookSuffices DEF SendsFrame, Consistent
<1>2. CASE SendsRequest(n, d, ip)
  <2>1. Book(n.arp_table, With(n.pending, ip, <<d>>), With(n.timers, ip, ArpRetry))
    BY <1>2, BookRequest DEF SendsRequest, Consistent
  <2> QED
    BY <1>2, <2>1, BookSuffices DEF SendsRequest
<1>3. CASE LetsWait(n, d, ip)
  <2>1. \A q : Append(q, d) # <<>>
    OBVIOUS
  <2>2. Book(n.arp_table, With(n.pending, ip, Append(n.pending[ip], d)), n.timers)
    BY <1>3, <2>1, BookWait DEF LetsWait, Consistent
  <2> QED
    BY <1>3, <2>2, BookSuffices DEF LetsWait
<1> QED
  BY <1>1, <1>2, <1>3, SendResult

\* recv_frame() keeps the bookkeeping, whatever the frame.
LEMMA RecvConsistent ==
  ASSUME NEW n, Consistent(n), NEW S, n.frames_out \in Seq(S), NEW frame
  PROVE  Consistent(recv_frame(n, frame))
<1> DEFINE msg   == frame.payload
           entry == [eth |-> msg.sender_eth, ttl |-> ArpTtl]
<1>1. IsEntry(entry)
  BY ArpAssumption DEF IsEntry
<1>2. CASE LearnsOnly(n, frame)
  <2>1. Book(Learned(n, msg), n.pending, n.timers)
    BY <1>1, <1>2, BookLearnUnasked DEF Consistent, Learned, LearnsOnly
  <2> QED
    BY <1>2, <2>1, BookSuffices DEF LearnsOnly
<1>3. CASE LearnsAndFlushes(n, frame)
  <2>1. Book(Learned(n, msg), Without(n.pending, msg.sender_ip), Without(n.timers, msg.sender_ip))
    BY <1>1, BookLearn DEF Consistent, Learned
  <2> QED
    BY <1>3, <2>1, BookSuffices DEF LearnsAndFlushes
<1> QED
  BY <1>2, <1>3, RecvResult

\* tick() keeps the bookkeeping, in whatever order the requests go out.
LEMMA TickConsistent ==
  ASSUME NEW n, Consistent(n), NEW ms \in Nat, NEW order
  PROVE  Consistent(interface_tick(n, ms, order))
<1> DEFINE u == Restarted(n.timers, ms)
<1>1. Book(Aged(n.arp_table, ms), n.pending, n.timers)
  BY BookExpire DEF Consistent, Aged
<1>2. DOMAIN u = DOMAIN n.timers
  BY DEF Restarted
<1>3. ASSUME NEW ip \in DOMAIN n.timers
      PROVE  IsTimer(u[ip])
  <2>1. n.timers[ip] \in 1 .. ArpRetry
    BY <1>1 DEF Book, IsTimer
  <2> QED
    BY <2>1, ArpAssumption DEF IsTimer, Restarted
<1>4. Book(Aged(n.arp_table, ms), n.pending, u)
  BY <1>1, <1>2, <1>3, BookRestart
<1> QED
  BY <1>4, TickResult, BookSuffices

-----------------------------------------------------------------------------
\* Every host's interface is consistent, and its frames have gone out.
AllConsistent ==
  /\ nic = [h \in Host |-> nic[h]]
  /\ \A h \in Host : Consistent(nic[h]) /\ nic[h].frames_out = <<>>

\* A step that gives one host a consistent interface keeps the invariant.
LEMMA BecomesConsistent ==
  ASSUME AllConsistent, NEW h \in Host, NEW n, Consistent(n), NEW wires, Becomes(h, n, wires)
  PROVE  AllConsistent'
<1>1. Consistent([n EXCEPT !.frames_out = <<>>]) /\ [n EXCEPT !.frames_out = <<>>].frames_out = <<>>
  BY FramesIrrelevant DEF Consistent, IsInterface, Interface
<1>2. nic' = [g \in Host |-> IF g = h THEN [n EXCEPT !.frames_out = <<>>] ELSE nic[g]]
  BY DEF Becomes, AllConsistent
<1> QED
  BY <1>1, <1>2 DEF AllConsistent

\* The interfaces are consistent at first.
LEMMA InitConsistent == Init => AllConsistent
<1>1. ASSUME NEW e, NEW i
      PROVE  NewInterface(e, i).frames_out = <<>>
  BY DEF NewInterface
<1> QED
  BY <1>1, NewIsConsistent DEF Init, AllConsistent

\* Every step keeps the interfaces consistent.
LEMMA NextConsistent == AllConsistent /\ [Next]_vars => AllConsistent'
<1> SUFFICES ASSUME AllConsistent, [Next]_vars
             PROVE  AllConsistent'
  OBVIOUS
<1>1. ASSUME NEW h \in Host, NEW d \in Dgram, NEW ip \in Ips, Send(h, d, ip)
      PROVE  AllConsistent'
  BY <1>1, SendConsistent, BecomesConsistent DEF Send, AllConsistent
<1>2. ASSUME NEW h \in Host, Receive(h)
      PROVE  AllConsistent'
  <2>1. Consistent(nic[h]) /\ nic[h].frames_out \in Seq({})
    BY EmptySeq DEF AllConsistent
  <2>2. Consistent(recv_frame(nic[h], Head(wire[h])))
    BY <2>1, RecvConsistent
  <2> QED
    BY <1>2, <2>2, BecomesConsistent DEF Receive
<1>3. ASSUME NEW h \in Host, Lose(h)
      PROVE  AllConsistent'
  BY <1>3 DEF Lose, AllConsistent
<1>4. ASSUME NEW h \in Host, NEW ms \in TickSizes, Tick(h, ms)
      PROVE  AllConsistent'
  BY <1>4, TickConsistent, BecomesConsistent, LanAssumption DEF Tick, AllConsistent
<1>5. CASE UNCHANGED vars
  BY <1>5 DEF vars, AllConsistent
<1> QED
  BY <1>1, <1>2, <1>3, <1>4, <1>5 DEF Next

\* The bookkeeping of ARP in NetworkInterface is consistent on every Ethernet at all
\* times: datagrams wait exactly for the unknown addresses that have a request under
\* way, and no timer or expired entry is left behind.
THEOREM ArpIsConsistent == Spec => []ArpConsistent
<1>1. AllConsistent => ArpConsistent
  BY DEF AllConsistent, Consistent, Book, IsTimer, IsEntry, ArpConsistent
<1> QED
  BY <1>1, InitConsistent, NextConsistent, PTL DEF Spec

-----------------------------------------------------------------------------
(* What is on the wires, and what the interfaces learn from it. *)

EthAddr == {EthOf[h] : h \in Host} \cup {Broadcast}

ArpFrame(g, dst, op, ip) ==
  [dst |-> dst, src |-> EthOf[g], type |-> "ARP",
   payload |-> [opcode |-> op, sender_eth |-> EthOf[g], sender_ip |-> IpOf[g], target_ip |-> ip]]

DgramFrame(g, dst, d) == [dst |-> dst, src |-> EthOf[g], type |-> "IPv4", payload |-> d]

ArpFrames == {ArpFrame(g, dst, op, ip) : g \in Host, dst \in EthAddr, op \in {Request, Reply}, ip \in Ips}

DgramFrames == {DgramFrame(g, dst, d) : g \in Host, dst \in EthAddr, d \in Dgram}

Frames == ArpFrames \cup DgramFrames

\* n is an interface of h, holds datagrams for addresses of the network, and what it has
\* learned is true.
TrueNic(h, n) ==
  /\ n.eth = EthOf[h] /\ n.ip = IpOf[h]
  /\ IsFiniteSet(DOMAIN n.pending) /\ DOMAIN n.pending \subseteq Ips
  /\ \A ip \in DOMAIN n.pending : n.pending[ip] \in Seq(Dgram)
  /\ \A ip \in DOMAIN n.arp_table : \E g \in Host : ip = IpOf[g] /\ n.arp_table[ip].eth = EthOf[g]

\* The frames that an interface of h builds are on the list.
LEMMA BuiltFrames ==
  ASSUME NEW h \in Host, NEW n, n.eth = EthOf[h], n.ip = IpOf[h], NEW dst \in EthAddr
  PROVE  /\ \A op \in {Request, Reply}, ip \in Ips :
              arp_frame(n, dst, op, ip) = ArpFrame(h, dst, op, ip) /\ arp_frame(n, dst, op, ip) \in Frames
         /\ \A d \in Dgram :
              ipv4_frame(n, dst, d) = DgramFrame(h, dst, d) /\ ipv4_frame(n, dst, d) \in Frames
<1>1. ASSUME NEW op \in {Request, Reply}, NEW ip \in Ips
      PROVE  arp_frame(n, dst, op, ip) = ArpFrame(h, dst, op, ip) /\ ArpFrame(h, dst, op, ip) \in Frames
  BY DEF arp_frame, ArpFrame, ArpFrames, Frames
<1>2. ASSUME NEW d \in Dgram
      PROVE  ipv4_frame(n, dst, d) = DgramFrame(h, dst, d) /\ DgramFrame(h, dst, d) \in Frames
  BY DEF ipv4_frame, DgramFrame, DgramFrames, Frames
<1> QED
  BY <1>1, <1>2

\* What an ARP message on the wire says.
LEMMA ArpFramesTrue ==
  ASSUME NEW f \in Frames
  PROVE  /\ f.type = "ARP" => \E g \in Host : \E op \in {Request, Reply}, ip \in Ips, dst \in EthAddr :
                                f = ArpFrame(g, dst, op, ip)
         /\ f.type # "ARP" => f.type = "IPv4" /\ f.payload \in Dgram
BY DEF Frames, ArpFrames, DgramFrames, ArpFrame, DgramFrame

\* send_datagram() keeps an interface true and sends only frames of the list.
LEMMA SendTrue ==
  ASSUME NEW h \in Host, NEW n, Consistent(n), TrueNic(h, n), n.frames_out = <<>>,
         NEW d \in Dgram, NEW ip \in Ips
  PROVE  LET m == send_datagram(n, d, ip) IN TrueNic(h, m) /\ m.frames_out \in Seq(Frames)
<1> DEFINE m == send_datagram(n, d, ip)
<1>1. CASE SendsFrame(n, d, ip)
  <2>1. n.arp_table[ip].eth \in EthAddr
    BY <1>1 DEF SendsFrame, TrueNic, EthAddr
  <2>2. ipv4_frame(n, n.arp_table[ip].eth, d) \in Frames
    BY <2>1, BuiltFrames DEF TrueNic
  <2> QED
    BY <1>1, <2>2 DEF SendsFrame, TrueNic, Interface
<1>2. CASE SendsRequest(n, d, ip)
  <2>1. arp_frame(n, Broadcast, Request, ip) \in Frames
    BY BuiltFrames DEF TrueNic, EthAddr
  <2>2. DOMAIN With(n.pending, ip, <<d>>) = DOMAIN n.pending \cup {ip}
    BY DEF With
  <2>3. IsFiniteSet(DOMAIN n.pending \cup {ip})
    BY FS_AddElement DEF TrueNic
  <2>4. \A x \in DOMAIN n.pending \cup {ip} : With(n.pending, ip, <<d>>)[x] \in Seq(Dgram)
    BY DEF With, TrueNic
  <2> HIDE DEF m
  <2>5. m = Interface(n.eth, n.ip, Append(<<>>, arp_frame(n, Broadcast, Request, ip)),
                      n.arp_table, With(n.pending, ip, <<d>>), With(n.timers, ip, ArpRetry))
    BY <1>2 DEF SendsRequest, m
  <2>6. m.frames_out \in Seq(Frames)
    BY <2>1, <2>5 DEF Interface
  <2> QED
    BY <2>2, <2>3, <2>4, <2>5, <2>6 DEF TrueNic, Interface, m
<1>3. CASE LetsWait(n, d, ip)
  <2> DEFINE p == With(n.pending, ip, Append(n.pending[ip], d))
  <2>1. DOMAIN p = DOMAIN n.pending
    BY <1>3 DEF With, LetsWait
  <2>2. \A x \in DOMAIN n.pending : p[x] \in Seq(Dgram)
    BY <1>3 DEF With, TrueNic, LetsWait
  <2> HIDE DEF p, m
  <2>3. m = Interface(n.eth, n.ip, <<>>, n.arp_table, p, n.timers)
    BY <1>3 DEF LetsWait, p, m
  <2> QED
    BY <2>1, <2>2, <2>3 DEF TrueNic, Interface, m
<1> QED
  BY <1>1, <1>2, <1>3, SendResult

\* recv_frame() keeps an interface true when the message is, and sends only frames of
\* the list.
LEMMA RecvTrue ==
  ASSUME NEW h \in Host, NEW n, Consistent(n), TrueNic(h, n), n.frames_out = <<>>,
         NEW frame \in Frames
  PROVE  LET m == recv_frame(n, frame) IN TrueNic(h, m) /\ m.frames_out \in Seq(Frames)
<1> DEFINE m   == recv_frame(n, frame)
           msg == frame.payload
<1>1. n.frames_out \in Seq({})
  BY EmptySeq
<1>2. CASE m = n
  <2> HIDE DEF m
  <2> QED
    BY <1>2, EmptySeq DEF m
<1>3. CASE frame.type = "ARP" /\ m # n
  <2>1. PICK g \in Host : \E op \in {Request, Reply}, ip \in Ips, dst \in EthAddr :
               frame = ArpFrame(g, dst, op, ip)
    BY <1>3, ArpFramesTrue
  <2>2. msg.sender_ip = IpOf[g] /\ msg.sender_eth = EthOf[g]
    BY <2>1 DEF ArpFrame
  <2>3. EthOf[g] \in EthAddr /\ IpOf[g] \in Ips
    BY DEF EthAddr, Ips
  <2>4. Replies(n, msg) \in Seq(Frames)
    <3>1. arp_frame(n, EthOf[g], Reply, IpOf[g]) \in Frames
      BY <2>3, BuiltFrames DEF TrueNic
    <3> HIDE DEF msg
    <3> QED
      BY <2>2, <3>1 DEF Replies
  <2>5. \A x \in DOMAIN Learned(n, msg) :
          \E k \in Host : x = IpOf[k] /\ Learned(n, msg)[x].eth = EthOf[k]
    <3> HIDE DEF msg
    <3> QED
      BY <2>2 DEF Learned, With, TrueNic
  <2> HIDE DEF m, msg
  <2>6. CASE LearnsOnly(n, frame)
    <3>1. m = Interface(n.eth, n.ip, <<>> \o Replies(n, msg), Learned(n, msg), n.pending, n.timers)
      BY <2>6 DEF LearnsOnly, m, msg
    <3> QED
      BY <2>4, <2>5, <3>1 DEF TrueNic, Interface, m
  <2>7. CASE LearnsAndFlushes(n, frame)
    <3> DEFINE p == Without(n.pending, IpOf[g])
    <3>1. m = Interface(n.eth, n.ip, (<<>> \o Replies(n, msg)) \o Flushed(n, IpOf[g], EthOf[g]),
                        Learned(n, msg), p, Without(n.timers, IpOf[g]))
      BY <2>2, <2>7 DEF LearnsAndFlushes, m, msg
    <3>2. Flushed(n, IpOf[g], EthOf[g]) \in Seq(Frames)
      <4>1. n.pending[IpOf[g]] \in Seq(Dgram)
        BY <2>2, <2>7 DEF LearnsAndFlushes, TrueNic, msg
      <4>2. \A d \in Dgram : ipv4_frame(n, EthOf[g], d) \in Frames
        BY <2>3, BuiltFrames DEF TrueNic
      <4> QED
        BY <4>1, <4>2 DEF Flushed
    <3>3. DOMAIN p = DOMAIN n.pending \ {IpOf[g]} /\ \A x \in DOMAIN p : p[x] \in Seq(Dgram)
      BY DEF Without, TrueNic
    <3>4. IsFiniteSet(DOMAIN n.pending \ {IpOf[g]})
      BY FS_RemoveElement DEF TrueNic
    <3> HIDE DEF p
    <3>5. m.frames_out \in Seq(Frames)
      BY <2>4, <3>1, <3>2 DEF Interface
    <3> QED
      BY <2>5, <3>1, <3>3, <3>4, <3>5 DEF TrueNic, Interface, m
  <2> QED
    BY <1>1, <1>3, <2>6, <2>7, RecvResult DEF m
<1> QED
  BY <1>1, <1>2, <1>3, RecvResult

\* The orders in which a tick's requests may go out list the addresses whose timer ran
\* out.
LEMMA OrderOfRequests ==
  ASSUME NEW h \in Host, NEW n, Consistent(n), TrueNic(h, n), NEW ms \in Nat,
         NEW order \in SetToSeqs(unanswered(run_timers(n, ms)))
  PROVE  order \in Seq(Overdue(n.timers, ms)) /\ Overdue(n.timers, ms) \subseteq Ips
<1> DEFINE S == Overdue(n.timers, ms)
<1>1. S \subseteq DOMAIN n.pending
  BY DEF Overdue, Consistent, Book
<1>2. Cardinality(S) \in Nat
  BY <1>1, FS_Subset, FS_CardinalityType DEF TrueNic
<1>3. order \in [1 .. Cardinality(S) -> S]
  BY UnansweredIsOverdue DEF SetToSeqs
<1> HIDE DEF S
<1>4. order \in Seq(S)
  BY <1>2, <1>3
<1> QED
  BY <1>1, <1>4 DEF S, TrueNic

\* tick() keeps an interface true and sends only frames of the list.
LEMMA TickTrue ==
  ASSUME NEW h \in Host, NEW n, Consistent(n), TrueNic(h, n), n.frames_out = <<>>,
         NEW ms \in Nat, NEW order \in SetToSeqs(unanswered(run_timers(n, ms)))
  PROVE  LET m == interface_tick(n, ms, order) IN TrueNic(h, m) /\ m.frames_out \in Seq(Frames)
<1> DEFINE m == interface_tick(n, ms, order)
<1>1. m = Interface(n.eth, n.ip, <<>> \o Requests(n, order),
                    Aged(n.arp_table, ms), n.pending, Restarted(n.timers, ms))
  BY TickResult
<1>2. Requests(n, order) \in Seq(Frames)
  <2>1. order \in Seq(Ips)
    BY OrderOfRequests
  <2>2. \A ip \in Ips : arp_frame(n, Broadcast, Request, ip) \in Frames
    BY BuiltFrames DEF TrueNic, EthAddr
  <2> QED
    BY <2>1, <2>2 DEF Requests
<1>3. \A ip \in DOMAIN Aged(n.arp_table, ms) :
        \E g \in Host : ip = IpOf[g] /\ Aged(n.arp_table, ms)[ip].eth = EthOf[g]
  <2>1. ASSUME NEW ip \in DOMAIN n.arp_table
        PROVE  [n.arp_table[ip] EXCEPT !.ttl = @ - ms].eth = n.arp_table[ip].eth
    BY DEF Consistent, Book, IsEntry
  <2> QED
    BY <2>1 DEF Aged, TrueNic
<1> HIDE DEF m
<1>4. m.frames_out \in Seq(Frames)
  BY <1>1, <1>2 DEF Interface
<1> QED
  BY <1>1, <1>3, <1>4 DEF TrueNic, Interface, m

-----------------------------------------------------------------------------
\* The interfaces are consistent and true, and so are the frames on the wires.
LanTrue ==
  /\ AllConsistent
  /\ wire = [h \in Host |-> wire[h]]
  /\ \A h \in Host : TrueNic(h, nic[h]) /\ wire[h] \in Seq(Frames)

\* A step that gives one host a true interface and sends its frames keeps LanTrue.
LEMMA BecomesTrue ==
  ASSUME LanTrue, NEW h \in Host, NEW n, Consistent(n), TrueNic(h, n), n.frames_out \in Seq(Frames),
         NEW wires, \A g \in Host : wires[g] \in Seq(Frames), Becomes(h, n, wires)
  PROVE  LanTrue'
<1>1. AllConsistent'
  BY BecomesConsistent DEF LanTrue
<1>2. TrueNic(h, [n EXCEPT !.frames_out = <<>>])
  BY DEF TrueNic, Consistent, IsInterface, Interface
<1>3. nic' = [g \in Host |-> IF g = h THEN [n EXCEPT !.frames_out = <<>>] ELSE nic[g]]
  BY DEF Becomes, LanTrue, AllConsistent
<1>4. ASSUME NEW g \in Host
      PROVE  wire'[g] \in Seq(Frames)
  BY DEF Becomes
<1>5. wire' = [g \in Host |-> wire'[g]]
  BY DEF Becomes
<1> QED
  BY <1>1, <1>2, <1>3, <1>4, <1>5 DEF LanTrue

\* The interfaces are true and the wires empty at first.
LEMMA InitTrue == Init => LanTrue
<1> SUFFICES ASSUME Init PROVE LanTrue
  OBVIOUS
<1>1. ASSUME NEW h \in Host
      PROVE  TrueNic(h, nic[h]) /\ wire[h] \in Seq(Frames)
  <2>1. DOMAIN <<>> = {}
    OBVIOUS
  <2>2. IsFiniteSet(DOMAIN <<>>)
    BY <2>1, FS_EmptySet
  <2> QED
    BY <2>1, <2>2 DEF Init, NewInterface, TrueNic
<1>2. wire = [h \in Host |-> wire[h]]
  BY DEF Init
<1> QED
  BY <1>1, <1>2, InitConsistent DEF LanTrue

\* Every step keeps the interfaces and the wires true.
LEMMA NextTrue == LanTrue /\ [Next]_vars => LanTrue'
<1> SUFFICES ASSUME LanTrue, [Next]_vars
             PROVE  LanTrue'
  OBVIOUS
<1>1. ASSUME NEW h \in Host
      PROVE  Consistent(nic[h]) /\ nic[h].frames_out = <<>> /\ TrueNic(h, nic[h]) /\ wire[h] \in Seq(Frames)
  BY DEF LanTrue, AllConsistent
<1>2. ASSUME NEW h \in Host, NEW d \in Dgram, NEW ip \in Ips, Send(h, d, ip)
      PROVE  LanTrue'
  <2> DEFINE m == send_datagram(nic[h], d, ip)
  <2>1. Consistent(m) /\ TrueNic(h, m) /\ m.frames_out \in Seq(Frames)
    BY <1>1, SendConsistent, SendTrue
  <2> HIDE DEF m
  <2>2. Becomes(h, m, wire)
    BY <1>2 DEF Send, m
  <2> QED
    BY <1>1, <2>1, <2>2, BecomesTrue
<1>3. ASSUME NEW h \in Host, Receive(h)
      PROVE  LanTrue'
  <2> DEFINE m     == recv_frame(nic[h], Head(wire[h]))
             wires == [wire EXCEPT ![h] = Tail(@)]
  <2>1. Head(wire[h]) \in Frames /\ Tail(wire[h]) \in Seq(Frames)
    BY <1>1, <1>3 DEF Receive
  <2>2. nic[h].frames_out \in Seq({})
    BY <1>1, EmptySeq
  <2>3. Consistent(m) /\ TrueNic(h, m) /\ m.frames_out \in Seq(Frames)
    BY <1>1, <2>1, <2>2, RecvConsistent, RecvTrue
  <2>4. \A g \in Host : wires[g] \in Seq(Frames)
    BY <1>1, <2>1
  <2> HIDE DEF m, wires
  <2>5. Becomes(h, m, wires)
    BY <1>3 DEF Receive, m, wires
  <2> QED
    BY <2>3, <2>4, <2>5, BecomesTrue
<1>4. ASSUME NEW h \in Host, Lose(h)
      PROVE  LanTrue'
  <2>1. Tail(wire[h]) \in Seq(Frames)
    BY <1>1, <1>4 DEF Lose
  <2> QED
    BY <1>4, <2>1 DEF Lose, LanTrue, AllConsistent
<1>5. ASSUME NEW h \in Host, NEW ms \in TickSizes, Tick(h, ms)
      PROVE  LanTrue'
  <2>1. ms \in Nat
    BY LanAssumption
  <2>2. PICK order \in SetToSeqs(unanswered(run_timers(nic[h], ms))) :
               Becomes(h, interface_tick(nic[h], ms, order), wire)
    BY <1>5 DEF Tick
  <2> DEFINE m == interface_tick(nic[h], ms, order)
  <2>3. Consistent(m) /\ TrueNic(h, m) /\ m.frames_out \in Seq(Frames)
    BY <1>1, <2>1, TickConsistent, TickTrue
  <2> HIDE DEF m
  <2>4. Becomes(h, m, wire)
    BY <2>2 DEF m
  <2> QED
    BY <1>1, <2>3, <2>4, BecomesTrue
<1>6. CASE UNCHANGED vars
  BY <1>6 DEF vars, LanTrue, AllConsistent
<1> QED
  BY <1>2, <1>3, <1>4, <1>5, <1>6 DEF Next

\* An interface never maps another host's IP address to a wrong Ethernet address,
\* whatever is lost, answered late, expires and is learned again.
THEOREM LearnedIsTrue == Spec => []ArpTableTrue
<1>1. LanTrue => ArpTableTrue
  BY LanAssumption DEF LanTrue, TrueNic, ArpTableTrue
<1> QED
  BY <1>1, InitTrue, NextTrue, PTL DEF Spec

-----------------------------------------------------------------------------
(* How often an address is asked for. *)

\* The clocks since the last request fit the maps: a request under way and an entry
\* learned from an answer leave the rest of the retry time at least, and an address
\* that is neither asked for nor known may be asked for.
Rated(clock, a, t) ==
  /\ clock \in [Ips -> 0 .. ArpRetry]
  /\ \A ip \in Ips :
       /\ ip \in DOMAIN t => clock[ip] + t[ip] >= ArpRetry
       /\ ip \in DOMAIN a => clock[ip] + a[ip].ttl >= ArpRetry
       /\ ip \notin DOMAIN t /\ ip \notin DOMAIN a => clock[ip] = ArpRetry

\* The clocks after the addresses in R were asked for.
Reset(clock, R) == [ip \in Ips |-> IF ip \in R THEN 0 ELSE clock[ip]]

\* A request for an unknown address starts its timer.
LEMMA RatedRequest ==
  ASSUME NEW clock, NEW a, NEW t, Rated(clock, a, t),
         NEW ip \in Ips, ip \notin DOMAIN a, ip \notin DOMAIN t
  PROVE  Rated(Reset(clock, {ip}), a, With(t, ip, ArpRetry)) /\ clock[ip] = ArpRetry
BY ArpAssumption DEF Rated, Reset, With

\* An answer ends the request; the entry outlives the retry time.
LEMMA RatedLearn ==
  ASSUME NEW clock, NEW a, NEW t, Rated(clock, a, t), NEW ip, NEW eth
  PROVE  LET b == With(a, ip, [eth |-> eth, ttl |-> ArpTtl])
         IN  Rated(clock, b, Without(t, ip)) /\ (ip \notin DOMAIN t => Rated(clock, b, t))
<1> DEFINE b == With(a, ip, [eth |-> eth, ttl |-> ArpTtl])
<1>1. DOMAIN b = DOMAIN a \cup {ip}
  BY DEF With
<1>2. b[ip].ttl = ArpTtl /\ \A x \in DOMAIN a : x # ip => b[x] = a[x]
  BY DEF With
<1>3. DOMAIN Without(t, ip) = DOMAIN t \ {ip} /\ \A x \in DOMAIN t \ {ip} : Without(t, ip)[x] = t[x]
  BY DEF Without
<1>4. \A x \in Ips : clock[x] \in Nat /\ clock[x] + ArpTtl >= ArpRetry
  BY ArpAssumption, RetryAssumption DEF Rated
<1> HIDE DEF b
<1> QED
  BY <1>1, <1>2, <1>3, <1>4 DEF Rated, b

\* Time passes; what runs out has waited for the retry time.
LEMMA RatedElapse ==
  ASSUME NEW clock, NEW a, NEW p, NEW t, Book(a, p, t), Rated(clock, a, t), NEW ms \in Nat,
         NEW R \in SUBSET Overdue(t, ms)
  PROVE  /\ Rated(Reset(Elapsed(clock, ms), R), Aged(a, ms), Restarted(t, ms))
         /\ \A ip \in R \cap Ips : Elapsed(clock, ms)[ip] = ArpRetry
<1> DEFINE c == Elapsed(clock, ms)
           d == Reset(c, R)
<1>1. ASSUME NEW ip \in Ips
      PROVE  /\ clock[ip] \in 0 .. ArpRetry
             /\ c[ip] = IF clock[ip] + ms >= ArpRetry THEN ArpRetry ELSE clock[ip] + ms
             /\ d[ip] = IF ip \in R THEN 0 ELSE c[ip]
  BY DEF Rated, Elapsed, Reset
<1>2. d \in [Ips -> 0 .. ArpRetry]
  <2>1. \A ip \in Ips : d[ip] \in 0 .. ArpRetry
    BY <1>1, ArpAssumption
  <2> QED
    BY <2>1 DEF Reset
<1>3. ASSUME NEW ip \in Ips, ip \in DOMAIN t
      PROVE  /\ ip \in Overdue(t, ms) => c[ip] = ArpRetry
             /\ d[ip] + Restarted(t, ms)[ip] >= ArpRetry
  <2>1. t[ip] \in 1 .. ArpRetry /\ clock[ip] + t[ip] >= ArpRetry
    BY <1>3 DEF Book, IsTimer, Rated
  <2>2. Restarted(t, ms)[ip] = (IF t[ip] <= ms THEN ArpRetry ELSE t[ip] - ms)
    BY <1>3 DEF Restarted
  <2>3. ip \in Overdue(t, ms) <=> t[ip] <= ms
    BY <1>3 DEF Overdue
  <2>4. d[ip] \in Nat /\ (ip \notin R => d[ip] = c[ip])
    BY <1>1, <1>2
  <2> HIDE DEF c, d
  <2>5. CASE t[ip] <= ms
    BY <1>1, <2>1, <2>2, <2>3, <2>4, <2>5, ArpAssumption
  <2>6. CASE ~(t[ip] <= ms)
    <3>1. d[ip] = c[ip]
      BY <2>3, <2>4, <2>6
    <3> QED
      BY <1>1, <2>1, <2>2, <2>3, <2>6, <3>1, ArpAssumption
  <2> QED
    BY <2>5, <2>6
<1>4. ASSUME NEW ip \in Ips, ip \in DOMAIN a
      PROVE  IF a[ip].ttl > ms
             THEN ip \in DOMAIN Aged(a, ms) /\ d[ip] + Aged(a, ms)[ip].ttl >= ArpRetry
             ELSE ip \notin DOMAIN Aged(a, ms) /\ (ip \notin R => d[ip] = ArpRetry)
  <2>1. a[ip].ttl \in 1 .. ArpTtl /\ clock[ip] + a[ip].ttl >= ArpRetry
    BY <1>4 DEF Book, IsEntry, Rated
  <2>2. ip \notin DOMAIN t
    BY <1>4 DEF Book
  <2>3. ip \notin R /\ d[ip] = c[ip]
    BY <1>1, <2>2 DEF Overdue
  <2>4. a[ip].ttl > ms => Aged(a, ms)[ip].ttl = a[ip].ttl - ms
    BY <1>4 DEF Aged, Book, IsEntry
  <2>5. ip \in DOMAIN Aged(a, ms) <=> a[ip].ttl > ms
    BY <1>4 DEF Aged
  <2> HIDE DEF c, d
  <2> QED
    BY <1>1, <2>1, <2>3, <2>4, <2>5, ArpAssumption
<1>5. ASSUME NEW ip \in Ips, ip \notin DOMAIN t, ip \notin DOMAIN a
      PROVE  ip \notin R /\ d[ip] = ArpRetry
  <2>1. clock[ip] = ArpRetry /\ ip \notin R
    BY <1>5 DEF Rated, Overdue
  <2> QED
    BY <1>1, <2>1, ArpAssumption
<1>6. DOMAIN Restarted(t, ms) = DOMAIN t /\ DOMAIN Aged(a, ms) \subseteq DOMAIN a
  BY DEF Restarted, Aged
<1>7. R \subseteq DOMAIN t
  BY DEF Overdue
<1> HIDE DEF c, d
<1>8. Rated(d, Aged(a, ms), Restarted(t, ms))
  BY <1>2, <1>3, <1>4, <1>5, <1>6, <1>7 DEF Rated
<1> QED
  BY <1>3, <1>7, <1>8 DEF c, d

\* The addresses that a list of frames asks for.
LEMMA RequestedNone ==
  ASSUME NEW frames, \A i \in 1 .. Len(frames) :
           ~(frames[i].type = "ARP" /\ frames[i].payload.opcode = Request)
  PROVE  Requested(frames) = {}
BY DEF Requested

LEMMA RequestedIn ==
  ASSUME NEW frames, NEW S, \A i \in 1 .. Len(frames) : frames[i].payload.target_ip \in S
  PROVE  Requested(frames) \subseteq S
BY DEF Requested

\* send_datagram() asks only for an address whose retry time has passed.
LEMMA SendRated ==
  ASSUME NEW n, Consistent(n), n.frames_out = <<>>, NEW d, NEW ip \in Ips,
         NEW clock, Rated(clock, n.arp_table, n.timers)
  PROVE  LET m == send_datagram(n, d, ip)
             R == Requested(m.frames_out)
         IN  Rated(Reset(clock, R), m.arp_table, m.timers) /\ \A x \in R : clock[x] = ArpRetry
<1> DEFINE m == send_datagram(n, d, ip)
           R == Requested(m.frames_out)
<1>1. Reset(clock, {}) = clock
  BY DEF Reset, Rated
<1>2. CASE SendsFrame(n, d, ip)
  <2> DEFINE f == ipv4_frame(n, n.arp_table[ip].eth, d)
  <2>1. m.frames_out = <<f>> /\ m.arp_table = n.arp_table /\ m.timers = n.timers
    BY <1>2 DEF SendsFrame, Interface
  <2>2. f.type = "IPv4"
    BY DEF ipv4_frame
  <2> HIDE DEF f, m
  <2>3. R = {}
    BY <2>1, <2>2, RequestedNone
  <2> QED
    BY <1>1, <2>1, <2>3 DEF m
<1>3. CASE SendsRequest(n, d, ip)
  <2> DEFINE f == arp_frame(n, Broadcast, Request, ip)
  <2>1. m.frames_out = <<f>> /\ m.arp_table = n.arp_table /\ m.timers = With(n.timers, ip, ArpRetry)
    BY <1>3 DEF SendsRequest, Interface
  <2>2. f.type = "ARP" /\ f.payload.opcode = Request /\ f.payload.target_ip = ip
    BY DEF arp_frame
  <2>3. ip \notin DOMAIN n.arp_table /\ ip \notin DOMAIN n.timers
    BY <1>3 DEF SendsRequest, Consistent, Book
  <2> HIDE DEF f, m
  <2>4. R = {ip}
    BY <2>1, <2>2 DEF Requested
  <2> QED
    BY <2>1, <2>3, <2>4, RatedRequest DEF m
<1>4. CASE LetsWait(n, d, ip)
  <2>1. m.frames_out = <<>> /\ m.arp_table = n.arp_table /\ m.timers = n.timers
    BY <1>4 DEF LetsWait, Interface
  <2> HIDE DEF m
  <2>2. R = {}
    BY <2>1, RequestedNone
  <2> QED
    BY <1>1, <2>1, <2>2 DEF m
<1> QED
  BY <1>2, <1>3, <1>4, SendResult

\* recv_frame() asks for nothing.
LEMMA RecvRated ==
  ASSUME NEW h \in Host, NEW n, Consistent(n), TrueNic(h, n), n.frames_out = <<>>, NEW frame,
         NEW clock, Rated(clock, n.arp_table, n.timers)
  PROVE  LET m == recv_frame(n, frame)
         IN  Rated(clock, m.arp_table, m.timers) /\ Requested(m.frames_out) = {}
<1> DEFINE m   == recv_frame(n, frame)
           msg == frame.payload
           r   == Replies(n, msg)
<1>1. n.frames_out \in Seq({})
  BY EmptySeq
<1>2. CASE m = n
  <2> HIDE DEF m
  <2> QED
    BY <1>2, RequestedNone DEF m
<1>3. r = <<>> \/ \E f : r = <<f>> /\ f.payload.opcode = Reply
  BY DEF Replies, arp_frame
<1>4. Request # Reply
  BY DEF Request, Reply
<1>5. CASE LearnsOnly(n, frame)
  <2>1. msg.sender_ip \notin DOMAIN n.timers
    BY <1>5 DEF LearnsOnly, Consistent, Book
  <2>2. m.frames_out = r /\ m.arp_table = Learned(n, msg) /\ m.timers = n.timers
    <3> HIDE DEF r
    <3>1. <<>> \o r = r
      BY <1>3
    <3> QED
      BY <1>5, <3>1 DEF LearnsOnly, Interface, r
  <2> HIDE DEF m, r, msg
  <2>3. Requested(m.frames_out) = {}
    BY <1>3, <1>4, <2>2, RequestedNone
  <2> QED
    BY <2>1, <2>2, <2>3, RatedLearn DEF Learned, m
<1>6. CASE LearnsAndFlushes(n, frame)
  <2> DEFINE F == Flushed(n, msg.sender_ip, msg.sender_eth)
  <2>1. m.frames_out = (<<>> \o r) \o F /\ m.arp_table = Learned(n, msg)
          /\ m.timers = Without(n.timers, msg.sender_ip)
    BY <1>6 DEF LearnsAndFlushes, Interface
  <2>2. Len(n.pending[msg.sender_ip]) \in Nat
    BY <1>6 DEF LearnsAndFlushes, TrueNic
  <2>3. Len(F) \in Nat /\ \A i \in 1 .. Len(F) : F[i].type = "IPv4"
    BY <2>2 DEF Flushed, ipv4_frame
  <2> HIDE DEF m, r, F, msg
  <2>4. \A i \in 1 .. Len((<<>> \o r) \o F) :
          ~(((<<>> \o r) \o F)[i].type = "ARP" /\ ((<<>> \o r) \o F)[i].payload.opcode = Request)
    BY <1>3, <1>4, <2>3
  <2>5. Requested(m.frames_out) = {}
    BY <2>1, <2>4, RequestedNone
  <2> QED
    BY <2>1, <2>5, RatedLearn DEF Learned, m
<1> QED
  BY <1>1, <1>2, <1>5, <1>6, RecvResult

\* tick() asks only for addresses whose retry time has passed.
LEMMA TickRated ==
  ASSUME NEW h \in Host, NEW n, Consistent(n), TrueNic(h, n), n.frames_out = <<>>,
         NEW ms \in Nat, NEW order \in SetToSeqs(unanswered(run_timers(n, ms))),
         NEW clock, Rated(clock, n.arp_table, n.timers)
  PROVE  LET m == interface_tick(n, ms, order)
             R == Requested(m.frames_out)
             c == Elapsed(clock, ms)
         IN  Rated(Reset(c, R), m.arp_table, m.timers) /\ \A x \in R : c[x] = ArpRetry
<1> DEFINE m == interface_tick(n, ms, order)
           R == Requested(m.frames_out)
           S == Overdue(n.timers, ms)
           q == Requests(n, order)
<1>1. order \in Seq(S) /\ S \subseteq Ips
  BY OrderOfRequests
<1>2. m.frames_out = <<>> \o q /\ m.arp_table = Aged(n.arp_table, ms) /\ m.timers = Restarted(n.timers, ms)
  <2>1. m = Interface(n.eth, n.ip, <<>> \o q, Aged(n.arp_table, ms), n.pending, Restarted(n.timers, ms))
    BY TickResult
  <2> HIDE DEF m, q
  <2> QED
    BY <2>1 DEF Interface
<1>3. Len(q) = Len(order) /\ \A i \in 1 .. Len(q) : q[i].payload.target_ip = order[i]
  <2>1. \A ip : arp_frame(n, Broadcast, Request, ip).payload.target_ip = ip
    BY DEF arp_frame
  <2>2. Len(order) \in Nat
    BY <1>1, LenProperties
  <2>3. DOMAIN q = 1 .. Len(order) /\ \A i \in 1 .. Len(order) : q[i] = arp_frame(n, Broadcast, Request, order[i])
    BY DEF Requests
  <2>4. Len(q) = Len(order)
    BY <2>2, <2>3
  <2> HIDE DEF q
  <2> QED
    BY <2>1, <2>3, <2>4
<1>4. <<>> \o q = q
  <2> HIDE DEF S
  <2> QED
    BY <1>1 DEF Requests
<1>5. R \subseteq S
  <2> HIDE DEF S, q, m
  <2> QED
    BY <1>1, <1>2, <1>3, <1>4, RequestedIn
<1>6. Book(n.arp_table, n.pending, n.timers)
  BY DEF Consistent
<1> HIDE DEF m, R
<1> QED
  BY <1>1, <1>2, <1>5, <1>6, RatedElapse DEF m, R

\* The inductive invariant: every host's clocks fit its maps, and no address was asked
\* for too early.
LanRated ==
  /\ LanTrue
  /\ asked = [h \in Host |-> asked[h]]
  /\ \A h \in Host : Rated(asked[h], nic[h].arp_table, nic[h].timers)
  /\ flooded = FALSE

\* A step that gives one host clocks that fit its maps keeps the invariant.
LEMMA BecomesRated ==
  ASSUME LanRated, LanTrue', NEW h \in Host, NEW n, Consistent(n), NEW wires, NEW clock,
         Becomes(h, n, wires), Asks(h, n.frames_out, clock),
         Rated(Reset(clock, Requested(n.frames_out)), n.arp_table, n.timers),
         \A ip \in Requested(n.frames_out) : clock[ip] = ArpRetry
  PROVE  LanRated'
<1> DEFINE m == [n EXCEPT !.frames_out = <<>>]
<1>1. m.arp_table = n.arp_table /\ m.timers = n.timers
  BY DEF Consistent, IsInterface, Interface
<1>2. nic' = [g \in Host |-> IF g = h THEN m ELSE nic[g]]
  BY DEF Becomes, LanRated, LanTrue, AllConsistent
<1>3. asked' = [g \in Host |-> IF g = h THEN Reset(clock, Requested(n.frames_out)) ELSE asked[g]]
  BY DEF Asks, Reset, LanRated
<1>4. flooded' = FALSE
  <2>1. \A ip \in Requested(n.frames_out) : ~(clock[ip] < ArpRetry)
    BY ArpAssumption
  <2> QED
    BY <2>1, Zenon DEF Asks, LanRated
<1> HIDE DEF m
<1> QED
  BY <1>1, <1>2, <1>3, <1>4 DEF LanRated

\* Every step keeps the clocks fitting.
LEMMA NextRated == LanRated /\ [Next]_vars => LanRated'
<1> SUFFICES ASSUME LanRated, [Next]_vars
             PROVE  LanRated'
  OBVIOUS
<1>1. LanTrue'
  BY NextTrue DEF LanRated
<1>2. ASSUME NEW h \in Host
      PROVE  /\ Consistent(nic[h]) /\ nic[h].frames_out = <<>> /\ TrueNic(h, nic[h])
             /\ Rated(asked[h], nic[h].arp_table, nic[h].timers)
  BY DEF LanRated, LanTrue, AllConsistent
<1>3. ASSUME NEW h \in Host, NEW d \in Dgram, NEW ip \in Ips, Send(h, d, ip)
      PROVE  LanRated'
  <2> DEFINE m == send_datagram(nic[h], d, ip)
  <2>1. /\ Rated(Reset(asked[h], Requested(m.frames_out)), m.arp_table, m.timers)
        /\ \A x \in Requested(m.frames_out) : asked[h][x] = ArpRetry
    BY <1>2, SendRated
  <2>2. Consistent(m)
    BY <1>2, SendConsistent
  <2> HIDE DEF m
  <2>3. Becomes(h, m, wire) /\ Asks(h, m.frames_out, asked[h])
    BY <1>3 DEF Send, m
  <2> QED
    BY <1>1, <2>1, <2>2, <2>3, BecomesRated
<1>4. ASSUME NEW h \in Host, Receive(h)
      PROVE  LanRated'
  <2> DEFINE m     == recv_frame(nic[h], Head(wire[h]))
             wires == [wire EXCEPT ![h] = Tail(@)]
  <2>1. Rated(asked[h], m.arp_table, m.timers) /\ Requested(m.frames_out) = {}
    BY <1>2, RecvRated
  <2>2. nic[h].frames_out \in Seq({})
    BY <1>2, EmptySeq
  <2>3. Consistent(m)
    BY <1>2, <2>2, RecvConsistent
  <2> HIDE DEF m, wires
  <2>4. Becomes(h, m, wires) /\ Asks(h, m.frames_out, asked[h])
    BY <1>4 DEF Receive, m, wires
  <2>5. Reset(asked[h], {}) = asked[h]
    BY <1>2 DEF Reset, Rated
  <2> QED
    BY <1>1, <2>1, <2>3, <2>4, <2>5, BecomesRated
<1>5. ASSUME NEW h \in Host, Lose(h)
      PROVE  LanRated'
  BY <1>1, <1>5 DEF Lose, LanRated
<1>6. ASSUME NEW h \in Host, NEW ms \in TickSizes, Tick(h, ms)
      PROVE  LanRated'
  <2>1. ms \in Nat
    BY LanAssumption
  <2>2. PICK order \in SetToSeqs(unanswered(run_timers(nic[h], ms))) :
               /\ Becomes(h, interface_tick(nic[h], ms, order), wire)
               /\ Asks(h, interface_tick(nic[h], ms, order).frames_out, Elapsed(asked[h], ms))
    BY <1>6 DEF Tick
  <2> DEFINE m == interface_tick(nic[h], ms, order)
             c == Elapsed(asked[h], ms)
  <2>3. /\ Rated(Reset(c, Requested(m.frames_out)), m.arp_table, m.timers)
        /\ \A x \in Requested(m.frames_out) : c[x] = ArpRetry
    BY <1>2, <2>1, TickRated
  <2>4. Consistent(m)
    BY <1>2, <2>1, TickConsistent
  <2> HIDE DEF m, c
  <2>5. Becomes(h, m, wire) /\ Asks(h, m.frames_out, c)
    BY <2>2 DEF m, c
  <2> QED
    BY <1>1, <2>3, <2>4, <2>5, BecomesRated
<1>7. CASE UNCHANGED vars
  BY <1>1, <1>7 DEF vars, LanRated
<1> QED
  BY <1>3, <1>4, <1>5, <1>6, <1>7 DEF Next

\* The clocks fit at first: nothing was asked for.
LEMMA InitRated == Init => LanRated
<1> SUFFICES ASSUME Init PROVE LanRated
  OBVIOUS
<1>1. ASSUME NEW h \in Host
      PROVE  Rated(asked[h], nic[h].arp_table, nic[h].timers)
  <2>1. DOMAIN <<>> = {}
    OBVIOUS
  <2>2. asked[h] = [ip \in Ips |-> ArpRetry] /\ nic[h].arp_table = <<>> /\ nic[h].timers = <<>>
    BY DEF Init, NewInterface
  <2> QED
    BY <2>1, <2>2, ArpAssumption DEF Rated
<1> QED
  BY <1>1, InitTrue DEF Init, LanRated

\* A host never asks for an address twice within the retry time of 5 seconds, across
\* answers, entries that expire and requests that go unanswered.
THEOREM RequestsAreRateLimited == Spec => []RequestsRateLimited
<1>1. LanRated => RequestsRateLimited
  BY DEF LanRated, RequestsRateLimited
<1> QED
  BY <1>1, InitRated, NextRated, PTL DEF Spec

-----------------------------------------------------------------------------
(* Where a datagram is until it is handed up. *)

\* The frames w carry d to g.
OnWire(w, g, d) ==
  \E j \in 1 .. Len(w) : w[j].type = "IPv4" /\ w[j].payload = d /\ w[j].dst = EthOf[g]

\* A frame stays on a wire that grows, and one that joins it is there.
LEMMA OnWireConcat ==
  ASSUME NEW w \in Seq(Frames), NEW f \in Seq(Frames), NEW g, NEW d, OnWire(w, g, d) \/ OnWire(f, g, d)
  PROVE  OnWire(w \o f, g, d)
<1> DEFINE Is(e) == e.type = "IPv4" /\ e.payload = d /\ e.dst = EthOf[g]
<1>1. ASSUME NEW j \in 1 .. Len(w), Is(w[j])
      PROVE  OnWire(w \o f, g, d)
  <2>1. j \in 1 .. Len(w \o f) /\ (w \o f)[j] = w[j]
    BY ConcatProperties
  <2> QED
    BY <1>1, <2>1 DEF OnWire
<1>2. ASSUME NEW j \in 1 .. Len(f), Is(f[j])
      PROVE  OnWire(w \o f, g, d)
  <2> DEFINE k == Len(w) + j
  <2>1. k \in 1 .. Len(w \o f) /\ (w \o f)[k] = f[j]
    BY ConcatProperties
  <2> QED
    BY <1>2, <2>1 DEF OnWire
<1> QED
  BY <1>1, <1>2 DEF OnWire

\* The first frame leaves the wire, no other.
LEMMA OnWireTail ==
  ASSUME NEW w \in Seq(Frames), w # <<>>, NEW g, NEW d, OnWire(w, g, d)
  PROVE  \/ Head(w).type = "IPv4" /\ Head(w).payload = d /\ Head(w).dst = EthOf[g]
         \/ OnWire(Tail(w), g, d)
<1>1. PICK j \in 1 .. Len(w) : w[j].type = "IPv4" /\ w[j].payload = d /\ w[j].dst = EthOf[g]
  BY DEF OnWire
<1>2. CASE j = 1
  BY <1>1, <1>2
<1>3. CASE j # 1
  <2>1. j - 1 \in 1 .. Len(Tail(w)) /\ Tail(w)[j - 1] = w[j]
    BY <1>3
  <2> QED
    BY <1>1, <2>1 DEF OnWire
<1> QED
  BY <1>2, <1>3

\* m still keeps what n keeps for g, or sends it to g.
Keeps(n, m, g) ==
  \A x : Contains(waiting(n, IpOf[g]), x) =>
           Contains(waiting(m, IpOf[g]), x) \/ OnWire(m.frames_out, g, x)

\* send_datagram() keeps what waits; the new datagram waits as well, or is sent.
LEMMA SendKeeps ==
  ASSUME NEW h \in Host, NEW n, Consistent(n), TrueNic(h, n), n.frames_out = <<>>,
         NEW d, NEW k \in Host
  PROVE  LET m == send_datagram(n, d, IpOf[k])
         IN  /\ Contains(waiting(m, IpOf[k]), d) \/ OnWire(m.frames_out, k, d)
             /\ \A g \in Host : Keeps(n, m, g)
<1> DEFINE ip == IpOf[k]
           m  == send_datagram(n, d, ip)
<1>1. CASE SendsFrame(n, d, ip)
  <2> DEFINE f == ipv4_frame(n, n.arp_table[ip].eth, d)
  <2>1. m.frames_out = <<f>> /\ m.pending = n.pending
    BY <1>1 DEF SendsFrame, Interface
  <2>2. f.type = "IPv4" /\ f.payload = d /\ f.dst = EthOf[k]
    BY <1>1, LanAssumption DEF ipv4_frame, SendsFrame, TrueNic
  <2> HIDE DEF f, m
  <2>3. OnWire(m.frames_out, k, d)
    BY <2>1, <2>2 DEF OnWire
  <2>4. \A g \in Host : waiting(m, IpOf[g]) = waiting(n, IpOf[g])
    BY <2>1 DEF waiting
  <2> QED
    BY <2>3, <2>4 DEF Keeps, m
<1>2. CASE SendsRequest(n, d, ip)
  <2>1. m.pending = With(n.pending, ip, <<d>>) /\ ip \notin DOMAIN n.pending
    BY <1>2 DEF SendsRequest, Interface
  <2> HIDE DEF m, ip
  <2>2. waiting(m, ip) = <<d>> /\ waiting(n, ip) = <<>>
    BY <2>1 DEF waiting, With
  <2>3. \A x : x # ip => waiting(m, x) = waiting(n, x)
    BY <2>1 DEF waiting, With
  <2>4. Contains(waiting(m, ip), d) /\ \A x : ~Contains(waiting(n, ip), x)
    BY <2>2 DEF Contains
  <2> QED
    BY <2>3, <2>4 DEF Keeps, m, ip
<1>3. CASE LetsWait(n, d, ip)
  <2>1. m.pending = With(n.pending, ip, Append(n.pending[ip], d)) /\ ip \in DOMAIN n.pending
    BY <1>3 DEF LetsWait, Interface
  <2>2. n.pending[ip] \in Seq(Dgram)
    BY <2>1 DEF TrueNic
  <2> HIDE DEF m, ip
  <2>3. waiting(m, ip) = Append(n.pending[ip], d) /\ waiting(n, ip) = n.pending[ip]
    BY <2>1 DEF waiting, With
  <2>4. \A x : x # ip => waiting(m, x) = waiting(n, x)
    BY <2>1 DEF waiting, With
  <2>5. Contains(waiting(m, ip), d)
    BY <2>2, <2>3 DEF Contains
  <2>6. \A x : Contains(waiting(n, ip), x) => Contains(waiting(m, ip), x)
    BY <2>2, <2>3 DEF Contains
  <2> QED
    BY <2>4, <2>5, <2>6 DEF Keeps, m, ip
<1> QED
  BY <1>1, <1>2, <1>3, SendResult

\* recv_frame() sends everything that waits for the sender of an ARP message, and keeps
\* the rest.
LEMMA RecvKeeps ==
  ASSUME NEW h \in Host, NEW n, Consistent(n), TrueNic(h, n), n.frames_out = <<>>,
         NEW frame \in Frames, NEW g \in Host
  PROVE  Keeps(n, recv_frame(n, frame), g)
<1> DEFINE m   == recv_frame(n, frame)
           msg == frame.payload
           r   == Replies(n, msg)
<1>1. n.frames_out \in Seq({})
  BY EmptySeq
<1>2. ASSUME m.pending = n.pending
      PROVE  Keeps(n, m, g)
  <2> HIDE DEF m
  <2>1. waiting(m, IpOf[g]) = waiting(n, IpOf[g])
    BY <1>2 DEF waiting
  <2> QED
    BY <2>1 DEF Keeps
<1>3. CASE LearnsOnly(n, frame)
  BY <1>2, <1>3 DEF LearnsOnly, Interface
<1>4. CASE LearnsAndFlushes(n, frame) /\ frame.type = "ARP"
  <2>1. PICK k \in Host : \E op \in {Request, Reply}, ip \in Ips, dst \in EthAddr :
               frame = ArpFrame(k, dst, op, ip)
    BY <1>4, ArpFramesTrue
  <2>2. msg.sender_ip = IpOf[k] /\ msg.sender_eth = EthOf[k]
    BY <2>1 DEF ArpFrame
  <2>3. IpOf[k] \in Ips /\ EthOf[k] \in EthAddr
    BY DEF Ips, EthAddr
  <2> HIDE DEF msg
  <2> DEFINE ip == IpOf[k]
             q  == n.pending[ip]
             F  == Flushed(n, ip, EthOf[k])
  <2>4. ip \in DOMAIN n.pending /\ q \in Seq(Dgram)
    BY <1>4, <2>2 DEF LearnsAndFlushes, TrueNic, msg
  <2>5. m.frames_out = (<<>> \o r) \o F /\ m.pending = Without(n.pending, ip)
    BY <1>4, <2>2 DEF LearnsAndFlushes, Interface, msg
  <2>6. <<>> \o r \in Seq(Frames)
    <3>1. arp_frame(n, EthOf[k], Reply, ip) \in Frames
      BY <2>3, BuiltFrames DEF TrueNic
    <3> QED
      BY <2>2, <3>1 DEF Replies
  <2>7. F \in Seq(Frames) /\ Len(F) = Len(q)
    <3>1. \A d \in Dgram : ipv4_frame(n, EthOf[k], d) \in Frames
      BY <2>3, BuiltFrames DEF TrueNic
    <3> QED
      BY <2>4, <3>1 DEF Flushed
  <2>8. \A i \in 1 .. Len(q) : F[i].type = "IPv4" /\ F[i].payload = q[i] /\ F[i].dst = EthOf[k]
    BY <2>4 DEF Flushed, ipv4_frame
  <2> HIDE DEF m, r, F
  <2>9. CASE g = k
    <3>1. ASSUME NEW x, Contains(q, x)
          PROVE  OnWire(F, g, x)
      BY <2>7, <2>8, <2>9, <3>1 DEF OnWire, Contains
    <3>2. waiting(n, IpOf[g]) = q
      BY <2>4, <2>9 DEF waiting
    <3>3. \A x : Contains(q, x) => OnWire(m.frames_out, g, x)
      BY <2>5, <2>6, <2>7, <3>1, OnWireConcat
    <3> QED
      BY <3>2, <3>3 DEF Keeps, m
  <2>10. CASE g # k
    <3>1. IpOf[g] # ip
      BY <2>10, LanAssumption
    <3>2. waiting(m, IpOf[g]) = waiting(n, IpOf[g])
      BY <2>5, <3>1 DEF waiting, Without
    <3> QED
      BY <3>2 DEF Keeps, m
  <2> QED
    BY <2>9, <2>10 DEF m
<1> QED
  BY <1>1, <1>2, <1>3, <1>4, RecvResult

\* tick() keeps what waits.
LEMMA TickKeeps ==
  ASSUME NEW n, Consistent(n), NEW ms \in Nat, NEW order, NEW g
  PROVE  Keeps(n, interface_tick(n, ms, order), g)
<1> DEFINE m == interface_tick(n, ms, order)
<1>1. m.pending = n.pending
  <2>1. m = Interface(n.eth, n.ip, n.frames_out \o Requests(n, order),
                      Aged(n.arp_table, ms), n.pending, Restarted(n.timers, ms))
    BY TickResult
  <2> HIDE DEF m
  <2> QED
    BY <2>1 DEF Interface
<1> HIDE DEF m
<1>2. waiting(m, IpOf[g]) = waiting(n, IpOf[g])
  BY <1>1 DEF waiting
<1> QED
  BY <1>2 DEF Keeps, m

\* d waits at h for g's address, is on its way to g, or was handed up there.
There(h, g, d) ==
  \/ Contains(waiting(nic[h], IpOf[g]), d)
  \/ OnWire(wire[g], g, d)
  \/ Contains(received[g], d)

\* The inductive invariant: nothing is sent to oneself, and unless frames were lost
\* everything sent is somewhere.
LanKept ==
  /\ LanTrue
  /\ losses \in Nat
  /\ received \in [Host -> Seq(Dgram)]
  /\ sent \in [Host -> [Ips -> Seq(Dgram)]]
  /\ \A h \in Host : sent[h][IpOf[h]] = <<>>
  /\ losses = 0 => \A h, g \in Host : \A i \in 1 .. Len(sent[h][IpOf[g]]) : There(h, g, sent[h][IpOf[g]][i])

\* What one host's interface keeps or sends stays with it or joins the wires.
LEMMA BecomesKeeps ==
  ASSUME LanTrue, NEW h \in Host, NEW m, Consistent(m), m.frames_out \in Seq(Frames),
         NEW wires, \A g \in Host : wires[g] \in Seq(Frames), Becomes(h, m, wires),
         NEW k \in Host, NEW g \in Host, k # g, Keeps(nic[h], m, g), NEW x,
         Contains(waiting(nic[k], IpOf[g]), x) \/ OnWire(wires[g], g, x)
  PROVE  Contains(waiting(nic'[k], IpOf[g]), x) \/ OnWire(wire'[g], g, x)
<1>1. nic' = [j \in Host |-> IF j = h THEN [m EXCEPT !.frames_out = <<>>] ELSE nic[j]]
  BY DEF Becomes, LanTrue, AllConsistent
<1>2. wire'[g] = IF g = h THEN wires[g] ELSE wires[g] \o m.frames_out
  BY DEF Becomes
<1>3. waiting([m EXCEPT !.frames_out = <<>>], IpOf[g]) = waiting(m, IpOf[g])
  BY DEF waiting, Consistent, IsInterface, Interface
<1>4. CASE OnWire(wires[g], g, x)
  BY <1>2, <1>4, OnWireConcat
<1>5. CASE Contains(waiting(nic[k], IpOf[g]), x) /\ k # h
  BY <1>1, <1>5
<1>6. CASE Contains(waiting(nic[k], IpOf[g]), x) /\ k = h
  <2>1. nic'[k] = [m EXCEPT !.frames_out = <<>>]
    BY <1>1, <1>6
  <2>2. CASE Contains(waiting(m, IpOf[g]), x)
    BY <1>3, <2>1, <2>2
  <2>3. CASE OnWire(m.frames_out, g, x)
    <3>1. OnWire(wires[g] \o m.frames_out, g, x)
      BY <2>3, OnWireConcat
    <3> QED
      BY <1>2, <1>6, <3>1
  <2> QED
    BY <1>6, <2>2, <2>3 DEF Keeps
<1> QED
  BY <1>4, <1>5, <1>6

\* Nothing was sent at first.
LEMMA InitKept == Init => LanKept
<1> SUFFICES ASSUME Init PROVE LanKept
  OBVIOUS
<1>1. \A h, g \in Host : sent[h][IpOf[g]] = <<>>
  BY DEF Init, Ips
<1>2. received \in [Host -> Seq(Dgram)] /\ sent \in [Host -> [Ips -> Seq(Dgram)]] /\ losses = 0
  BY EmptySeq DEF Init
<1>3. \A h, g \in Host : Len(sent[h][IpOf[g]]) = 0
  BY <1>1
<1> QED
  BY <1>1, <1>2, <1>3, InitTrue DEF LanKept

\* A step that only lets a host's interface keep or send what waits loses nothing: what
\* is on the wires it starts from stays somewhere.
LEMMA StepKeeps ==
  ASSUME LanKept, LanTrue', NEW h \in Host, NEW m, Consistent(m), m.frames_out \in Seq(Frames),
         NEW wires, \A g \in Host : wires[g] \in Seq(Frames), Becomes(h, m, wires),
         \A g \in Host : Keeps(nic[h], m, g),
         \A g \in Host : \A x : OnWire(wire[g], g, x) \/ Contains(received[g], x) =>
                              OnWire(wires[g], g, x) \/ Contains(received'[g], x),
         received' \in [Host -> Seq(Dgram)], UNCHANGED <<sent, losses>>
  PROVE  LanKept'
<1> SUFFICES ASSUME losses = 0, NEW k \in Host, NEW g \in Host,
                    NEW i \in 1 .. Len(sent[k][IpOf[g]])
             PROVE  There(k, g, sent[k][IpOf[g]][i])'
  BY DEF LanKept
<1> DEFINE x == sent[k][IpOf[g]][i]
<1>1. There(k, g, x)
  BY DEF LanKept
<1>2. k # g
  BY DEF LanKept
<1> HIDE DEF x
<1>3. CASE Contains(received'[g], x)
  BY <1>3 DEF There, x
<1>4. CASE Contains(waiting(nic[k], IpOf[g]), x) \/ OnWire(wires[g], g, x)
  <2>1. Contains(waiting(nic'[k], IpOf[g]), x) \/ OnWire(wire'[g], g, x)
    BY <1>2, <1>4, BecomesKeeps DEF LanKept
  <2> QED
    BY <2>1 DEF There, x
<1> QED
  BY <1>1, <1>3, <1>4 DEF There

\* No step loses a datagram but the loss of a frame.
LEMMA NextKept == LanKept /\ [Next]_vars => LanKept'
<1> SUFFICES ASSUME LanKept, [Next]_vars
             PROVE  LanKept'
  OBVIOUS
<1>1. LanTrue'
  BY NextTrue DEF LanKept
<1>2. ASSUME NEW h \in Host
      PROVE  /\ Consistent(nic[h]) /\ nic[h].frames_out = <<>> /\ TrueNic(h, nic[h])
             /\ wire[h] \in Seq(Frames) /\ received[h] \in Seq(Dgram)
  BY DEF LanKept, LanTrue, AllConsistent
<1>3. ASSUME NEW h \in Host, NEW d \in Dgram, NEW ip \in Ips, Send(h, d, ip)
      PROVE  LanKept'
  <2>1. PICK k \in Host : ip = IpOf[k]
    BY DEF Ips
  <2> DEFINE m == send_datagram(nic[h], d, IpOf[k])
  <2>2. Consistent(m) /\ m.frames_out \in Seq(Frames)
    BY <1>2, <2>1, SendConsistent, SendTrue
  <2>3. /\ Contains(waiting(m, IpOf[k]), d) \/ OnWire(m.frames_out, k, d)
        /\ \A g \in Host : Keeps(nic[h], m, g)
    BY <1>2, SendKeeps
  <2> HIDE DEF m
  <2>4. Becomes(h, m, wire) /\ ip # IpOf[h] /\ UNCHANGED <<received, losses>>
    BY <1>3, <2>1 DEF Send, m
  <2>5. sent' = [sent EXCEPT ![h][IpOf[k]] = Append(@, d)] /\ k # h
    BY <1>3, <2>1 DEF Send
  <2>6. sent' \in [Host -> [Ips -> Seq(Dgram)]]
    BY <2>1, <2>5 DEF LanKept
  <2>7. \A j \in Host : sent'[j][IpOf[j]] = <<>>
    BY <2>1, <2>5, LanAssumption DEF LanKept
  <2> DEFINE Then(j, g, x) ==
               \/ Contains(waiting(nic'[j], IpOf[g]), x)
               \/ OnWire(wire'[g], g, x)
               \/ Contains(received'[g], x)
  <2>8. ASSUME losses = 0, NEW j \in Host, NEW g \in Host, NEW x,
               j # g, There(j, g, x)
        PROVE  Then(j, g, x)
    <3>1. CASE Contains(received[g], x)
      BY <2>4, <3>1
    <3>2. CASE Contains(waiting(nic[j], IpOf[g]), x) \/ OnWire(wire[g], g, x)
      <4>1. Contains(waiting(nic'[j], IpOf[g]), x) \/ OnWire(wire'[g], g, x)
        BY <1>2, <2>2, <2>3, <2>4, <2>8, <3>2, BecomesKeeps DEF LanKept
      <4> QED
        BY <4>1
    <3> QED
      BY <2>8, <3>1, <3>2 DEF There
  <2>9. Then(h, k, d)
    <3>1. nic'[h] = [m EXCEPT !.frames_out = <<>>]
      BY <2>4 DEF Becomes, LanKept, LanTrue, AllConsistent
    <3>2. waiting(nic'[h], IpOf[k]) = waiting(m, IpOf[k])
      BY <2>2, <3>1 DEF waiting, Consistent, IsInterface, Interface
    <3>3. wire'[k] = wire[k] \o m.frames_out
      BY <2>4, <2>5 DEF Becomes
    <3>4. OnWire(m.frames_out, k, d) => OnWire(wire'[k], k, d)
      BY <1>2, <2>2, <3>3, OnWireConcat
    <3> QED
      BY <2>3, <3>2, <3>4
  <2> HIDE DEF Then
  <2>10. ASSUME losses = 0, NEW j \in Host, NEW g \in Host,
                NEW i \in 1 .. Len(sent'[j][IpOf[g]])
         PROVE  Then(j, g, sent'[j][IpOf[g]][i])
    <3>1. CASE j = h /\ g = k
      <4> DEFINE q == sent[h][IpOf[k]]
      <4>1. q \in Seq(Dgram) /\ sent'[h][IpOf[k]] = Append(q, d)
        BY <2>1, <2>5 DEF LanKept
      <4>2. CASE i = Len(q) + 1
        <5>1. sent'[j][IpOf[g]][i] = d
          BY <3>1, <4>1, <4>2
        <5> QED
          BY <2>9, <3>1, <5>1
      <4>3. CASE i # Len(q) + 1
        <5>1. i \in 1 .. Len(q) /\ sent'[j][IpOf[g]][i] = q[i]
          BY <3>1, <4>1, <4>3
        <5>2. There(h, k, q[i])
          BY <2>10, <5>1 DEF LanKept
        <5> QED
          BY <2>5, <2>8, <2>10, <3>1, <5>1, <5>2
      <4> QED
        BY <4>2, <4>3
    <3>2. CASE ~(j = h /\ g = k)
      <4>1. sent'[j][IpOf[g]] = sent[j][IpOf[g]]
        BY <2>1, <2>5, <3>2, LanAssumption DEF LanKept, Ips
      <4>2. j # g
        BY <4>1 DEF LanKept
      <4>3. There(j, g, sent[j][IpOf[g]][i])
        BY <2>10, <4>1 DEF LanKept
      <4> QED
        BY <2>8, <2>10, <4>1, <4>2, <4>3
    <3> QED
      BY <3>1, <3>2
  <2> QED
    BY <1>1, <2>4, <2>6, <2>7, <2>10 DEF LanKept, There, Then
<1>4. ASSUME NEW h \in Host, Receive(h)
      PROVE  LanKept'
  <2> DEFINE frame == Head(wire[h])
             m     == recv_frame(nic[h], frame)
             wires == [wire EXCEPT ![h] = Tail(@)]
             up    == received_datagrams(nic[h], frame)
  <2>1. wire[h] # <<>> /\ frame \in Frames /\ Tail(wire[h]) \in Seq(Frames)
    BY <1>2, <1>4 DEF Receive
  <2>2. nic[h].frames_out \in Seq({})
    BY <1>2, EmptySeq
  <2>3. Consistent(m) /\ m.frames_out \in Seq(Frames) /\ \A g \in Host : Keeps(nic[h], m, g)
    BY <1>2, <2>1, <2>2, RecvConsistent, RecvTrue, RecvKeeps
  <2>4. wires = [g \in Host |-> IF g = h THEN Tail(wire[h]) ELSE wire[g]]
    BY DEF LanKept, LanTrue
  <2>5. \A g \in Host : wires[g] \in Seq(Frames)
    BY <1>2, <2>1, <2>4
  <2>6. up \in Seq(Dgram)
    BY <2>1, ArpFramesTrue, EmptySeq DEF received_datagrams
  <2>7. received' = [received EXCEPT ![h] = @ \o up]
    BY <1>4 DEF Receive
  <2>8. received' \in [Host -> Seq(Dgram)]
    BY <2>6, <2>7 DEF LanKept
  <2>9. ASSUME NEW x, frame.type = "IPv4", frame.payload = x, frame.dst = EthOf[h]
        PROVE  up = <<x>>
    BY <1>2, <2>9 DEF received_datagrams, accepts_frame, TrueNic
  <2> HIDE DEF m, wires, up
  <2>10. ASSUME NEW g \in Host, NEW x, OnWire(wire[g], g, x) \/ Contains(received[g], x)
         PROVE  OnWire(wires[g], g, x) \/ Contains(received'[g], x)
    <3>1. CASE g # h
      <4>1. wires[g] = wire[g] /\ received'[g] = received[g]
        BY <2>4, <2>7, <3>1 DEF LanKept
      <4> QED
        BY <2>10, <4>1
    <3>2. CASE g = h
      <4>1. received'[h] = received[h] \o up
        BY <2>7 DEF LanKept
      <4>2. \A y : Contains(received[h], y) \/ Contains(up, y) => Contains(received'[h], y)
        <5>1. ASSUME NEW s \in Seq(Dgram), NEW t \in Seq(Dgram), NEW y, Contains(s, y) \/ Contains(t, y)
              PROVE  Contains(s \o t, y)
          <6>1. ASSUME NEW i \in 1 .. Len(s), s[i] = y
                PROVE  i \in 1 .. Len(s \o t) /\ (s \o t)[i] = y
            BY <6>1, ConcatProperties
          <6>2. ASSUME NEW i \in 1 .. Len(t), t[i] = y
                PROVE  Len(s) + i \in 1 .. Len(s \o t) /\ (s \o t)[Len(s) + i] = y
            BY <6>2, ConcatProperties
          <6> QED
            BY <5>1, <6>1, <6>2 DEF Contains
        <5> QED
          BY <1>2, <2>6, <4>1, <5>1
      <4>3. ASSUME OnWire(wire[h], h, x), ~OnWire(Tail(wire[h]), h, x)
            PROVE  Contains(up, x)
        <5>1. up = <<x>>
          BY <1>2, <2>1, <2>9, <4>3, OnWireTail
        <5> QED
          BY <5>1 DEF Contains
      <4>4. wires[h] = Tail(wire[h])
        BY <2>4
      <4> QED
        BY <2>10, <3>2, <4>2, <4>3, <4>4
    <3> QED
      BY <3>1, <3>2
  <2>11. Becomes(h, m, wires) /\ UNCHANGED <<sent, losses>>
    BY <1>4 DEF Receive, m, wires
  <2> QED
    BY <1>1, <2>3, <2>5, <2>8, <2>10, <2>11, StepKeeps
<1>5. ASSUME NEW h \in Host, Lose(h)
      PROVE  LanKept'
  <2>1. losses' \in Nat /\ losses' # 0
    BY <1>5 DEF Lose, LanKept
  <2> QED
    BY <1>1, <1>5, <2>1 DEF Lose, LanKept
<1>6. ASSUME NEW h \in Host, NEW ms \in TickSizes, Tick(h, ms)
      PROVE  LanKept'
  <2>1. ms \in Nat
    BY LanAssumption
  <2>2. PICK order \in SetToSeqs(unanswered(run_timers(nic[h], ms))) :
               Becomes(h, interface_tick(nic[h], ms, order), wire)
    BY <1>6 DEF Tick
  <2> DEFINE m == interface_tick(nic[h], ms, order)
  <2>3. Consistent(m) /\ m.frames_out \in Seq(Frames) /\ \A g \in Host : Keeps(nic[h], m, g)
    BY <1>2, <2>1, TickConsistent, TickTrue, TickKeeps
  <2> HIDE DEF m
  <2>4. Becomes(h, m, wire) /\ UNCHANGED <<sent, received, losses>>
    BY <1>6, <2>2 DEF Tick, m
  <2>5. received' \in [Host -> Seq(Dgram)]
    BY <2>4 DEF LanKept
  <2> QED
    BY <1>1, <1>2, <2>3, <2>4, <2>5, StepKeeps
<1>7. CASE UNCHANGED vars
  BY <1>1, <1>7 DEF vars, LanKept, There
<1> QED
  BY <1>3, <1>4, <1>5, <1>6, <1>7 DEF Next

\* A datagram that was sent and lost on no wire is waiting for its next hop's address, on
\* its way there, or was handed up: send_datagram(), recv_frame() and tick() drop none.
THEOREM NothingIsForgotten == Spec => []NothingForgotten
<1>1. LanKept => NothingForgotten
  BY DEF LanKept, There, OnWire, NothingForgotten
<1> QED
  BY <1>1, InitKept, NextKept, PTL DEF Spec
=============================================================================
