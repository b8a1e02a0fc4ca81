------------------------------ MODULE PeersProofs ------------------------------
(***************************************************************************)
(* Two TCPConnections over every network that delivers only what was sent, *)
(* whatever it loses, repeats, delays or reorders, and for all data,       *)
(* windows, capacities and timeouts.                                       *)
(*                                                                         *)
(* They never both stop lingering. Whoever does not linger has seen the    *)
(* other's FIN before it sent its own: so the proof follows the FIN from   *)
(* the sender that cut it off its stream, through the segments that are    *)
(* outstanding, queued or on a path, to the eof mark of the reassembler    *)
(* and the end of its output. Along with that goes the type of everything  *)
(* the two connections keep.                                               *)
(*                                                                         *)
(* Their counters never cross, and a connection that ends cleanly has got  *)
(* everything across. Here the proof follows the numbers: each segment has *)
(* a place in the stream of its sender, the receiver finds that place by   *)
(* unwrap(), and what a segment acknowledges had been assembled when it    *)
(* was sent.                                                               *)
(*                                                                         *)
(* So each direction is a pipe: every byte that a segment, an entry of the *)
(* reassembler's map or a stream holds is the byte of the writer's text at *)
(* its place, what was assembled is a beginning of that text, and a stream *)
(* that has ended is all of it.                                            *)
(***************************************************************************)
EXTENDS TCPPeers, Networks, WrappingProofs, SequenceTheorems, WellFoundedInduction

-----------------------------------------------------------------------------
(* The invariant.  In what follows f says whether the sender at the other  *)
(* end has sent its FIN.                                                   *)

Segment == Segments(Byte, WrappingInt32, Nat)

\* The segments that a sender may have made that has sent its FIN, or has not.
MadeBy(f) == {seg \in Segment : seg.fin => f}

GoodStream(o) == o \in ByteStreams(Byte) /\ StreamConsistent(o)

\* The map of a reassembler: entries wherever the segments put them.
GoodMap(strs) ==
  /\ strs = [k \in DOMAIN strs |-> strs[k]]
  /\ DOMAIN strs \subseteq Nat
  /\ \A k \in DOMAIN strs : strs[k] \in Seq(Byte)
  /\ \E m \in Nat : \A k \in DOMAIN strs : k + Len(strs[k]) <= m

Reassembler(strs, next, unassembled, eof_idx, output) ==
  [strs |-> strs, next |-> next, unassembled |-> unassembled, eof_idx |-> eof_idx, output |-> output]

IsReassembler(r) == r = Reassembler(r.strs, r.next, r.unassembled, r.eof_idx, r.output)

GoodReassembler(r, f) ==
  /\ IsReassembler(r)
  /\ r.next \in Nat
  /\ GoodMap(r.strs)
  /\ GoodStream(r.output)
  /\ r.eof_idx # NoEof => f
  /\ r.output.ended => f

GoodReceiver(rcv, f) ==
  /\ rcv = [isn |-> rcv.isn, syn_received |-> rcv.syn_received, reassembler |-> rcv.reassembler]
  /\ rcv.isn \in WrappingInt32
  /\ GoodReassembler(rcv.reassembler, f)

\* The senders whose FIN is sent, or is not.
SendersOf(f) ==
  [isn : WrappingInt32, stream : ByteStreams(Byte), next : Nat, last_ack : Nat,
   fin_sent : BOOLEAN, window : Nat,
   segments_out : Seq(MadeBy(f)), outstanding : Seq(MadeBy(f)),
   timer_running : BOOLEAN, elapsed : Nat, rto : Nat, retransmissions : Nat]

\* One number each for the SYN, the bytes taken off the stream, and the FIN.
GoodSender(s) ==
  /\ s \in SendersOf(s.fin_sent)
  /\ StreamConsistent(s.stream)
  /\ s.next = One(s.next > 0) + s.stream.read + One(s.fin_sent)
  /\ s.fin_sent => s.stream.ended /\ s.stream.buffer = <<>>

GoodConnection(c, f) ==
  /\ c = [sender |-> c.sender, receiver |-> c.receiver, segments_out |-> c.segments_out,
          linger |-> c.linger, is_active |-> c.is_active, silence |-> c.silence]
  /\ GoodSender(c.sender)
  /\ GoodReceiver(c.receiver, f)
  /\ c.segments_out \in Seq(MadeBy(c.sender.fin_sent))
  /\ c.linger \in BOOLEAN
  /\ ~c.linger => f

PeersInv(Paths) ==
  /\ conn = [p \in Peers |-> conn[p]]
  /\ net \in [Peers -> Paths]
  /\ \A p \in Peers :
       /\ GoodConnection(conn[p], conn[Other(p)].sender.fin_sent)
       /\ OnPath(net[p]) \subseteq MadeBy(conn[Other(p)].sender.fin_sent)
  /\ SomeoneLingers

\* What a call on a connection may do: a FIN that is sent stays so, and only who has not
\* sent its own stops lingering.
Follows(c, d) ==
  /\ c.sender.fin_sent => d.sender.fin_sent
  /\ d.linger = c.linger \/ ~c.sender.fin_sent

\* Networks whose paths carry what was sent on them and nothing else.
Honest(Paths, NoPath, Send(_, _), Receive(_), Drop(_), Carried(_)) ==
  /\ NoPath \in Paths /\ Carried(NoPath) = {}
  /\ \A path \in Paths, segs \in Seq(Segment) :
       Send(path, segs) \in Paths /\ Carried(Send(path, segs)) \subseteq Carried(path) \cup Elements(segs)
  /\ \A path \in Paths : \A arrival \in Receive(path) :
       arrival[1] \in Carried(path) /\ arrival[2] \in Paths /\ Carried(arrival[2]) \subseteq Carried(path)
  /\ \A path \in Paths : \A rest \in Drop(path) :
       rest \in Paths /\ Carried(rest) \subseteq Carried(path)

HonestNetwork(Paths) == Honest(Paths, EmptyPath, Enter, Arrivals, Losses, OnPath)
-----------------------------------------------------------------------------
(* Numbers and sequences. *)

\* A set of natural numbers that is not empty has a least element.
LEMMA LeastNatural ==
  ASSUME NEW S, S \subseteq Nat, S # {}
  PROVE  Min(S) \in S /\ \A y \in S : Min(S) <= y
<1> DEFINE R == OpToRel(<, Nat)
<1>1. PICK x \in S : \A y \in S : ~ (<<y, x>> \in R)
  BY NatLessThanWellFounded, WFMin
<1>2. \A y \in S : y < x => <<y, x>> \in R
  BY DEF OpToRel
<1> HIDE DEF R
<1>3. ASSUME NEW y \in S PROVE x <= y
  <2>1. ~ (y < x)
    BY <1>1, <1>2, Zenon
  <2> QED
    BY <2>1
<1> QED
  BY <1>3 DEF Min

\* One that is bounded has a greatest element.
LEMMA GreatestNatural ==
  ASSUME NEW S, S \subseteq Nat, S # {}, NEW n \in Nat, \A y \in S : y <= n
  PROVE  Max(S) \in S /\ \A y \in S : y <= Max(S)
<1> DEFINE B == {b \in Nat : \A y \in S : y <= b}
<1>1. B \subseteq Nat /\ B # {}
  OBVIOUS
<1>2. PICK b \in B : \A c \in B : b <= c
  BY <1>1, LeastNatural
<1>3. b \in S
  <2>1. SUFFICES ASSUME b \notin S PROVE FALSE
    OBVIOUS
  <2>2. PICK y \in S : TRUE
    OBVIOUS
  <2>3. b # 0
    BY <1>2, <2>1, <2>2
  <2>4. b - 1 \in B
    BY <1>2, <2>1, <2>3
  <2> QED
    BY <1>2, <2>4
<1>4. \A y \in S : b >= y
  BY <1>2
<1> HIDE DEF B
<1> QED
  BY <1>3, <1>4 DEF Max

\* A part of a sequence, possibly none of it.
LEMMA PartOf ==
  ASSUME NEW S, NEW s \in Seq(S), NEW m \in Nat, m > 0, NEW n \in Int, n <= Len(s)
  PROVE  /\ SubSeq(s, m, n) \in Seq(S)
         /\ Len(SubSeq(s, m, n)) = IF m <= n THEN n - m + 1 ELSE 0
<1>1. \A i \in m .. n : s[i] \in S
  BY ElementOfSeq
<1> QED
  BY <1>1, SubSeqProperties

\* A sequence over a set is one over each larger set.
LEMMA LargerAlphabet ==
  ASSUME NEW S, NEW T, S \subseteq T, NEW s \in Seq(S)
  PROVE  s \in Seq(T)
<1>1. s \in [1 .. Len(s) -> S] /\ Len(s) \in Nat
  BY LenProperties
<1>2. s \in [1 .. Len(s) -> T]
  BY <1>1
<1> QED
  BY <1>1, <1>2

-----------------------------------------------------------------------------
(* Streams. *)

LEMMA StreamFields ==
  ASSUME NEW o, GoodStream(o)
  PROVE  /\ o.capacity \in Nat /\ o.buffer \in Seq(Byte) /\ o.written \in Nat /\ o.read \in Nat
         /\ o.error \in BOOLEAN /\ o.ended \in BOOLEAN
         /\ Len(o.buffer) \in Nat /\ Len(o.buffer) <= o.capacity /\ o.written = o.read + Len(o.buffer)
BY DEF GoodStream, StreamConsistent, ByteStreams

\* What a write accepts fits.
LEMMA Accepts ==
  ASSUME NEW o, GoodStream(o), NEW m \in Nat
  PROVE  /\ accepts(o, m) \in 0 .. m /\ Len(o.buffer) + accepts(o, m) <= o.capacity
         /\ o.ended => accepts(o, m) = 0
<1> DEFINE l == Len(o.buffer)
           c == o.capacity
           a == accepts(o, m)
<1>1. l \in Nat /\ c \in Nat /\ l <= c
  BY StreamFields
<1>2. a = IF o.error \/ o.ended THEN 0 ELSE IF c - l <= m THEN c - l ELSE m
  BY DEF accepts, remaining_capacity, Smaller
<1> HIDE DEF l, c, a
<1>3. a \in 0 .. m /\ l + a <= c /\ (o.ended => a = 0)
  BY <1>1, <1>2
<1> QED
  BY <1>3 DEF l, c, a

LEMMA WriteStream ==
  ASSUME NEW o, GoodStream(o), NEW data \in Seq(Byte)
  PROVE  LET w == write(o, data)
         IN  /\ GoodStream(w)
             /\ w.ended = o.ended /\ w.read = o.read /\ w.error = o.error
             /\ o.ended => w.buffer = o.buffer
<1> DEFINE n == accepts(o, Len(data))
           part == SubSeq(data, 1, n)
           b == o.buffer \o part
           v == o.written + n
           l == Len(o.buffer)
           w == write(o, data)
<1>1. /\ n \in 0 .. Len(data) /\ l + n <= o.capacity
      /\ o.ended => n = 0
  BY Accepts
<1>2. /\ o \in ByteStreams(Byte) /\ o.buffer \in Seq(Byte) /\ l \in Nat /\ o.written \in Nat
      /\ o.read \in Nat /\ o.capacity \in Nat /\ o.written = o.read + l
  BY StreamFields DEF GoodStream
<1>3. w = [o EXCEPT !.buffer = b, !.written = v]
  BY <1>2, Zenon DEF write, ByteStreams
<1> HIDE DEF n
<1>4. n \in Nat /\ n \in Int /\ n <= Len(data)
  BY <1>1
<1>5. part \in Seq(Byte) /\ Len(part) = n
  <2>1. part \in Seq(Byte) /\ Len(part) = IF 1 <= n THEN n - 1 + 1 ELSE 0
    BY <1>4, PartOf
  <2> HIDE DEF part
  <2> QED
    BY <1>4, <2>1
<1> HIDE DEF part
<1>6. b \in Seq(Byte) /\ Len(b) = l + n
  BY <1>2, <1>5, ConcatProperties
<1>7. o.ended => b = o.buffer
  <2>1. SUFFICES ASSUME o.ended PROVE part = <<>>
    BY <1>2, ConcatEmptySeq
  <2> QED
    BY <1>1, <1>5, <2>1, EmptySeq
<1> HIDE DEF b, w, l
<1>8. v \in Nat /\ v = o.read + (l + n)
  BY <1>2, <1>4
<1> HIDE DEF v
<1>9. /\ w \in ByteStreams(Byte) /\ w.buffer = b /\ w.written = v
      /\ w.capacity = o.capacity /\ w.error = o.error /\ w.ended = o.ended /\ w.read = o.read
  BY <1>2, <1>3, <1>6, <1>8 DEF ByteStreams
<1>10. GoodStream(w)
  BY <1>1, <1>6, <1>8, <1>9 DEF GoodStream, StreamConsistent
<1> QED
  BY <1>7, <1>9, <1>10 DEF w

LEMMA PopStream ==
  ASSUME NEW o, GoodStream(o), NEW len \in Nat
  PROVE  LET p == pop_output(o, len)
             n == peekable(o, len)
         IN  /\ GoodStream(p)
             /\ n \in 0 .. Len(o.buffer) /\ n <= len
             /\ p.ended = o.ended /\ p.error = o.error /\ p.read = o.read + n /\ p.written = o.written
             /\ n = Len(o.buffer) => p.buffer = <<>>
<1> DEFINE n == peekable(o, len)
           l == Len(o.buffer)
           b == SubSeq(o.buffer, n + 1, l)
           v == o.read + n
           p == pop_output(o, len)
<1>1. /\ o \in ByteStreams(Byte) /\ o.buffer \in Seq(Byte) /\ l \in Nat /\ o.written \in Nat
      /\ o.read \in Nat /\ o.capacity \in Nat /\ o.written = o.read + l /\ l <= o.capacity
  BY StreamFields DEF GoodStream
<1>2. n = IF o.error THEN 0 ELSE IF len <= l THEN len ELSE l
  BY DEF peekable, Smaller
<1>3. p = [o EXCEPT !.buffer = b, !.read = v]
  BY <1>1, Zenon DEF pop_output, ByteStreams
<1> HIDE DEF n, p
<1>4. n \in 0 .. l /\ n <= len /\ n \in Nat
  <2> HIDE DEF l
  <2> QED
    BY <1>1, <1>2
<1>5. b \in Seq(Byte) /\ Len(b) = l - n
  <2>1. n + 1 \in Nat /\ n + 1 > 0 /\ l \in Int /\ l <= Len(o.buffer)
    BY <1>1, <1>4
  <2>2. b \in Seq(Byte) /\ Len(b) = IF n + 1 <= l THEN l - (n + 1) + 1 ELSE 0
    <3> HIDE DEF l
    <3> QED
      BY <1>1, <2>1, PartOf
  <2> HIDE DEF b, l
  <2> QED
    BY <1>1, <1>4, <2>2
<1> HIDE DEF b
<1>6. n = l => b = <<>>
  <2>1. SUFFICES ASSUME n = l PROVE Len(b) = 0
    BY <1>5, EmptySeq
  <2> HIDE DEF l
  <2> QED
    BY <1>1, <1>5, <2>1
<1> HIDE DEF l
<1>7. v \in Nat /\ v = o.read + n /\ o.written = v + (l - n) /\ l - n <= o.capacity
  BY <1>1, <1>4
<1> HIDE DEF v
<1>8. /\ p \in ByteStreams(Byte) /\ p.buffer = b /\ p.read = v
      /\ p.capacity = o.capacity /\ p.error = o.error /\ p.ended = o.ended /\ p.written = o.written
  BY <1>1, <1>3, <1>5, <1>7 DEF ByteStreams
<1>9. GoodStream(p)
  BY <1>5, <1>7, <1>8 DEF GoodStream, StreamConsistent
<1> QED
  BY <1>4, <1>6, <1>7, <1>8, <1>9 DEF n, l, p

LEMMA EndStream ==
  ASSUME NEW o, GoodStream(o)
  PROVE  LET e == end_input(o)
         IN  /\ GoodStream(e) /\ e.ended /\ e.error = o.error
             /\ e.read = o.read /\ e.buffer = o.buffer /\ e.written = o.written
<1> DEFINE e == end_input(o)
<1>1. o \in ByteStreams(Byte) /\ e = [o EXCEPT !.ended = TRUE]
  BY DEF GoodStream, end_input
<1> HIDE DEF e
<1>2. /\ e \in ByteStreams(Byte) /\ e.buffer = o.buffer /\ e.ended = TRUE /\ e.error = o.error
      /\ e.capacity = o.capacity /\ e.written = o.written /\ e.read = o.read
  BY <1>1 DEF ByteStreams
<1> QED
  BY <1>2 DEF GoodStream, StreamConsistent, e

LEMMA FailStream ==
  ASSUME NEW o, GoodStream(o)
  PROVE  LET e == set_error(o)
         IN  /\ GoodStream(e) /\ e.error /\ e.ended = o.ended
             /\ e.read = o.read /\ e.buffer = o.buffer /\ e.written = o.written
<1> DEFINE e == set_error(o)
<1>1. o \in ByteStreams(Byte) /\ e = [o EXCEPT !.error = TRUE]
  BY DEF GoodStream, set_error
<1> HIDE DEF e
<1>2. /\ e \in ByteStreams(Byte) /\ e.buffer = o.buffer /\ e.ended = o.ended /\ e.error = TRUE
      /\ e.capacity = o.capacity /\ e.written = o.written /\ e.read = o.read
  BY <1>1 DEF ByteStreams
<1> QED
  BY <1>2 DEF GoodStream, StreamConsistent, e

-----------------------------------------------------------------------------
(* The reassembler: what it is told of the end comes from a segment with a FIN. *)

\* What the calls before the end is marked leave as it is.
SameEnd(q, p) == p.eof_idx = q.eof_idx /\ p.output.ended = q.output.ended

LEMMA EntryFacts ==
  ASSUME NEW q, GoodMap(q.strs), NEW k \in DOMAIN q.strs
  PROVE  /\ k \in Nat /\ q.strs[k] \in Seq(Byte) /\ Len(q.strs[k]) \in Nat
         /\ EntryEnd(q, k) \in Nat /\ EntryEnd(q, k) = k + Len(q.strs[k])
<1>1. k \in Nat /\ q.strs[k] \in Seq(Byte) /\ Len(q.strs[k]) \in Nat
  BY DEF GoodMap
<1> QED
  BY <1>1 DEF EntryEnd

LEMMA NewIdx ==
  ASSUME NEW q, GoodMap(q.strs), q.next \in Nat, NEW index \in Nat
  PROVE  new_idx(q, index) \in Nat /\ index <= new_idx(q, index)
<1> DEFINE before == {k \in DOMAIN q.strs : k <= index}
           from   == new_idx(q, index)
<1>1. CASE before = {}
  <2>1. from = IF index >= q.next THEN index ELSE q.next
    BY <1>1 DEF new_idx, Larger
  <2> QED
    BY <2>1
<1>2. CASE before # {}
  <2> DEFINE m == Max(before)
  <2>1. before \subseteq Nat /\ \A k \in before : k <= index
    BY EntryFacts
  <2>2. m \in before
    BY <1>2, <2>1, GreatestNatural
  <2>3. m \in DOMAIN q.strs
    BY <2>2
  <2>4. from = Larger(index, EntryEnd(q, m))
    BY <1>2 DEF new_idx
  <2> HIDE DEF m, from
  <2>5. from = IF index >= EntryEnd(q, m) THEN index ELSE EntryEnd(q, m)
    BY <2>4 DEF Larger
  <2>6. EntryEnd(q, m) \in Nat
    BY <2>3, EntryFacts
  <2>7. from \in Nat /\ index <= from
    BY <2>5, <2>6
  <2> QED
    BY <2>7 DEF from
<1> QED
  BY <1>1, <1>2

LEMMA DiscardSwallowed ==
  ASSUME NEW q, NEW f, GoodReassembler(q, f), NEW from \in Nat, NEW end \in Nat
  PROVE  LET p == discard_swallowed(q, from, end)
         IN  GoodReassembler(p, f) /\ SameEnd(q, p)
<1> DEFINE gone == swallowed(q, from, end)
           S    == DOMAIN q.strs \ gone
           g    == Keep(q.strs, S)
           Size(k) == Len(q.strs[k])
           u    == q.unassembled - MapThenSumSet(Size, gone)
           p    == discard_swallowed(q, from, end)
<1>1. p = Reassembler(g, q.next, u, q.eof_idx, q.output)
  <2>1. p = [q EXCEPT !.strs = g, !.unassembled = u]
    BY DEF discard_swallowed, GoodReassembler, IsReassembler, Reassembler
  <2> HIDE DEF u, g, p
  <2>2. p = Reassembler(g, q.next, u, q.eof_idx, q.output)
    BY <2>1 DEF GoodReassembler, IsReassembler, Reassembler
  <2> QED
    BY <2>2 DEF p, u, g
<1>2. S \subseteq DOMAIN q.strs
  OBVIOUS
<1> HIDE DEF S, u, p
<1>3. GoodMap(g)
  <2>1. DOMAIN g = S /\ (\A k \in S : g[k] = q.strs[k]) /\ g = [k \in DOMAIN g |-> g[k]]
    BY DEF Keep
  <2> HIDE DEF g
  <2> QED
    BY <1>2, <2>1 DEF GoodReassembler, GoodMap
<1> HIDE DEF g
<1>4. /\ p.strs = g /\ p.next = q.next /\ p.eof_idx = q.eof_idx /\ p.output = q.output
      /\ IsReassembler(p)
  BY <1>1 DEF Reassembler, IsReassembler
<1> QED
  BY <1>3, <1>4 DEF GoodReassembler, SameEnd, p

LEMMA ClippedEnd ==
  ASSUME NEW q, GoodMap(q.strs), NEW from \in Nat, NEW end \in Nat
  PROVE  clipped_end(q, from, end) \in Nat /\ clipped_end(q, from, end) <= end
<1> DEFINE S == {end} \cup {k \in DOMAIN q.strs : from <= k}
<1>1. S \subseteq Nat /\ S # {} /\ end \in S
  BY EntryFacts
<1>2. clipped_end(q, from, end) = Min(S)
  BY DEF clipped_end
<1> HIDE DEF S
<1>3. Min(S) \in S /\ Min(S) <= end
  BY <1>1, LeastNatural
<1> QED
  BY <1>1, <1>2, <1>3

LEMMA StoreBytes ==
  ASSUME NEW q, NEW f, GoodReassembler(q, f), NEW idx \in Nat, NEW data \in Seq(Byte)
  PROVE  LET p == store(q, idx, data)
         IN  GoodReassembler(p, f) /\ SameEnd(q, p)
<1> DEFINE g == [k \in DOMAIN q.strs \cup {idx} |-> IF k = idx THEN data ELSE q.strs[k]]
           u == q.unassembled + Len(data)
           p == store(q, idx, data)
<1>1. p = Reassembler(g, q.next, u, q.eof_idx, q.output)
  <2>1. p = [q EXCEPT !.strs = g, !.unassembled = u]
    BY DEF store, GoodReassembler, IsReassembler, Reassembler
  <2> HIDE DEF g, u, p
  <2>2. p = Reassembler(g, q.next, u, q.eof_idx, q.output)
    BY <2>1 DEF GoodReassembler, IsReassembler, Reassembler
  <2> QED
    BY <2>2 DEF p, u, g
<1> HIDE DEF u, p
<1>2. GoodMap(g)
  <2>1. /\ DOMAIN g = DOMAIN q.strs \cup {idx} /\ g = [k \in DOMAIN g |-> g[k]]
        /\ g[idx] = data /\ \A k \in DOMAIN q.strs : k # idx => g[k] = q.strs[k]
    OBVIOUS
  <2> HIDE DEF g
  <2>2. \A k \in DOMAIN g : k = idx \/ k \in DOMAIN q.strs
    BY <2>1
  <2>3. DOMAIN g \subseteq Nat /\ \A k \in DOMAIN g : g[k] \in Seq(Byte)
    BY <2>1, <2>2 DEF GoodReassembler, GoodMap
  <2>4. PICK m \in Nat : \A k \in DOMAIN q.strs : k + Len(q.strs[k]) <= m
    BY DEF GoodReassembler, GoodMap
  <2> DEFINE e == idx + Len(data)
  <2>5. e \in Nat
    OBVIOUS
  <2>6. \A k \in DOMAIN g : k + Len(g[k]) \in Nat
    BY <2>3
  <2>7. \A k \in DOMAIN g : k + Len(g[k]) <= m \/ k + Len(g[k]) = e
    BY <2>1, <2>2, <2>4
  <2> HIDE DEF e
  <2>8. m + e \in Nat /\ \A k \in DOMAIN g : k + Len(g[k]) <= m + e
    BY <2>5, <2>6, <2>7
  <2> QED
    BY <2>1, <2>3, <2>8 DEF GoodMap
<1> HIDE DEF g
<1>3. /\ p.strs = g /\ p.next = q.next /\ p.eof_idx = q.eof_idx /\ p.output = q.output
      /\ IsReassembler(p)
  BY <1>1 DEF Reassembler, IsReassembler
<1> QED
  BY <1>2, <1>3 DEF GoodReassembler, SameEnd, p

\* Bytes go to the output.
LEMMA OutputBytes ==
  ASSUME NEW q, NEW f, GoodReassembler(q, f), NEW g, GoodMap(g), NEW next \in Nat, NEW u,
         NEW data \in Seq(Byte)
  PROVE  LET p == Reassembler(g, next, u, q.eof_idx, write(q.output, data))
         IN  GoodReassembler(p, f) /\ SameEnd(q, p)
<1> DEFINE w == write(q.output, data)
           p == Reassembler(g, next, u, q.eof_idx, w)
<1>1. GoodStream(w) /\ w.ended = q.output.ended
  BY WriteStream DEF GoodReassembler
<1> HIDE DEF w
<1>2. /\ p.strs = g /\ p.next = next /\ p.eof_idx = q.eof_idx /\ p.output = w
      /\ IsReassembler(p)
  BY DEF Reassembler, IsReassembler
<1> HIDE DEF p
<1>3. GoodReassembler(p, f) /\ SameEnd(q, p)
  BY <1>1, <1>2 DEF GoodReassembler, SameEnd
<1> QED
  BY <1>3 DEF p, w

LEMMA Deposit ==
  ASSUME NEW q, NEW f, GoodReassembler(q, f), NEW idx \in Nat, NEW data \in Seq(Byte)
  PROVE  LET p == deposit(q, idx, data)
         IN  GoodReassembler(p, f) /\ SameEnd(q, p)
<1> DEFINE n      == accepts(q.output, Len(data))
           direct == [q EXCEPT !.output = write(@, data), !.next = @ + n]
           p      == deposit(q, idx, data)
<1>1. n \in 0 .. Len(data) /\ q.next \in Nat
  BY Accepts DEF GoodReassembler
<1>2. GoodReassembler(direct, f) /\ SameEnd(q, direct) /\ direct.next \in Nat
  <2> DEFINE w == write(q.output, data)
             m == q.next + n
  <2>1. m \in Nat
    BY <1>1
  <2>2. direct = [q EXCEPT !.output = w, !.next = m]
    BY DEF GoodReassembler, IsReassembler, Reassembler
  <2> HIDE DEF w, m, direct
  <2>3. direct = Reassembler(q.strs, m, q.unassembled, q.eof_idx, w)
    BY <2>2 DEF GoodReassembler, IsReassembler, Reassembler
  <2>4. GoodMap(q.strs)
    BY DEF GoodReassembler
  <2>5. GoodReassembler(direct, f) /\ SameEnd(q, direct)
    BY <2>1, <2>3, <2>4, OutputBytes DEF w
  <2> QED
    BY <2>5 DEF GoodReassembler, direct
<1> HIDE DEF direct
<1>3. CASE data = <<>>
  <2>1. p = q
    BY <1>3 DEF deposit
  <2> QED
    BY <2>1 DEF SameEnd
<1>4. CASE data # <<>> /\ idx # q.next
  <2>1. p = store(q, idx, data)
    BY <1>4 DEF deposit
  <2> QED
    BY <2>1, StoreBytes
<1>5. CASE data # <<>> /\ idx = q.next /\ n = Len(data)
  <2>1. p = direct
    BY <1>5 DEF deposit, direct
  <2> QED
    BY <1>2, <2>1
<1>6. CASE data # <<>> /\ idx = q.next /\ n # Len(data)
  <2> DEFINE rest == SubSeq(data, n + 1, Len(data))
  <2>1. n < Len(data)
    BY <1>1, <1>6
  <2>2. p = store(direct, direct.next, rest)
    BY <1>6, <2>1 DEF deposit, direct
  <2>3. rest \in Seq(Byte)
    <3>1. n + 1 \in Nat /\ n + 1 > 0 /\ Len(data) \in Int /\ Len(data) <= Len(data)
      BY <1>1
    <3> HIDE DEF n
    <3> QED
      BY <3>1, PartOf
  <2> HIDE DEF rest, p
  <2>4. GoodReassembler(p, f) /\ SameEnd(direct, p)
    BY <1>2, <2>2, <2>3, StoreBytes
  <2> QED
    BY <1>2, <2>4 DEF SameEnd, p
<1> QED
  BY <1>3, <1>4, <1>5, <1>6

\* The entries that the assembling loop writes cover everything up to the last of their ends.
LEMMA Continuation ==
  ASSUME NEW q, GoodMap(q.strs), q.next \in Nat
  PROVE  LET ends == {q.next} \cup {EntryEnd(q, k) : k \in assembling(q)}
             end  == Max(ends)
         IN  /\ end \in ends /\ end \in Nat /\ q.next <= end
             /\ \A i \in q.next .. end - 1 : /\ \E k \in DOMAIN q.strs : covers(q, k, i)
                                             /\ stored_byte(q, i) \in Byte
             /\ \A k \in DOMAIN q.strs : q.next <= k /\ k <= end => k \in assembling(q)
<1> DEFINE run  == assembling(q)
           ends == {q.next} \cup {EntryEnd(q, k) : k \in run}
           end  == Max(ends)
<1>1. PICK m \in Nat : \A k \in DOMAIN q.strs : k + Len(q.strs[k]) <= m
  BY DEF GoodMap
<1>2. /\ run \subseteq DOMAIN q.strs
      /\ \A k \in run : q.next <= k /\ \A i \in q.next .. k - 1 : \E j \in DOMAIN q.strs : covers(q, j, i)
  BY DEF assembling
<1>3. \A k \in DOMAIN q.strs : /\ k \in Nat /\ q.strs[k] \in Seq(Byte) /\ Len(q.strs[k]) \in Nat
                               /\ EntryEnd(q, k) \in Nat /\ EntryEnd(q, k) = k + Len(q.strs[k])
                               /\ EntryEnd(q, k) <= m
  BY <1>1, EntryFacts
<1>4. end \in ends /\ \A y \in ends : y <= end
  <2>1. ends \subseteq Nat /\ ends # {} /\ q.next + m \in Nat /\ \A y \in ends : y <= q.next + m
    BY <1>2, <1>3
  <2> HIDE DEF ends
  <2> QED
    BY <2>1, GreatestNatural
<1> HIDE DEF end, run
<1>5. end \in Nat /\ q.next <= end
  BY <1>2, <1>3, <1>4
<1>6. ASSUME NEW i \in q.next .. end - 1
      PROVE  \E k \in DOMAIN q.strs : covers(q, k, i)
  <2>1. end # q.next
    BY <1>5
  <2>2. PICK k \in run : end = EntryEnd(q, k)
    BY <1>4, <2>1
  <2>3. k \in Nat /\ k \in DOMAIN q.strs
    BY <1>2, <1>3
  <2>4. CASE i < k
    BY <1>2, <1>5, <2>3, <2>4
  <2>5. CASE ~(i < k)
    BY <1>5, <2>2, <2>3, <2>5 DEF covers
  <2> QED
    BY <2>4, <2>5
<1>7. ASSUME NEW b \in q.next .. end - 1
      PROVE  stored_byte(q, b) \in Byte
  <2> DEFINE k == CHOOSE k \in DOMAIN q.strs : covers(q, k, b)
             t == q.strs[k]
  <2>1. b \in Nat
    BY <1>5
  <2>2. k \in DOMAIN q.strs /\ covers(q, k, b)
    BY <1>6
  <2>3. stored_byte(q, b) = t[b - k + 1]
    BY DEF stored_byte
  <2> HIDE DEF k
  <2>4. k \in Nat /\ t \in Seq(Byte) /\ Len(t) \in Nat /\ k <= b /\ b < k + Len(t)
    BY <1>3, <2>2 DEF covers
  <2> HIDE DEF t
  <2>5. b - k + 1 \in 1 .. Len(t)
    BY <2>1, <2>4
  <2>6. t[b - k + 1] \in Byte
    BY <2>4, <2>5, ElementOfSeq
  <2> QED
    BY <2>3, <2>6
<1>8. ASSUME NEW k \in DOMAIN q.strs, q.next <= k, k <= end
      PROVE  k \in run
  <2>1. \A i \in q.next .. k - 1 : i \in q.next .. end - 1
    BY <1>3, <1>5, <1>8
  <2> QED
    BY <1>6, <1>8, <2>1 DEF assembling, run
<1> QED
  BY <1>4, <1>5, <1>6, <1>7, <1>8 DEF end, run

\* The assembling loop, whatever the entries hold and however they overlap.
LEMMA Assemble ==
  ASSUME NEW q, NEW f, GoodReassembler(q, f)
  PROVE  LET p == assemble(q)
         IN  GoodReassembler(p, f) /\ SameEnd(q, p)
<1> DEFINE run   == assembling(q)
           ends  == {q.next} \cup {EntryEnd(q, k) : k \in run}
           end   == Max(ends)
           n     == accepts(q.output, end - q.next)
           next  == q.next + n
           split == {k \in run : k < next /\ next < EntryEnd(q, k)}
           kept  == (DOMAIN q.strs \ {k \in run : k <= next}) \cup (IF split = {} THEN {} ELSE {next})
           whole == CHOOSE s \in split : TRUE
           rest(k) == SubSeq(q.strs[k], next - k + 1, Len(q.strs[k]))
           g     == [k \in kept |-> IF k = next THEN rest(whole) ELSE q.strs[k]]
           u     == q.unassembled - n
           d     == [i \in 1 .. n |-> stored_byte(q, q.next + i - 1)]
           w     == write(q.output, d)
           p     == assemble(q)
<1>1. p = Reassembler(g, next, u, q.eof_idx, w)
  <2>1. p = [q EXCEPT !.strs = g, !.next = next, !.unassembled = u, !.output = w]
    BY DEF assemble
  <2> HIDE DEF g, u, w, next, p
  <2>2. p = Reassembler(g, next, u, q.eof_idx, w)
    BY <2>1 DEF GoodReassembler, IsReassembler, Reassembler
  <2> QED
    BY <2>2 DEF p
<1>2. PICK m \in Nat : \A k \in DOMAIN q.strs : k + Len(q.strs[k]) <= m
  BY DEF GoodReassembler, GoodMap
<1>3. q.next \in Nat /\ GoodMap(q.strs) /\ GoodStream(q.output)
  BY DEF GoodReassembler
<1>4. run \subseteq DOMAIN q.strs
  BY DEF assembling
<1>5. \A k \in DOMAIN q.strs : /\ k \in Nat /\ q.strs[k] \in Seq(Byte) /\ Len(q.strs[k]) \in Nat
                               /\ EntryEnd(q, k) \in Nat /\ EntryEnd(q, k) = k + Len(q.strs[k])
                               /\ EntryEnd(q, k) <= m
  BY <1>2, <1>3, EntryFacts
<1>6. /\ end \in Nat /\ q.next <= end
      /\ \A i \in q.next .. end - 1 : stored_byte(q, i) \in Byte
      /\ \A k \in DOMAIN q.strs : q.next <= k /\ k <= end => k \in run
  BY <1>3, Continuation
<1> HIDE DEF end, run
<1>7. n \in 0 .. end - q.next
  <2> DEFINE room == end - q.next
  <2>1. room \in Nat
    BY <1>3, <1>6
  <2> HIDE DEF room
  <2>2. accepts(q.output, room) \in 0 .. room
    BY <1>3, <2>1, Accepts
  <2> QED
    BY <2>2 DEF room
<1> HIDE DEF n, u, w, p
<1>8. n \in Nat /\ next \in Nat /\ q.next <= next /\ next <= end
  BY <1>3, <1>6, <1>7
<1>9. d \in Seq(Byte)
  <2>1. ASSUME NEW i \in 1 .. n
        PROVE  stored_byte(q, q.next + i - 1) \in Byte
    <3>1. q.next + i - 1 \in q.next .. end - 1
      BY <1>3, <1>6, <1>7, <1>8
    <3> QED
      BY <1>6, <3>1
  <2> QED
    BY <1>8, <2>1
<1> HIDE DEF d, next
<1>10. kept \subseteq DOMAIN q.strs \cup {next} /\ (next \in kept => split # {})
  <2>1. next \in DOMAIN q.strs => next \in run
    BY <1>6, <1>8
  <2>2. next <= next
    BY <1>8
  <2> QED
    BY <2>1, <2>2
<1>11. ASSUME split # {}
       PROVE  rest(whole) \in Seq(Byte) /\ Len(rest(whole)) \in Nat /\ next + Len(rest(whole)) <= m
  <2>1. whole \in split
    BY <1>11
  <2> HIDE DEF whole
  <2>2. whole \in DOMAIN q.strs /\ whole < next /\ next < EntryEnd(q, whole)
    BY <1>4, <2>1
  <2> DEFINE t == q.strs[whole]
             l == Len(t)
             x == next - whole + 1
  <2>3. whole \in Nat /\ t \in Seq(Byte) /\ l \in Nat /\ EntryEnd(q, whole) = whole + l /\ whole + l <= m
    BY <1>5, <2>2
  <2>4. x \in Nat /\ x > 0 /\ x <= l /\ next + (l - x + 1) = whole + l
    BY <1>8, <2>2, <2>3, SMTT(60)
  <2> DEFINE y == SubSeq(t, x, l)
  <2>5. y \in Seq(Byte) /\ Len(y) = l - x + 1
    <3> HIDE DEF t, x
    <3>1. l \in Int /\ l <= Len(t)
      BY <2>3
    <3> HIDE DEF l
    <3>2. y \in Seq(Byte) /\ Len(y) = IF x <= l THEN l - x + 1 ELSE 0
      BY <2>3, <2>4, <3>1, PartOf
    <3> HIDE DEF y
    <3> QED
      BY <2>4, <3>2
  <2> HIDE DEF y
  <2>6. rest(whole) = y
    BY DEF y
  <2> HIDE DEF x, l, t, rest
  <2> QED
    BY <1>8, <2>3, <2>4, <2>5, <2>6
<1> HIDE DEF whole, rest, kept, split
<1>12. GoodMap(g)
  <2>1. DOMAIN g = kept /\ g = [k \in DOMAIN g |-> g[k]]
    OBVIOUS
  <2>2. ASSUME NEW k \in kept
        PROVE  k \in Nat /\ g[k] \in Seq(Byte) /\ k + Len(g[k]) <= m
    <3>1. CASE k = next
      <4>1. g[k] = rest(whole)
        BY <3>1
      <4> HIDE DEF g
      <4> QED
        BY <1>8, <1>10, <1>11, <3>1, <4>1
    <3>2. CASE k # next
      <4>1. g[k] = q.strs[k] /\ k \in DOMAIN q.strs
        BY <1>10, <3>2
      <4> HIDE DEF g
      <4> QED
        BY <1>5, <4>1
    <3> QED
      BY <3>1, <3>2
  <2> HIDE DEF g
  <2> QED
    BY <1>2, <2>1, <2>2 DEF GoodMap
<1> HIDE DEF g
<1>13. p = Reassembler(g, next, u, q.eof_idx, write(q.output, d))
  BY <1>1 DEF w
<1>14. GoodReassembler(p, f) /\ SameEnd(q, p)
  BY <1>8, <1>9, <1>12, <1>13, OutputBytes
<1> QED
  BY <1>14 DEF p

\* The end is marked: that is told by a FIN.
LEMMA MarkEof ==
  ASSUME NEW q, NEW f, GoodReassembler(q, f), NEW end, NEW is_last, is_last => f
  PROVE  GoodReassembler(mark_eof(q, end, is_last), f)
<1> DEFINE e == IF is_last THEN end ELSE q.eof_idx
           o == IF e # NoEof /\ e <= q.next THEN end_input(q.output) ELSE q.output
           p == mark_eof(q, end, is_last)
<1>1. p = Reassembler(q.strs, q.next, q.unassembled, e, o)
  <2>1. p = [q EXCEPT !.eof_idx = e, !.output = o]
    BY DEF mark_eof
  <2> HIDE DEF e, o, p
  <2>2. p = Reassembler(q.strs, q.next, q.unassembled, e, o)
    BY <2>1 DEF GoodReassembler, IsReassembler, Reassembler
  <2> QED
    BY <2>2 DEF p
<1>2. e # NoEof => f
  BY DEF GoodReassembler
<1> HIDE DEF e, p
<1>3. GoodStream(o) /\ (o.ended => f)
  <2>1. CASE e # NoEof /\ e <= q.next
    BY <1>2, <2>1, EndStream DEF GoodReassembler
  <2>2. CASE ~(e # NoEof /\ e <= q.next)
    <3>1. o = q.output
      BY <2>2
    <3> QED
      BY <3>1 DEF GoodReassembler
  <2> QED
    BY <2>1, <2>2
<1> HIDE DEF o
<1>4. /\ p.strs = q.strs /\ p.next = q.next /\ p.eof_idx = e /\ p.output = o /\ IsReassembler(p)
  BY <1>1 DEF Reassembler, IsReassembler
<1>5. GoodReassembler(p, f)
  BY <1>2, <1>3, <1>4 DEF GoodReassembler
<1> QED
  BY <1>5 DEF p

LEMMA PushSubstring ==
  ASSUME NEW q, NEW f, GoodReassembler(q, f), NEW data \in Seq(Byte), NEW index \in Nat,
         NEW is_last, is_last => f
  PROVE  GoodReassembler(push_substring(q, data, index, is_last), f)
<1> DEFINE from == new_idx(q, index)
           last == index + Len(data)
           q1   == discard_swallowed(q, from, last)
           end  == clipped_end(q1, from, last)
           new  == SubSeq(data, from - index + 1, end - index)
           q2   == deposit(q1, from, new)
           q3   == assemble(q2)
           p    == push_substring(q, data, index, is_last)
<1>1. p = IF first_unacceptable_idx(q1) <= from THEN q1 ELSE mark_eof(q3, last, is_last)
  BY DEF push_substring
<1>2. last \in Nat
  OBVIOUS
<1> HIDE DEF p
<1>3. from \in Nat /\ index <= from
  BY NewIdx DEF GoodReassembler
<1> HIDE DEF from, last
<1>4. GoodReassembler(q1, f)
  BY <1>2, <1>3, DiscardSwallowed
<1> HIDE DEF q1
<1>5. end \in Nat /\ end <= last
  BY <1>2, <1>3, <1>4, ClippedEnd DEF GoodReassembler
<1> HIDE DEF end
<1>6. new \in Seq(Byte)
  <2> DEFINE x == from - index + 1
             y == end - index
  <2>1. x \in Nat /\ x > 0 /\ y \in Int /\ y <= Len(data)
    BY <1>3, <1>5 DEF last
  <2> HIDE DEF x, y
  <2>2. SubSeq(data, x, y) \in Seq(Byte)
    BY <2>1, PartOf
  <2> QED
    BY <2>2 DEF x, y
<1> HIDE DEF new
<1>7. GoodReassembler(q2, f)
  BY <1>3, <1>4, <1>6, Deposit
<1> HIDE DEF q2
<1>8. GoodReassembler(q3, f)
  BY <1>7, Assemble
<1> HIDE DEF q3
<1>9. GoodReassembler(mark_eof(q3, last, is_last), f)
  BY <1>8, MarkEof
<1>10. GoodReassembler(p, f)
  BY <1>1, <1>4, <1>9
<1> QED
  BY <1>10 DEF p

\* The reader takes bytes, or the connection fails: the output is another stream that has
\* not ended either.
LEMMA OtherOutput ==
  ASSUME NEW q, NEW f, GoodReassembler(q, f), NEW o, GoodStream(o), o.ended = q.output.ended
  PROVE  GoodReassembler([q EXCEPT !.output = o], f)
<1> DEFINE p == [q EXCEPT !.output = o]
<1>1. p = Reassembler(q.strs, q.next, q.unassembled, q.eof_idx, o)
  BY DEF GoodReassembler, IsReassembler, Reassembler
<1> HIDE DEF p
<1>2. /\ p.strs = q.strs /\ p.next = q.next /\ p.eof_idx = q.eof_idx /\ p.output = o /\ IsReassembler(p)
  BY <1>1 DEF Reassembler, IsReassembler
<1>3. GoodReassembler(p, f)
  BY <1>2 DEF GoodReassembler
<1> QED
  BY <1>3 DEF p

-----------------------------------------------------------------------------
(* The receiver. *)

LEMMA SegmentFields ==
  ASSUME NEW f, NEW seg \in MadeBy(f)
  PROVE  /\ seg.seqno \in WrappingInt32 /\ seg.syn \in BOOLEAN /\ seg.fin \in BOOLEAN
         /\ seg.rst \in BOOLEAN /\ seg.payload \in Seq(Byte) /\ seg.ack \in BOOLEAN
         /\ seg.ackno \in WrappingInt32 /\ seg.win \in Nat
         /\ seg.fin => f
BY DEF MadeBy, Segment, Segments

Receiver(isn, syn_received, reassembler) ==
  [isn |-> isn, syn_received |-> syn_received, reassembler |-> reassembler]

LEMMA NoteSyn ==
  ASSUME NEW rcv, NEW f, GoodReceiver(rcv, f), NEW seg \in MadeBy(f)
  PROVE  GoodReceiver(note_syn(rcv, seg), f)
<1> DEFINE p == note_syn(rcv, seg)
<1>1. CASE ~seg.syn
  BY <1>1 DEF note_syn
<1>2. CASE seg.syn
  <2>1. p = [rcv EXCEPT !.syn_received = TRUE, !.isn = seg.seqno]
    BY <1>2 DEF note_syn
  <2> HIDE DEF p
  <2>2. p = Receiver(seg.seqno, TRUE, rcv.reassembler)
    BY <2>1 DEF GoodReceiver, Receiver
  <2>3. /\ p.isn = seg.seqno /\ p.syn_received = TRUE /\ p.reassembler = rcv.reassembler
        /\ p = [isn |-> p.isn, syn_received |-> p.syn_received, reassembler |-> p.reassembler]
    BY <2>2 DEF Receiver
  <2>4. GoodReceiver(p, f)
    BY <2>3, SegmentFields DEF GoodReceiver
  <2> QED
    BY <2>4 DEF p
<1> QED
  BY <1>1, <1>2

\* The reassembler's part of a receiver is another good one.
LEMMA OtherReassembler ==
  ASSUME NEW rcv, NEW f, GoodReceiver(rcv, f), NEW r, GoodReassembler(r, f)
  PROVE  GoodReceiver([rcv EXCEPT !.reassembler = r], f)
<1> DEFINE p == [rcv EXCEPT !.reassembler = r]
<1>1. p = Receiver(rcv.isn, rcv.syn_received, r)
  BY DEF GoodReceiver, Receiver
<1> HIDE DEF p
<1>2. /\ p.isn = rcv.isn /\ p.syn_received = rcv.syn_received /\ p.reassembler = r
      /\ p = [isn |-> p.isn, syn_received |-> p.syn_received, reassembler |-> p.reassembler]
  BY <1>1 DEF Receiver
<1>3. GoodReceiver(p, f)
  BY <1>2 DEF GoodReceiver
<1> QED
  BY <1>3 DEF p

LEMMA AbsSeqno ==
  ASSUME NEW rcv, NEW f, GoodReceiver(rcv, f), NEW seg \in MadeBy(f)
  PROVE  abs_seqno(rcv, seg) \in Nat
<1>1. stream_out(rcv).written \in Nat
  BY StreamFields DEF GoodReceiver, GoodReassembler, stream_out
<1>2. stream_out(rcv).written + 1 \in Nat
  BY <1>1
<1>3. seg.seqno \in WrappingInt32 /\ rcv.isn \in WrappingInt32
  BY SegmentFields DEF GoodReceiver
<1> QED
  BY <1>2, <1>3, WrapOfUnwrap DEF abs_seqno

LEMMA ReceivesSegment ==
  ASSUME NEW rcv, NEW f, GoodReceiver(rcv, f), NEW seg \in MadeBy(f)
  PROVE  GoodReceiver(receiver_segment_received(rcv, seg), f)
<1> DEFINE rcv1  == note_syn(rcv, seg)
           abs   == abs_seqno(rcv1, seg)
           index == abs - 1 + One(seg.syn)
           push(i) == [rcv1 EXCEPT !.reassembler = push_substring(@, seg.payload, i, seg.fin)]
           p     == receiver_segment_received(rcv, seg)
<1>1. p = IF ~rcv1.syn_received                THEN rcv1
          ELSE IF seg.syn /\ seg.payload = <<>> THEN IF seg.fin THEN push(0) ELSE rcv1
          ELSE IF index < 0                     THEN rcv1
          ELSE push(index)
  BY DEF receiver_segment_received
<1> HIDE DEF p
<1>2. GoodReceiver(rcv1, f)
  BY NoteSyn
<1> HIDE DEF rcv1
<1>3. abs \in Nat
  BY <1>2, AbsSeqno
<1> HIDE DEF abs
<1>4. index \in Int
  BY <1>3 DEF One
<1> HIDE DEF index
<1>5. ASSUME NEW i \in Nat
      PROVE  GoodReceiver(push(i), f)
  <2> DEFINE r == push_substring(rcv1.reassembler, seg.payload, i, seg.fin)
  <2>1. GoodReassembler(rcv1.reassembler, f)
    BY <1>2 DEF GoodReceiver
  <2>2. seg.payload \in Seq(Byte) /\ (seg.fin => f)
    BY SegmentFields
  <2>3. GoodReassembler(r, f)
    BY <2>1, <2>2, PushSubstring
  <2>4. push(i) = [rcv1 EXCEPT !.reassembler = r]
    BY <1>2 DEF GoodReceiver
  <2> HIDE DEF r, push
  <2> QED
    BY <1>2, <2>3, <2>4, OtherReassembler
<1>6. ~(index < 0) => index \in Nat
  BY <1>4
<1> HIDE DEF push
<1>7. p = rcv1 \/ p = push(0) \/ (p = push(index) /\ index \in Nat)
  BY <1>1, <1>6
<1>8. GoodReceiver(p, f)
  BY <1>2, <1>5, <1>7
<1> QED
  BY <1>8 DEF p

\* What a receiver puts into the header, and what the end of its output tells.
LEMMA Advertises ==
  ASSUME NEW rcv, NEW f, GoodReceiver(rcv, f)
  PROVE  /\ ackno(rcv) \in WrappingInt32 /\ window_size(rcv) \in Nat
         /\ stream_out(rcv).ended => f
<1> DEFINE o == stream_out(rcv)
           a == abs_ackno(rcv)
           l == Len(o.buffer)
           c == o.capacity
<1>1. GoodStream(o) /\ (o.ended => f)
  BY DEF GoodReceiver, GoodReassembler, stream_out
<1> HIDE DEF o
<1>2. o.written \in Nat /\ c \in Nat /\ l \in Nat /\ l <= c
  BY <1>1, StreamFields
<1>3. a = o.written + 1 + One(o.ended)
  BY DEF abs_ackno, o
<1>4. window_size(rcv) = c - l
  BY DEF window_size, remaining_capacity, o
<1> HIDE DEF a, l, c
<1>5. a \in Nat
  BY <1>2, <1>3 DEF One
<1>6. c - l \in Nat
  BY <1>2
<1>7. wrap(a, rcv.isn) \in WrappingInt32
  BY <1>5, WrapType DEF GoodReceiver
<1> QED
  BY <1>1, <1>4, <1>6, <1>7 DEF ackno, a, o

LEMMA Stamp ==
  ASSUME NEW rcv, NEW f, GoodReceiver(rcv, f), NEW g, NEW seg \in MadeBy(g)
  PROVE  stamp(rcv, seg) \in MadeBy(g)
<1>1. CASE ~has_ackno(rcv)
  BY <1>1 DEF stamp
<1>2. CASE has_ackno(rcv)
  <2> DEFINE a == ackno(rcv)
             w == Smaller(window_size(rcv), MaxWindow)
             p == stamp(rcv, seg)
  <2>1. a \in WrappingInt32 /\ w \in Nat
    BY Advertises, ConnectionAssumption DEF Smaller
  <2>2. p = [seg EXCEPT !.ack = TRUE, !.ackno = a, !.win = w]
    BY <1>2 DEF stamp
  <2> HIDE DEF a, w, p
  <2>3. p \in Segment /\ p.fin = seg.fin
    BY <2>1, <2>2 DEF MadeBy, Segment, Segments
  <2>4. p \in MadeBy(g)
    BY <2>3 DEF MadeBy
  <2> QED
    BY <2>4 DEF p
<1> QED
  BY <1>1, <1>2

-----------------------------------------------------------------------------
(* The sender. *)

LEMMA SenderTypes ==
  ASSUME NEW f, NEW s \in SendersOf(f)
  PROVE  /\ s.isn \in WrappingInt32 /\ s.stream \in ByteStreams(Byte)
         /\ s.next \in Nat /\ s.last_ack \in Nat /\ s.fin_sent \in BOOLEAN /\ s.window \in Nat
         /\ s.segments_out \in Seq(MadeBy(f)) /\ s.outstanding \in Seq(MadeBy(f))
         /\ s.timer_running \in BOOLEAN /\ s.elapsed \in Nat /\ s.rto \in Nat
         /\ s.retransmissions \in Nat
BY DEF SendersOf

LEMMA SenderFields ==
  ASSUME NEW s, GoodSender(s)
  PROVE  /\ s \in SendersOf(s.fin_sent)
         /\ s.isn \in WrappingInt32 /\ s.stream \in ByteStreams(Byte)
         /\ s.next \in Nat /\ s.last_ack \in Nat /\ s.fin_sent \in BOOLEAN /\ s.window \in Nat
         /\ s.segments_out \in Seq(MadeBy(s.fin_sent)) /\ s.outstanding \in Seq(MadeBy(s.fin_sent))
         /\ s.timer_running \in BOOLEAN /\ s.elapsed \in Nat /\ s.rto \in Nat
         /\ s.retransmissions \in Nat
         /\ GoodStream(s.stream)
<1>1. s \in SendersOf(s.fin_sent) /\ GoodStream(s.stream)
  BY SenderTypes DEF GoodSender, GoodStream
<1> QED
  BY <1>1, SenderTypes

\* What follows the FIN may also precede it.
LEMMA MadeByMore ==
  ASSUME NEW f, NEW g, f => g
  PROVE  /\ MadeBy(f) \subseteq MadeBy(g)
         /\ \A q \in Seq(MadeBy(f)) : q \in Seq(MadeBy(g))
<1>1. MadeBy(f) \subseteq MadeBy(g)
  BY DEF MadeBy
<1> QED
  BY <1>1, LargerAlphabet

\* Another sender with the same stream, next and FIN.
LEMMA SameAccount ==
  ASSUME NEW s, GoodSender(s), NEW u, u \in SendersOf(s.fin_sent), u.fin_sent = s.fin_sent,
         u.next = s.next, StreamConsistent(u.stream), u.stream.read = s.stream.read,
         s.fin_sent => u.stream.ended /\ u.stream.buffer = <<>>
  PROVE  GoodSender(u)
BY DEF GoodSender

\* The number of segments that `size` bytes are cut into.
LEMMA SegmentCount ==
  ASSUME NEW size \in Nat, NEW syn \in BOOLEAN, NEW fin \in BOOLEAN
  PROVE  segment_count(size, syn, fin) \in Nat
<1> DEFINE m == MaxPayload
           x == size + m - 1
           q == x \div m
           r == x % m
           c == segment_count(size, syn, fin)
<1>1. m \in Nat /\ m > 0
  BY SenderAssumption
<1> HIDE DEF m
<1>2. q \in Int /\ r \in 0 .. m - 1 /\ x = m * q + r
  BY <1>1, DivMod
<1>3. c = IF q >= One(syn \/ fin) THEN q ELSE One(syn \/ fin)
  BY DEF segment_count, Larger, m
<1> HIDE DEF q, r, c
<1>4. c \in Nat
  BY <1>2, <1>3 DEF One
<1> QED
  BY <1>4 DEF c

\* The segments that fill_window() cuts: one with a FIN only if the FIN goes out.
LEMMA NewSegments ==
  ASSUME NEW s, s.next \in Nat, s.isn \in WrappingInt32, s.stream.buffer \in Seq(Byte),
         NEW size \in Nat, size <= Len(s.stream.buffer), NEW syn \in BOOLEAN, NEW fin \in BOOLEAN
  PROVE  new_segments(s, size, syn, fin) \in Seq(MadeBy(fin))
<1> DEFINE c == segment_count(size, syn, fin)
<1>1. c \in Nat
  BY SegmentCount
<1>2. ASSUME NEW i \in 1 .. c
      PROVE  new_segment(s, size, syn, fin, i) \in MadeBy(fin)
  <2> DEFINE from == (i - 1) * MaxPayload
             upto == Smaller(from + MaxPayload, size)
             data == SubSeq(s.stream.buffer, from + 1, upto)
             x    == s.next + from + IF i = 1 THEN 0 ELSE One(syn)
             n    == wrap(x, s.isn)
             b1   == syn /\ i = 1
             b2   == fin /\ i = c
             seg  == new_segment(s, size, syn, fin, i)
  <2>1. seg = [EmptySegment EXCEPT !.syn = b1, !.fin = b2, !.payload = data, !.seqno = n]
    BY DEF new_segment
  <2>2. from \in Nat
    <3>1. i - 1 \in Nat /\ MaxPayload \in Nat
      BY <1>1, SenderAssumption
    <3> QED
      BY <3>1
  <2> HIDE DEF from, c
  <2>3. upto \in Int /\ upto <= Len(s.stream.buffer)
    BY <2>2, SenderAssumption DEF Smaller
  <2> HIDE DEF upto
  <2>4. data \in Seq(Byte)
    BY <2>2, <2>3, PartOf
  <2>5. n \in WrappingInt32
    <3>1. x \in Nat
      BY <2>2 DEF One
    <3> QED
      BY <3>1, WrapType
  <2>6. b1 \in BOOLEAN /\ b2 \in BOOLEAN /\ (b2 => fin)
    OBVIOUS
  <2> HIDE DEF data, n, x, b1, b2, seg
  <2>7. seg = [seqno |-> n, syn |-> b1, fin |-> b2, rst |-> FALSE, payload |-> data,
               ack |-> FALSE, ackno |-> 0, win |-> 0]
    BY <2>1 DEF EmptySegment
  <2>8. 0 \in WrappingInt32
    BY MODAssumption DEF WrappingInt32
  <2>9. seg \in Segment /\ seg.fin = b2
    BY <2>4, <2>5, <2>6, <2>7, <2>8 DEF Segment, Segments
  <2> QED
    BY <2>6, <2>9 DEF MadeBy, seg
<1>3. new_segments(s, size, syn, fin) = [i \in 1 .. c |-> new_segment(s, size, syn, fin, i)]
  BY DEF new_segments
<1> HIDE DEF c
<1> QED
  BY <1>1, <1>2, <1>3

\* A step of a sender: it stays good, and a FIN that was sent stays so.
Continues(s, u) == GoodSender(u) /\ (s.fin_sent => u.fin_sent)

\* The room in the window, as far as fill_window() uses it.
LEMMA WindowRoom ==
  ASSUME NEW s, GoodSender(s), window_remain(s) # 0
  PROVE  window_remain(s) \in Nat /\ window_remain(s) > 0
<1> DEFINE c == current_window(s)
           b == bytes_in_flight(s)
<1>1. c \in Nat /\ b \in Int
  BY SenderFields DEF current_window, bytes_in_flight
<1>2. window_remain(s) = IF c > b THEN c - b ELSE 0
  BY DEF window_remain
<1> HIDE DEF c, b
<1> QED
  BY <1>1, <1>2

\* What fill_window() takes off the stream.
LEMMA WindowPiece ==
  ASSUME NEW s, GoodSender(s), window_remain(s) # 0
  PROVE  LET syn  == s.next = 0
             size == payload_size(s, syn)
             fin  == sends_fin(s, syn, size)
             b    == pop_output(s.stream, size)
         IN  /\ size \in Nat /\ size <= Len(s.stream.buffer)
             /\ fin \in BOOLEAN
             /\ fin => s.stream.ended /\ size = Len(s.stream.buffer)
             /\ GoodStream(b) /\ b.ended = s.stream.ended /\ b.error = s.stream.error
             /\ b.written = s.stream.written /\ b.read = s.stream.read + size
             /\ size = Len(s.stream.buffer) => b.buffer = <<>>
<1> DEFINE syn  == s.next = 0
           size == payload_size(s, syn)
           fin  == sends_fin(s, syn, size)
           b    == pop_output(s.stream, size)
           room == window_remain(s) - One(syn)
           l    == Len(s.stream.buffer)
           err  == s.stream.error
<1>1. GoodStream(s.stream) /\ s.stream.ended \in BOOLEAN /\ l \in Nat
  BY SenderFields, StreamFields
<1>2. window_remain(s) \in Nat /\ window_remain(s) > 0
  BY WindowRoom
<1>3. room \in Nat
  BY <1>2 DEF One
<1>4. size = peekable(s.stream, room)
  BY DEF payload_size
<1>5. fin \in BOOLEAN /\ (fin => s.stream.ended /\ size = l)
  BY <1>1 DEF sends_fin
<1> HIDE DEF syn, room, size, fin
<1>6. size = IF err THEN 0 ELSE IF room <= l THEN room ELSE l
  BY <1>4 DEF peekable, Smaller
<1>7. peekable(s.stream, size) = IF err THEN 0 ELSE IF size <= l THEN size ELSE l
  BY DEF peekable, Smaller
<1>8. size \in Nat /\ size <= l /\ peekable(s.stream, size) = size
  <2> HIDE DEF l, err
  <2> QED
    BY <1>1, <1>3, <1>6, <1>7
<1>9. /\ GoodStream(b) /\ b.ended = s.stream.ended /\ b.error = s.stream.error
      /\ b.written = s.stream.written
      /\ b.read = s.stream.read + peekable(s.stream, size)
      /\ peekable(s.stream, size) = l => b.buffer = <<>>
  BY <1>1, <1>8, PopStream
<1> HIDE DEF b
<1>10. b.read = s.stream.read + size /\ (size = l => b.buffer = <<>>)
  BY <1>8, <1>9
<1> QED
  BY <1>5, <1>8, <1>9, <1>10 DEF b, fin, size, syn

LEMMA FillWindow ==
  ASSUME NEW s, GoodSender(s)
  PROVE  Continues(s, fill_window(s))
<1> DEFINE u    == fill_window(s)
           syn  == s.next = 0
           size == payload_size(s, syn)
           fin  == sends_fin(s, syn, size)
           segs == new_segments(s, size, syn, fin)
           b    == pop_output(s.stream, size)
           next == s.next + One(syn) + size + One(fin)
           out  == s.outstanding \o segs
           queue == s.segments_out \o segs
           el   == IF s.timer_running THEN s.elapsed ELSE 0
<1>0. /\ s \in SendersOf(s.fin_sent) /\ s.isn \in WrappingInt32 /\ GoodStream(s.stream)
      /\ s.next \in Nat /\ s.outstanding \in Seq(MadeBy(s.fin_sent))
      /\ s.segments_out \in Seq(MadeBy(s.fin_sent)) /\ s.elapsed \in Nat
  BY SenderFields
<1>1. CASE s.fin_sent \/ window_remain(s) = 0 \/ segs = <<>>
  <2>1. u = s
    BY <1>1 DEF fill_window
  <2> QED
    BY <2>1 DEF Continues
<1>2. CASE ~s.fin_sent /\ window_remain(s) # 0 /\ segs # <<>>
  <2>1. u = [s EXCEPT !.stream        = b,
                      !.next          = next,
                      !.fin_sent      = fin,
                      !.segments_out  = queue,
                      !.outstanding   = out,
                      !.elapsed       = el,
                      !.timer_running = TRUE]
    BY <1>0, <1>2, Zenon DEF fill_window, SendersOf
  <2>2. syn \in BOOLEAN /\ One(syn) \in 0 .. 1
    BY DEF One
  <2>3. /\ size \in Nat /\ size <= Len(s.stream.buffer)
        /\ fin \in BOOLEAN /\ (fin => s.stream.ended /\ size = Len(s.stream.buffer))
        /\ GoodStream(b) /\ b.ended = s.stream.ended /\ b.read = s.stream.read + size
        /\ size = Len(s.stream.buffer) => b.buffer = <<>>
    BY <1>2, WindowPiece
  <2> HIDE DEF u, syn, size, fin, b
  <2>4. One(fin) \in 0 .. 1
    BY DEF One
  <2>5. segs \in Seq(MadeBy(fin))
    BY <1>0, <2>2, <2>3, NewSegments, StreamFields
  <2> HIDE DEF segs
  <2>6. out \in Seq(MadeBy(fin)) /\ queue \in Seq(MadeBy(fin))
    <3>1. s.outstanding \in Seq(MadeBy(fin)) /\ s.segments_out \in Seq(MadeBy(fin))
      BY <1>0, <1>2, MadeByMore
    <3> QED
      BY <2>5, <3>1, ConcatProperties
  <2> HIDE DEF out, queue
  <2>7. next \in Nat
    BY <1>0, <2>2, <2>3, <2>4
  <2>8. el \in Nat
    BY <1>0
  <2> HIDE DEF el
  <2>9. next = One(next > 0) + b.read + One(fin)
    <3> DEFINE read == s.stream.read
    <3>1. s.next = One(s.next > 0) + read + 0 /\ read \in Nat
      BY <1>0, <1>2, StreamFields DEF GoodSender, One
    <3>2. b.read = read + size
      BY <2>3
    <3>3. next = s.next + One(syn) + size + One(fin)
      BY DEF next
    <3>4. One(s.next > 0) + One(syn) = 1
      BY <1>0 DEF One, syn
    <3>5. One(s.next > 0) \in 0 .. 1
      BY DEF One
    <3> HIDE DEF read, next
    <3>6. next = 1 + b.read + One(fin)
      BY <1>0, <2>2, <2>3, <2>4, <3>1, <3>2, <3>3, <3>4, <3>5, SMTT(60)
    <3>7. One(next > 0) = 1
      BY <2>3, <2>4, <3>1, <3>2, <3>6 DEF One
    <3> QED
      BY <3>6, <3>7
  <2> HIDE DEF next
  <2>10. b \in ByteStreams(Byte) /\ StreamConsistent(b)
    BY <2>3 DEF GoodStream
  <2>11. /\ u \in SendersOf(fin) /\ u.stream = b /\ u.next = next /\ u.fin_sent = fin
    BY <1>0, <2>1, <2>3, <2>6, <2>7, <2>8, <2>10 DEF SendersOf
  <2>12. GoodSender(u)
    BY <2>3, <2>9, <2>10, <2>11 DEF GoodSender
  <2> QED
    BY <1>2, <2>12 DEF Continues, u
<1> QED
  BY <1>1, <1>2

\* The stream of a sender is another good one, with the same bytes taken off it.
LEMMA OtherStream ==
  ASSUME NEW s, GoodSender(s), NEW o, GoodStream(o), o.read = s.stream.read,
         s.stream.ended => o.ended /\ o.buffer = s.stream.buffer
  PROVE  Continues(s, [s EXCEPT !.stream = o])
<1> DEFINE u == [s EXCEPT !.stream = o]
<1>1. s \in SendersOf(s.fin_sent) /\ o \in ByteStreams(Byte)
  BY SenderFields DEF GoodStream
<1>2. u \in SendersOf(s.fin_sent) /\ u.stream = o /\ u.next = s.next /\ u.fin_sent = s.fin_sent
  BY <1>1 DEF SendersOf
<1>3. s.fin_sent => o.ended /\ o.buffer = <<>>
  BY DEF GoodSender
<1> HIDE DEF u
<1>4. GoodSender(u)
  BY <1>2, <1>3, SameAccount DEF GoodStream
<1> QED
  BY <1>2, <1>4 DEF Continues, u

LEMMA EmptySegmentWith ==
  ASSUME NEW n \in WrappingInt32
  PROVE  [EmptySegment EXCEPT !.seqno = n]
           = [seqno |-> n, syn |-> FALSE, fin |-> FALSE, rst |-> FALSE, payload |-> <<>>,
              ack |-> FALSE, ackno |-> 0, win |-> 0]
<1> DEFINE e == [EmptySegment EXCEPT !.seqno = n]
<1>1. e = [EmptySegment EXCEPT !.seqno = n]
  OBVIOUS
<1> HIDE DEF e
<1>2. e = [seqno |-> n, syn |-> FALSE, fin |-> FALSE, rst |-> FALSE, payload |-> <<>>,
           ack |-> FALSE, ackno |-> 0, win |-> 0]
  BY <1>1 DEF EmptySegment
<1> QED
  BY <1>2 DEF e

\* The queue to the connection is emptied, or a segment is added to it.
LEMMA OtherQueue ==
  ASSUME NEW s, GoodSender(s), NEW q \in Seq(MadeBy(s.fin_sent))
  PROVE  LET u == [s EXCEPT !.segments_out = q]
         IN  GoodSender(u) /\ u.fin_sent = s.fin_sent
<1> DEFINE u == [s EXCEPT !.segments_out = q]
<1>1. s \in SendersOf(s.fin_sent)
  BY SenderFields
<1>2. u \in SendersOf(s.fin_sent) /\ u.stream = s.stream /\ u.next = s.next /\ u.fin_sent = s.fin_sent
  BY <1>1 DEF SendersOf
<1> HIDE DEF u
<1>3. GoodSender(u)
  BY <1>2, SameAccount DEF GoodSender
<1> QED
  BY <1>2, <1>3 DEF u

LEMMA SendEmptySegment ==
  ASSUME NEW s, GoodSender(s)
  PROVE  Continues(s, send_empty_segment(s))
<1> DEFINE n   == wrap(s.next, s.isn)
           seg == [EmptySegment EXCEPT !.seqno = n]
           q   == Append(s.segments_out, seg)
           u   == send_empty_segment(s)
<1>1. s.next \in Nat /\ s.isn \in WrappingInt32 /\ s.segments_out \in Seq(MadeBy(s.fin_sent))
  BY SenderFields
<1>2. n \in WrappingInt32 /\ 0 \in WrappingInt32
  <2>1. n \in WrappingInt32
    BY <1>1, WrapType
  <2>2. 0 \in WrappingInt32
    BY MODAssumption DEF WrappingInt32
  <2> QED
    BY <2>1, <2>2
<1> HIDE DEF n
<1>3. seg = [seqno |-> n, syn |-> FALSE, fin |-> FALSE, rst |-> FALSE, payload |-> <<>>,
             ack |-> FALSE, ackno |-> 0, win |-> 0]
  BY <1>2, EmptySegmentWith
<1> HIDE DEF seg
<1>4. seg \in MadeBy(s.fin_sent)
  <2>1. <<>> \in Seq(Byte)
    OBVIOUS
  <2>2. seg \in Segment /\ ~seg.fin
    BY <1>2, <1>3, <2>1 DEF Segment, Segments
  <2> QED
    BY <2>2 DEF MadeBy
<1>5. q \in Seq(MadeBy(s.fin_sent))
  BY <1>1, <1>4, AppendProperties
<1>6. u = [s EXCEPT !.segments_out = q]
  <2>1. s \in SendersOf(s.fin_sent)
    BY SenderFields
  <2> QED
    BY <2>1, Zenon DEF send_empty_segment, seg, n, SendersOf
<1> HIDE DEF q, u
<1>7. GoodSender(u) /\ u.fin_sent = s.fin_sent
  BY <1>5, <1>6, OtherQueue
<1> QED
  BY <1>7 DEF Continues, u

LEMMA PopAcked ==
  ASSUME NEW s, GoodSender(s), NEW ack
  PROVE  Continues(s, pop_acked(s, ack))
<1> DEFINE n   == Len(s.outstanding)
           U   == {i \in 1 .. n : segment_end(s, s.outstanding[i]) > ack} \cup {n + 1}
           k   == Min(U)
           out == SubSeq(s.outstanding, k, n)
           u   == pop_acked(s, ack)
<1>1. s \in SendersOf(s.fin_sent) /\ s.outstanding \in Seq(MadeBy(s.fin_sent)) /\ n \in Nat
  BY SenderFields
<1>2. u = [s EXCEPT !.outstanding = out]
  BY <1>1, Zenon DEF pop_acked, SendersOf
<1>3. U \subseteq Nat \ {0} /\ U # {}
  BY <1>1
<1> HIDE DEF U, u
<1>4. k \in Nat /\ k > 0
  <2>1. U \subseteq Nat
    BY <1>3
  <2>2. k \in U
    BY <1>3, <2>1, LeastNatural
  <2> HIDE DEF k
  <2> QED
    BY <1>3, <2>2
<1> HIDE DEF k
<1>5. out \in Seq(MadeBy(s.fin_sent))
  <2>1. n \in Int /\ n <= Len(s.outstanding)
    BY <1>1
  <2> HIDE DEF n
  <2> QED
    BY <1>1, <1>4, <2>1, PartOf
<1> HIDE DEF out
<1>6. u \in SendersOf(s.fin_sent) /\ u.stream = s.stream /\ u.next = s.next /\ u.fin_sent = s.fin_sent
  BY <1>1, <1>2, <1>5 DEF SendersOf
<1>7. GoodSender(u)
  BY <1>6, SameAccount DEF GoodSender
<1> QED
  BY <1>6, <1>7 DEF Continues, u

LEMMA TakeWindow ==
  ASSUME NEW s, GoodSender(s), NEW win \in Nat
  PROVE  Continues(s, take_window(s, win))
<1> DEFINE u == take_window(s, win)
<1>1. s \in SendersOf(s.fin_sent)
  BY SenderFields
<1>2. u = [s EXCEPT !.window = win]
  BY DEF take_window
<1> HIDE DEF u
<1>3. u \in SendersOf(s.fin_sent) /\ u.stream = s.stream /\ u.next = s.next /\ u.fin_sent = s.fin_sent
  BY <1>1, <1>2 DEF SendersOf
<1>4. GoodSender(u)
  BY <1>3, SameAccount DEF GoodSender
<1> QED
  BY <1>3, <1>4 DEF Continues, u

LEMMA RestartTimer ==
  ASSUME NEW s, GoodSender(s), NEW ack \in Nat
  PROVE  Continues(s, restart_timer(s, ack))
<1> DEFINE u == restart_timer(s, ack)
<1>1. s \in SendersOf(s.fin_sent) /\ RtTimeout \in Nat
  BY SenderFields, SenderAssumption
<1>2. u = [s EXCEPT !.last_ack = ack, !.rto = RtTimeout, !.retransmissions = 0, !.elapsed = 0]
  BY DEF restart_timer
<1> HIDE DEF u
<1>3. u \in SendersOf(s.fin_sent) /\ u.stream = s.stream /\ u.next = s.next /\ u.fin_sent = s.fin_sent
  BY <1>1, <1>2 DEF SendersOf
<1>4. GoodSender(u)
  BY <1>3, SameAccount DEF GoodSender
<1> QED
  BY <1>3, <1>4 DEF Continues, u

LEMMA StopIdleTimer ==
  ASSUME NEW s, GoodSender(s), NEW is_new \in BOOLEAN
  PROVE  Continues(s, stop_idle_timer(s, is_new))
<1> DEFINE e   == IF s.outstanding = <<>> THEN 0 ELSE s.elapsed
           run == IF s.outstanding = <<>> THEN FALSE ELSE s.timer_running \/ is_new
           u   == stop_idle_timer(s, is_new)
<1>1. s \in SendersOf(s.fin_sent)
  BY SenderFields
<1>2. e \in Nat /\ run \in BOOLEAN
  BY SenderFields
<1>3. u = [s EXCEPT !.timer_running = run, !.elapsed = e]
  <2>1. CASE s.outstanding = <<>>
    BY <2>1 DEF stop_idle_timer
  <2>2. CASE s.outstanding # <<>>
    <3>1. u = [s EXCEPT !.timer_running = s.timer_running \/ is_new]
      BY <1>1, <2>2, Zenon DEF stop_idle_timer, SendersOf
    <3>2. s = [s EXCEPT !.elapsed = s.elapsed]
      BY <1>1 DEF SendersOf
    <3>3. run = (s.timer_running \/ is_new) /\ e = s.elapsed
      BY <2>2
    <3> HIDE DEF run, e, u
    <3> QED
      BY <1>1, <3>1, <3>2, <3>3 DEF SendersOf
  <2> QED
    BY <2>1, <2>2
<1> HIDE DEF e, run, u
<1>4. u \in SendersOf(s.fin_sent) /\ u.stream = s.stream /\ u.next = s.next /\ u.fin_sent = s.fin_sent
  BY <1>1, <1>2, <1>3 DEF SendersOf
<1>5. GoodSender(u)
  BY <1>4, SameAccount DEF GoodSender
<1> QED
  BY <1>4, <1>5 DEF Continues, u

LEMMA AckReceived ==
  ASSUME NEW s, GoodSender(s), NEW ack \in WrappingInt32, NEW win \in Nat
  PROVE  Continues(s, ack_received(s, ack, win))
<1> DEFINE abs == unwrap(ack, s.isn, s.next)
           new == abs > s.last_ack
           s1  == take_window(s, win)
           s2  == IF new THEN restart_timer(s1, abs) ELSE s1
           s3  == pop_acked(s2, abs)
           s4  == fill_window(s3)
           u   == stop_idle_timer(s4, new)
<1>1. abs \in Nat /\ new \in BOOLEAN
  <2>1. s.isn \in WrappingInt32 /\ s.next \in Nat
    BY SenderFields
  <2> QED
    BY <2>1, WrapOfUnwrap
<1>2. ack_received(s, ack, win) = IF abs > s.next THEN s ELSE u
  BY DEF ack_received
<1> HIDE DEF abs, new
<1>3. Continues(s, s1)
  BY TakeWindow
<1> HIDE DEF s1
<1>4. Continues(s, s2)
  <2>1. Continues(s1, restart_timer(s1, abs))
    BY <1>1, <1>3, RestartTimer DEF Continues
  <2> QED
    BY <1>3, <2>1 DEF Continues
<1> HIDE DEF s2
<1>5. Continues(s, s3)
  <2>1. Continues(s2, s3)
    BY <1>4, PopAcked DEF Continues
  <2> HIDE DEF s3
  <2> QED
    BY <1>4, <2>1 DEF Continues
<1> HIDE DEF s3
<1>6. Continues(s, s4)
  <2>1. Continues(s3, s4)
    BY <1>5, FillWindow DEF Continues
  <2> HIDE DEF s4
  <2> QED
    BY <1>5, <2>1 DEF Continues
<1> HIDE DEF s4
<1>7. Continues(s, u)
  <2>1. Continues(s4, u)
    BY <1>1, <1>6, StopIdleTimer DEF Continues
  <2> HIDE DEF u
  <2> QED
    BY <1>6, <2>1 DEF Continues
<1> HIDE DEF u
<1> QED
  BY <1>2, <1>7 DEF Continues

LEMMA Retransmit ==
  ASSUME NEW s, GoodSender(s), s.outstanding # <<>>
  PROVE  Continues(s, retransmit(s))
<1> DEFINE q == Append(s.segments_out, Head(s.outstanding))
           r == IF s.window > 0 THEN 2 * s.rto ELSE s.rto
           n == s.retransmissions + 1
           u == retransmit(s)
<1>1. s \in SendersOf(s.fin_sent) /\ s.rto \in Nat /\ s.retransmissions \in Nat
  BY SenderFields
<1>2. u = [s EXCEPT !.segments_out = q, !.rto = r, !.retransmissions = n, !.elapsed = 0]
  BY <1>1, Zenon DEF retransmit, SendersOf
<1>3. r \in Nat /\ n \in Nat
  BY <1>1
<1>4. q \in Seq(MadeBy(s.fin_sent))
  <2>1. s.outstanding \in Seq(MadeBy(s.fin_sent)) /\ s.segments_out \in Seq(MadeBy(s.fin_sent))
    BY SenderFields
  <2>2. Head(s.outstanding) \in MadeBy(s.fin_sent)
    BY <2>1, HeadTailProperties
  <2> QED
    BY <2>1, <2>2, AppendProperties
<1> HIDE DEF q, r, n, u
<1>5. u \in SendersOf(s.fin_sent) /\ u.stream = s.stream /\ u.next = s.next /\ u.fin_sent = s.fin_sent
  BY <1>1, <1>2, <1>3, <1>4 DEF SendersOf
<1>6. GoodSender(u)
  BY <1>5, SameAccount DEF GoodSender
<1> QED
  BY <1>5, <1>6 DEF Continues, u

LEMMA SenderTick ==
  ASSUME NEW s, GoodSender(s), NEW ms \in Nat
  PROVE  Continues(s, sender_tick(s, ms))
<1> DEFINE e  == s.elapsed + ms
           s1 == [s EXCEPT !.elapsed = e]
           u  == sender_tick(s, ms)
<1>1. s \in SendersOf(s.fin_sent) /\ e \in Nat
  BY SenderFields
<1>2. u = IF ~s.timer_running THEN s
          ELSE IF s1.elapsed >= s.rto /\ s.outstanding # <<>> THEN retransmit(s1) ELSE s1
  BY <1>1, Zenon DEF sender_tick, SendersOf
<1> HIDE DEF e, u
<1>3. /\ s1 \in SendersOf(s.fin_sent) /\ s1.stream = s.stream /\ s1.next = s.next
      /\ s1.fin_sent = s.fin_sent /\ s1.outstanding = s.outstanding
  BY <1>1 DEF SendersOf
<1> HIDE DEF s1
<1>4. GoodSender(s1)
  BY <1>3, SameAccount DEF GoodSender
<1>5. Continues(s, s1)
  BY <1>3, <1>4 DEF Continues
<1>6. s1.outstanding # <<>> => Continues(s, retransmit(s1))
  BY <1>3, <1>4, Retransmit DEF Continues
<1>7. Continues(s, s)
  BY DEF Continues
<1>8. Continues(s, u)
  BY <1>2, <1>3, <1>5, <1>6, <1>7
<1> QED
  BY <1>8 DEF u

-----------------------------------------------------------------------------
(* The connection. *)

Connection(sender, receiver, segments_out, linger, is_active, silence) ==
  [sender |-> sender, receiver |-> receiver, segments_out |-> segments_out,
   linger |-> linger, is_active |-> is_active, silence |-> silence]

\* A step of a connection.
Goes(c, d, f) == GoodConnection(d, f) /\ Follows(c, d)

LEMMA GoesOn ==
  ASSUME NEW f, NEW c, NEW d, NEW e, Goes(c, d, f), Goes(d, e, f)
  PROVE  Goes(c, e, f)
BY DEF Goes, Follows

LEMMA GoesNowhere ==
  ASSUME NEW f, NEW c, GoodConnection(c, f)
  PROVE  Goes(c, c, f)
BY DEF Goes, Follows

\* Lingering stops only if the peer's FIN has come, and before one's own is sent.
MayLinger(c, l, f) == l = c.linger \/ (f /\ ~c.sender.fin_sent)

\* The parts of a connection are other good ones.
LEMMA OtherParts ==
  ASSUME NEW c, NEW f, GoodConnection(c, f), NEW s, Continues(c.sender, s),
         NEW rcv, GoodReceiver(rcv, f), NEW q \in Seq(MadeBy(s.fin_sent)),
         NEW l \in BOOLEAN, MayLinger(c, l, f),
         NEW a, NEW t, NEW d, d = Connection(s, rcv, q, l, a, t)
  PROVE  /\ Goes(c, d, f)
         /\ d.sender = s /\ d.receiver = rcv /\ d.segments_out = q /\ d.linger = l
         /\ d.is_active = a /\ d.silence = t
<1>1. /\ d.sender = s /\ d.receiver = rcv /\ d.segments_out = q /\ d.linger = l
      /\ d.is_active = a /\ d.silence = t
      /\ d = [sender |-> d.sender, receiver |-> d.receiver, segments_out |-> d.segments_out,
              linger |-> d.linger, is_active |-> d.is_active, silence |-> d.silence]
  BY DEF Connection
<1>2. GoodSender(s) /\ (c.sender.fin_sent => s.fin_sent)
  BY DEF Continues
<1>3. ~l => f
  BY DEF GoodConnection, MayLinger
<1>4. GoodConnection(d, f)
  BY <1>1, <1>2, <1>3 DEF GoodConnection
<1>5. Follows(c, d)
  BY <1>1, <1>2 DEF Follows, MayLinger
<1> QED
  BY <1>1, <1>4, <1>5 DEF Goes

LEMMA ConnectionFields ==
  ASSUME NEW c, NEW f, GoodConnection(c, f)
  PROVE  /\ c = Connection(c.sender, c.receiver, c.segments_out, c.linger, c.is_active, c.silence)
         /\ GoodSender(c.sender) /\ GoodReceiver(c.receiver, f)
         /\ c.segments_out \in Seq(MadeBy(c.sender.fin_sent)) /\ c.linger \in BOOLEAN
         /\ Continues(c.sender, c.sender) /\ MayLinger(c, c.linger, f)
BY DEF GoodConnection, Connection, Continues, MayLinger

\* The sender takes a step.
LEMMA SenderGoes ==
  ASSUME NEW c, NEW f, GoodConnection(c, f), NEW s, Continues(c.sender, s), NEW a, NEW t,
         NEW d, d = Connection(s, c.receiver, c.segments_out, c.linger, a, t)
  PROVE  Goes(c, d, f) /\ d.receiver = c.receiver /\ d.sender = s
<1>1. /\ GoodReceiver(c.receiver, f) /\ c.segments_out \in Seq(MadeBy(c.sender.fin_sent))
      /\ c.linger \in BOOLEAN /\ MayLinger(c, c.linger, f)
  BY ConnectionFields
<1>2. c.segments_out \in Seq(MadeBy(s.fin_sent))
  BY <1>1, MadeByMore DEF Continues
<1> QED
  BY <1>1, <1>2, OtherParts

\* What the sender has queued leaves the connection, stamped.
LEMMA SendSegments ==
  ASSUME NEW c, NEW f, GoodConnection(c, f)
  PROVE  Goes(c, send_segments(c), f)
<1> DEFINE g   == c.sender.fin_sent
           out == c.sender.segments_out
           new == [i \in 1 .. Len(out) |-> stamp(c.receiver, out[i])]
           q   == c.segments_out \o new
           s   == [c.sender EXCEPT !.segments_out = <<>>]
           d   == send_segments(c)
<1>1. /\ c = Connection(c.sender, c.receiver, c.segments_out, c.linger, c.is_active, c.silence)
      /\ GoodSender(c.sender) /\ GoodReceiver(c.receiver, f) /\ c.segments_out \in Seq(MadeBy(g))
      /\ c.linger \in BOOLEAN /\ MayLinger(c, c.linger, f)
  BY ConnectionFields
<1>2. out \in Seq(MadeBy(g))
  BY <1>1, SenderFields
<1>3. d = Connection(s, c.receiver, q, c.linger, c.is_active, c.silence)
  <2>1. d = [c EXCEPT !.segments_out = q, !.sender = s]
    BY <1>1 DEF send_segments, Connection
  <2> HIDE DEF q, s, d
  <2> QED
    BY <1>1, <2>1 DEF Connection
<1> HIDE DEF out, d
<1>4. new \in Seq(MadeBy(g))
  <2>1. Len(out) \in Nat /\ \A i \in 1 .. Len(out) : out[i] \in MadeBy(g)
    BY <1>2, ElementOfSeq, LenProperties
  <2> HIDE DEF g
  <2>2. \A i \in 1 .. Len(out) : stamp(c.receiver, out[i]) \in MadeBy(g)
    BY <1>1, <2>1, Stamp
  <2> QED
    BY <2>1, <2>2
<1> HIDE DEF new
<1>5. q \in Seq(MadeBy(g))
  BY <1>1, <1>4, ConcatProperties
<1>6. GoodSender(s) /\ s.fin_sent = g
  <2> DEFINE none == <<>>
  <2>1. none \in Seq(MadeBy(c.sender.fin_sent))
    OBVIOUS
  <2> HIDE DEF none
  <2>2. LET u == [c.sender EXCEPT !.segments_out = none] IN GoodSender(u) /\ u.fin_sent = g
    BY <1>1, <2>1, OtherQueue
  <2> QED
    BY <2>2 DEF none
<1> HIDE DEF q, s
<1>7. Continues(c.sender, s)
  BY <1>6 DEF Continues
<1>8. Goes(c, d, f)
  BY <1>1, <1>3, <1>5, <1>6, <1>7, OtherParts
<1> QED
  BY <1>8 DEF d

LEMMA RstSegment ==
  ASSUME NEW c, NEW f, GoodConnection(c, f), NEW g
  PROVE  rst_segment(c) \in MadeBy(g)
<1> DEFINE n == wrap(c.sender.next, c.sender.isn)
           seg == rst_segment(c)
<1>1. n \in WrappingInt32
  <2>1. c.sender.next \in Nat /\ c.sender.isn \in WrappingInt32
    BY ConnectionFields, SenderFields
  <2> QED
    BY <2>1, WrapType
<1>2. seg = [EmptySegment EXCEPT !.rst = TRUE, !.seqno = n]
  BY DEF rst_segment
<1> HIDE DEF n, seg
<1>3. seg = [seqno |-> n, syn |-> FALSE, fin |-> FALSE, rst |-> TRUE, payload |-> <<>>,
             ack |-> FALSE, ackno |-> 0, win |-> 0]
  BY <1>1, <1>2 DEF EmptySegment
<1>4. 0 \in WrappingInt32
  BY MODAssumption DEF WrappingInt32
<1>5. <<>> \in Seq(Byte)
  OBVIOUS
<1>6. seg \in Segment /\ ~seg.fin
  BY <1>1, <1>3, <1>4, <1>5 DEF Segment, Segments
<1> QED
  BY <1>6 DEF MadeBy, seg

\* The connection fails.
LEMMA SetRstState ==
  ASSUME NEW c, NEW f, GoodConnection(c, f), NEW send_rst
  PROVE  Goes(c, set_rst_state(c, send_rst), f)
<1> DEFINE g == c.sender.fin_sent
           q == IF send_rst THEN Append(c.segments_out, rst_segment(c)) ELSE c.segments_out
           o == set_error(c.receiver.reassembler.output)
           r == [c.receiver.reassembler EXCEPT !.output = o]
           rcv == [c.receiver EXCEPT !.reassembler = r]
           t == set_error(c.sender.stream)
           s == [c.sender EXCEPT !.stream = t]
           a == FALSE
           d == set_rst_state(c, send_rst)
<1>1. /\ c = Connection(c.sender, c.receiver, c.segments_out, c.linger, c.is_active, c.silence)
      /\ GoodSender(c.sender) /\ GoodReceiver(c.receiver, f) /\ c.segments_out \in Seq(MadeBy(g))
      /\ c.linger \in BOOLEAN /\ MayLinger(c, c.linger, f)
  BY ConnectionFields
<1>2. d = Connection(s, rcv, q, c.linger, a, c.silence)
  <2>1. d = [c EXCEPT !.segments_out = q, !.receiver = rcv, !.sender = s, !.is_active = FALSE]
    BY <1>1 DEF set_rst_state, Connection
  <2> HIDE DEF q, rcv, s, d
  <2> QED
    BY <1>1, <2>1 DEF Connection
<1>3. q \in Seq(MadeBy(g))
  BY <1>1, RstSegment, AppendProperties
<1>4. GoodReceiver(rcv, f)
  <2>1. GoodReassembler(c.receiver.reassembler, f)
    BY <1>1 DEF GoodReceiver
  <2>2. GoodStream(o) /\ o.ended = c.receiver.reassembler.output.ended
    BY <2>1, FailStream DEF GoodReassembler
  <2> HIDE DEF o
  <2>3. GoodReassembler(r, f)
    BY <2>1, <2>2, OtherOutput
  <2> HIDE DEF r
  <2> QED
    BY <1>1, <2>3, OtherReassembler
<1>5. Continues(c.sender, s)
  <2>1. GoodStream(c.sender.stream)
    BY <1>1, SenderFields
  <2>2. GoodStream(t) /\ t.ended = c.sender.stream.ended /\ t.read = c.sender.stream.read /\ t.buffer = c.sender.stream.buffer
    BY <2>1, FailStream
  <2> HIDE DEF t
  <2> QED
    BY <1>1, <2>2, OtherStream
<1>6. s.fin_sent = g
  BY <1>1, SenderFields DEF SendersOf
<1> HIDE DEF q, rcv, s, a, d
<1>7. q \in Seq(MadeBy(s.fin_sent))
  BY <1>3, <1>6
<1>8. Goes(c, d, f)
  BY <1>1, <1>2, <1>4, <1>5, <1>7, OtherParts
<1> QED
  BY <1>8 DEF d

\* The sender fills the window with what its stream holds, and the segments leave.
LEMMA FillsAndSends ==
  ASSUME NEW c, NEW f, GoodConnection(c, f), NEW s, Continues(c.sender, s), NEW a, NEW d,
         d = Connection(fill_window(s), c.receiver, c.segments_out, c.linger, a, c.silence)
  PROVE  Goes(c, send_segments(d), f)
<1> DEFINE u == fill_window(s)
<1>1. Continues(c.sender, u)
  <2>1. Continues(s, u)
    BY FillWindow DEF Continues
  <2> HIDE DEF u
  <2> QED
    BY <2>1 DEF Continues
<1> HIDE DEF u
<1>2. d = Connection(u, c.receiver, c.segments_out, c.linger, a, c.silence)
  BY DEF u
<1>3. Goes(c, d, f)
  BY <1>1, <1>2, SenderGoes
<1>4. Goes(d, send_segments(d), f)
  BY <1>3, SendSegments DEF Goes
<1> QED
  BY <1>3, <1>4, GoesOn

LEMMA Connects ==
  ASSUME NEW c, NEW f, GoodConnection(c, f)
  PROVE  Goes(c, connect(c), f)
<1> DEFINE u == fill_window(c.sender)
           a == TRUE
           d == [c EXCEPT !.sender = u, !.is_active = a]
<1>1. c = Connection(c.sender, c.receiver, c.segments_out, c.linger, c.is_active, c.silence)
  BY ConnectionFields
<1>2. connect(c) = send_segments(d)
  BY <1>1 DEF connect, Connection
<1>3. d = [c EXCEPT !.sender = u, !.is_active = a]
  OBVIOUS
<1> HIDE DEF u, a, d
<1>4. d = Connection(u, c.receiver, c.segments_out, c.linger, a, c.silence)
  BY <1>1, <1>3 DEF Connection
<1>5. Continues(c.sender, c.sender)
  BY ConnectionFields
<1>6. Goes(c, send_segments(d), f)
  BY <1>4, <1>5, FillsAndSends DEF u
<1> QED
  BY <1>2, <1>6

\* The stream that the application writes to is o now.
LEMMA StreamFills ==
  ASSUME NEW c, NEW f, GoodConnection(c, f), NEW o, GoodStream(o), o.read = c.sender.stream.read,
         c.sender.stream.ended => o.ended /\ o.buffer = c.sender.stream.buffer,
         NEW d, d = [c EXCEPT !.sender = fill_window([c.sender EXCEPT !.stream = o])]
  PROVE  Goes(c, send_segments(d), f)
<1> DEFINE s == [c.sender EXCEPT !.stream = o]
           u == fill_window(s)
           a == c.is_active
<1>1. /\ c = Connection(c.sender, c.receiver, c.segments_out, c.linger, a, c.silence)
      /\ GoodSender(c.sender)
  BY ConnectionFields
<1>2. Continues(c.sender, s)
  BY <1>1, OtherStream
<1> HIDE DEF s, a
<1>3. d = [c EXCEPT !.sender = u]
  BY DEF s
<1> HIDE DEF u
<1>4. d = Connection(u, c.receiver, c.segments_out, c.linger, a, c.silence)
  BY <1>1, <1>3 DEF Connection
<1> QED
  BY <1>2, <1>4, FillsAndSends DEF u

LEMMA ConnWrite ==
  ASSUME NEW c, NEW f, GoodConnection(c, f), NEW data \in Seq(Byte)
  PROVE  Goes(c, conn_write(c, data), f)
<1> DEFINE o == write(c.sender.stream, data)
           d == [c EXCEPT !.sender = fill_window([c.sender EXCEPT !.stream = o])]
<1>1. /\ c = Connection(c.sender, c.receiver, c.segments_out, c.linger, c.is_active, c.silence)
      /\ c.sender \in SendersOf(c.sender.fin_sent) /\ GoodStream(c.sender.stream)
  BY ConnectionFields, SenderFields
<1>2. conn_write(c, data) = send_segments(d)
  BY DEF conn_write
<1>3. /\ GoodStream(o) /\ o.read = c.sender.stream.read
      /\ c.sender.stream.ended => o.ended /\ o.buffer = c.sender.stream.buffer
  BY <1>1, WriteStream
<1> HIDE DEF o
<1>4. Goes(c, send_segments(d), f)
  BY <1>3, StreamFills
<1> QED
  BY <1>2, <1>4

LEMMA EndInputStream ==
  ASSUME NEW c, NEW f, GoodConnection(c, f)
  PROVE  Goes(c, end_input_stream(c), f)
<1> DEFINE o == end_input(c.sender.stream)
           d == [c EXCEPT !.sender = fill_window([c.sender EXCEPT !.stream = o])]
<1>1. /\ c = Connection(c.sender, c.receiver, c.segments_out, c.linger, c.is_active, c.silence)
      /\ c.sender \in SendersOf(c.sender.fin_sent) /\ GoodStream(c.sender.stream)
  BY ConnectionFields, SenderFields
<1>2. end_input_stream(c) = send_segments(d)
  BY DEF end_input_stream
<1>3. /\ GoodStream(o) /\ o.read = c.sender.stream.read
      /\ c.sender.stream.ended => o.ended /\ o.buffer = c.sender.stream.buffer
  BY <1>1, EndStream
<1> HIDE DEF o
<1>4. Goes(c, send_segments(d), f)
  BY <1>3, StreamFills
<1> QED
  BY <1>2, <1>4

\* What the two summaries say that passive_close() asks for.
LEMMA FinReceived ==
  ASSUME NEW rcv, NEW f, GoodReceiver(rcv, f), receiver_summary(rcv) = "FIN_RECV"
  PROVE  f
<1> DEFINE o == stream_out(rcv)
<1>1. GoodStream(o) /\ (o.ended => f)
  BY DEF GoodReceiver, GoodReassembler, stream_out
<1>2. o.error \in BOOLEAN /\ o.ended \in BOOLEAN
  BY <1>1, StreamFields
<1> HIDE DEF o
<1>3. receiver_summary(rcv) =
        CASE o.error                                -> "ERROR"
          [] ~o.error /\ ~has_ackno(rcv)            -> "LISTEN"
          [] ~o.error /\ has_ackno(rcv) /\ o.ended  -> "FIN_RECV"
          [] ~o.error /\ has_ackno(rcv) /\ ~o.ended -> "SYN_RECV"
  BY DEF receiver_summary, o
<1>4. CASE o.ended
  BY <1>1, <1>4
<1>5. CASE ~o.ended
  BY <1>2, <1>3, <1>5
<1> QED
  BY <1>4, <1>5

LEMMA SynAcked ==
  ASSUME NEW s, GoodSender(s), sender_summary(s) = "SYN_ACKED"
  PROVE  ~s.fin_sent
<1>1. SUFFICES ASSUME s.fin_sent PROVE FALSE
  OBVIOUS
<1>2. all_sent(s)
  <2> DEFINE w == s.stream.written
             r == s.stream.read
  <2>1. s.stream.ended /\ s.stream.buffer = <<>> /\ s.next = One(s.next > 0) + r + 1
    BY <1>1 DEF GoodSender, One
  <2>2. GoodStream(s.stream) /\ s.next \in Nat
    BY SenderFields
  <2>3. w \in Nat /\ r \in Nat /\ w = r + Len(s.stream.buffer)
    BY <2>2, StreamFields
  <2>4. w = r
    BY <2>1, <2>3
  <2> HIDE DEF w, r
  <2>5. s.next = w + 2
    BY <2>1, <2>2, <2>3, <2>4 DEF One
  <2> QED
    BY <2>1, <2>5 DEF all_sent, eof, w
<1>3. s.stream.error \in BOOLEAN /\ s.next \in Nat /\ s.last_ack \in Nat
  BY SenderFields, StreamFields
<1>4. s.next > 0
  <2>1. GoodStream(s.stream) /\ s.next = s.stream.written + 2
    BY <1>2, SenderFields DEF all_sent
  <2>2. s.stream.written \in Nat
    BY <2>1, StreamFields
  <2> QED
    BY <2>1, <2>2
<1> DEFINE e == s.stream.error
           m == s.next
           l == s.last_ack
           all == all_sent(s)
           flight == bytes_in_flight(s) > 0
<1>5. sender_summary(s) =
        CASE e                        -> "ERROR"
          [] ~e /\ m = 0              -> "CLOSED"
          [] ~e /\ m > 0 /\ l = 0     -> "SYN_SENT"
          [] ~e /\ l > 0 /\ ~all      -> "SYN_ACKED"
          [] ~e /\ l > 0 /\ all       -> IF flight THEN "FIN_SENT" ELSE "FIN_ACKED"
  BY DEF sender_summary
<1> HIDE DEF e, m, l, all, flight
<1>6. e \in BOOLEAN /\ m \in Nat /\ m > 0 /\ l \in Nat /\ all
  BY <1>2, <1>3, <1>4 DEF e, m, l, all
<1>7. m # 0
  BY <1>6
<1>8. CASE e
  BY <1>5, <1>6, <1>7, <1>8
<1>9. CASE ~e /\ l = 0
  <2>1. ~(l > 0)
    BY <1>9
  <2> QED
    BY <1>5, <1>6, <1>7, <1>9, <2>1
<1>10. CASE ~e /\ l # 0
  <2>1. l > 0
    BY <1>6, <1>10
  <2> QED
    BY <1>5, <1>6, <1>7, <1>10, <2>1
<1> QED
  BY <1>6, <1>8, <1>9, <1>10

LEMMA PassiveClose ==
  ASSUME NEW c, NEW f, GoodConnection(c, f)
  PROVE  Goes(c, passive_close(c), f)
<1> DEFINE l == FALSE
           a == c.is_active
           t == c.silence
           d == [c EXCEPT !.linger = l]
<1>1. /\ c = Connection(c.sender, c.receiver, c.segments_out, c.linger, a, t)
      /\ GoodReceiver(c.receiver, f) /\ c.segments_out \in Seq(MadeBy(c.sender.fin_sent))
      /\ GoodSender(c.sender) /\ Continues(c.sender, c.sender)
  BY ConnectionFields
<1>2. CASE receiver_summary(c.receiver) = "FIN_RECV" /\ sender_summary(c.sender) = "SYN_ACKED"
  <2>1. passive_close(c) = d
    BY <1>2 DEF passive_close
  <2>2. f /\ ~c.sender.fin_sent
    BY <1>1, <1>2, FinReceived, SynAcked
  <2>3. l \in BOOLEAN /\ MayLinger(c, l, f)
    BY <2>2 DEF MayLinger
  <2> HIDE DEF a, t, l, d
  <2>4. d = Connection(c.sender, c.receiver, c.segments_out, l, a, t)
    BY <1>1 DEF Connection, d
  <2>5. Goes(c, d, f)
    BY <1>1, <2>3, <2>4, OtherParts
  <2> QED
    BY <2>1, <2>5
<1>3. CASE ~(receiver_summary(c.receiver) = "FIN_RECV" /\ sender_summary(c.sender) = "SYN_ACKED")
  <2>1. passive_close(c) = c
    BY <1>3 DEF passive_close
  <2> QED
    BY <2>1, GoesNowhere
<1> QED
  BY <1>2, <1>3

\* The sender takes a step within a handler.
LEMMA SenderSteps ==
  ASSUME NEW c, NEW f, GoodConnection(c, f), NEW s, Continues(c.sender, s),
         NEW d, d = [c EXCEPT !.sender = s]
  PROVE  Goes(c, d, f) /\ d.receiver = c.receiver /\ d.sender = s
<1> DEFINE a == c.is_active
           t == c.silence
<1>1. c = Connection(c.sender, c.receiver, c.segments_out, c.linger, a, t)
  BY ConnectionFields
<1> HIDE DEF a, t
<1>2. d = Connection(s, c.receiver, c.segments_out, c.linger, a, t)
  BY <1>1 DEF Connection
<1> QED
  BY <1>2, SenderGoes

LEMMA ProcessAck ==
  ASSUME NEW c, NEW f, GoodConnection(c, f), NEW seg \in MadeBy(f)
  PROVE  Goes(c, process_ack(c, seg), f)
<1> DEFINE s == ack_received(c.sender, seg.ackno, seg.win)
           d == [c EXCEPT !.sender = s]
<1>1. CASE ~seg.ack
  <2>1. process_ack(c, seg) = c
    BY <1>1 DEF process_ack
  <2> QED
    BY <2>1, GoesNowhere
<1>2. CASE seg.ack
  <2>1. process_ack(c, seg) = d
    BY <1>2 DEF process_ack
  <2>2. Continues(c.sender, s)
    <3>1. GoodSender(c.sender) /\ seg.ackno \in WrappingInt32 /\ seg.win \in Nat
      BY ConnectionFields, SegmentFields
    <3> QED
      BY <3>1, AckReceived
  <2> HIDE DEF s
  <2>3. Goes(c, d, f)
    BY <2>2, SenderSteps
  <2> QED
    BY <2>1, <2>3
<1> QED
  BY <1>1, <1>2

LEMMA Reply ==
  ASSUME NEW c, NEW f, GoodConnection(c, f), NEW seg
  PROVE  Goes(c, reply(c, seg), f)
<1> DEFINE s == fill_window(c.sender)
           u == IF s.segments_out = <<>> THEN send_empty_segment(s) ELSE s
           d == [c EXCEPT !.sender = u]
<1>1. CASE length_in_sequence_space(seg) = 0
  <2>1. reply(c, seg) = c
    BY <1>1 DEF reply
  <2> QED
    BY <2>1, GoesNowhere
<1>2. CASE length_in_sequence_space(seg) # 0
  <2>1. reply(c, seg) = d
    BY <1>2 DEF reply
  <2>2. Continues(c.sender, s)
    BY ConnectionFields, FillWindow
  <2> HIDE DEF s
  <2>3. Continues(s, send_empty_segment(s))
    BY <2>2, SendEmptySegment DEF Continues
  <2>4. Continues(c.sender, u)
    BY <2>2, <2>3 DEF Continues
  <2> HIDE DEF u
  <2>5. Goes(c, d, f)
    BY <2>4, SenderSteps
  <2> QED
    BY <2>1, <2>5
<1> QED
  BY <1>1, <1>2

LEMMA AnswerKeepAlive ==
  ASSUME NEW c, NEW f, GoodConnection(c, f), NEW seg
  PROVE  Goes(c, answer_keep_alive(c, seg), f)
<1> DEFINE s == send_empty_segment(c.sender)
           d == [c EXCEPT !.sender = s]
<1>1. answer_keep_alive(c, seg) = c \/ answer_keep_alive(c, seg) = d
  BY DEF answer_keep_alive
<1>2. Continues(c.sender, s)
  BY ConnectionFields, SendEmptySegment
<1> HIDE DEF s
<1>3. Goes(c, d, f)
  BY <1>2, SenderSteps
<1> HIDE DEF d
<1> QED
  BY <1>1, <1>3, GoesNowhere

LEMMA ConnSegmentReceived ==
  ASSUME NEW c, NEW f, GoodConnection(c, f), NEW seg \in MadeBy(f)
  PROVE  Goes(c, conn_segment_received(c, seg), f)
<1> DEFINE zero == 0
           c0  == [c EXCEPT !.silence = zero]
           rcv == receiver_segment_received(c.receiver, seg)
           r   == [c0 EXCEPT !.receiver = rcv]
           c1  == process_ack(r, seg)
           c2  == passive_close(c1)
           c3  == reply(c2, seg)
           c4  == answer_keep_alive(c3, seg)
           d   == conn_segment_received(c, seg)
<1>1. /\ c = Connection(c.sender, c.receiver, c.segments_out, c.linger, c.is_active, c.silence)
      /\ GoodReceiver(c.receiver, f) /\ c.segments_out \in Seq(MadeBy(c.sender.fin_sent))
      /\ c.linger \in BOOLEAN /\ MayLinger(c, c.linger, f) /\ Continues(c.sender, c.sender)
  BY ConnectionFields
<1>2. d = IF ~c.is_active THEN c
          ELSE IF seg.rst THEN set_rst_state(c0, FALSE)
          ELSE IF receiver_summary(c1.receiver) = "SYN_RECV" /\ c1.sender.next = 0 THEN connect(c1)
          ELSE send_segments(c4)
  <2>1. c0.receiver = c.receiver
    BY <1>1 DEF Connection
  <2>2. r = [c0 EXCEPT !.receiver = receiver_segment_received(c0.receiver, seg)]
    BY <2>1
  <2> HIDE DEF c0
  <2> QED
    BY <2>2 DEF conn_segment_received, c0
<1> HIDE DEF d
<1>3. c0 = Connection(c.sender, c.receiver, c.segments_out, c.linger, c.is_active, zero)
  <2> HIDE DEF zero
  <2> QED
    BY <1>1 DEF Connection
<1> HIDE DEF c0, zero
<1>4. /\ Goes(c, c0, f)
      /\ c0.sender = c.sender /\ c0.receiver = c.receiver /\ c0.segments_out = c.segments_out
      /\ c0.linger = c.linger
  BY <1>1, <1>3, OtherParts
<1>5. GoodReceiver(rcv, f)
  BY <1>1, ReceivesSegment
<1> HIDE DEF rcv
<1>6. Goes(c, r, f)
  <2> DEFINE a == c.is_active
  <2>1. r = Connection(c.sender, rcv, c.segments_out, c.linger, a, zero)
    BY <1>3 DEF Connection
  <2> HIDE DEF r, a
  <2> QED
    BY <1>1, <1>5, <2>1, OtherParts
<1> HIDE DEF r
<1>7. Goes(c, c1, f)
  <2>1. Goes(r, c1, f)
    BY <1>6, ProcessAck DEF Goes
  <2> HIDE DEF c1
  <2> QED
    BY <1>6, <2>1, GoesOn
<1> HIDE DEF c1
<1>8. Goes(c, c2, f)
  <2>1. Goes(c1, c2, f)
    BY <1>7, PassiveClose DEF Goes
  <2> HIDE DEF c2
  <2> QED
    BY <1>7, <2>1, GoesOn
<1> HIDE DEF c2
<1>9. Goes(c, c3, f)
  <2>1. Goes(c2, c3, f)
    BY <1>8, Reply DEF Goes
  <2> HIDE DEF c3
  <2> QED
    BY <1>8, <2>1, GoesOn
<1> HIDE DEF c3
<1>10. Goes(c, c4, f)
  <2>1. Goes(c3, c4, f)
    BY <1>9, AnswerKeepAlive DEF Goes
  <2> HIDE DEF c4
  <2> QED
    BY <1>9, <2>1, GoesOn
<1> HIDE DEF c4
<1>11. Goes(c, send_segments(c4), f)
  BY <1>10, SendSegments, GoesOn DEF Goes
<1>12. Goes(c, connect(c1), f)
  BY <1>7, Connects, GoesOn DEF Goes
<1>13. Goes(c, set_rst_state(c0, FALSE), f)
  <2>1. Goes(c0, set_rst_state(c0, FALSE), f)
    BY <1>4, SetRstState DEF Goes
  <2> QED
    BY <1>4, <2>1, GoesOn
<1>14. Goes(c, c, f)
  BY GoesNowhere
<1>15. Goes(c, d, f)
  BY <1>2, <1>11, <1>12, <1>13, <1>14
<1> QED
  BY <1>15 DEF d

LEMMA ConnTick ==
  ASSUME NEW c, NEW f, GoodConnection(c, f), NEW ms \in Nat
  PROVE  Goes(c, conn_tick(c, ms), f)
<1> DEFINE t  == Smaller(c.silence + ms, LingerTime)
           s  == sender_tick(c.sender, ms)
           c1 == [c EXCEPT !.silence = t, !.sender = s]
           c2 == send_segments(c1)
           b  == active(c2)
           c3 == [c2 EXCEPT !.is_active = b]
           d  == conn_tick(c, ms)
<1>1. c = Connection(c.sender, c.receiver, c.segments_out, c.linger, c.is_active, c.silence)
  BY ConnectionFields
<1>2. d = IF ~c.is_active THEN c
          ELSE IF c1.sender.retransmissions > MaxRetx THEN set_rst_state(c1, TRUE)
          ELSE c3
  BY DEF conn_tick
<1>3. Continues(c.sender, s)
  BY ConnectionFields, SenderTick
<1> HIDE DEF d, t, s
<1>4. Goes(c, c1, f)
  <2> DEFINE a == c.is_active
  <2>1. c1 = [c EXCEPT !.silence = t, !.sender = s]
    OBVIOUS
  <2> HIDE DEF c1, a
  <2>2. c1 = Connection(s, c.receiver, c.segments_out, c.linger, a, t)
    BY <1>1, <2>1 DEF Connection, a
  <2> QED
    BY <1>3, <2>2, SenderGoes
<1> HIDE DEF c1
<1>5. Goes(c, c2, f)
  <2>1. Goes(c1, c2, f)
    BY <1>4, SendSegments DEF Goes
  <2> HIDE DEF c2
  <2> QED
    BY <1>4, <2>1, GoesOn
<1> HIDE DEF c2, b
<1>6. Goes(c, c3, f)
  <2> DEFINE x == c2.silence
             y == c2.is_active
  <2>1. /\ c2 = Connection(c2.sender, c2.receiver, c2.segments_out, c2.linger, y, x)
        /\ Continues(c2.sender, c2.sender) /\ GoodConnection(c2, f)
    BY <1>5, ConnectionFields DEF Goes
  <2> HIDE DEF x, y, c3
  <2>2. c3 = Connection(c2.sender, c2.receiver, c2.segments_out, c2.linger, b, x)
    BY <2>1 DEF Connection, c3
  <2>3. Goes(c2, c3, f)
    BY <2>1, <2>2, SenderGoes
  <2> QED
    BY <1>5, <2>3, GoesOn
<1> HIDE DEF c3
<1>7. Goes(c, set_rst_state(c1, TRUE), f)
  <2>1. Goes(c1, set_rst_state(c1, TRUE), f)
    BY <1>4, SetRstState DEF Goes
  <2> QED
    BY <1>4, <2>1, GoesOn
<1>8. Goes(c, c, f)
  BY GoesNowhere
<1>9. Goes(c, d, f)
  BY <1>2, <1>6, <1>7, <1>8
<1> QED
  BY <1>9 DEF d

-----------------------------------------------------------------------------
(* The two peers. *)

\* What was good before the peer's FIN is good after it.
LEMMA GoodLater ==
  ASSUME NEW c, NEW f, GoodConnection(c, f), NEW g, f => g
  PROVE  GoodConnection(c, g)
BY DEF GoodConnection, GoodReceiver, GoodReassembler

\* What the connection had to send has left it.
LEMMA Drained ==
  ASSUME NEW c, NEW d, NEW f, Goes(c, d, f)
  PROVE  LET e == [d EXCEPT !.segments_out = <<>>]
         IN  Goes(c, e, f) /\ e.sender = d.sender /\ e.linger = d.linger
<1> DEFINE e == [d EXCEPT !.segments_out = <<>>]
           none == <<>>
           a == d.is_active
           t == d.silence
<1>1. /\ d = Connection(d.sender, d.receiver, d.segments_out, d.linger, a, t)
      /\ GoodReceiver(d.receiver, f) /\ d.linger \in BOOLEAN /\ MayLinger(d, d.linger, f)
      /\ Continues(d.sender, d.sender) /\ GoodConnection(d, f)
  BY ConnectionFields DEF Goes
<1>2. none \in Seq(MadeBy(d.sender.fin_sent))
  OBVIOUS
<1>3. e = [d EXCEPT !.segments_out = none]
  OBVIOUS
<1> HIDE DEF a, t, e, none
<1>4. e = Connection(d.sender, d.receiver, none, d.linger, a, t)
  BY <1>1, <1>3 DEF Connection
<1>5. Goes(d, e, f) /\ e.sender = d.sender /\ e.linger = d.linger
  BY <1>1, <1>2, <1>4, OtherParts
<1>6. Goes(c, e, f)
  BY <1>5, GoesOn
<1> QED
  BY <1>5, <1>6 DEF e

LEMMA TwoPeers ==
  ASSUME NEW p \in Peers
  PROVE  /\ Other(p) \in Peers /\ Other(p) # p /\ Other(Other(p)) = p
         /\ \A q \in Peers : q = p \/ q = Other(p)
BY PeersAssumption DEF Peers, Other

\* One connection takes a step, and the paths then hold what their senders may have made:
\* if neither end lingered now, the one that has just stopped would not have sent its FIN,
\* and the one that stopped before would have seen it.
LEMMA OneGoes ==
  ASSUME NEW Paths, PeersInv(Paths), NEW p \in Peers, NEW d,
         Goes(conn[p], d, conn[Other(p)].sender.fin_sent),
         conn' = [conn EXCEPT ![p] = d], net' \in [Peers -> Paths],
         OnPath(net'[p]) \subseteq MadeBy(conn[Other(p)].sender.fin_sent),
         OnPath(net'[Other(p)]) \subseteq MadeBy(d.sender.fin_sent)
  PROVE  PeersInv(Paths)'
<1> DEFINE o == Other(p)
<1>1. o \in Peers /\ o # p /\ Other(o) = p /\ \A q \in Peers : q = p \/ q = o
  BY TwoPeers
<1>2. conn = [q \in Peers |-> conn[q]]
  BY DEF PeersInv
<1>3. conn'[p] = d /\ conn'[o] = conn[o] /\ conn' = [q \in Peers |-> conn'[q]]
  BY <1>1, <1>2
<1>4. GoodConnection(d, conn[o].sender.fin_sent) /\ Follows(conn[p], d)
  BY DEF Goes
<1>5. conn[p].sender.fin_sent => d.sender.fin_sent
  BY <1>4 DEF Follows
<1>6. GoodConnection(conn[o], conn[p].sender.fin_sent)
  BY <1>1 DEF PeersInv
<1>7. GoodConnection(conn[o], d.sender.fin_sent)
  BY <1>5, <1>6, GoodLater
<1>8. SomeoneLingers'
  <2>1. SUFFICES ASSUME ~d.linger, ~conn[o].linger PROVE FALSE
    BY <1>1, <1>3 DEF SomeoneLingers
  <2>2. conn[p].linger
    BY <1>1, <2>1 DEF PeersInv, SomeoneLingers
  <2>3. ~conn[p].sender.fin_sent
    BY <1>4, <2>1, <2>2 DEF Follows
  <2>4. conn[p].sender.fin_sent
    BY <1>6, <2>1 DEF GoodConnection
  <2> QED
    BY <2>3, <2>4
<1> HIDE DEF o
<1>9. \A q \in Peers :
        /\ GoodConnection(conn'[q], conn'[Other(q)].sender.fin_sent)
        /\ OnPath(net'[q]) \subseteq MadeBy(conn'[Other(q)].sender.fin_sent)
  <2>1. /\ GoodConnection(conn'[p], conn'[Other(p)].sender.fin_sent)
        /\ OnPath(net'[p]) \subseteq MadeBy(conn'[Other(p)].sender.fin_sent)
    BY <1>3, <1>4 DEF o
  <2>2. /\ GoodConnection(conn'[o], conn'[Other(o)].sender.fin_sent)
        /\ OnPath(net'[o]) \subseteq MadeBy(conn'[Other(o)].sender.fin_sent)
    BY <1>1, <1>3, <1>7 DEF o
  <2> QED
    BY <1>1, <2>1, <2>2
<1> QED
  BY <1>3, <1>8, <1>9 DEF PeersInv

\* A call on a connection, and what it sends enters the path to the other peer.
LEMMA BecomesKeeps ==
  ASSUME NEW Paths, HonestNetwork(Paths), PeersInv(Paths), NEW p \in Peers, NEW c,
         Goes(conn[p], c, conn[Other(p)].sender.fin_sent),
         NEW paths \in [Peers -> Paths],
         \A q \in Peers : OnPath(paths[q]) \subseteq MadeBy(conn[Other(q)].sender.fin_sent),
         Becomes(p, c, paths)
  PROVE  PeersInv(Paths)'
<1> DEFINE o == Other(p)
           d == [c EXCEPT !.segments_out = <<>>]
           out == c.segments_out
<1>1. o \in Peers /\ o # p /\ Other(o) = p /\ \A q \in Peers : q = p \/ q = o
  BY TwoPeers
<1>2. conn' = [conn EXCEPT ![p] = d] /\ net' = [paths EXCEPT ![o] = Enter(paths[o], out)]
  BY DEF Becomes
<1>3. Goes(conn[p], d, conn[o].sender.fin_sent) /\ d.sender = c.sender
  BY Drained
<1> HIDE DEF d, o
<1>4. out \in Seq(MadeBy(c.sender.fin_sent))
  BY ConnectionFields DEF Goes
<1> HIDE DEF out
<1>5. out \in Seq(Segment)
  BY <1>4, LargerAlphabet DEF MadeBy
<1>6. Elements(out) \subseteq MadeBy(c.sender.fin_sent)
  BY <1>4, ElementOfSeq DEF Elements
<1>7. Enter(paths[o], out) \in Paths /\ OnPath(Enter(paths[o], out)) \subseteq OnPath(paths[o]) \cup Elements(out)
  BY <1>1, <1>5 DEF HonestNetwork, Honest
<1>8. net' \in [Peers -> Paths] /\ net'[p] = paths[p] /\ net'[o] = Enter(paths[o], out)
  BY <1>1, <1>2, <1>7
<1>9. OnPath(net'[o]) \subseteq MadeBy(d.sender.fin_sent)
  <2>1. OnPath(paths[o]) \subseteq MadeBy(conn[p].sender.fin_sent)
    BY <1>1
  <2>2. MadeBy(conn[p].sender.fin_sent) \subseteq MadeBy(c.sender.fin_sent)
    BY MadeByMore DEF Goes, Follows
  <2> QED
    BY <1>3, <1>6, <1>7, <1>8, <2>1, <2>2
<1>10. OnPath(net'[p]) \subseteq MadeBy(conn[o].sender.fin_sent)
  BY <1>8 DEF o
<1> QED
  BY <1>2, <1>3, <1>8, <1>9, <1>10, OneGoes DEF o

LEMMA ConnectStep ==
  ASSUME NEW Paths, HonestNetwork(Paths), PeersInv(Paths), Connect
  PROVE  PeersInv(Paths)'
<1>1. Client \in Peers
  BY DEF Peers
<1>2. GoodConnection(conn[Client], conn[Other(Client)].sender.fin_sent)
  BY <1>1 DEF PeersInv
<1>3. Goes(conn[Client], connect(conn[Client]), conn[Other(Client)].sender.fin_sent)
  BY <1>2, Connects
<1>4. Becomes(Client, connect(conn[Client]), net)
  BY DEF Connect
<1> DEFINE c == connect(conn[Client])
<1> HIDE DEF c
<1>5. Goes(conn[Client], c, conn[Other(Client)].sender.fin_sent) /\ Becomes(Client, c, net)
  BY <1>3, <1>4 DEF c
<1> QED
  BY <1>1, <1>5, BecomesKeeps DEF PeersInv

LEMMA AppWriteStep ==
  ASSUME NEW Paths, HonestNetwork(Paths), PeersInv(Paths), NEW p \in Peers,
         NEW n \in 1 .. Len(Data[p]), AppWrite(p, n)
  PROVE  PeersInv(Paths)'
<1> DEFINE w    == stream_in(p).written
           data == SubSeq(Data[p], w + 1, w + n)
           c    == conn_write(conn[p], data)
<1>1. GoodConnection(conn[p], conn[Other(p)].sender.fin_sent)
  BY DEF PeersInv
<1>2. w + n <= Len(Data[p]) /\ Becomes(p, c, net)
  BY DEF AppWrite
<1>3. w \in Nat
  <2>1. GoodStream(stream_in(p))
    BY <1>1, ConnectionFields, SenderFields DEF stream_in
  <2> QED
    BY <2>1, StreamFields
<1> HIDE DEF w
<1>4. data \in Seq(Byte)
  <2> DEFINE x == w + 1
             y == w + n
  <2>1. Data[p] \in Seq(Byte)
    BY PeersAssumption
  <2>2. x \in Nat /\ x > 0 /\ y \in Int /\ y <= Len(Data[p])
    BY <1>2, <1>3, <2>1
  <2> HIDE DEF x, y
  <2>3. SubSeq(Data[p], x, y) \in Seq(Byte)
    BY <2>1, <2>2, PartOf
  <2> QED
    BY <2>3 DEF x, y
<1> HIDE DEF data
<1>5. Goes(conn[p], c, conn[Other(p)].sender.fin_sent)
  BY <1>1, <1>4, ConnWrite
<1> HIDE DEF c
<1> QED
  BY <1>2, <1>5, BecomesKeeps DEF PeersInv

LEMMA AppCloseStep ==
  ASSUME NEW Paths, HonestNetwork(Paths), PeersInv(Paths), NEW p \in Peers, AppClose(p)
  PROVE  PeersInv(Paths)'
<1> DEFINE c == end_input_stream(conn[p])
<1>1. GoodConnection(conn[p], conn[Other(p)].sender.fin_sent)
  BY DEF PeersInv
<1>2. Becomes(p, c, net)
  BY DEF AppClose
<1>3. Goes(conn[p], c, conn[Other(p)].sender.fin_sent)
  BY <1>1, EndInputStream
<1> HIDE DEF c
<1> QED
  BY <1>2, <1>3, BecomesKeeps DEF PeersInv

\* Reading takes bytes off the output and changes nothing else.
LEMMA ReadsOn ==
  ASSUME NEW c, NEW f, GoodConnection(c, f), NEW n \in Nat,
         NEW d, d = [c EXCEPT !.receiver.reassembler = pop_assembled(@, n)]
  PROVE  Goes(c, d, f) /\ d.sender = c.sender
<1> DEFINE o   == pop_output(c.receiver.reassembler.output, n)
           r   == [c.receiver.reassembler EXCEPT !.output = o]
           rcv == [c.receiver EXCEPT !.reassembler = r]
           a   == c.is_active
           t   == c.silence
<1>1. /\ c = Connection(c.sender, c.receiver, c.segments_out, c.linger, a, t)
      /\ GoodReceiver(c.receiver, f) /\ c.segments_out \in Seq(MadeBy(c.sender.fin_sent))
      /\ c.linger \in BOOLEAN /\ MayLinger(c, c.linger, f) /\ Continues(c.sender, c.sender)
  BY ConnectionFields
<1>2. GoodReassembler(c.receiver.reassembler, f)
  BY <1>1 DEF GoodReceiver
<1>3. d = [c EXCEPT !.receiver = rcv]
  BY <1>1 DEF pop_assembled, Connection, GoodReceiver
<1>4. GoodStream(o) /\ o.ended = c.receiver.reassembler.output.ended
  BY <1>2, PopStream DEF GoodReassembler
<1> HIDE DEF o
<1>5. GoodReassembler(r, f)
  BY <1>2, <1>4, OtherOutput
<1> HIDE DEF r
<1>6. GoodReceiver(rcv, f)
  BY <1>1, <1>5, OtherReassembler
<1> HIDE DEF rcv, a, t
<1>7. d = Connection(c.sender, rcv, c.segments_out, c.linger, a, t)
  BY <1>1, <1>3 DEF Connection
<1> QED
  BY <1>1, <1>6, <1>7, OtherParts

LEMMA AppReadStep ==
  ASSUME NEW Paths, PeersInv(Paths), NEW p \in Peers, NEW n \in Nat, AppRead(p, n)
  PROVE  PeersInv(Paths)'
<1> DEFINE d == [conn[p] EXCEPT !.receiver.reassembler = pop_assembled(@, n)]
<1>1. conn = [q \in Peers |-> conn[q]] /\ net \in [Peers -> Paths]
  BY DEF PeersInv
<1>2. conn' = [conn EXCEPT ![p] = d] /\ net' = net
  BY <1>1 DEF AppRead
<1>3. GoodConnection(conn[p], conn[Other(p)].sender.fin_sent)
  BY DEF PeersInv
<1>4. d = [conn[p] EXCEPT !.receiver.reassembler = pop_assembled(@, n)]
  OBVIOUS
<1> HIDE DEF d
<1>5. Goes(conn[p], d, conn[Other(p)].sender.fin_sent) /\ d.sender = conn[p].sender
  BY <1>3, <1>4, ReadsOn
<1>6. /\ OnPath(net'[p]) \subseteq MadeBy(conn[Other(p)].sender.fin_sent)
      /\ OnPath(net'[Other(p)]) \subseteq MadeBy(d.sender.fin_sent)
  BY <1>2, <1>5, TwoPeers DEF PeersInv
<1> QED
  BY <1>1, <1>2, <1>5, <1>6, OneGoes

LEMMA DeliverStep ==
  ASSUME NEW Paths, HonestNetwork(Paths), PeersInv(Paths), NEW p \in Peers,
         NEW arrival \in Arrivals(net[p]), Deliver(p, arrival)
  PROVE  PeersInv(Paths)'
<1> DEFINE seg   == arrival[1]
           c     == conn_segment_received(conn[p], seg)
           paths == [net EXCEPT ![p] = arrival[2]]
           f     == conn[Other(p)].sender.fin_sent
<1>1. /\ GoodConnection(conn[p], f) /\ net \in [Peers -> Paths]
      /\ \A q \in Peers : OnPath(net[q]) \subseteq MadeBy(conn[Other(q)].sender.fin_sent)
  BY DEF PeersInv
<1>2. seg \in OnPath(net[p]) /\ arrival[2] \in Paths /\ OnPath(arrival[2]) \subseteq OnPath(net[p])
  BY <1>1 DEF HonestNetwork, Honest
<1>3. Becomes(p, c, paths)
  BY DEF Deliver
<1>4. seg \in MadeBy(f)
  BY <1>1, <1>2
<1> HIDE DEF seg
<1>5. Goes(conn[p], c, f)
  BY <1>1, <1>4, ConnSegmentReceived
<1> HIDE DEF c
<1>6. /\ paths \in [Peers -> Paths]
      /\ \A q \in Peers : OnPath(paths[q]) \subseteq MadeBy(conn[Other(q)].sender.fin_sent)
  BY <1>1, <1>2
<1> HIDE DEF paths
<1> QED
  BY <1>3, <1>5, <1>6, BecomesKeeps DEF f

LEMMA LoseStep ==
  ASSUME NEW Paths, HonestNetwork(Paths), PeersInv(Paths), NEW p \in Peers,
         NEW rest \in Losses(net[p]), Lose(p, rest)
  PROVE  PeersInv(Paths)'
<1>1. net' = [net EXCEPT ![p] = rest] /\ conn' = conn
  BY DEF Lose
<1>2. /\ net \in [Peers -> Paths]
      /\ \A q \in Peers : OnPath(net[q]) \subseteq MadeBy(conn[Other(q)].sender.fin_sent)
  BY DEF PeersInv
<1>3. rest \in Paths /\ OnPath(rest) \subseteq OnPath(net[p])
  BY <1>2 DEF HonestNetwork, Honest
<1>4. /\ net' \in [Peers -> Paths]
      /\ \A q \in Peers : OnPath(net'[q]) \subseteq MadeBy(conn'[Other(q)].sender.fin_sent)
  BY <1>1, <1>2, <1>3
<1> QED
  BY <1>1, <1>4 DEF PeersInv, SomeoneLingers

LEMMA TickStep ==
  ASSUME NEW Paths, HonestNetwork(Paths), PeersInv(Paths), NEW p \in Peers,
         NEW ms \in TickSizes, Tick(p, ms)
  PROVE  PeersInv(Paths)'
<1> DEFINE c == conn_tick(conn[p], ms)
<1>1. GoodConnection(conn[p], conn[Other(p)].sender.fin_sent) /\ ms \in Nat
  BY PeersAssumption DEF PeersInv
<1>2. Becomes(p, c, net)
  BY DEF Tick
<1>3. Goes(conn[p], c, conn[Other(p)].sender.fin_sent)
  BY <1>1, ConnTick
<1> HIDE DEF c
<1> QED
  BY <1>2, <1>3, BecomesKeeps DEF PeersInv

LEMMA AbortStep ==
  ASSUME NEW Paths, PeersInv(Paths), NEW p \in Peers, Abort(p)
  PROVE  PeersInv(Paths)'
<1> DEFINE c == set_rst_state(conn[p], TRUE)
           d == [c EXCEPT !.segments_out = <<>>]
<1>1. conn = [q \in Peers |-> conn[q]] /\ net \in [Peers -> Paths]
  BY DEF PeersInv
<1>2. conn' = [conn EXCEPT ![p] = d] /\ net' = net
  BY <1>1, Zenon DEF Abort
<1>3. GoodConnection(conn[p], conn[Other(p)].sender.fin_sent)
  BY DEF PeersInv
<1>4. Goes(conn[p], c, conn[Other(p)].sender.fin_sent)
  BY <1>3, SetRstState
<1>5. Goes(conn[p], d, conn[Other(p)].sender.fin_sent)
  BY <1>4, Drained
<1> HIDE DEF c, d
<1>6. OnPath(net'[Other(p)]) \subseteq MadeBy(d.sender.fin_sent)
  <2>1. OnPath(net[Other(p)]) \subseteq MadeBy(conn[p].sender.fin_sent)
    BY TwoPeers DEF PeersInv
  <2>2. MadeBy(conn[p].sender.fin_sent) \subseteq MadeBy(d.sender.fin_sent)
    BY <1>5, MadeByMore DEF Goes, Follows
  <2> QED
    BY <1>2, <2>1, <2>2
<1>7. OnPath(net'[p]) \subseteq MadeBy(conn[Other(p)].sender.fin_sent)
  BY <1>2 DEF PeersInv
<1> QED
  BY <1>1, <1>2, <1>5, <1>6, <1>7, OneGoes

LEMMA NewStream ==
  ASSUME NEW n \in Nat
  PROVE  LET o == NewByteStream(n)
         IN  GoodStream(o) /\ o.buffer = <<>> /\ o.read = 0 /\ o.ended = FALSE
<1> DEFINE o == NewByteStream(n)
<1>1. /\ o \in ByteStreams(Byte) /\ o.buffer = <<>> /\ o.read = 0 /\ o.written = 0
      /\ o.capacity = n /\ o.ended = FALSE
  BY EmptySeq DEF NewByteStream, ByteStreams
<1> HIDE DEF o
<1>2. Len(o.buffer) = 0
  BY <1>1
<1> QED
  BY <1>1, <1>2 DEF GoodStream, StreamConsistent, o

LEMMA NewPeer ==
  ASSUME NEW isn \in WrappingInt32
  PROVE  LET c == NewConnection(isn, SendCapacity, RecvCapacity)
         IN  GoodConnection(c, FALSE) /\ c.linger = TRUE /\ c.sender.fin_sent = FALSE
<1> DEFINE o    == NewByteStream(RecvCapacity)
           r    == NewReassembler(RecvCapacity)
           rcv  == NewReceiver(RecvCapacity)
           t    == NewByteStream(SendCapacity)
           s    == NewSender(isn, SendCapacity)
           none == <<>>
           c    == NewConnection(isn, SendCapacity, RecvCapacity)
<1>1. SendCapacity \in Nat /\ RecvCapacity \in Nat /\ RtTimeout \in Nat
  BY PeersAssumption, SenderAssumption
<1>2. GoodStream(o) /\ o.ended = FALSE
  BY <1>1, NewStream
<1>3. GoodStream(t) /\ t.buffer = <<>> /\ t.read = 0
  BY <1>1, NewStream
<1> HIDE DEF o, t
<1>4. GoodReassembler(r, FALSE)
  <2>1. r = Reassembler(none, 0, 0, NoEof, o)
    BY DEF NewReassembler, Reassembler, o
  <2>2. GoodMap(none)
    <3>1. DOMAIN none = {} /\ none = [k \in {} |-> none[k]]
      OBVIOUS
    <3> QED
      BY <3>1 DEF GoodMap
  <2> HIDE DEF none, r
  <2>3. r.strs = none /\ r.next = 0 /\ r.eof_idx = NoEof /\ r.output = o /\ IsReassembler(r)
    BY <2>1 DEF Reassembler, IsReassembler
  <2> QED
    BY <1>2, <2>2, <2>3 DEF GoodReassembler
<1>5. GoodReceiver(rcv, FALSE)
  <2>1. rcv = Receiver(0, FALSE, r)
    BY DEF NewReceiver, Receiver
  <2> HIDE DEF rcv, r
  <2>2. /\ rcv.isn = 0 /\ rcv.reassembler = r
        /\ rcv = [isn |-> rcv.isn, syn_received |-> rcv.syn_received, reassembler |-> rcv.reassembler]
    BY <2>1 DEF Receiver
  <2>3. 0 \in WrappingInt32
    BY MODAssumption DEF WrappingInt32
  <2> QED
    BY <1>4, <2>2, <2>3 DEF GoodReceiver
<1>6. GoodSender(s) /\ s.fin_sent = FALSE
  <2>1. s = [isn |-> isn, stream |-> t, next |-> 0, last_ack |-> 0,
             fin_sent |-> FALSE, window |-> 1, segments_out |-> none, outstanding |-> none,
             timer_running |-> FALSE, elapsed |-> 0, rto |-> RtTimeout, retransmissions |-> 0]
    BY DEF NewSender, t
  <2>2. none \in Seq(MadeBy(FALSE))
    OBVIOUS
  <2> HIDE DEF none, s
  <2>3. s.stream = t /\ s.next = 0 /\ s.fin_sent = FALSE
    BY <2>1
  <2>4. s \in SendersOf(FALSE)
    BY <1>1, <1>3, <2>1, <2>2 DEF SendersOf, GoodStream
  <2>5. s.next = One(s.next > 0) + s.stream.read + One(s.fin_sent)
    <3>1. One(s.next > 0) = 0 /\ One(s.fin_sent) = 0
      BY <2>3 DEF One
    <3> QED
      BY <1>3, <2>3, <3>1
  <2> QED
    BY <1>3, <2>3, <2>4, <2>5 DEF GoodSender, GoodStream
<1>7. c = Connection(s, rcv, none, TRUE, TRUE, 0)
  BY DEF NewConnection, Connection
<1>8. none \in Seq(MadeBy(FALSE))
  OBVIOUS
<1> HIDE DEF s, rcv, none, c
<1>9. /\ c.sender = s /\ c.receiver = rcv /\ c.segments_out = none /\ c.linger = TRUE
      /\ c = [sender |-> c.sender, receiver |-> c.receiver, segments_out |-> c.segments_out,
              linger |-> c.linger, is_active |-> c.is_active, silence |-> c.silence]
  BY <1>7 DEF Connection
<1>10. GoodConnection(c, FALSE)
  BY <1>5, <1>6, <1>8, <1>9 DEF GoodConnection
<1> QED
  BY <1>6, <1>9, <1>10 DEF c

LEMMA InitPeers ==
  ASSUME NEW Paths, HonestNetwork(Paths), Init
  PROVE  PeersInv(Paths)
<1>1. /\ conn = [p \in Peers |-> NewConnection(Isn[p], SendCapacity, RecvCapacity)]
      /\ net = [p \in Peers |-> EmptyPath]
  BY DEF Init
<1>2. \A p \in Peers : GoodConnection(conn[p], FALSE) /\ conn[p].linger /\ conn[p].sender.fin_sent = FALSE
  BY <1>1, NewPeer, PeersAssumption
<1>3. \A p \in Peers : /\ GoodConnection(conn[p], conn[Other(p)].sender.fin_sent)
                       /\ OnPath(net[p]) \subseteq MadeBy(conn[Other(p)].sender.fin_sent)
  <2>1. \A p \in Peers : Other(p) \in Peers
    BY TwoPeers
  <2>2. \A p \in Peers : OnPath(net[p]) = {}
    BY <1>1 DEF HonestNetwork, Honest
  <2> QED
    BY <1>2, <2>1, <2>2
<1>4. SomeoneLingers
  BY <1>2 DEF SomeoneLingers, Peers
<1>5. net \in [Peers -> Paths] /\ conn = [p \in Peers |-> conn[p]]
  BY <1>1 DEF HonestNetwork, Honest
<1> QED
  BY <1>3, <1>4, <1>5 DEF PeersInv

LEMMA PeersStep ==
  ASSUME NEW Paths, HonestNetwork(Paths), PeersInv(Paths), [Next]_vars
  PROVE  PeersInv(Paths)'
<1>1. CASE Connect
  BY <1>1, ConnectStep
<1>2. CASE \E p \in Peers : Step(p)
  <2>1. PICK p \in Peers : Step(p)
    BY <1>2
  <2>2. CASE \E n \in 1 .. Len(Data[p]) : AppWrite(p, n)
    BY <2>2, AppWriteStep
  <2>3. CASE AppClose(p)
    BY <2>3, AppCloseStep
  <2>4. CASE \E n \in 1 .. RecvCapacity : AppRead(p, n)
    <3>1. PICK n \in 1 .. RecvCapacity : AppRead(p, n)
      BY <2>4
    <3>2. n \in Nat
      BY PeersAssumption
    <3> QED
      BY <3>1, <3>2, AppReadStep
  <2>5. CASE \E arrival \in Arrivals(net[p]) : Deliver(p, arrival)
    BY <2>5, DeliverStep
  <2>6. CASE \E path \in Losses(net[p]) : Lose(p, path)
    BY <2>6, LoseStep
  <2>7. CASE Abort(p)
    BY <2>7, AbortStep
  <2> QED
    BY <2>1, <2>2, <2>3, <2>4, <2>5, <2>6, <2>7 DEF Step
<1>3. CASE \E p \in Peers, ms \in TickSizes : Tick(p, ms)
  BY <1>3, TickStep
<1>4. CASE UNCHANGED vars
  BY <1>4 DEF vars, PeersInv, SomeoneLingers
<1> QED
  BY <1>1, <1>2, <1>3, <1>4 DEF Next

\* Two connections over a network that invents nothing never both take their close for the
\* passive one: _linger_after_streams_finish stays true at one end at least, which can still
\* answer a FIN whose last ACK was lost.  This is for all data, capacities and timeouts,
\* with segments lost, repeated, overtaken and delayed at will.
THEOREM SomebodyAlwaysLingers ==
  ASSUME NEW Paths, HonestNetwork(Paths)
  PROVE  Spec => []SomeoneLingers
<1>1. Init => PeersInv(Paths)
  BY InitPeers
<1>2. PeersInv(Paths) /\ [Next]_vars => PeersInv(Paths)'
  BY PeersStep
<1>3. PeersInv(Paths) => SomeoneLingers
  BY DEF PeersInv
<1> QED
  BY <1>1, <1>2, <1>3, PTL DEF Spec

-----------------------------------------------------------------------------
(* What one end may rely on of the other. *)

\* The absolute number that ackno() stands for; 0 as long as there is none.
Acked(rcv) == IF has_ackno(rcv) THEN abs_ackno(rcv) ELSE 0

\* What a sender and the receiver beside it have counted, as the other end, of which they have
\* the view v, hears of it; text is what the application beside them will have written, back what
\* that of the other end will.
View(s, acked, v) ==
  [isn |-> s.isn, next |-> s.next, read |-> s.stream.read, fin |-> s.fin_sent, acked |-> acked,
   to |-> v.isn, text |-> v.back, back |-> v.text]

\* The view of a sender whose sequence numbers unwrap() can tell apart.
GoodView(v) ==
  /\ v.isn \in WrappingInt32 /\ v.to \in WrappingInt32
  /\ v.next \in Nat /\ v.read \in Nat /\ v.acked \in Nat /\ v.fin \in BOOLEAN
  /\ v.next = One(v.next > 0) + v.read + One(v.fin)
  /\ v.fin => v.next > 0
  /\ v.read + 2 < HalfMOD
  /\ v.text \in Seq(Byte) /\ v.back \in Seq(Byte)

\* The counters only grow, and after the FIN no more bytes are taken off the stream.
Grows(v, w) ==
  /\ w.isn = v.isn /\ w.to = v.to /\ w.text = v.text /\ w.back = v.back
  /\ v.next <= w.next /\ v.read <= w.read /\ v.acked <= w.acked
  /\ v.fin => w.fin /\ w.read = v.read

\* The bytes of data are those of text after the first `from` of them.
Matches(data, from, text) == \A i \in 1 .. Len(data) : data[i] = text[from + i]

\* The place of a segment in the stream of its sender: its bytes are those that were taken off the
\* stream there, and a FIN follows the last of them.
Place(seg, v, pos) ==
  /\ v.next > 0
  /\ seg.seqno = wrap(pos, v.isn)
  /\ seg.syn => pos = 0
  /\ pos + One(seg.syn) + Len(seg.payload) <= 1 + v.read
  /\ seg.fin => v.fin /\ pos + One(seg.syn) + Len(seg.payload) = 1 + v.read
  /\ Matches(seg.payload, pos + One(seg.syn) - 1, v.text)

Occupies(seg) == seg.syn \/ seg.fin \/ seg.payload # <<>>

\* A segment of the sender that v is a view of: it acknowledges no more than was assembled.
Numbered(seg, v) ==
  /\ Occupies(seg) => \E pos \in Nat : Place(seg, v, pos)
  /\ seg.ack => \E a \in Nat : a <= v.acked /\ seg.ackno = wrap(a, v.to)

MadeAs(v) == {seg \in Segment : Numbered(seg, v)}

\* A reassembler holds nothing that is not in the stream of the sender, every byte at its place,
\* and its end is the end of that stream.
ReassemblerCounts(r, v) ==
  /\ r.output.written = r.next
  /\ r.next <= v.read
  /\ \A k \in DOMAIN r.strs : EntryEnd(r, k) <= v.read /\ Matches(r.strs[k], k, v.text)
  /\ Matches(r.output.buffer, r.output.read, v.text)
  /\ r.eof_idx # NoEof => v.fin /\ r.eof_idx = v.read
  /\ r.output.ended => v.fin /\ r.next = v.read

ReceiverCounts(rcv, v) ==
  /\ ReassemblerCounts(rcv.reassembler, v)
  /\ rcv.syn_received \in BOOLEAN
  /\ rcv.syn_received => rcv.isn = v.isn /\ v.next > 0

\* A sender beside a receiver that has acknowledged a, whose peer has the view v.
SenderCounts(s, a, v) ==
  /\ s.isn = v.to
  /\ s.last_ack <= v.acked /\ v.acked <= s.next
  /\ s.stream.written + 2 < HalfMOD
  /\ s.stream.written <= Len(v.back) /\ Matches(s.stream.buffer, s.stream.read, v.back)
  /\ s.outstanding \in Seq(MadeAs(View(s, a, v)))
  /\ s.segments_out \in Seq(MadeAs(View(s, a, v)))

ViewOf(c, v) == View(c.sender, Acked(c.receiver), v)

Counts(c, v) ==
  /\ ReceiverCounts(c.receiver, v)
  /\ SenderCounts(c.sender, Acked(c.receiver), v)
  /\ c.segments_out \in Seq(MadeAs(ViewOf(c, v)))

-----------------------------------------------------------------------------
(* Parts of a text. *)

LEMMA MatchingPart ==
  ASSUME NEW text, NEW from \in Int, NEW data \in Seq(Byte), Matches(data, from, text),
         NEW a \in Nat, a > 0, NEW b \in Int, b <= Len(data)
  PROVE  Matches(SubSeq(data, a, b), from + (a - 1), text)
<1> DEFINE sub == SubSeq(data, a, b)
<1>1. /\ Len(sub) = IF a <= b THEN b - a + 1 ELSE 0
      /\ \A i \in 1 .. Len(sub) : sub[i] = data[a + i - 1]
  BY SubSeqProperties
<1>2. Len(data) \in Nat
  BY LenProperties
<1> HIDE DEF sub
<1>3. ASSUME NEW i \in 1 .. Len(sub)
      PROVE  sub[i] = text[from + (a - 1) + i]
  <2> DEFINE j == a + i - 1
  <2>1. j \in 1 .. Len(data)
    BY <1>1, <1>2
  <2>2. from + j = from + (a - 1) + i
    BY <1>1
  <2>3. sub[i] = data[j]
    BY <1>1
  <2> HIDE DEF j
  <2>4. data[j] = text[from + j]
    BY <2>1 DEF Matches
  <2> QED
    BY <2>2, <2>3, <2>4
<1> QED
  BY <1>3 DEF Matches, sub

LEMMA MatchingFront ==
  ASSUME NEW text, NEW from \in Int, NEW data \in Seq(Byte), Matches(data, from, text),
         NEW n \in Int, n <= Len(data)
  PROVE  Matches(SubSeq(data, 1, n), from, text)
<1> DEFINE sub == SubSeq(data, 1, n)
<1>1. /\ Len(sub) = IF 1 <= n THEN n - 1 + 1 ELSE 0
      /\ \A i \in 1 .. Len(sub) : sub[i] = data[1 + i - 1]
  BY SubSeqProperties
<1>2. Len(data) \in Nat
  BY LenProperties
<1> HIDE DEF sub
<1>3. ASSUME NEW i \in 1 .. Len(sub)
      PROVE  sub[i] = text[from + i]
  <2>1. i \in 1 .. Len(data) /\ 1 + i - 1 = i
    BY <1>1, <1>2
  <2>2. sub[i] = data[i]
    BY <1>1, <2>1
  <2> QED
    BY <2>1, <2>2 DEF Matches
<1> QED
  BY <1>3 DEF Matches, sub

LEMMA MatchingBoth ==
  ASSUME NEW text, NEW from \in Int, NEW d \in Seq(Byte), NEW e \in Seq(Byte), NEW m \in Int,
         Matches(d, from, text), m = from + Len(d), Matches(e, m, text)
  PROVE  Matches(d \o e, from, text)
<1> DEFINE both == d \o e
<1>1. /\ Len(both) = Len(d) + Len(e) /\ Len(d) \in Nat /\ Len(e) \in Nat
      /\ \A i \in 1 .. Len(d) + Len(e) : both[i] = IF i <= Len(d) THEN d[i] ELSE e[i - Len(d)]
  BY ConcatProperties, LenProperties
<1> HIDE DEF both
<1>2. ASSUME NEW i \in 1 .. Len(both)
      PROVE  both[i] = text[from + i]
  <2>1. CASE i <= Len(d)
    <3>1. i \in 1 .. Len(d) /\ both[i] = d[i]
      BY <1>1, <2>1
    <3>2. d[i] = text[from + i]
      BY <3>1 DEF Matches
    <3> QED
      BY <3>1, <3>2
  <2>2. CASE i > Len(d)
    <3> DEFINE j == i - Len(d)
    <3>1. j \in 1 .. Len(e) /\ m + j = from + i /\ both[i] = e[j]
      BY <1>1, <2>2
    <3> HIDE DEF j
    <3>2. e[j] = text[m + j]
      BY <3>1 DEF Matches
    <3> QED
      BY <3>1, <3>2
  <2> QED
    BY <1>1, <2>1, <2>2
<1> QED
  BY <1>2 DEF Matches, both

-----------------------------------------------------------------------------
(* The reassembler. *)

\* A later state of a reassembler's output.
Further(q, p) ==
  /\ q.output.written <= p.output.written
  /\ q.output.ended => p.output.ended

\* A later state, before anything is read.
Later(q, p) == Further(q, p) /\ p.output.read = q.output.read

Counted(q, p, v) == ReassemblerCounts(p, v) /\ Later(q, p)

LEMMA CountedOn ==
  ASSUME NEW v, NEW f, NEW q, NEW p, NEW r, GoodReassembler(q, f), GoodReassembler(p, f), GoodReassembler(r, f),
         Counted(q, p, v), Counted(p, r, v)
  PROVE  Counted(q, r, v)
<1>1. q.output.written \in Nat /\ p.output.written \in Nat /\ r.output.written \in Nat
  BY StreamFields DEF GoodReassembler
<1> QED
  BY <1>1 DEF Counted, Later, Further

\* What a write adds to the count.
LEMMA WriteCount ==
  ASSUME NEW o, GoodStream(o), NEW data \in Seq(Byte)
  PROVE  /\ write(o, data).written = o.written + accepts(o, Len(data))
         /\ accepts(o, Len(data)) \in 0 .. Len(data)
         /\ o.ended => accepts(o, Len(data)) = 0
         /\ write(o, data).ended = o.ended /\ write(o, data).read = o.read
         /\ write(o, data).buffer = o.buffer \o SubSeq(data, 1, accepts(o, Len(data)))
<1> DEFINE n == accepts(o, Len(data))
           b == o.buffer \o SubSeq(data, 1, n)
           m == o.written + n
           w == write(o, data)
<1>1. o \in ByteStreams(Byte)
  BY DEF GoodStream
<1>2. w = [o EXCEPT !.buffer = b, !.written = m]
  BY <1>1, Zenon DEF write, ByteStreams
<1>3. n \in 0 .. Len(data) /\ (o.ended => n = 0)
  BY Accepts
<1>4. w.ended = o.ended
  BY WriteStream
<1> HIDE DEF b, m, w, n
<1>5. w.written = m /\ w.buffer = b /\ w.read = o.read
  BY <1>1, <1>2 DEF ByteStreams
<1> QED
  BY <1>3, <1>4, <1>5 DEF b, m, n, w

\* A write of the text that follows what was written so far.
LEMMA WriteMatches ==
  ASSUME NEW text, NEW o, GoodStream(o), NEW data \in Seq(Byte), Matches(o.buffer, o.read, text),
         NEW m, m = accepts(o, Len(data)), Matches(SubSeq(data, 1, m), o.written, text)
  PROVE  Matches(write(o, data).buffer, write(o, data).read, text)
<1> DEFINE sub == SubSeq(data, 1, m)
           b   == o.buffer
<1>1. m \in Nat /\ m <= Len(data) /\ Len(data) \in Nat
  BY WriteCount, LenProperties
<1>2. sub \in Seq(Byte)
  BY <1>1, PartOf
<1>3. write(o, data).buffer = b \o sub /\ write(o, data).read = o.read
  BY WriteCount
<1>4. b \in Seq(Byte) /\ o.read \in Nat /\ o.written \in Nat /\ o.written = o.read + Len(b)
  BY StreamFields DEF GoodStream, StreamConsistent
<1>5. Matches(b, o.read, text) /\ Matches(sub, o.written, text)
  OBVIOUS
<1> HIDE DEF sub, b
<1>6. Matches(b \o sub, o.read, text)
  BY <1>2, <1>4, <1>5, MatchingBoth
<1> QED
  BY <1>3, <1>6

\* The stream accepts what it has said it accepts.
LEMMA AcceptsAgain ==
  ASSUME NEW o, GoodStream(o), NEW m \in Nat
  PROVE  accepts(o, accepts(o, m)) = accepts(o, m)
<1> DEFINE c == o.capacity - Len(o.buffer)
           e == o.error \/ o.ended
           a == accepts(o, m)
<1>1. c \in Nat
  BY StreamFields
<1>2. a = IF e THEN 0 ELSE IF c <= m THEN c ELSE m
  BY DEF accepts, remaining_capacity, Smaller
<1>3. accepts(o, a) = IF e THEN 0 ELSE IF c <= a THEN c ELSE a
  BY DEF accepts, remaining_capacity, Smaller
<1> HIDE DEF c, e, a
<1>4. accepts(o, a) = a
  BY <1>1, <1>2, <1>3
<1> QED
  BY <1>4 DEF a

LEMMA DiscardCounts ==
  ASSUME NEW q, NEW f, GoodReassembler(q, f), NEW v, ReassemblerCounts(q, v), NEW from \in Nat, NEW end \in Nat
  PROVE  Counted(q, discard_swallowed(q, from, end), v)
<1> DEFINE gone == swallowed(q, from, end)
           S    == DOMAIN q.strs \ gone
           g    == Keep(q.strs, S)
           Size(k) == Len(q.strs[k])
           u    == q.unassembled - MapThenSumSet(Size, gone)
           p    == discard_swallowed(q, from, end)
<1>1. p = [q EXCEPT !.strs = g, !.unassembled = u]
  BY DEF discard_swallowed, GoodReassembler, IsReassembler, Reassembler
<1>2. S \subseteq DOMAIN q.strs
  OBVIOUS
<1>3. DOMAIN g = S /\ \A k \in S : g[k] = q.strs[k]
  BY DEF Keep
<1> HIDE DEF S, g, u, p
<1>4. p.strs = g /\ p.next = q.next /\ p.eof_idx = q.eof_idx /\ p.output = q.output
  BY <1>1 DEF GoodReassembler, IsReassembler, Reassembler
<1>5. \A k \in DOMAIN p.strs : /\ k \in DOMAIN q.strs /\ EntryEnd(p, k) = EntryEnd(q, k)
                              /\ p.strs[k] = q.strs[k]
  BY <1>2, <1>3, <1>4 DEF EntryEnd
<1>6. q.output.written \in Nat
  BY StreamFields DEF GoodReassembler
<1>7. Counted(q, p, v)
  BY <1>4, <1>5, <1>6 DEF ReassemblerCounts, Counted, Later, Further
<1> QED
  BY <1>7 DEF p

LEMMA StoreCounts ==
  ASSUME NEW q, NEW f, GoodReassembler(q, f), NEW v, ReassemblerCounts(q, v),
         NEW idx \in Nat, NEW data \in Seq(Byte), idx + Len(data) <= v.read, Matches(data, idx, v.text)
  PROVE  Counted(q, store(q, idx, data), v)
<1> DEFINE g == [k \in DOMAIN q.strs \cup {idx} |-> IF k = idx THEN data ELSE q.strs[k]]
           u == q.unassembled + Len(data)
           p == store(q, idx, data)
<1>1. p = [q EXCEPT !.strs = g, !.unassembled = u]
  BY DEF store, GoodReassembler, IsReassembler, Reassembler
<1>2. /\ DOMAIN g = DOMAIN q.strs \cup {idx}
      /\ g[idx] = data /\ \A k \in DOMAIN q.strs : k # idx => g[k] = q.strs[k]
  OBVIOUS
<1> HIDE DEF g, u, p
<1>3. p.strs = g /\ p.next = q.next /\ p.eof_idx = q.eof_idx /\ p.output = q.output
  BY <1>1 DEF GoodReassembler, IsReassembler, Reassembler
<1>4. ASSUME NEW k \in DOMAIN p.strs
      PROVE  EntryEnd(p, k) <= v.read /\ Matches(p.strs[k], k, v.text)
  <2>1. CASE k = idx
    BY <1>2, <1>3, <2>1 DEF EntryEnd
  <2>2. CASE k # idx
    <3>1. k \in DOMAIN q.strs /\ EntryEnd(p, k) = EntryEnd(q, k) /\ p.strs[k] = q.strs[k]
      BY <1>2, <1>3, <2>2 DEF EntryEnd
    <3> QED
      BY <3>1 DEF ReassemblerCounts
  <2> QED
    BY <2>1, <2>2
<1>5. q.output.written \in Nat
  BY StreamFields DEF GoodReassembler
<1>6. Counted(q, p, v)
  BY <1>3, <1>4, <1>5 DEF ReassemblerCounts, Counted, Later, Further
<1> QED
  BY <1>6 DEF p

\* Bytes go to the output, of which the first are the next ones.
LEMMA OutputCounts ==
  ASSUME NEW q, NEW f, GoodReassembler(q, f), NEW v, ReassemblerCounts(q, v), v.read \in Nat,
         NEW data \in Seq(Byte), NEW n, n = accepts(q.output, Len(data)), q.next + n <= v.read,
         NEW p, p.next = q.next + n, p.eof_idx = q.eof_idx, p.output = write(q.output, data),
         Matches(SubSeq(data, 1, n), q.next, v.text),
         \A k \in DOMAIN p.strs : EntryEnd(p, k) <= v.read /\ Matches(p.strs[k], k, v.text)
  PROVE  Counted(q, p, v)
<1>1. GoodStream(q.output) /\ q.next \in Nat
  BY DEF GoodReassembler
<1>2. /\ p.output.written = q.output.written + n /\ n \in Nat
      /\ q.output.ended => n = 0
      /\ p.output.ended = q.output.ended /\ p.output.read = q.output.read
  BY <1>1, WriteCount
<1>3. q.output.written \in Nat
  BY <1>1, StreamFields
<1>4. p.output.written = p.next /\ p.next <= v.read
  BY <1>1, <1>2 DEF ReassemblerCounts
<1>5. p.output.ended => v.fin /\ p.next = v.read
  BY <1>1, <1>2 DEF ReassemblerCounts
<1>6. Matches(p.output.buffer, p.output.read, v.text)
  <2>1. Matches(q.output.buffer, q.output.read, v.text) /\ q.output.written = q.next
    BY DEF ReassemblerCounts
  <2>2. Matches(SubSeq(data, 1, n), q.output.written, v.text)
    BY <2>1
  <2> QED
    BY <1>1, <2>1, <2>2, WriteMatches
<1> QED
  BY <1>2, <1>3, <1>4, <1>5, <1>6 DEF ReassemblerCounts, Counted, Later, Further

LEMMA DepositCounts ==
  ASSUME NEW q, NEW f, GoodReassembler(q, f), NEW v, ReassemblerCounts(q, v), v.read \in Nat,
         NEW idx \in Nat, NEW data \in Seq(Byte), data # <<>> => idx + Len(data) <= v.read,
         Matches(data, idx, v.text)
  PROVE  Counted(q, deposit(q, idx, data), v)
<1> DEFINE n      == accepts(q.output, Len(data))
           w      == write(q.output, data)
           m      == q.next + n
           direct == [q EXCEPT !.output = w, !.next = m]
           p      == deposit(q, idx, data)
<1>1. n \in 0 .. Len(data) /\ q.next \in Nat /\ q.output.written \in Nat
  BY Accepts, StreamFields DEF GoodReassembler
<1>2. p = IF data = <<>> THEN q
          ELSE IF idx # q.next THEN store(q, idx, data)
          ELSE IF n = Len(data) THEN direct
          ELSE store(direct, direct.next, SubSeq(data, n + 1, Len(data)))
  <2>1. direct = [q EXCEPT !.output = write(@, data), !.next = @ + n]
    BY DEF GoodReassembler, IsReassembler, Reassembler
  <2>2. n = Len(data) \/ n < Len(data)
    BY <1>1
  <2> HIDE DEF direct, n
  <2>3. CASE n = Len(data)
    BY <2>1, <2>3 DEF deposit, n
  <2>4. CASE n # Len(data)
    BY <2>1, <2>2, <2>4 DEF deposit, n
  <2> QED
    BY <2>3, <2>4
<1> HIDE DEF p
<1>3. ASSUME data # <<>>, idx = q.next
      PROVE  /\ GoodReassembler(direct, f) /\ Counted(q, direct, v) /\ direct.next = m
  <2>1. direct = Reassembler(q.strs, m, q.unassembled, q.eof_idx, w)
    <3>1. direct = [q EXCEPT !.output = w, !.next = m]
      OBVIOUS
    <3> HIDE DEF m, w, direct
    <3> QED
      BY <3>1 DEF GoodReassembler, IsReassembler, Reassembler
  <2>2. m \in Nat /\ m <= v.read
    BY <1>1, <1>3
  <2> HIDE DEF direct
  <2>3. /\ direct.next = m /\ direct.eof_idx = q.eof_idx /\ direct.output = w
        /\ direct.strs = q.strs
    BY <2>1 DEF Reassembler
  <2>4. \A k \in DOMAIN direct.strs : /\ EntryEnd(direct, k) <= v.read
                                     /\ Matches(direct.strs[k], k, v.text)
    BY <2>3 DEF ReassemblerCounts, EntryEnd
  <2>5. Counted(q, direct, v)
    <3> HIDE DEF n
    <3>1. n = accepts(q.output, Len(data)) /\ direct.next = q.next + n /\ q.next + n <= v.read
      BY <2>2, <2>3 DEF n
    <3>2. Matches(SubSeq(data, 1, n), q.next, v.text)
      <4>1. n \in Int /\ n <= Len(data)
        BY <1>1, LenProperties
      <4> QED
        BY <1>3, <4>1, MatchingFront
    <3> QED
      BY <2>3, <2>4, <3>1, <3>2, OutputCounts
  <2>6. GoodReassembler(direct, f)
    <3>1. GoodMap(q.strs)
      BY DEF GoodReassembler
    <3> QED
      BY <2>1, <2>2, <3>1, OutputBytes
  <2> QED
    BY <2>3, <2>5, <2>6
<1>4. CASE data = <<>>
  <2>1. p = q
    BY <1>2, <1>4
  <2> QED
    BY <1>1, <2>1 DEF Counted, Later, Further, p
<1>5. CASE data # <<>> /\ idx # q.next
  <2>1. p = store(q, idx, data)
    BY <1>2, <1>5
  <2> QED
    BY <1>5, <2>1, StoreCounts DEF p
<1>6. CASE data # <<>> /\ idx = q.next /\ n = Len(data)
  <2>1. p = direct
    BY <1>2, <1>6
  <2> QED
    BY <1>3, <1>6, <2>1 DEF p
<1>7. CASE data # <<>> /\ idx = q.next /\ n # Len(data)
  <2> DEFINE rest == SubSeq(data, n + 1, Len(data))
  <2>1. p = store(direct, direct.next, rest)
    BY <1>2, <1>7
  <2>2. rest \in Seq(Byte) /\ Len(rest) = Len(data) - n
    <3>1. n + 1 \in Nat /\ n + 1 > 0 /\ Len(data) \in Nat /\ n + 1 <= Len(data)
      BY <1>1, <1>7
    <3> HIDE DEF n
    <3>2. rest \in Seq(Byte) /\ Len(rest) = Len(data) - (n + 1) + 1
      BY <3>1, PartOf
    <3> DEFINE l == Len(data)
    <3>3. n \in Nat /\ l \in Nat
      BY <1>1 DEF n
    <3> HIDE DEF rest, l
    <3>4. Len(rest) = l - (n + 1) + 1
      BY <3>2 DEF l
    <3>5. Len(rest) = l - n
      BY <3>3, <3>4
    <3> QED
      BY <3>2, <3>5 DEF l
  <2>6. Matches(rest, m, v.text)
    <3>1. n + 1 \in Nat /\ n + 1 > 0 /\ Len(data) \in Int /\ Len(data) <= Len(data)
      BY <1>1, LenProperties
    <3>2. idx + ((n + 1) - 1) = m
      BY <1>1, <1>7
    <3> HIDE DEF n, m
    <3>3. Matches(rest, idx + ((n + 1) - 1), v.text)
      BY <3>1, MatchingPart
    <3> QED
      BY <3>2, <3>3
  <2> HIDE DEF rest
  <2>3. m \in Nat /\ m + Len(rest) <= v.read
    BY <1>1, <1>7, <2>2
  <2> HIDE DEF direct, m, n
  <2>4. GoodReassembler(direct, f) /\ Counted(q, direct, v) /\ direct.next = m
    BY <1>3, <1>7
  <2>5. GoodReassembler(p, f) /\ Counted(direct, p, v)
    BY <2>1, <2>2, <2>3, <2>4, <2>6, StoreBytes, StoreCounts DEF Counted
  <2> QED
    BY <2>4, <2>5, CountedOn DEF p
<1> QED
  BY <1>4, <1>5, <1>6, <1>7

LEMMA AssembleCounts ==
  ASSUME NEW q, NEW f, GoodReassembler(q, f), NEW v, ReassemblerCounts(q, v), v.read \in Nat
  PROVE  Counted(q, assemble(q), v)
<1> DEFINE run   == assembling(q)
           ends  == {q.next} \cup {EntryEnd(q, k) : k \in run}
           end   == Max(ends)
           n     == accepts(q.output, end - q.next)
           next  == q.next + n
           split == {k \in run : k < next /\ next < EntryEnd(q, k)}
           kept  == (DOMAIN q.strs \ {k \in run : k <= next}) \cup (IF split = {} THEN {} ELSE {next})
           whole == CHOOSE s \in split : TRUE
           rest(k) == SubSeq(q.strs[k], next - k + 1, Len(q.strs[k]))
           g     == [k \in kept |-> IF k = next THEN rest(whole) ELSE q.strs[k]]
           u     == q.unassembled - n
           d     == [i \in 1 .. n |-> stored_byte(q, q.next + i - 1)]
           p     == assemble(q)
<1>1. p.strs = g /\ p.next = next /\ p.eof_idx = q.eof_idx /\ p.output = write(q.output, d)
  <2> DEFINE w == write(q.output, d)
  <2>1. p = [q EXCEPT !.strs = g, !.next = next, !.unassembled = u, !.output = w]
    BY DEF assemble
  <2> HIDE DEF g, u, w, next, p
  <2>2. p.strs = g /\ p.next = next /\ p.eof_idx = q.eof_idx /\ p.output = w
    BY <2>1 DEF GoodReassembler, IsReassembler, Reassembler
  <2> QED
    BY <2>2 DEF w
<1>2. q.next \in Nat /\ GoodMap(q.strs) /\ GoodStream(q.output)
  BY DEF GoodReassembler
<1>3. /\ run \subseteq DOMAIN q.strs
      /\ \A k \in DOMAIN q.strs : /\ k \in Nat /\ q.strs[k] \in Seq(Byte) /\ Len(q.strs[k]) \in Nat
                                  /\ EntryEnd(q, k) \in Nat /\ EntryEnd(q, k) = k + Len(q.strs[k])
                                  /\ EntryEnd(q, k) <= v.read
                                  /\ Matches(q.strs[k], k, v.text)
  BY <1>2, EntryFacts DEF assembling, ReassemblerCounts
<1>4. /\ end \in ends /\ end \in Nat /\ q.next <= end
      /\ \A i \in q.next .. end - 1 : /\ \E k \in DOMAIN q.strs : covers(q, k, i)
                                      /\ stored_byte(q, i) \in Byte
      /\ \A k \in DOMAIN q.strs : q.next <= k /\ k <= end => k \in run
  BY <1>2, Continuation
<1> HIDE DEF run, end
<1>5. end <= v.read
  BY <1>3, <1>4 DEF ReassemblerCounts
<1>6. n \in 0 .. end - q.next /\ accepts(q.output, n) = n
  <2> DEFINE room == end - q.next
  <2>1. room \in Nat
    BY <1>2, <1>4
  <2> HIDE DEF room
  <2>2. accepts(q.output, room) \in 0 .. room /\ accepts(q.output, accepts(q.output, room)) = accepts(q.output, room)
    BY <1>2, <2>1, Accepts, AcceptsAgain
  <2> QED
    BY <2>2 DEF room
<1> HIDE DEF n, d, p
<1>7. n \in Nat /\ next \in Nat /\ next <= v.read
  BY <1>2, <1>4, <1>5, <1>6
<1>8. d \in Seq(Byte) /\ Len(d) = n
  <2>1. DOMAIN d = 1 .. n
    BY DEF d
  <2>2. ASSUME NEW i \in 1 .. n
        PROVE  stored_byte(q, q.next + i - 1) \in Byte
    <3>1. q.next + i - 1 \in q.next .. end - 1
      BY <1>2, <1>4, <1>6, <1>7
    <3> QED
      BY <1>4, <3>1
  <2>3. d \in Seq(Byte)
    BY <1>7, <2>2 DEF d
  <2> QED
    BY <1>7, <2>1, <2>3, LenProperties
<1>14. Matches(d, q.next, v.text)
  <2> SUFFICES ASSUME NEW i \in 1 .. Len(d)
               PROVE  d[i] = v.text[q.next + i]
    BY DEF Matches
  <2> DEFINE b == q.next + i - 1
             k == CHOOSE k \in DOMAIN q.strs : covers(q, k, b)
             t == q.strs[k]
             j == b - k + 1
  <2>1. b \in q.next .. end - 1 /\ b \in Nat /\ b + 1 = q.next + i
    BY <1>2, <1>4, <1>6, <1>7, <1>8
  <2>2. d[i] = stored_byte(q, b)
    BY <1>8 DEF d
  <2> HIDE DEF b
  <2>3. k \in DOMAIN q.strs /\ covers(q, k, b)
    BY <1>4, <2>1
  <2>4. stored_byte(q, b) = t[j]
    BY DEF stored_byte
  <2> HIDE DEF k
  <2>5. /\ k \in Nat /\ Len(t) \in Nat /\ k <= b /\ b < k + Len(t)
        /\ Matches(t, k, v.text)
    BY <1>3, <2>3 DEF covers
  <2> HIDE DEF t
  <2>6. j \in 1 .. Len(t) /\ k + j = q.next + i
    BY <2>1, <2>5
  <2> HIDE DEF j
  <2>7. t[j] = v.text[k + j]
    BY <2>5, <2>6 DEF Matches
  <2> QED
    BY <2>2, <2>4, <2>6, <2>7
<1> HIDE DEF next
<1>9. ASSUME split # {}
      PROVE  next + Len(rest(whole)) <= v.read /\ Matches(rest(whole), next, v.text)
  <2>1. whole \in split
    BY <1>9
  <2> HIDE DEF whole
  <2>2. whole \in DOMAIN q.strs /\ whole < next /\ next < EntryEnd(q, whole)
    BY <1>3, <2>1
  <2> DEFINE t == q.strs[whole]
             l == Len(t)
             x == next - whole + 1
             r == v.read
  <2>3. whole \in Nat /\ t \in Seq(Byte) /\ l \in Nat /\ EntryEnd(q, whole) = whole + l /\ whole + l <= r
        /\ Matches(t, whole, v.text)
    BY <1>3, <2>2
  <2> HIDE DEF r, t
  <2>4. x \in Nat /\ x > 0 /\ x <= l /\ l <= Len(t) /\ l \in Int
    BY <1>7, <2>2, <2>3
  <2>5. Len(SubSeq(t, x, l)) = l - x + 1
    <3> HIDE DEF x, l
    <3> QED
      BY <2>3, <2>4, PartOf
  <2>6. rest(whole) = SubSeq(t, x, l)
    BY DEF t
  <2>9. Matches(SubSeq(t, x, l), next, v.text)
    <3>1. whole + (x - 1) = next
      BY <1>7, <2>3
    <3> HIDE DEF x, l
    <3>2. Matches(SubSeq(t, x, l), whole + (x - 1), v.text)
      BY <2>3, <2>4, MatchingPart
    <3> QED
      BY <3>1, <3>2
  <2> DEFINE y == Len(SubSeq(t, x, l))
  <2>7. y = l - x + 1
    BY <2>5
  <2> HIDE DEF y, l
  <2>8. next + y <= r
    BY <1>7, <2>3, <2>7
  <2> HIDE DEF x, rest
  <2> QED
    BY <2>6, <2>8, <2>9 DEF y, r, l
<1> HIDE DEF whole, rest
<1>10. kept \subseteq DOMAIN q.strs \cup {next} /\ (next \in kept => split # {})
  <2>1. next \in DOMAIN q.strs => next \in run
    BY <1>2, <1>4, <1>6, <1>7 DEF next
  <2>2. next <= next
    BY <1>7
  <2> QED
    BY <2>1, <2>2
<1> HIDE DEF split, kept
<1>11. ASSUME NEW k \in DOMAIN p.strs
       PROVE  EntryEnd(p, k) <= v.read /\ Matches(p.strs[k], k, v.text)
  <2>1. k \in kept /\ EntryEnd(p, k) = k + Len(g[k]) /\ p.strs[k] = g[k]
    BY <1>1 DEF EntryEnd
  <2>2. CASE k = next
    <3>1. g[k] = rest(whole)
      BY <2>1, <2>2
    <3> HIDE DEF g
    <3> QED
      BY <1>9, <1>10, <2>1, <2>2, <3>1
  <2>3. CASE k # next
    <3>1. g[k] = q.strs[k] /\ k \in DOMAIN q.strs
      BY <1>10, <2>1, <2>3
    <3> HIDE DEF g
    <3> QED
      BY <1>3, <2>1, <3>1
  <2> QED
    BY <2>2, <2>3
<1> HIDE DEF g
<1>12. n = accepts(q.output, Len(d)) /\ p.next = q.next + n /\ q.next + n <= v.read
  BY <1>1, <1>6, <1>7, <1>8 DEF next
<1>15. Matches(SubSeq(d, 1, n), q.next, v.text)
  <2>1. n \in Int /\ n <= Len(d) /\ q.next \in Int
    BY <1>2, <1>7, <1>8
  <2> QED
    BY <1>8, <1>14, <2>1, MatchingFront
<1>13. Counted(q, p, v)
  BY <1>1, <1>8, <1>11, <1>12, <1>15, OutputCounts
<1> QED
  BY <1>13 DEF p

LEMMA MarkEofCounts ==
  ASSUME NEW q, NEW f, GoodReassembler(q, f), NEW v, ReassemblerCounts(q, v), v.read \in Nat,
         NEW end, NEW is_last, is_last => v.fin /\ end = v.read
  PROVE  Counted(q, mark_eof(q, end, is_last), v)
<1> DEFINE e == IF is_last THEN end ELSE q.eof_idx
           o == IF e # NoEof /\ e <= q.next THEN end_input(q.output) ELSE q.output
           p == mark_eof(q, end, is_last)
<1>1. p.strs = q.strs /\ p.next = q.next /\ p.eof_idx = e /\ p.output = o
  <2>1. p = [q EXCEPT !.eof_idx = e, !.output = o]
    BY DEF mark_eof
  <2> HIDE DEF e, o, p
  <2> QED
    BY <2>1 DEF GoodReassembler, IsReassembler, Reassembler
<1>2. e # NoEof => v.fin /\ e = v.read
  BY DEF ReassemblerCounts
<1> HIDE DEF e, p
<1>3. q.next \in Nat /\ GoodStream(q.output) /\ q.output.written \in Nat
  BY StreamFields DEF GoodReassembler
<1>4. /\ o.written = q.output.written /\ o.read = q.output.read /\ o.buffer = q.output.buffer
      /\ q.output.ended => o.ended
      /\ o.ended => v.fin /\ q.next = v.read
  <2>1. CASE e # NoEof /\ e <= q.next
    BY <1>2, <1>3, <2>1, EndStream DEF ReassemblerCounts
  <2>2. CASE ~(e # NoEof /\ e <= q.next)
    <3>1. o = q.output
      BY <2>2
    <3> QED
      BY <3>1 DEF ReassemblerCounts
  <2> QED
    BY <2>1, <2>2
<1> HIDE DEF o
<1>5. \A k \in DOMAIN p.strs : EntryEnd(p, k) <= v.read /\ Matches(p.strs[k], k, v.text)
  BY <1>1 DEF ReassemblerCounts, EntryEnd
<1>6. Counted(q, p, v)
  BY <1>1, <1>2, <1>3, <1>4, <1>5 DEF ReassemblerCounts, Counted, Later, Further
<1> QED
  BY <1>6 DEF p

LEMMA PushCounts ==
  ASSUME NEW v, v.read \in Nat, NEW q, GoodReassembler(q, v.fin), ReassemblerCounts(q, v),
         NEW data \in Seq(Byte), NEW index \in Nat, NEW is_last,
         data # <<>> => index + Len(data) <= v.read, Matches(data, index, v.text),
         is_last => v.fin /\ index + Len(data) = v.read
  PROVE  Counted(q, push_substring(q, data, index, is_last), v)
<1> DEFINE f    == v.fin
           from == new_idx(q, index)
           last == index + Len(data)
           q1   == discard_swallowed(q, from, last)
           end  == clipped_end(q1, from, last)
           new  == SubSeq(data, from - index + 1, end - index)
           q2   == deposit(q1, from, new)
           q3   == assemble(q2)
           q4   == mark_eof(q3, last, is_last)
           p    == push_substring(q, data, index, is_last)
<1>1. p = IF first_unacceptable_idx(q1) <= from THEN q1 ELSE q4
  BY DEF push_substring
<1>2. last \in Nat /\ Len(data) \in Nat /\ (is_last => v.fin /\ last = v.read)
  OBVIOUS
<1> HIDE DEF p
<1>3. from \in Nat /\ index <= from
  BY NewIdx DEF GoodReassembler
<1> HIDE DEF from
<1>4. GoodReassembler(q1, f) /\ Counted(q, q1, v)
  <2> HIDE DEF last
  <2> QED
    BY <1>2, <1>3, DiscardSwallowed, DiscardCounts
<1> HIDE DEF q1
<1>5. end \in Nat /\ end <= last
  <2> HIDE DEF last
  <2> QED
    BY <1>2, <1>3, <1>4, ClippedEnd DEF GoodReassembler
<1> HIDE DEF end
<1>6. new \in Seq(Byte) /\ (new # <<>> => from + Len(new) <= v.read) /\ Matches(new, from, v.text)
  <2> DEFINE x == from - index + 1
             y == end - index
  <2>1. x \in Nat /\ x > 0 /\ y \in Int /\ y <= Len(data)
    BY <1>2, <1>3, <1>5
  <2>2. y - x + 1 = end - from /\ index + (x - 1) = from
    BY <1>3, <1>5
  <2> HIDE DEF x, y
  <2>3. new \in Seq(Byte) /\ Len(new) = IF x <= y THEN y - x + 1 ELSE 0
    BY <2>1, PartOf DEF x, y
  <2>5. Matches(new, from, v.text)
    <3>1. Matches(new, index + (x - 1), v.text)
      BY <2>1, MatchingPart DEF x, y
    <3> QED
      BY <2>2, <3>1
  <2> HIDE DEF new
  <2>4. ASSUME new # <<>>
        PROVE  from + Len(new) <= v.read
    <3>1. Len(new) # 0
      BY <2>3, <2>4, EmptySeq
    <3>2. x <= y /\ Len(new) = end - from
      BY <2>2, <2>3, <3>1
    <3>3. from + Len(new) = end
      BY <1>3, <1>5, <3>2
    <3>4. data # <<>>
      <4>1. Len(data) # 0
        BY <1>2, <2>1, <3>2
      <4> QED
        BY <4>1
    <3> QED
      BY <1>2, <1>5, <3>3, <3>4
  <2> QED
    BY <2>3, <2>4, <2>5
<1> HIDE DEF new
<1>7. GoodReassembler(q2, f) /\ Counted(q1, q2, v)
  BY <1>3, <1>4, <1>6, Deposit, DepositCounts DEF Counted
<1> HIDE DEF q2
<1>8. GoodReassembler(q3, f) /\ Counted(q2, q3, v)
  BY <1>7, Assemble, AssembleCounts DEF Counted
<1> HIDE DEF q3, last
<1>9. GoodReassembler(q4, f) /\ Counted(q3, q4, v)
  BY <1>2, <1>8, MarkEof, MarkEofCounts DEF Counted
<1> HIDE DEF q4, f
<1>10. Counted(q, q4, v)
  <2>1. Counted(q, q2, v)
    BY <1>4, <1>7, CountedOn DEF f
  <2>2. Counted(q, q3, v)
    BY <1>7, <1>8, <2>1, CountedOn DEF f
  <2> QED
    BY <1>8, <1>9, <2>2, CountedOn DEF f
<1>11. Counted(q, p, v)
  BY <1>1, <1>4, <1>10
<1> QED
  BY <1>11 DEF p

\* The reader takes bytes, or the connection fails.
LEMMA OtherOutputCounts ==
  ASSUME NEW q, NEW f, GoodReassembler(q, f), NEW v, ReassemblerCounts(q, v),
         NEW o, o.written = q.output.written, o.ended = q.output.ended, Matches(o.buffer, o.read, v.text)
  PROVE  LET p == [q EXCEPT !.output = o]
         IN  ReassemblerCounts(p, v) /\ Further(q, p) /\ p.output = o
<1> DEFINE p == [q EXCEPT !.output = o]
<1>1. p.strs = q.strs /\ p.next = q.next /\ p.eof_idx = q.eof_idx /\ p.output = o
  BY DEF GoodReassembler, IsReassembler, Reassembler
<1> HIDE DEF p
<1>2. q.output.written \in Nat
  BY StreamFields DEF GoodReassembler
<1>3. ReassemblerCounts(p, v) /\ Further(q, p)
  BY <1>1, <1>2 DEF ReassemblerCounts, Further, EntryEnd
<1> QED
  BY <1>1, <1>3 DEF p

-----------------------------------------------------------------------------
(* The receiver. *)

\* A later state of a receiver: it has acknowledged more.
Hears(rcv, r, v) ==
  /\ ReceiverCounts(r, v)
  /\ rcv.syn_received => r.syn_received
  /\ Later(rcv.reassembler, r.reassembler)

\* What is acknowledged was sent.
LEMMA AckedWasSent ==
  ASSUME NEW v, GoodView(v), NEW rcv, GoodReceiver(rcv, v.fin), ReceiverCounts(rcv, v)
  PROVE  /\ Acked(rcv) \in Nat /\ Acked(rcv) <= v.next
         /\ has_ackno(rcv) => Acked(rcv) = abs_ackno(rcv)
<1> DEFINE o == rcv.reassembler.output
           w == o.written
<1>1. w \in Nat /\ w <= v.read /\ (o.ended => v.fin)
  BY StreamFields DEF GoodReceiver, GoodReassembler, ReceiverCounts, ReassemblerCounts
<1>2. abs_ackno(rcv) = w + 1 + One(o.ended)
  BY DEF abs_ackno, stream_out
<1>3. rcv.syn_received => v.next > 0
  BY DEF ReceiverCounts
<1> HIDE DEF o, w
<1>4. rcv.syn_received => abs_ackno(rcv) <= v.next
  BY <1>1, <1>2, <1>3 DEF GoodView, One
<1>5. abs_ackno(rcv) \in Nat
  BY <1>1, <1>2 DEF One
<1> QED
  BY <1>4, <1>5 DEF Acked, has_ackno, GoodView

LEMMA AckedGrows ==
  ASSUME NEW v, GoodView(v), NEW rcv, NEW r, GoodReceiver(rcv, v.fin), GoodReceiver(r, v.fin), Hears(rcv, r, v)
  PROVE  Acked(rcv) <= Acked(r)
<1> DEFINE o == rcv.reassembler.output
           t == r.reassembler.output
<1>1. o.written \in Nat /\ t.written \in Nat /\ o.written <= t.written /\ (o.ended => t.ended)
  BY StreamFields DEF GoodReceiver, GoodReassembler, Hears, Later, Further
<1>2. abs_ackno(rcv) = o.written + 1 + One(o.ended) /\ abs_ackno(r) = t.written + 1 + One(t.ended)
  BY DEF abs_ackno, stream_out
<1> HIDE DEF o, t
<1>3. abs_ackno(rcv) <= abs_ackno(r) /\ abs_ackno(r) \in Nat
  BY <1>1, <1>2 DEF One
<1> QED
  BY <1>3 DEF Acked, has_ackno, Hears

LEMMA WrapZero ==
  ASSUME NEW isn \in WrappingInt32
  PROVE  wrap(0, isn) = isn
<1>1. isn \in 0 .. MOD - 1 /\ isn + 0 = MOD * 0 + isn /\ MOD \in Nat /\ MOD > 0
  BY MODAssumption DEF WrappingInt32
<1>2. (MOD * 0 + isn) % MOD = isn
  BY <1>1, DivModUnique
<1> QED
  BY <1>1, <1>2 DEF wrap

\* What is made by the sender that v is a view of has a FIN only if that has been sent.
LEMMA MadeAsFields ==
  ASSUME NEW v, NEW seg \in MadeAs(v)
  PROVE  /\ seg \in MadeBy(v.fin) /\ Numbered(seg, v)
         /\ seg.seqno \in WrappingInt32 /\ seg.syn \in BOOLEAN /\ seg.fin \in BOOLEAN
         /\ seg.payload \in Seq(Byte) /\ Len(seg.payload) \in Nat /\ seg.ack \in BOOLEAN
<1>1. seg \in Segment /\ Numbered(seg, v)
  BY DEF MadeAs
<1>2. seg.fin => v.fin
  BY <1>1 DEF Numbered, Occupies, Place
<1>3. seg \in MadeBy(v.fin)
  BY <1>1, <1>2 DEF MadeBy
<1> QED
  BY <1>1, <1>3, SegmentFields

LEMMA NoteSynCounts ==
  ASSUME NEW v, GoodView(v), NEW rcv, GoodReceiver(rcv, v.fin), ReceiverCounts(rcv, v), NEW seg \in MadeAs(v)
  PROVE  Hears(rcv, note_syn(rcv, seg), v)
<1> DEFINE p == note_syn(rcv, seg)
<1>1. rcv.reassembler.output.written \in Nat
  BY StreamFields DEF GoodReceiver, GoodReassembler
<1>2. CASE ~seg.syn
  <2>1. p = rcv
    BY <1>2 DEF note_syn
  <2> QED
    BY <1>1, <2>1 DEF Hears, Later, Further
<1>3. CASE seg.syn
  <2>1. p = [rcv EXCEPT !.syn_received = TRUE, !.isn = seg.seqno]
    BY <1>3 DEF note_syn
  <2> HIDE DEF p
  <2>2. p.isn = seg.seqno /\ p.syn_received = TRUE /\ p.reassembler = rcv.reassembler
    BY <2>1 DEF GoodReceiver
  <2>3. PICK pos \in Nat : Place(seg, v, pos)
    BY <1>3, MadeAsFields DEF Numbered, Occupies
  <2>4. seg.seqno = v.isn /\ v.next > 0
    BY <1>3, <2>3, WrapZero DEF Place, GoodView
  <2>5. ReceiverCounts(p, v) /\ p.syn_received
    BY <2>2, <2>4, Zenon DEF ReceiverCounts
  <2>6. Later(rcv.reassembler, p.reassembler)
    BY <1>1, <2>2 DEF Later, Further
  <2>7. Hears(rcv, p, v)
    BY <2>5, <2>6 DEF Hears
  <2> QED
    BY <2>7 DEF p
<1> QED
  BY <1>2, <1>3, MadeAsFields

\* unwrap() finds the place of a segment from the bytes assembled so far.
LEMMA FindsPlace ==
  ASSUME NEW v, GoodView(v), NEW rcv, GoodReceiver(rcv, v.fin), ReceiverCounts(rcv, v), rcv.syn_received,
         NEW seg \in MadeAs(v), NEW pos \in Nat, Place(seg, v, pos)
  PROVE  abs_seqno(rcv, seg) = pos
<1> DEFINE w == stream_out(rcv).written
           l == Len(seg.payload)
<1>1. w \in Nat /\ w <= v.read
  BY StreamFields DEF GoodReceiver, GoodReassembler, ReceiverCounts, ReassemblerCounts, stream_out
<1>2. l \in Nat /\ seg.syn \in BOOLEAN
  BY MadeAsFields
<1>3. seg.seqno = wrap(pos, v.isn) /\ pos + One(seg.syn) + l <= 1 + v.read
  BY DEF Place
<1>4. v.isn \in WrappingInt32 /\ v.read \in Nat /\ v.read + 2 < HalfMOD /\ rcv.isn = v.isn
  BY DEF GoodView, ReceiverCounts
<1>5. abs_seqno(rcv, seg) = unwrap(seg.seqno, rcv.isn, w + 1)
  BY DEF abs_seqno
<1> HIDE DEF w, l
<1>6. w + 1 \in Nat /\ pos - (w + 1) < HalfMOD /\ (w + 1) - pos < HalfMOD
  BY <1>1, <1>2, <1>3, <1>4, HalfIsHalf DEF One
<1>7. unwrap(wrap(pos, v.isn), v.isn, w + 1) = pos
  BY <1>4, <1>6, UnwrapOfWrap
<1> QED
  BY <1>3, <1>4, <1>5, <1>7

\* What receiver_segment_received() pushes lies within the stream.
LEMMA PushedIsSent ==
  ASSUME NEW v, GoodView(v), NEW rcv, GoodReceiver(rcv, v.fin), ReceiverCounts(rcv, v), rcv.syn_received,
         NEW seg \in MadeAs(v),
         NEW index, index = IF seg.syn /\ seg.payload = <<>> THEN 0 ELSE abs_seqno(rcv, seg) - 1 + One(seg.syn)
  PROVE  /\ seg.payload # <<>> => index + Len(seg.payload) <= v.read
         /\ seg.fin => v.fin /\ index + Len(seg.payload) = v.read
         /\ Matches(seg.payload, index, v.text)
<1>1. SUFFICES ASSUME seg.fin \/ seg.payload # <<>>
               PROVE  /\ index + Len(seg.payload) <= v.read
                      /\ seg.fin => v.fin /\ index + Len(seg.payload) = v.read
                      /\ Matches(seg.payload, index, v.text)
  <2>1. seg.payload = <<>> => Matches(seg.payload, index, v.text)
    BY DEF Matches
  <2> QED
    BY <2>1
<1>2. PICK pos \in Nat : Place(seg, v, pos)
  BY <1>1, MadeAsFields DEF Numbered, Occupies
<1> DEFINE l == Len(seg.payload)
<1>3. l \in Nat /\ seg.syn \in BOOLEAN /\ v.read \in Nat
  BY MadeAsFields DEF GoodView
<1>4. /\ seg.syn => pos = 0
      /\ pos + One(seg.syn) + l <= 1 + v.read
      /\ seg.fin => v.fin /\ pos + One(seg.syn) + l = 1 + v.read
  BY <1>2 DEF Place
<1>5. index = pos - 1 + One(seg.syn)
  <2>1. abs_seqno(rcv, seg) = pos
    BY <1>2, FindsPlace
  <2>2. CASE seg.syn
    BY <1>4, <2>1, <2>2 DEF One
  <2>3. CASE ~seg.syn
    BY <2>1, <2>3
  <2> QED
    BY <2>2, <2>3
<1> HIDE DEF l
<1>6. One(seg.syn) \in 0 .. 1
  BY DEF One
<1>7. index + l <= v.read /\ (seg.fin => v.fin /\ index + l = v.read)
  BY <1>3, <1>4, <1>5, <1>6
<1>8. pos + One(seg.syn) - 1 = index
  BY <1>5, <1>6
<1>9. Matches(seg.payload, pos + One(seg.syn) - 1, v.text)
  BY <1>2 DEF Place
<1> QED
  BY <1>7, <1>8, <1>9 DEF l

LEMMA ReceivesCounts ==
  ASSUME NEW v, GoodView(v), NEW rcv, GoodReceiver(rcv, v.fin), ReceiverCounts(rcv, v), NEW seg \in MadeAs(v)
  PROVE  Hears(rcv, receiver_segment_received(rcv, seg), v)
<1> DEFINE f     == v.fin
           rcv1  == note_syn(rcv, seg)
           abs   == abs_seqno(rcv1, seg)
           index == abs - 1 + One(seg.syn)
           push(i) == [rcv1 EXCEPT !.reassembler = push_substring(@, seg.payload, i, seg.fin)]
           p     == receiver_segment_received(rcv, seg)
<1>1. p = IF ~rcv1.syn_received                THEN rcv1
          ELSE IF seg.syn /\ seg.payload = <<>> THEN IF seg.fin THEN push(0) ELSE rcv1
          ELSE IF index < 0                     THEN rcv1
          ELSE push(index)
  BY DEF receiver_segment_received
<1> HIDE DEF p
<1>2. seg \in MadeBy(f) /\ seg.payload \in Seq(Byte) /\ v.read \in Nat
  BY MadeAsFields DEF GoodView
<1>3. GoodReceiver(rcv1, f) /\ Hears(rcv, rcv1, v)
  BY <1>2, NoteSyn, NoteSynCounts
<1> HIDE DEF rcv1
<1>4. abs \in Nat
  BY <1>2, <1>3, AbsSeqno
<1> HIDE DEF abs
<1>5. index \in Int
  BY <1>4 DEF One
<1>6. ASSUME rcv1.syn_received, NEW i \in Nat,
             i = IF seg.syn /\ seg.payload = <<>> THEN 0 ELSE index
      PROVE  Hears(rcv, push(i), v)
  <2> DEFINE r == push_substring(rcv1.reassembler, seg.payload, i, seg.fin)
             d == push(i)
  <2>1. GoodReassembler(rcv1.reassembler, f) /\ ReassemblerCounts(rcv1.reassembler, v) /\ ReceiverCounts(rcv1, v)
    BY <1>3 DEF GoodReceiver, Hears, ReceiverCounts
  <2>2. /\ seg.payload # <<>> => i + Len(seg.payload) <= v.read
        /\ seg.fin => v.fin /\ i + Len(seg.payload) = v.read
        /\ Matches(seg.payload, i, v.text)
    BY <1>3, <1>6, <2>1, PushedIsSent DEF abs
  <2>3. Counted(rcv1.reassembler, r, v)
    BY <1>2, <2>1, <2>2, PushCounts
  <2>4. GoodReassembler(r, f)
    BY <1>2, <2>1, <2>2, PushSubstring
  <2>5. d = [rcv1 EXCEPT !.reassembler = r]
    BY <1>3 DEF GoodReceiver
  <2> HIDE DEF r, d
  <2>6. d.reassembler = r /\ d.isn = rcv1.isn /\ d.syn_received = rcv1.syn_received
    BY <1>3, <2>5 DEF GoodReceiver
  <2>7. Counted(rcv.reassembler, r, v)
    <3>1. GoodReassembler(rcv.reassembler, f) /\ Counted(rcv.reassembler, rcv1.reassembler, v)
      BY <1>3, <2>1 DEF GoodReceiver, Counted, Hears
    <3> HIDE DEF f
    <3> QED
      BY <2>1, <2>3, <2>4, <3>1, CountedOn
  <2>8. Hears(rcv, d, v)
    BY <1>3, <2>6, <2>7 DEF Hears, ReceiverCounts, Counted
  <2> QED
    BY <2>8 DEF d
<1>7. ~(index < 0) => index \in Nat
  BY <1>5
<1> HIDE DEF push, index
<1> SUFFICES Hears(rcv, p, v)
  BY DEF p
<1>8. CASE ~rcv1.syn_received
  BY <1>1, <1>3, <1>8
<1>9. CASE rcv1.syn_received /\ seg.syn /\ seg.payload = <<>>
  <2>1. Hears(rcv, push(0), v)
    BY <1>6, <1>9
  <2> QED
    BY <1>1, <1>3, <1>9, <2>1
<1>10. CASE rcv1.syn_received /\ ~(seg.syn /\ seg.payload = <<>>)
  <2>1. index \in Nat => Hears(rcv, push(index), v)
    BY <1>6, <1>10
  <2> QED
    BY <1>1, <1>3, <1>7, <1>10, <2>1
<1> QED
  BY <1>8, <1>9, <1>10

-----------------------------------------------------------------------------
(* Views. *)

LEMMA GrowsOn ==
  ASSUME NEW v, GoodView(v), NEW w, GoodView(w), NEW x, GoodView(x), Grows(v, w), Grows(w, x)
  PROVE  Grows(v, x)
<1>1. /\ v.next \in Nat /\ v.read \in Nat /\ v.acked \in Nat
      /\ w.next \in Nat /\ w.read \in Nat /\ w.acked \in Nat
      /\ x.next \in Nat /\ x.read \in Nat /\ x.acked \in Nat
  BY DEF GoodView
<1>2. /\ v.next <= w.next /\ v.read <= w.read /\ v.acked <= w.acked
      /\ w.next <= x.next /\ w.read <= x.read /\ w.acked <= x.acked
  BY DEF Grows
<1>3. /\ v.next <= x.next /\ v.read <= x.read /\ v.acked <= x.acked
  BY <1>1, <1>2
<1> QED
  BY <1>3 DEF Grows

LEMMA GrowsNot ==
  ASSUME NEW v, GoodView(v)
  PROVE  Grows(v, v)
BY DEF Grows, GoodView

\* A segment that was sent stays one that may have been sent.
LEMMA MadeAsMore ==
  ASSUME NEW v, GoodView(v), NEW w, GoodView(w), Grows(v, w)
  PROVE  /\ MadeAs(v) \subseteq MadeAs(w)
         /\ \A q \in Seq(MadeAs(v)) : q \in Seq(MadeAs(w))
<1>1. ASSUME NEW seg \in MadeAs(v)
      PROVE  seg \in MadeAs(w)
  <2> DEFINE l == Len(seg.payload)
  <2>1. seg \in Segment /\ Numbered(seg, v) /\ l \in Nat
    BY MadeAsFields DEF MadeAs
  <2>2. /\ v.next \in Nat /\ w.next \in Nat /\ v.read \in Nat /\ w.read \in Nat
        /\ v.acked \in Nat /\ w.acked \in Nat
        /\ v.next <= w.next /\ v.read <= w.read /\ v.acked <= w.acked
        /\ w.isn = v.isn /\ w.to = v.to /\ w.text = v.text /\ (v.fin => w.fin /\ w.read = v.read)
    BY DEF GoodView, Grows
  <2>3. ASSUME NEW pos \in Nat, Place(seg, v, pos)
        PROVE  Place(seg, w, pos)
    <3>1. /\ v.next > 0 /\ seg.seqno = wrap(pos, v.isn) /\ (seg.syn => pos = 0)
          /\ pos + One(seg.syn) + l <= 1 + v.read
          /\ seg.fin => v.fin /\ pos + One(seg.syn) + l = 1 + v.read
      BY <2>3 DEF Place
    <3>2. One(seg.syn) \in 0 .. 1
      BY DEF One
    <3> HIDE DEF l
    <3>3. w.next > 0 /\ pos + One(seg.syn) + l <= 1 + w.read
      BY <2>1, <2>2, <3>1, <3>2
    <3>4. seg.fin => w.fin /\ pos + One(seg.syn) + l = 1 + w.read
      BY <2>2, <3>1
    <3>5. Matches(seg.payload, pos + One(seg.syn) - 1, w.text)
      BY <2>2, <2>3 DEF Place
    <3> QED
      BY <2>2, <3>1, <3>3, <3>4, <3>5 DEF Place, l
  <2>4. ASSUME NEW a \in Nat, a <= v.acked
        PROVE  a <= w.acked
    BY <2>2, <2>4
  <2>5. Numbered(seg, w)
    BY <2>1, <2>2, <2>3, <2>4 DEF Numbered
  <2> QED
    BY <2>1, <2>5 DEF MadeAs
<1> QED
  BY <1>1, LargerAlphabet

\* What a receiver has counted of its peer stays true when the peer goes on.
LEMMA ReceiverCountsLater ==
  ASSUME NEW v, GoodView(v), NEW w, GoodView(w), Grows(v, w), NEW rcv, GoodReceiver(rcv, v.fin), ReceiverCounts(rcv, v)
  PROVE  ReceiverCounts(rcv, w)
<1> DEFINE r == rcv.reassembler
<1>1. /\ v.next \in Nat /\ w.next \in Nat /\ v.read \in Nat /\ w.read \in Nat
      /\ v.next <= w.next /\ v.read <= w.read
      /\ w.isn = v.isn /\ w.text = v.text /\ (v.fin => w.fin /\ w.read = v.read)
  BY DEF GoodView, Grows
<1>2. r.next \in Nat /\ \A k \in DOMAIN r.strs : EntryEnd(r, k) \in Nat
  BY EntryFacts DEF GoodReceiver, GoodReassembler
<1>3. ReassemblerCounts(r, v) /\ rcv.syn_received \in BOOLEAN /\ (rcv.syn_received => rcv.isn = v.isn /\ v.next > 0)
  BY DEF ReceiverCounts
<1> HIDE DEF r
<1>4. r.next <= w.read /\ \A k \in DOMAIN r.strs : EntryEnd(r, k) <= w.read
  BY <1>1, <1>2, <1>3 DEF ReassemblerCounts
<1>5. ReassemblerCounts(r, w)
  BY <1>1, <1>3, <1>4 DEF ReassemblerCounts
<1>6. rcv.syn_received => rcv.isn = w.isn /\ w.next > 0
  BY <1>1, <1>3
<1> QED
  BY <1>3, <1>5, <1>6 DEF ReceiverCounts, r

\* The view of a sender that keeps its accounts.
LEMMA SenderView ==
  ASSUME NEW s, GoodSender(s), s.stream.written + 2 < HalfMOD, NEW a \in Nat,
         NEW x, x.isn \in WrappingInt32, x.text \in Seq(Byte), x.back \in Seq(Byte)
  PROVE  LET v == View(s, a, x)
         IN  /\ GoodView(v)
             /\ v.isn = s.isn /\ v.next = s.next /\ v.read = s.stream.read /\ v.fin = s.fin_sent
             /\ v.acked = a /\ v.to = x.isn /\ v.text = x.back /\ v.back = x.text
<1> DEFINE v == View(s, a, x)
<1>1. /\ v.isn = s.isn /\ v.next = s.next /\ v.read = s.stream.read /\ v.fin = s.fin_sent
      /\ v.acked = a /\ v.to = x.isn /\ v.text = x.back /\ v.back = x.text
  BY DEF View
<1> HIDE DEF v
<1>2. /\ s.isn \in WrappingInt32 /\ s.next \in Nat /\ s.fin_sent \in BOOLEAN
      /\ GoodStream(s.stream)
  BY SenderFields
<1>3. /\ s.stream.read \in Nat /\ s.stream.written \in Nat /\ s.stream.read <= s.stream.written
  BY <1>2, StreamFields
<1>4. s.stream.read + 2 < HalfMOD
  BY <1>3, HalfIsHalf
<1>5. s.next = One(s.next > 0) + s.stream.read + One(s.fin_sent)
  BY DEF GoodSender
<1>6. s.fin_sent => s.next > 0
  BY <1>2, <1>3, <1>5 DEF One
<1>7. GoodView(v)
  BY <1>1, <1>2, <1>3, <1>4, <1>5, <1>6 DEF GoodView
<1> QED
  BY <1>1, <1>7 DEF v

\* A segment leaves with an acknowledgment of what was assembled.
LEMMA StampCounts ==
  ASSUME NEW v, GoodView(v), NEW rcv, GoodReceiver(rcv, v.fin), ReceiverCounts(rcv, v),
         NEW w, GoodView(w), w.to = v.isn, w.acked = Acked(rcv), NEW seg \in MadeAs(w)
  PROVE  stamp(rcv, seg) \in MadeAs(w)
<1>1. CASE ~has_ackno(rcv)
  BY <1>1 DEF stamp
<1>2. CASE has_ackno(rcv)
  <2> DEFINE a == ackno(rcv)
             b == Smaller(window_size(rcv), MaxWindow)
             p == stamp(rcv, seg)
  <2>1. a \in WrappingInt32 /\ b \in Nat
    BY Advertises, ConnectionAssumption DEF Smaller
  <2>2. a = wrap(Acked(rcv), w.to) /\ Acked(rcv) \in Nat /\ Acked(rcv) <= w.acked
    <3>1. Acked(rcv) \in Nat /\ (has_ackno(rcv) => Acked(rcv) = abs_ackno(rcv))
      BY AckedWasSent
    <3>2. rcv.isn = v.isn
      BY <1>2 DEF ReceiverCounts, has_ackno
    <3> QED
      BY <1>2, <3>1, <3>2 DEF ackno
  <2>3. p = [seg EXCEPT !.ack = TRUE, !.ackno = a, !.win = b]
    BY <1>2 DEF stamp
  <2>4. seg \in Segment /\ Numbered(seg, w)
    BY DEF MadeAs
  <2> HIDE DEF a, b, p
  <2>5. /\ p \in Segment /\ p.seqno = seg.seqno /\ p.syn = seg.syn /\ p.fin = seg.fin /\ p.payload = seg.payload
        /\ p.ackno = a
    BY <2>1, <2>3, <2>4 DEF Segment, Segments
  <2>6. Numbered(p, w)
    BY <2>2, <2>4, <2>5 DEF Numbered, Occupies, Place
  <2> QED
    BY <2>5, <2>6 DEF MadeAs, p
<1> QED
  BY <1>1, <1>2

-----------------------------------------------------------------------------
(* The sender. *)

\* What the application did to a stream is not undone or repeated.
SameStream(o, p) == p.written = o.written /\ p.ended = o.ended

\* A later state of a sender, beside a receiver that has acknowledged a.
Speaks(s, u, a, v) ==
  /\ SenderCounts(u, a, v)
  /\ Grows(View(s, a, v), View(u, a, v))

\* A step of its own.
Sends(s, u, a, v) == Speaks(s, u, a, v) /\ SameStream(s.stream, u.stream)

\* The surroundings of a sender: its own account, and the peer's view.
Beside(s, a, v) == GoodSender(s) /\ SenderCounts(s, a, v) /\ a \in Nat /\ GoodView(v)

LEMMA BesideView ==
  ASSUME NEW a, NEW v, NEW s, Beside(s, a, v)
  PROVE  LET w == View(s, a, v)
         IN  /\ GoodView(w) /\ w.isn = s.isn /\ w.next = s.next /\ w.read = s.stream.read
             /\ w.fin = s.fin_sent /\ w.acked = a /\ w.to = v.isn /\ w.text = v.back /\ w.back = v.text
<1>1. /\ GoodSender(s) /\ s.stream.written + 2 < HalfMOD /\ a \in Nat /\ v.isn \in WrappingInt32
      /\ v.text \in Seq(Byte) /\ v.back \in Seq(Byte)
  BY DEF Beside, SenderCounts, GoodView
<1> QED
  BY <1>1, SenderView

LEMMA SpeaksOn ==
  ASSUME NEW a, NEW v, NEW s, NEW u, NEW t, Beside(s, a, v), GoodSender(u), GoodSender(t),
         Speaks(s, u, a, v), Speaks(u, t, a, v)
  PROVE  Speaks(s, t, a, v)
<1>1. Beside(u, a, v) /\ Beside(t, a, v)
  BY DEF Beside, Speaks
<1>2. GoodView(View(s, a, v)) /\ GoodView(View(u, a, v)) /\ GoodView(View(t, a, v))
  BY <1>1, BesideView
<1> QED
  BY <1>2, GrowsOn DEF Speaks

LEMMA SendsOn ==
  ASSUME NEW a, NEW v, NEW s, NEW u, NEW t, Beside(s, a, v), GoodSender(u), GoodSender(t),
         Sends(s, u, a, v), Sends(u, t, a, v)
  PROVE  Sends(s, t, a, v)
BY SpeaksOn DEF Sends, SameStream

LEMMA SendsNothing ==
  ASSUME NEW a, NEW v, NEW s, Beside(s, a, v)
  PROVE  Sends(s, s, a, v)
BY BesideView, GrowsNot DEF Sends, Speaks, SameStream, Beside

\* Another sender that speaks for the same bytes.
LEMMA SameNumbers ==
  ASSUME NEW a, NEW v, NEW s, Beside(s, a, v), NEW u, u.isn = s.isn, u.next = s.next,
         u.stream = s.stream, u.fin_sent = s.fin_sent, u.last_ack <= v.acked,
         u.outstanding \in Seq(MadeAs(View(s, a, v))), u.segments_out \in Seq(MadeAs(View(s, a, v)))
  PROVE  Sends(s, u, a, v)
<1>1. View(u, a, v) = View(s, a, v)
  BY DEF View
<1>2. SenderCounts(u, a, v)
  BY <1>1 DEF SenderCounts, Beside
<1>3. Grows(View(s, a, v), View(u, a, v))
  BY <1>1, BesideView, GrowsNot
<1> QED
  BY <1>2, <1>3 DEF Sends, Speaks, SameStream

LEMMA BesideFacts ==
  ASSUME NEW a, NEW v, NEW s, Beside(s, a, v)
  PROVE  /\ s \in SendersOf(s.fin_sent) /\ s.last_ack <= v.acked /\ s.stream.written + 2 < HalfMOD
         /\ s.stream.written <= Len(v.back) /\ Matches(s.stream.buffer, s.stream.read, v.back)
         /\ s.outstanding \in Seq(MadeAs(View(s, a, v)))
         /\ s.segments_out \in Seq(MadeAs(View(s, a, v)))
BY SenderFields DEF Beside, SenderCounts

\* The pieces that `size` bytes are cut into: none starts after the last byte, and the last one
\* reaches it.
LEMMA PieceBounds ==
  ASSUME NEW size \in Nat, NEW syn \in BOOLEAN, NEW fin \in BOOLEAN
  PROVE  LET c == segment_count(size, syn, fin)
         IN  /\ c \in Nat /\ size <= c * MaxPayload
             /\ \A i \in 1 .. c : (i - 1) * MaxPayload \in 0 .. size
<1> DEFINE m == MaxPayload
           q == (size + MaxPayload - 1) \div MaxPayload
           r == (size + MaxPayload - 1) % MaxPayload
           c == segment_count(size, syn, fin)
<1>1. m \in Nat /\ m > 0
  BY SenderAssumption
<1>2. q \in Int /\ r \in 0 .. m - 1 /\ size + m - 1 = m * q + r
  BY <1>1, DivMod
<1>3. c = IF q >= One(syn \/ fin) THEN q ELSE One(syn \/ fin)
  BY DEF segment_count, Larger
<1> HIDE DEF m, q, r, c
<1>4. size <= q * m /\ (q - 1) * m < size /\ q >= 0
  BY <1>1, <1>2
<1>5. c \in Nat /\ size <= c * m
  BY <1>1, <1>2, <1>3, <1>4 DEF One
<1>6. ASSUME NEW i \in 1 .. c
      PROVE  (i - 1) * m \in 0 .. size
  <2>1. CASE i = 1
    BY <1>1, <2>1
  <2>2. CASE i # 1
    <3>1. i - 1 \in Nat /\ i - 1 <= q - 1 /\ q - 1 \in Nat
      BY <1>2, <1>3, <1>5, <2>2 DEF One
    <3>2. (i - 1) * m \in Nat /\ (i - 1) * m <= (q - 1) * m
      BY <1>1, <3>1
    <3> QED
      BY <1>1, <1>4, <3>1, <3>2
  <2> QED
    BY <2>1, <2>2
<1> QED
  BY <1>5, <1>6 DEF c, m

\* Taking bytes off the front leaves the others at their places.
LEMMA PopMatches ==
  ASSUME NEW text, NEW o, GoodStream(o), NEW len \in Nat, Matches(o.buffer, o.read, text)
  PROVE  Matches(pop_output(o, len).buffer, pop_output(o, len).read, text)
<1> DEFINE n == peekable(o, len)
           l == Len(o.buffer)
           b == SubSeq(o.buffer, n + 1, l)
           x == o.read + n
           p == pop_output(o, len)
<1>1. /\ o \in ByteStreams(Byte) /\ o.buffer \in Seq(Byte) /\ l \in Nat /\ o.read \in Nat
      /\ n \in 0 .. l
  BY StreamFields, PopStream DEF GoodStream
<1>2. p = [o EXCEPT !.buffer = b, !.read = x]
  BY <1>1, Zenon DEF pop_output, ByteStreams
<1> HIDE DEF n, p
<1>3. Matches(b, x, text)
  <2>1. l \in Int /\ l <= Len(o.buffer)
    BY <1>1
  <2> HIDE DEF l
  <2> DEFINE y == n + 1
  <2>3. y \in Nat /\ y > 0 /\ o.read + (y - 1) = x
    BY <1>1
  <2> HIDE DEF x, y
  <2>2. Matches(SubSeq(o.buffer, y, l), o.read + (y - 1), text)
    BY <1>1, <2>1, <2>3, MatchingPart
  <2> QED
    BY <2>2, <2>3 DEF y
<1> HIDE DEF b, x
<1>4. p.buffer = b /\ p.read = x
  BY <1>1, <1>2 DEF ByteStreams
<1> QED
  BY <1>3, <1>4 DEF p

\* The segments that fill_window() cuts take the numbers after next, and cover what it takes
\* off the stream.
LEMMA NewSegmentsPlaced ==
  ASSUME NEW s, GoodSender(s), ~s.fin_sent, NEW size \in Nat, size <= Len(s.stream.buffer),
         NEW syn, syn = (s.next = 0), NEW fin \in BOOLEAN,
         NEW w, GoodView(w), w.isn = s.isn, w.next > 0, w.read = s.stream.read + size, w.fin = fin,
         Matches(s.stream.buffer, s.stream.read, w.text)
  PROVE  new_segments(s, size, syn, fin) \in Seq(MadeAs(w))
<1> DEFINE c == segment_count(size, syn, fin)
           read == s.stream.read
<1>1. /\ s.next \in Nat /\ s.isn \in WrappingInt32 /\ s.stream.buffer \in Seq(Byte)
      /\ read \in Nat /\ s.next + One(syn) = 1 + read /\ syn \in BOOLEAN
      /\ (syn => s.next = 0)
  <2>1. /\ s.next \in Nat /\ s.isn \in WrappingInt32 /\ s.stream.buffer \in Seq(Byte) /\ read \in Nat
    BY SenderFields, StreamFields
  <2>2. s.next = One(s.next > 0) + read + One(s.fin_sent)
    BY DEF GoodSender
  <2>3. One(s.fin_sent) = 0
    BY DEF One
  <2>4. syn \in BOOLEAN /\ (syn <=> s.next = 0)
    OBVIOUS
  <2>5. One(s.next > 0) + One(syn) = 1
    BY <2>1, <2>4 DEF One
  <2>6. One(syn) \in Nat /\ One(s.next > 0) \in Nat
    BY DEF One
  <2> HIDE DEF read
  <2>7. s.next + One(syn) = 1 + read
    BY <2>1, <2>2, <2>3, <2>5, <2>6
  <2> QED
    BY <2>1, <2>4, <2>7
<1>2. c \in Nat /\ size <= c * MaxPayload /\ \A i \in 1 .. c : (i - 1) * MaxPayload \in 0 .. size
  BY <1>1, PieceBounds
<1>3. new_segments(s, size, syn, fin) \in Seq(MadeBy(fin))
  BY <1>1, NewSegments
<1>4. new_segments(s, size, syn, fin) = [i \in 1 .. c |-> new_segment(s, size, syn, fin, i)]
  BY DEF new_segments
<1> HIDE DEF c
<1>5. ASSUME NEW i \in 1 .. c
      PROVE  new_segment(s, size, syn, fin, i) \in MadeAs(w)
  <2> DEFINE from == (i - 1) * MaxPayload
             upto == Smaller(from + MaxPayload, size)
             data == SubSeq(s.stream.buffer, from + 1, upto)
             x    == s.next + from + IF i = 1 THEN 0 ELSE One(syn)
             n    == wrap(x, s.isn)
             b1   == syn /\ i = 1
             b2   == fin /\ i = c
             seg  == new_segment(s, size, syn, fin, i)
  <2>1. seg \in Segment
    <3>1. new_segments(s, size, syn, fin)[i] \in MadeBy(fin)
      BY <1>2, <1>3, <1>4, ElementOfSeq
    <3> QED
      BY <1>4, <3>1 DEF MadeBy
  <2>2. seg = [EmptySegment EXCEPT !.syn = b1, !.fin = b2, !.payload = data, !.seqno = n]
    BY DEF new_segment, c
  <2>3. MaxPayload \in Nat /\ from \in 0 .. size
    BY <1>2, SenderAssumption
  <2>4. i = c => from + MaxPayload >= size
    <3> DEFINE m == MaxPayload
    <3>1. c * m = (c - 1) * m + m
      BY <1>2, <2>3
    <3>2. c * m \in Nat /\ (c - 1) * m \in Int /\ c * m >= size
      BY <1>2, <2>3
    <3> QED
      BY <2>3, <3>1, <3>2
  <2> HIDE DEF from
  <2>5. /\ upto \in from .. size /\ (i = c => upto = size)
        /\ upto <= Len(s.stream.buffer)
    BY <2>3, <2>4 DEF Smaller
  <2> HIDE DEF upto
  <2>6. data \in Seq(Byte) /\ Len(data) = upto - from
    <3> DEFINE y == from + 1
    <3>1. y \in Nat /\ y > 0 /\ upto \in Int
      BY <2>3, <2>5
    <3> HIDE DEF y
    <3>2. data \in Seq(Byte) /\ Len(data) = IF y <= upto THEN upto - y + 1 ELSE 0
      BY <1>1, <2>5, <3>1, PartOf DEF y
    <3> HIDE DEF data
    <3> QED
      BY <2>3, <2>5, <3>2 DEF y
  <2>7. b1 \in BOOLEAN /\ b2 \in BOOLEAN /\ (b2 => fin /\ i = c) /\ (b1 <=> syn /\ i = 1)
    BY <1>1
  <2>8. x \in Nat /\ x + One(b1) = 1 + read + from /\ (b1 => x = 0)
    <3> HIDE DEF b1, read, x
    <3>1. i = 1 => from = 0
      BY <2>3 DEF from
    <3>2. x = s.next + from + IF i = 1 THEN 0 ELSE One(syn)
      BY DEF x
    <3>3. x \in Nat /\ x + One(b1) = 1 + read + from
      BY <1>1, <2>3, <2>7, <3>1, <3>2 DEF One
    <3>4. b1 => x = 0
      BY <1>1, <2>3, <2>7, <3>1, <3>2 DEF One
    <3> QED
      BY <3>3, <3>4
  <2>14. Matches(data, x + One(b1) - 1, w.text)
    <3> DEFINE y == from + 1
    <3>1. y \in Nat /\ y > 0 /\ upto \in Int
      BY <2>3, <2>5
    <3>2. read + (y - 1) = x + One(b1) - 1
      <4>1. One(b1) \in Int
        BY DEF One
      <4> HIDE DEF read, x, b1
      <4> QED
        BY <1>1, <2>3, <2>8, <4>1
    <3> HIDE DEF y
    <3>3. Matches(SubSeq(s.stream.buffer, y, upto), read + (y - 1), w.text)
      BY <1>1, <2>5, <3>1, MatchingPart
    <3> QED
      BY <3>2, <3>3 DEF y
  <2> HIDE DEF data, n, x, b1, b2, seg
  <2>9. /\ seg.seqno = n /\ seg.syn = b1 /\ seg.fin = b2 /\ seg.payload = data /\ seg.ack = FALSE
    BY <2>2 DEF EmptySegment
  <2>10. x + One(b1) + Len(data) = 1 + read + upto
    <3>1. One(b1) \in 0 .. 1
      BY DEF One
    <3> HIDE DEF read
    <3> QED
      BY <1>1, <2>3, <2>5, <2>6, <2>8, <3>1
  <2>11. /\ x + One(b1) + Len(data) <= 1 + w.read
         /\ b2 => w.fin /\ x + One(b1) + Len(data) = 1 + w.read
    <3> DEFINE e == x + One(b1) + Len(data)
    <3>1. e = 1 + read + upto /\ w.read = read + size
      BY <2>10
    <3> HIDE DEF e, read
    <3>2. e <= 1 + w.read /\ (b2 => e = 1 + w.read)
      BY <1>1, <2>3, <2>5, <2>7, <3>1
    <3> QED
      BY <2>7, <3>2 DEF e
  <2>12. Place(seg, w, x)
    BY <2>8, <2>9, <2>11, <2>14 DEF Place, n
  <2>13. Numbered(seg, w)
    BY <2>8, <2>9, <2>12 DEF Numbered
  <2> QED
    BY <2>1, <2>13 DEF MadeAs, seg
<1> QED
  BY <1>2, <1>4, <1>5

LEMMA FillCounts ==
  ASSUME NEW a, NEW v, NEW s, Beside(s, a, v)
  PROVE  Sends(s, fill_window(s), a, v)
<1> DEFINE u    == fill_window(s)
           syn  == s.next = 0
           size == payload_size(s, syn)
           fin  == sends_fin(s, syn, size)
           segs == new_segments(s, size, syn, fin)
           b    == pop_output(s.stream, size)
           next == s.next + One(syn) + size + One(fin)
           out  == s.outstanding \o segs
           queue == s.segments_out \o segs
           el   == IF s.timer_running THEN s.elapsed ELSE 0
           w    == View(s, a, v)
           z    == View(u, a, v)
<1>0. GoodSender(s) /\ s \in SendersOf(s.fin_sent) /\ GoodStream(s.stream) /\ s.next \in Nat
  BY SenderFields DEF Beside
<1>1. CASE s.fin_sent \/ window_remain(s) = 0 \/ segs = <<>>
  <2>1. u = s
    BY <1>1 DEF fill_window
  <2> QED
    BY <2>1, SendsNothing
<1>2. CASE ~s.fin_sent /\ window_remain(s) # 0 /\ segs # <<>>
  <2>1. u = [s EXCEPT !.stream        = b,
                      !.next          = next,
                      !.fin_sent      = fin,
                      !.segments_out  = queue,
                      !.outstanding   = out,
                      !.elapsed       = el,
                      !.timer_running = TRUE]
    BY <1>0, <1>2, Zenon DEF fill_window, SendersOf
  <2>2. /\ size \in Nat /\ size <= Len(s.stream.buffer) /\ fin \in BOOLEAN
        /\ b.written = s.stream.written /\ b.read = s.stream.read + size /\ b.ended = s.stream.ended
    BY <1>0, <1>2, WindowPiece
  <2>18. Matches(s.stream.buffer, s.stream.read, v.back) /\ s.stream.written <= Len(v.back)
    BY BesideFacts
  <2>19. Matches(b.buffer, b.read, v.back)
    BY <1>0, <2>2, <2>18, PopMatches
  <2>3. GoodSender(u)
    BY <1>0, FillWindow DEF Continues
  <2>4. syn = (s.next = 0)
    OBVIOUS
  <2>5. next \in Nat /\ next > 0 /\ s.next <= next
    BY <1>0, <2>2, <2>4 DEF One
  <2> HIDE DEF u, syn, size, fin, b, segs, out, queue, el, next
  <2>6. /\ u.isn = s.isn /\ u.stream = b /\ u.next = next /\ u.fin_sent = fin
        /\ u.segments_out = queue /\ u.outstanding = out /\ u.last_ack = s.last_ack
    BY <1>0, <2>1 DEF SendersOf
  <2>7. /\ u.stream.written + 2 < HalfMOD /\ a \in Nat /\ v.isn \in WrappingInt32
        /\ v.text \in Seq(Byte) /\ v.back \in Seq(Byte)
    BY <2>2, <2>6 DEF Beside, SenderCounts, GoodView
  <2>8. GoodView(w) /\ w.isn = s.isn /\ w.next = s.next /\ w.read = s.stream.read /\ w.fin = s.fin_sent
        /\ w.acked = a /\ w.to = v.isn /\ w.text = v.back /\ w.back = v.text
    BY BesideView
  <2>9. GoodView(z) /\ z.isn = s.isn /\ z.next = next /\ z.read = s.stream.read + size /\ z.fin = fin
        /\ z.acked = a /\ z.to = v.isn /\ z.text = v.back /\ z.back = v.text
    BY <2>2, <2>3, <2>6, <2>7, SenderView
  <2> HIDE DEF w, z
  <2>10. Grows(w, z)
    <3>1. s.stream.read \in Nat /\ s.stream.read <= s.stream.read + size /\ a <= a
      BY <1>0, <2>2, <2>7, StreamFields
    <3> QED
      BY <1>2, <2>5, <2>8, <2>9, <3>1 DEF Grows
  <2>11. segs \in Seq(MadeAs(z))
    BY <1>0, <1>2, <2>2, <2>4, <2>5, <2>9, <2>18, NewSegmentsPlaced DEF segs
  <2>12. s.outstanding \in Seq(MadeAs(z)) /\ s.segments_out \in Seq(MadeAs(z))
    BY <2>8, <2>9, <2>10, MadeAsMore, BesideFacts DEF w
  <2>13. u.outstanding \in Seq(MadeAs(z)) /\ u.segments_out \in Seq(MadeAs(z))
    BY <2>6, <2>11, <2>12, ConcatProperties DEF out, queue
  <2>14. u.isn = v.to /\ u.last_ack <= v.acked /\ v.acked <= s.next /\ v.acked \in Nat
    BY <2>6 DEF Beside, SenderCounts, GoodView
  <2>15. v.acked <= u.next
    BY <1>0, <2>5, <2>6, <2>14
  <2>16. SenderCounts(u, a, v)
    BY <2>2, <2>6, <2>7, <2>13, <2>14, <2>15, <2>18, <2>19 DEF SenderCounts, z
  <2>17. Sends(s, u, a, v)
    BY <2>2, <2>6, <2>10, <2>16 DEF Sends, Speaks, SameStream, w, z
  <2> QED
    BY <2>17 DEF u
<1> QED
  BY <1>1, <1>2

LEMMA OtherStreamCounts ==
  ASSUME NEW a, NEW v, NEW s, Beside(s, a, v), NEW o, o.read = s.stream.read, o.written + 2 < HalfMOD,
         o.written <= Len(v.back), Matches(o.buffer, o.read, v.back)
  PROVE  Speaks(s, [s EXCEPT !.stream = o], a, v)
<1> DEFINE u == [s EXCEPT !.stream = o]
<1>1. /\ u.isn = s.isn /\ u.stream = o /\ u.next = s.next /\ u.fin_sent = s.fin_sent
      /\ u.segments_out = s.segments_out /\ u.outstanding = s.outstanding /\ u.last_ack = s.last_ack
  BY BesideFacts DEF SendersOf
<1> HIDE DEF u
<1>2. View(u, a, v) = View(s, a, v)
  BY <1>1 DEF View
<1>3. SenderCounts(u, a, v)
  BY <1>1, <1>2 DEF SenderCounts, Beside
<1>4. Grows(View(s, a, v), View(u, a, v))
  BY <1>2, BesideView, GrowsNot
<1>5. Speaks(s, u, a, v)
  BY <1>3, <1>4 DEF Speaks
<1> QED
  BY <1>5 DEF u

LEMMA OtherQueueCounts ==
  ASSUME NEW a, NEW v, NEW s, Beside(s, a, v), NEW q \in Seq(MadeAs(View(s, a, v)))
  PROVE  Sends(s, [s EXCEPT !.segments_out = q], a, v)
<1> DEFINE u == [s EXCEPT !.segments_out = q]
<1>1. /\ u.isn = s.isn /\ u.stream = s.stream /\ u.next = s.next /\ u.fin_sent = s.fin_sent
      /\ u.segments_out = q /\ u.outstanding = s.outstanding /\ u.last_ack = s.last_ack
  BY BesideFacts DEF SendersOf
<1> HIDE DEF u
<1>2. Sends(s, u, a, v)
  BY <1>1, BesideFacts, SameNumbers
<1> QED
  BY <1>2 DEF u

\* An empty segment takes no place, and acknowledges nothing until it is stamped.
LEMMA EmptyIsMade ==
  ASSUME NEW v, NEW n \in WrappingInt32
  PROVE  [EmptySegment EXCEPT !.seqno = n] \in MadeAs(v)
<1> DEFINE e == [EmptySegment EXCEPT !.seqno = n]
<1>1. e = [seqno |-> n, syn |-> FALSE, fin |-> FALSE, rst |-> FALSE, payload |-> <<>>,
           ack |-> FALSE, ackno |-> 0, win |-> 0]
  BY EmptySegmentWith
<1> HIDE DEF e
<1>2. 0 \in WrappingInt32 /\ <<>> \in Seq(Byte)
  BY MODAssumption DEF WrappingInt32
<1>3. e \in Segment
  BY <1>1, <1>2 DEF Segment, Segments
<1>4. Numbered(e, v)
  BY <1>1 DEF Numbered, Occupies
<1> QED
  BY <1>3, <1>4 DEF MadeAs, e

LEMMA SendEmptyCounts ==
  ASSUME NEW a, NEW v, NEW s, Beside(s, a, v)
  PROVE  Sends(s, send_empty_segment(s), a, v)
<1> DEFINE n   == wrap(s.next, s.isn)
           seg == [EmptySegment EXCEPT !.seqno = n]
           q   == Append(s.segments_out, seg)
           u   == send_empty_segment(s)
<1>1. n \in WrappingInt32
  <2>1. s.next \in Nat /\ s.isn \in WrappingInt32
    BY SenderFields DEF Beside
  <2> QED
    BY <2>1, WrapType
<1>2. u = [s EXCEPT !.segments_out = q]
  <2>1. s \in SendersOf(s.fin_sent)
    BY BesideFacts
  <2> QED
    BY <2>1, Zenon DEF send_empty_segment, SendersOf
<1> HIDE DEF u, n
<1>3. seg \in MadeAs(View(s, a, v))
  BY <1>1, EmptyIsMade
<1> HIDE DEF seg
<1>4. q \in Seq(MadeAs(View(s, a, v)))
  BY <1>3, BesideFacts, AppendProperties
<1> HIDE DEF q
<1>5. Sends(s, [s EXCEPT !.segments_out = q], a, v)
  BY <1>4, OtherQueueCounts
<1>6. Sends(s, u, a, v)
  BY <1>2, <1>5
<1> QED
  BY <1>6 DEF u

LEMMA PopAckedCounts ==
  ASSUME NEW a, NEW v, NEW s, Beside(s, a, v), NEW ack
  PROVE  Sends(s, pop_acked(s, ack), a, v)
<1> DEFINE n   == Len(s.outstanding)
           U   == {i \in 1 .. n : segment_end(s, s.outstanding[i]) > ack} \cup {n + 1}
           k   == Min(U)
           out == SubSeq(s.outstanding, k, n)
           u   == pop_acked(s, ack)
<1>1. s \in SendersOf(s.fin_sent) /\ s.outstanding \in Seq(MadeAs(View(s, a, v))) /\ n \in Nat
  BY BesideFacts
<1>2. u = [s EXCEPT !.outstanding = out]
  BY <1>1, Zenon DEF pop_acked, SendersOf
<1>3. U \subseteq Nat /\ U # {} /\ \A i \in U : i > 0
  BY <1>1
<1> HIDE DEF U, u
<1>4. k \in Nat /\ k > 0
  <2>1. k \in U
    BY <1>3, LeastNatural
  <2> HIDE DEF k
  <2> QED
    BY <1>3, <2>1
<1> HIDE DEF k
<1>5. out \in Seq(MadeAs(View(s, a, v)))
  <2>1. n \in Int /\ n <= Len(s.outstanding)
    BY <1>1
  <2> HIDE DEF n
  <2> QED
    BY <1>1, <1>4, <2>1, PartOf
<1> HIDE DEF out
<1>6. /\ u.isn = s.isn /\ u.stream = s.stream /\ u.next = s.next /\ u.fin_sent = s.fin_sent
      /\ u.segments_out = s.segments_out /\ u.outstanding = out /\ u.last_ack = s.last_ack
  BY <1>1, <1>2 DEF SendersOf
<1>7. Sends(s, u, a, v)
  BY <1>5, <1>6, BesideFacts, SameNumbers
<1> QED
  BY <1>7 DEF u

LEMMA TakeWindowCounts ==
  ASSUME NEW a, NEW v, NEW s, Beside(s, a, v), NEW win
  PROVE  Sends(s, take_window(s, win), a, v)
<1> DEFINE u == take_window(s, win)
<1>1. u = [s EXCEPT !.window = win]
  BY DEF take_window
<1> HIDE DEF u
<1>2. /\ u.isn = s.isn /\ u.stream = s.stream /\ u.next = s.next /\ u.fin_sent = s.fin_sent
      /\ u.segments_out = s.segments_out /\ u.outstanding = s.outstanding /\ u.last_ack = s.last_ack
  BY <1>1, BesideFacts DEF SendersOf
<1>3. Sends(s, u, a, v)
  BY <1>2, BesideFacts, SameNumbers
<1> QED
  BY <1>3 DEF u

LEMMA RestartTimerCounts ==
  ASSUME NEW a, NEW v, NEW s, Beside(s, a, v), NEW ack, ack <= v.acked
  PROVE  Sends(s, restart_timer(s, ack), a, v)
<1> DEFINE u == restart_timer(s, ack)
<1>1. u = [s EXCEPT !.last_ack = ack, !.rto = RtTimeout, !.retransmissions = 0, !.elapsed = 0]
  BY DEF restart_timer
<1> HIDE DEF u
<1>2. /\ u.isn = s.isn /\ u.stream = s.stream /\ u.next = s.next /\ u.fin_sent = s.fin_sent
      /\ u.segments_out = s.segments_out /\ u.outstanding = s.outstanding /\ u.last_ack = ack
  BY <1>1, BesideFacts DEF SendersOf
<1>3. Sends(s, u, a, v)
  BY <1>2, BesideFacts, SameNumbers
<1> QED
  BY <1>3 DEF u

LEMMA StopIdleTimerCounts ==
  ASSUME NEW a, NEW v, NEW s, Beside(s, a, v), NEW is_new
  PROVE  Sends(s, stop_idle_timer(s, is_new), a, v)
<1> DEFINE u == stop_idle_timer(s, is_new)
<1>1. /\ u.isn = s.isn /\ u.stream = s.stream /\ u.next = s.next /\ u.fin_sent = s.fin_sent
      /\ u.segments_out = s.segments_out /\ u.outstanding = s.outstanding /\ u.last_ack = s.last_ack
  BY BesideFacts DEF SendersOf, stop_idle_timer
<1> HIDE DEF u
<1>2. Sends(s, u, a, v)
  BY <1>1, BesideFacts, SameNumbers
<1> QED
  BY <1>2 DEF u

\* A step of a sender leaves it beside the same view.
LEMMA BesideOn ==
  ASSUME NEW a, NEW v, NEW s, NEW u, Beside(s, a, v), GoodSender(u), Sends(s, u, a, v)
  PROVE  Beside(u, a, v)
BY DEF Beside, Sends, Speaks

\* An acknowledgment of what the other end has assembled.
LEMMA AckCounts ==
  ASSUME NEW a, NEW v, NEW s, Beside(s, a, v), NEW x \in Nat, x <= v.acked,
         NEW ack, ack = wrap(x, v.to), NEW win \in Nat
  PROVE  Sends(s, ack_received(s, ack, win), a, v)
<1> DEFINE abs == unwrap(ack, s.isn, s.next)
           new == abs > s.last_ack
           s1  == take_window(s, win)
           s2  == IF new THEN restart_timer(s1, abs) ELSE s1
           s3  == pop_acked(s2, abs)
           s4  == fill_window(s3)
           u   == stop_idle_timer(s4, new)
<1>1. /\ GoodSender(s) /\ s.isn \in WrappingInt32 /\ s.next \in Nat /\ s.isn = v.to
      /\ v.acked \in Nat /\ v.acked <= s.next
  BY SenderFields DEF Beside, SenderCounts, GoodView
<1>2. s.next < HalfMOD
  <2> DEFINE w == View(s, a, v)
  <2>1. GoodView(w) /\ w.next = s.next
    BY BesideView
  <2> HIDE DEF w
  <2>2. w.next <= w.read + 2
    BY <2>1 DEF GoodView, One
  <2> QED
    BY <1>1, <2>1, <2>2, HalfIsHalf DEF GoodView
<1>3. abs = x
  <2>1. x - s.next < HalfMOD /\ s.next - x < HalfMOD
    BY <1>1, <1>2, HalfIsHalf
  <2> QED
    BY <1>1, <2>1, UnwrapOfWrap
<1>4. ack_received(s, ack, win) = IF abs > s.next THEN s ELSE u
  BY DEF ack_received
<1>5. new \in BOOLEAN
  BY <1>1, <1>3, SenderFields
<1> HIDE DEF abs, new
<1>6. GoodSender(s1) /\ Beside(s1, a, v) /\ Sends(s, s1, a, v)
  BY <1>1, TakeWindow, TakeWindowCounts, BesideOn DEF Continues
<1> HIDE DEF s1
<1>7. GoodSender(s2) /\ Beside(s2, a, v) /\ Sends(s, s2, a, v)
  <2> DEFINE t == restart_timer(s1, abs)
  <2>1. GoodSender(t) /\ Sends(s1, t, a, v)
    BY <1>3, <1>6, RestartTimer, RestartTimerCounts DEF Continues
  <2> HIDE DEF t
  <2>2. Beside(t, a, v) /\ Sends(s, t, a, v)
    BY <1>6, <2>1, BesideOn, SendsOn
  <2>3. s2 = IF new THEN t ELSE s1
    BY DEF t
  <2> QED
    BY <1>6, <2>1, <2>2, <2>3
<1> HIDE DEF s2
<1>8. GoodSender(s3) /\ Beside(s3, a, v) /\ Sends(s, s3, a, v)
  <2>1. GoodSender(s3) /\ Sends(s2, s3, a, v)
    BY <1>7, PopAcked, PopAckedCounts DEF Continues
  <2> HIDE DEF s3
  <2> QED
    BY <1>7, <2>1, BesideOn, SendsOn
<1> HIDE DEF s3
<1>9. GoodSender(s4) /\ Beside(s4, a, v) /\ Sends(s, s4, a, v)
  <2>1. GoodSender(s4) /\ Sends(s3, s4, a, v)
    BY <1>8, FillWindow, FillCounts DEF Continues
  <2> HIDE DEF s4
  <2> QED
    BY <1>8, <2>1, BesideOn, SendsOn
<1> HIDE DEF s4
<1>10. Sends(s, u, a, v)
  <2>1. GoodSender(u) /\ Sends(s4, u, a, v)
    BY <1>5, <1>9, StopIdleTimer, StopIdleTimerCounts DEF Continues
  <2> HIDE DEF u
  <2> QED
    BY <1>9, <2>1, SendsOn
<1> HIDE DEF u
<1> QED
  BY <1>4, <1>10, SendsNothing

LEMMA RetransmitCounts ==
  ASSUME NEW a, NEW v, NEW s, Beside(s, a, v), s.outstanding # <<>>
  PROVE  Sends(s, retransmit(s), a, v)
<1> DEFINE q == Append(s.segments_out, Head(s.outstanding))
           r == IF s.window > 0 THEN 2 * s.rto ELSE s.rto
           n == s.retransmissions + 1
           u == retransmit(s)
<1>1. s \in SendersOf(s.fin_sent)
  BY BesideFacts
<1>2. u = [s EXCEPT !.segments_out = q, !.rto = r, !.retransmissions = n, !.elapsed = 0]
  BY <1>1, Zenon DEF retransmit, SendersOf
<1>3. q \in Seq(MadeAs(View(s, a, v)))
  <2>1. Head(s.outstanding) \in MadeAs(View(s, a, v))
    BY BesideFacts, HeadTailProperties
  <2> QED
    BY <2>1, BesideFacts, AppendProperties
<1> HIDE DEF q, r, n, u
<1>4. /\ u.isn = s.isn /\ u.stream = s.stream /\ u.next = s.next /\ u.fin_sent = s.fin_sent
      /\ u.segments_out = q /\ u.outstanding = s.outstanding /\ u.last_ack = s.last_ack
  BY <1>1, <1>2 DEF SendersOf
<1>5. Sends(s, u, a, v)
  BY <1>3, <1>4, BesideFacts, SameNumbers
<1> QED
  BY <1>5 DEF u

LEMMA TickCounts ==
  ASSUME NEW a, NEW v, NEW s, Beside(s, a, v), NEW ms \in Nat
  PROVE  Sends(s, sender_tick(s, ms), a, v)
<1> DEFINE e  == s.elapsed + ms
           s1 == [s EXCEPT !.elapsed = e]
           u  == sender_tick(s, ms)
<1>1. GoodSender(s) /\ s \in SendersOf(s.fin_sent) /\ e \in Nat
  BY SenderFields DEF Beside
<1>2. u = IF ~s.timer_running THEN s
          ELSE IF s1.elapsed >= s.rto /\ s.outstanding # <<>> THEN retransmit(s1) ELSE s1
  BY <1>1, Zenon DEF sender_tick, SendersOf
<1> HIDE DEF e, u
<1>3. /\ s1 \in SendersOf(s.fin_sent) /\ s1.stream = s.stream /\ s1.next = s.next
      /\ s1.fin_sent = s.fin_sent /\ s1.outstanding = s.outstanding
      /\ s1.isn = s.isn /\ s1.segments_out = s.segments_out /\ s1.last_ack = s.last_ack
  BY <1>1 DEF SendersOf
<1> HIDE DEF s1
<1>4. GoodSender(s1)
  BY <1>1, <1>3, SameAccount DEF GoodSender
<1>5. Beside(s1, a, v) /\ Sends(s, s1, a, v)
  <2>1. Sends(s, s1, a, v)
    BY <1>3, BesideFacts, SameNumbers
  <2> QED
    BY <1>4, <2>1, BesideOn
<1>6. s1.outstanding # <<>> => Sends(s, retransmit(s1), a, v)
  <2> DEFINE t == retransmit(s1)
  <2>1. s1.outstanding # <<>> => GoodSender(t) /\ Sends(s1, t, a, v)
    BY <1>4, <1>5, Retransmit, RetransmitCounts DEF Continues
  <2> HIDE DEF t
  <2>2. s1.outstanding # <<>> => Sends(s, t, a, v)
    BY <1>4, <1>5, <2>1, SendsOn
  <2> QED
    BY <2>2 DEF t
<1>7. Sends(s, s, a, v)
  BY SendsNothing
<1>8. Sends(s, u, a, v)
  BY <1>2, <1>3, <1>5, <1>6, <1>7
<1> QED
  BY <1>8 DEF u

\* The receiver beside the sender has acknowledged more.
LEMMA AcknowledgesMore ==
  ASSUME NEW a, NEW v, NEW s, Beside(s, a, v), NEW b \in Nat, a <= b
  PROVE  Beside(s, b, v) /\ Grows(View(s, a, v), View(s, b, v))
<1> DEFINE w == View(s, a, v)
           z == View(s, b, v)
<1>1. /\ GoodSender(s) /\ s.stream.written + 2 < HalfMOD /\ v.isn \in WrappingInt32 /\ a \in Nat
      /\ v.text \in Seq(Byte) /\ v.back \in Seq(Byte)
  BY DEF Beside, SenderCounts, GoodView
<1>2. GoodView(w) /\ w.isn = s.isn /\ w.next = s.next /\ w.read = s.stream.read /\ w.fin = s.fin_sent
      /\ w.acked = a /\ w.to = v.isn /\ w.text = v.back /\ w.back = v.text
  BY BesideView
<1>3. GoodView(z) /\ z.isn = s.isn /\ z.next = s.next /\ z.read = s.stream.read /\ z.fin = s.fin_sent
      /\ z.acked = b /\ z.to = v.isn /\ z.text = v.back /\ z.back = v.text
  BY <1>1, SenderView
<1> HIDE DEF w, z
<1>4. Grows(w, z)
  <2>1. w.next <= z.next /\ w.read <= z.read
    BY <1>2, <1>3 DEF GoodView
  <2> QED
    BY <1>2, <1>3, <2>1 DEF Grows
<1>5. s.outstanding \in Seq(MadeAs(z)) /\ s.segments_out \in Seq(MadeAs(z))
  BY <1>2, <1>3, <1>4, BesideFacts, MadeAsMore DEF w
<1>6. SenderCounts(s, b, v)
  BY <1>5 DEF Beside, SenderCounts, z
<1>7. Beside(s, b, v)
  BY <1>6 DEF Beside
<1> QED
  BY <1>4, <1>7 DEF w, z

-----------------------------------------------------------------------------
(* The connection. *)

\* A later state of a connection, of which nothing was read meanwhile.
Advances(c, d, v) ==
  /\ Counts(d, v) /\ Grows(ViewOf(c, v), ViewOf(d, v))
  /\ Later(c.receiver.reassembler, d.receiver.reassembler)

\* A step of a connection that is not a call of its application.
Moves(c, d, v) == Advances(c, d, v) /\ SameStream(c.sender.stream, d.sender.stream)

\* A connection whose peer has the view v.
Among(c, v) == GoodConnection(c, v.fin) /\ Counts(c, v) /\ GoodView(v)

LEMMA AmongFacts ==
  ASSUME NEW v, NEW c, Among(c, v)
  PROVE  /\ GoodSender(c.sender) /\ GoodReceiver(c.receiver, v.fin) /\ ReceiverCounts(c.receiver, v)
         /\ Acked(c.receiver) \in Nat /\ Beside(c.sender, Acked(c.receiver), v)
         /\ GoodView(v) /\ GoodView(ViewOf(c, v))
         /\ c.segments_out \in Seq(MadeAs(ViewOf(c, v)))
         /\ c = Connection(c.sender, c.receiver, c.segments_out, c.linger, c.is_active, c.silence)
<1>1. /\ GoodSender(c.sender) /\ GoodReceiver(c.receiver, v.fin) /\ GoodView(v)
      /\ c = Connection(c.sender, c.receiver, c.segments_out, c.linger, c.is_active, c.silence)
  BY ConnectionFields DEF Among
<1>2. /\ ReceiverCounts(c.receiver, v) /\ SenderCounts(c.sender, Acked(c.receiver), v)
      /\ c.segments_out \in Seq(MadeAs(ViewOf(c, v)))
  BY DEF Among, Counts
<1>3. Acked(c.receiver) \in Nat
  BY <1>1, <1>2, AckedWasSent
<1>4. Beside(c.sender, Acked(c.receiver), v)
  BY <1>1, <1>2, <1>3 DEF Beside
<1>5. GoodView(ViewOf(c, v))
  BY <1>4, BesideView DEF ViewOf
<1> QED
  BY <1>1, <1>2, <1>3, <1>4, <1>5

LEMMA AdvancesOn ==
  ASSUME NEW v, NEW c, NEW d, NEW e, Among(c, v), Among(d, v), Among(e, v), Advances(c, d, v), Advances(d, e, v)
  PROVE  Advances(c, e, v)
<1> DEFINE x == c.receiver.reassembler.output
           y == d.receiver.reassembler.output
           z == e.receiver.reassembler.output
<1>1. x.written \in Nat /\ y.written \in Nat /\ z.written \in Nat
  BY AmongFacts, StreamFields DEF GoodReceiver, GoodReassembler
<1>2. Later(c.receiver.reassembler, d.receiver.reassembler) /\ Later(d.receiver.reassembler, e.receiver.reassembler)
  BY DEF Advances
<1>3. Later(c.receiver.reassembler, e.receiver.reassembler)
  BY <1>1, <1>2 DEF Later, Further
<1> QED
  BY <1>3, AmongFacts, GrowsOn DEF Advances

LEMMA MovesOn ==
  ASSUME NEW v, NEW c, NEW d, NEW e, Among(c, v), Among(d, v), Among(e, v), Moves(c, d, v), Moves(d, e, v)
  PROVE  Moves(c, e, v)
BY AdvancesOn DEF Moves, SameStream

LEMMA MovesNowhere ==
  ASSUME NEW v, NEW c, Among(c, v)
  PROVE  Moves(c, c, v)
<1>1. c.receiver.reassembler.output.written \in Nat
  BY AmongFacts, StreamFields DEF GoodReceiver, GoodReassembler
<1>2. Grows(ViewOf(c, v), ViewOf(c, v)) /\ Counts(c, v)
  BY AmongFacts, GrowsNot DEF Among
<1> QED
  BY <1>1, <1>2 DEF Moves, Advances, SameStream, Later, Further

\* A step of a connection leaves it with the same view of its peer.
LEMMA AmongOn ==
  ASSUME NEW v, NEW c, NEW d, Among(c, v), Goes(c, d, v.fin), Moves(c, d, v)
  PROVE  Among(d, v)
BY DEF Among, Goes, Moves, Advances

LEMMA AmongFurther ==
  ASSUME NEW v, NEW c, NEW d, Among(c, v), Goes(c, d, v.fin), Advances(c, d, v)
  PROVE  Among(d, v)
BY DEF Among, Goes, Advances

\* The sender, beside a receiver that has heard more.
LEMMA HearsBeside ==
  ASSUME NEW v, NEW c, Among(c, v), NEW rcv, GoodReceiver(rcv, v.fin), Hears(c.receiver, rcv, v)
  PROVE  /\ Beside(c.sender, Acked(rcv), v)
         /\ Grows(ViewOf(c, v), View(c.sender, Acked(rcv), v))
<1>1. /\ GoodReceiver(c.receiver, v.fin) /\ GoodView(v) /\ Acked(c.receiver) \in Nat
      /\ Beside(c.sender, Acked(c.receiver), v)
  BY AmongFacts
<1>2. Acked(rcv) \in Nat /\ Acked(c.receiver) <= Acked(rcv)
  BY <1>1, AckedWasSent, AckedGrows DEF Hears
<1> QED
  BY <1>1, <1>2, AcknowledgesMore DEF ViewOf

\* The parts of a connection take steps.
LEMMA PartsAdvance ==
  ASSUME NEW v, NEW c, Among(c, v), NEW rcv, GoodReceiver(rcv, v.fin), Hears(c.receiver, rcv, v),
         NEW s, GoodSender(s), Speaks(c.sender, s, Acked(rcv), v)
  PROVE  LET w == View(s, Acked(rcv), v)
         IN  /\ c.segments_out \in Seq(MadeAs(w))
             /\ \A d : /\ d.sender = s /\ d.receiver = rcv /\ d.segments_out \in Seq(MadeAs(w))
                       => Advances(c, d, v)
<1> DEFINE w == View(s, Acked(rcv), v)
           y == View(c.sender, Acked(rcv), v)
           z == ViewOf(c, v)
<1>1. Beside(c.sender, Acked(rcv), v) /\ Grows(z, y)
  BY HearsBeside
<1>2. Grows(y, w) /\ SenderCounts(s, Acked(rcv), v)
  BY DEF Speaks
<1>3. Beside(s, Acked(rcv), v)
  BY <1>1, <1>2 DEF Beside
<1>4. GoodView(w) /\ GoodView(y) /\ GoodView(z)
  BY <1>1, <1>3, BesideView, AmongFacts
<1> HIDE DEF w, y, z
<1>5. Grows(z, w)
  BY <1>1, <1>2, <1>4, GrowsOn
<1>6. c.segments_out \in Seq(MadeAs(w))
  BY <1>4, <1>5, AmongFacts, MadeAsMore DEF z
<1>7. ASSUME NEW d, d.sender = s, d.receiver = rcv, d.segments_out \in Seq(MadeAs(w))
      PROVE  Advances(c, d, v)
  <2>1. ViewOf(d, v) = w
    BY <1>7 DEF ViewOf, w
  <2>2. Counts(d, v)
    BY <1>2, <1>7, <2>1 DEF Counts, Hears
  <2>3. Later(c.receiver.reassembler, d.receiver.reassembler)
    BY <1>7 DEF Hears
  <2> QED
    BY <1>5, <2>1, <2>2, <2>3 DEF Advances, z
<1> QED
  BY <1>6, <1>7 DEF w

LEMMA PartsMove ==
  ASSUME NEW v, NEW c, Among(c, v), NEW rcv, GoodReceiver(rcv, v.fin), Hears(c.receiver, rcv, v),
         NEW s, GoodSender(s), Sends(c.sender, s, Acked(rcv), v)
  PROVE  LET w == View(s, Acked(rcv), v)
         IN  /\ c.segments_out \in Seq(MadeAs(w))
             /\ \A d : /\ d.sender = s /\ d.receiver = rcv /\ d.segments_out \in Seq(MadeAs(w))
                       => Moves(c, d, v)
<1>1. Speaks(c.sender, s, Acked(rcv), v) /\ SameStream(c.sender.stream, s.stream)
  BY DEF Sends
<1> QED
  BY <1>1, PartsAdvance DEF Moves

\* The receiver does nothing.
LEMMA HearsNothing ==
  ASSUME NEW v, NEW c, Among(c, v)
  PROVE  Hears(c.receiver, c.receiver, v)
<1>1. c.receiver.reassembler.output.written \in Nat
  BY AmongFacts, StreamFields DEF GoodReceiver, GoodReassembler
<1> QED
  BY <1>1, AmongFacts DEF Hears, Later, Further

\* The sender takes a step.
LEMMA SenderMoves ==
  ASSUME NEW v, NEW c, Among(c, v), NEW s, GoodSender(s), Sends(c.sender, s, Acked(c.receiver), v),
         NEW d, d.sender = s, d.receiver = c.receiver, d.segments_out = c.segments_out
  PROVE  Moves(c, d, v)
<1>1. GoodReceiver(c.receiver, v.fin) /\ Hears(c.receiver, c.receiver, v)
  BY AmongFacts, HearsNothing
<1> QED
  BY <1>1, PartsMove

\* The receiver takes a step.
LEMMA ReceiverMoves ==
  ASSUME NEW v, NEW c, Among(c, v), NEW rcv, GoodReceiver(rcv, v.fin), Hears(c.receiver, rcv, v),
         NEW d, d.sender = c.sender, d.receiver = rcv, d.segments_out = c.segments_out
  PROVE  Moves(c, d, v)
<1>1. Beside(c.sender, Acked(rcv), v)
  BY HearsBeside
<1>2. GoodSender(c.sender) /\ Sends(c.sender, c.sender, Acked(rcv), v)
  BY <1>1, SendsNothing DEF Beside
<1> QED
  BY <1>2, PartsMove

\* Something that no sequence number depends on changes.
LEMMA OthersMove ==
  ASSUME NEW v, NEW c, Among(c, v),
         NEW d, d.sender = c.sender, d.receiver = c.receiver, d.segments_out = c.segments_out
  PROVE  Moves(c, d, v)
BY AmongFacts, HearsNothing, ReceiverMoves

LEMMA SendSegmentsMoves ==
  ASSUME NEW v, NEW c, Among(c, v)
  PROVE  Moves(c, send_segments(c), v)
<1> DEFINE a   == Acked(c.receiver)
           out == c.sender.segments_out
           new == [i \in 1 .. Len(out) |-> stamp(c.receiver, out[i])]
           q   == c.segments_out \o new
           none == <<>>
           s   == [c.sender EXCEPT !.segments_out = none]
           d   == send_segments(c)
           w   == View(s, a, v)
<1>1. /\ c = Connection(c.sender, c.receiver, c.segments_out, c.linger, c.is_active, c.silence)
      /\ GoodSender(c.sender) /\ Beside(c.sender, a, v) /\ GoodReceiver(c.receiver, v.fin)
      /\ ReceiverCounts(c.receiver, v) /\ GoodView(v)
  BY AmongFacts
<1>2. d.sender = s /\ d.receiver = c.receiver /\ d.segments_out = q
  <2>1. d = [c EXCEPT !.segments_out = q, !.sender = s]
    BY <1>1 DEF send_segments, Connection
  <2> HIDE DEF q, s, d
  <2> QED
    BY <1>1, <2>1 DEF Connection
<1> HIDE DEF d, none
<1>3. none \in Seq(MadeBy(c.sender.fin_sent)) /\ none \in Seq(MadeAs(View(c.sender, a, v)))
  BY DEF none
<1>4. GoodSender(s) /\ Sends(c.sender, s, a, v)
  BY <1>1, <1>3, OtherQueue, OtherQueueCounts
<1> HIDE DEF s
<1>5. Beside(s, a, v)
  BY <1>1, <1>4, BesideOn
<1>6. GoodView(w) /\ w.to = v.isn /\ w.acked = a
  BY <1>5, BesideView
<1>7. out \in Seq(MadeAs(w))
  <2>1. out \in Seq(MadeAs(View(c.sender, a, v))) /\ GoodView(View(c.sender, a, v))
    BY <1>1, BesideFacts, BesideView
  <2>2. Grows(View(c.sender, a, v), w)
    BY <1>4 DEF Sends, Speaks
  <2> HIDE DEF w, out
  <2> QED
    BY <1>6, <2>1, <2>2, MadeAsMore
<1> HIDE DEF out, w
<1>8. new \in Seq(MadeAs(w))
  <2>1. Len(out) \in Nat /\ \A i \in 1 .. Len(out) : out[i] \in MadeAs(w)
    BY <1>7, ElementOfSeq, LenProperties
  <2>2. \A i \in 1 .. Len(out) : stamp(c.receiver, out[i]) \in MadeAs(w)
    BY <1>1, <1>6, <2>1, StampCounts
  <2> QED
    BY <2>1, <2>2
<1> HIDE DEF new
<1>9. GoodReceiver(c.receiver, v.fin) /\ Hears(c.receiver, c.receiver, v)
  BY <1>1, HearsNothing
<1>10. c.segments_out \in Seq(MadeAs(w))
  BY <1>4, <1>9, PartsMove DEF w
<1>11. q \in Seq(MadeAs(w))
  BY <1>8, <1>10, ConcatProperties
<1> HIDE DEF q
<1>12. Moves(c, d, v)
  BY <1>2, <1>4, <1>9, <1>11, PartsMove DEF w
<1> QED
  BY <1>12 DEF d

LEMMA RstIsMade ==
  ASSUME NEW c, NEW f, GoodConnection(c, f), NEW v
  PROVE  rst_segment(c) \in MadeAs(v)
<1> DEFINE n == wrap(c.sender.next, c.sender.isn)
           seg == rst_segment(c)
<1>1. n \in WrappingInt32
  <2>1. c.sender.next \in Nat /\ c.sender.isn \in WrappingInt32
    BY ConnectionFields, SenderFields
  <2> QED
    BY <2>1, WrapType
<1>2. seg = [EmptySegment EXCEPT !.rst = TRUE, !.seqno = n]
  BY DEF rst_segment
<1> HIDE DEF n, seg
<1>3. ~seg.syn /\ ~seg.fin /\ seg.payload = <<>> /\ ~seg.ack
  BY <1>1, <1>2 DEF EmptySegment
<1>4. seg \in Segment
  BY RstSegment DEF MadeBy, seg
<1>5. Numbered(seg, v)
  BY <1>3 DEF Numbered, Occupies
<1> QED
  BY <1>4, <1>5 DEF MadeAs, seg

\* The connection fails: what was counted stays.
LEMMA SetRstMoves ==
  ASSUME NEW v, NEW c, Among(c, v), NEW send_rst
  PROVE  Moves(c, set_rst_state(c, send_rst), v)
<1> DEFINE q == IF send_rst THEN Append(c.segments_out, rst_segment(c)) ELSE c.segments_out
           o == set_error(c.receiver.reassembler.output)
           r == [c.receiver.reassembler EXCEPT !.output = o]
           rcv == [c.receiver EXCEPT !.reassembler = r]
           t == set_error(c.sender.stream)
           s == [c.sender EXCEPT !.stream = t]
           d == set_rst_state(c, send_rst)
           w == View(s, Acked(rcv), v)
<1>1. /\ c = Connection(c.sender, c.receiver, c.segments_out, c.linger, c.is_active, c.silence)
      /\ GoodSender(c.sender) /\ GoodReceiver(c.receiver, v.fin) /\ ReceiverCounts(c.receiver, v)
      /\ GoodConnection(c, v.fin)
  BY AmongFacts DEF Among
<1>2. d.sender = s /\ d.receiver = rcv /\ d.segments_out = q
  <2>1. d = [c EXCEPT !.segments_out = q, !.receiver = rcv, !.sender = s, !.is_active = FALSE]
    BY <1>1 DEF set_rst_state, Connection
  <2> HIDE DEF q, rcv, s, d
  <2> QED
    BY <1>1, <2>1 DEF Connection
<1>3. GoodReceiver(rcv, v.fin) /\ Hears(c.receiver, rcv, v)
  <2>1. GoodReassembler(c.receiver.reassembler, v.fin) /\ ReassemblerCounts(c.receiver.reassembler, v)
    BY <1>1 DEF GoodReceiver, ReceiverCounts
  <2>2. /\ GoodStream(o) /\ o.ended = c.receiver.reassembler.output.ended
        /\ o.written = c.receiver.reassembler.output.written /\ o.read = c.receiver.reassembler.output.read
        /\ o.buffer = c.receiver.reassembler.output.buffer
    BY <2>1, FailStream DEF GoodReassembler
  <2> HIDE DEF o
  <2>3. GoodReassembler(r, v.fin) /\ Counted(c.receiver.reassembler, r, v)
    <3>1. GoodReassembler(r, v.fin)
      BY <2>1, <2>2, OtherOutput
    <3>2. Matches(o.buffer, o.read, v.text)
      BY <2>1, <2>2 DEF ReassemblerCounts
    <3>3. ReassemblerCounts(r, v) /\ Further(c.receiver.reassembler, r) /\ r.output = o
      BY <2>1, <2>2, <3>2, OtherOutputCounts
    <3> QED
      BY <2>2, <3>1, <3>3 DEF Counted, Later
  <2> HIDE DEF r
  <2>4. GoodReceiver(rcv, v.fin)
    BY <1>1, <2>3, OtherReassembler
  <2>5. rcv.isn = c.receiver.isn /\ rcv.syn_received = c.receiver.syn_received /\ rcv.reassembler = r
    BY <1>1 DEF GoodReceiver
  <2> HIDE DEF rcv
  <2>6. Hears(c.receiver, rcv, v)
    BY <1>1, <2>3, <2>5 DEF Hears, ReceiverCounts, Counted
  <2> QED
    BY <2>4, <2>6
<1> HIDE DEF rcv
<1>4. Beside(c.sender, Acked(rcv), v)
  BY <1>3, HearsBeside
<1>5. GoodSender(s) /\ Sends(c.sender, s, Acked(rcv), v)
  <2>1. GoodStream(c.sender.stream) /\ c.sender.stream.written + 2 < HalfMOD
    BY <1>1, <1>4, SenderFields, BesideFacts
  <2>2. /\ GoodStream(t) /\ t.ended = c.sender.stream.ended /\ t.read = c.sender.stream.read
        /\ t.buffer = c.sender.stream.buffer /\ t.written = c.sender.stream.written
    BY <2>1, FailStream
  <2> HIDE DEF t
  <2>3. Continues(c.sender, s)
    BY <1>1, <2>2, OtherStream
  <2>4. Sends(c.sender, s, Acked(rcv), v)
    <3>1. c.sender.stream.written <= Len(v.back) /\ Matches(c.sender.stream.buffer, c.sender.stream.read, v.back)
      BY <1>4, BesideFacts
    <3>2. Speaks(c.sender, s, Acked(rcv), v)
      BY <1>4, <2>1, <2>2, <3>1, OtherStreamCounts
    <3>3. s.stream = t
      BY <1>4, BesideFacts DEF SendersOf
    <3> HIDE DEF s
    <3> QED
      BY <2>2, <3>2, <3>3 DEF Sends, SameStream
  <2> QED
    BY <2>3, <2>4 DEF Continues
<1> HIDE DEF s, d, w
<1>6. c.segments_out \in Seq(MadeAs(w))
  BY <1>3, <1>5, PartsMove DEF w
<1>7. q \in Seq(MadeAs(w))
  BY <1>1, <1>6, RstIsMade, AppendProperties
<1> HIDE DEF q
<1>8. Moves(c, d, v)
  BY <1>2, <1>3, <1>5, <1>7, PartsMove DEF w
<1> QED
  BY <1>8 DEF d

\* The sender fills the window with what its stream holds, and the segments leave.
LEMMA FillsAndSendsAdvances ==
  ASSUME NEW v, NEW c, Among(c, v), NEW s, Continues(c.sender, s), Speaks(c.sender, s, Acked(c.receiver), v),
         NEW a, NEW d, d = Connection(fill_window(s), c.receiver, c.segments_out, c.linger, a, c.silence)
  PROVE  Advances(c, send_segments(d), v) /\ SameStream(s.stream, send_segments(d).sender.stream)
<1> DEFINE u == fill_window(s)
           b == Acked(c.receiver)
<1>1. GoodSender(c.sender) /\ Beside(c.sender, b, v) /\ GoodSender(s) /\ GoodConnection(c, v.fin)
  BY AmongFacts DEF Among, Continues
<1>2. Beside(s, b, v)
  BY <1>1 DEF Beside, Speaks
<1>3. Continues(s, u) /\ Sends(s, u, b, v)
  BY <1>1, <1>2, FillWindow, FillCounts
<1> HIDE DEF u
<1>4. Continues(c.sender, u) /\ Speaks(c.sender, u, b, v) /\ SameStream(s.stream, u.stream)
  BY <1>1, <1>2, <1>3, SpeaksOn DEF Continues, Sends
<1>5. d = Connection(u, c.receiver, c.segments_out, c.linger, a, c.silence)
  BY DEF u
<1>6. Goes(c, d, v.fin)
  BY <1>1, <1>4, <1>5, SenderGoes
<1>7. d.sender = u /\ d.receiver = c.receiver /\ d.segments_out = c.segments_out
  BY <1>5 DEF Connection
<1>8. Advances(c, d, v)
  <2>1. GoodReceiver(c.receiver, v.fin) /\ Hears(c.receiver, c.receiver, v)
    BY AmongFacts, HearsNothing
  <2> QED
    BY <1>4, <1>7, <2>1, PartsAdvance DEF Continues
<1>9. Among(d, v)
  BY <1>6, <1>8, AmongFurther
<1> DEFINE e == send_segments(d)
<1>10. Goes(d, e, v.fin) /\ Moves(d, e, v)
  BY <1>6, <1>9, SendSegments, SendSegmentsMoves DEF Goes
<1> HIDE DEF e
<1>11. Advances(c, e, v)
  BY <1>8, <1>9, <1>10, AmongOn, AdvancesOn DEF Moves
<1>12. SameStream(s.stream, e.sender.stream)
  BY <1>4, <1>7, <1>10 DEF Moves, SameStream
<1> QED
  BY <1>11, <1>12 DEF e

LEMMA ConnectsMoves ==
  ASSUME NEW v, NEW c, Among(c, v)
  PROVE  Moves(c, connect(c), v)
<1> DEFINE u == fill_window(c.sender)
           a == TRUE
           d == [c EXCEPT !.sender = u, !.is_active = a]
<1>1. /\ c = Connection(c.sender, c.receiver, c.segments_out, c.linger, c.is_active, c.silence)
      /\ GoodSender(c.sender) /\ Beside(c.sender, Acked(c.receiver), v)
  BY AmongFacts
<1>2. connect(c) = send_segments(d)
  BY <1>1 DEF connect, Connection
<1>3. d = [c EXCEPT !.sender = u, !.is_active = a]
  OBVIOUS
<1> HIDE DEF u, a, d
<1>4. d = Connection(u, c.receiver, c.segments_out, c.linger, a, c.silence)
  BY <1>1, <1>3 DEF Connection
<1>5. Continues(c.sender, c.sender) /\ Speaks(c.sender, c.sender, Acked(c.receiver), v)
  BY <1>1, SendsNothing DEF Continues, Sends
<1>6. Advances(c, send_segments(d), v) /\ SameStream(c.sender.stream, send_segments(d).sender.stream)
  BY <1>4, <1>5, FillsAndSendsAdvances DEF u
<1>7. Moves(c, send_segments(d), v)
  BY <1>6 DEF Moves
<1> QED
  BY <1>2, <1>7

\* The stream that the application writes to is o now.
LEMMA StreamFillsAdvances ==
  ASSUME NEW v, NEW c, Among(c, v), NEW o, GoodStream(o), o.read = c.sender.stream.read,
         o.written + 2 < HalfMOD, o.written <= Len(v.back), Matches(o.buffer, o.read, v.back),
         c.sender.stream.ended => o.ended /\ o.buffer = c.sender.stream.buffer,
         NEW d, d = [c EXCEPT !.sender = fill_window([c.sender EXCEPT !.stream = o])]
  PROVE  Advances(c, send_segments(d), v) /\ SameStream(o, send_segments(d).sender.stream)
<1> DEFINE s == [c.sender EXCEPT !.stream = o]
           u == fill_window(s)
           a == c.is_active
<1>1. /\ c = Connection(c.sender, c.receiver, c.segments_out, c.linger, a, c.silence)
      /\ GoodSender(c.sender) /\ Beside(c.sender, Acked(c.receiver), v)
  BY AmongFacts
<1>2. Continues(c.sender, s) /\ Speaks(c.sender, s, Acked(c.receiver), v)
  BY <1>1, OtherStream, OtherStreamCounts
<1>5. s.stream = o
  BY <1>1, BesideFacts DEF SendersOf
<1> HIDE DEF s, a
<1>3. d = [c EXCEPT !.sender = u]
  BY DEF s
<1> HIDE DEF u
<1>4. d = Connection(u, c.receiver, c.segments_out, c.linger, a, c.silence)
  BY <1>1, <1>3 DEF Connection
<1>6. Advances(c, send_segments(d), v) /\ SameStream(s.stream, send_segments(d).sender.stream)
  BY <1>2, <1>4, FillsAndSendsAdvances DEF u
<1> QED
  BY <1>5, <1>6

LEMMA WrittenWithin ==
  ASSUME NEW w \in Nat, NEW l \in Nat, NEW y \in Nat, NEW n \in 0 .. l, w + l + 2 < HalfMOD, w + l <= y
  PROVE  w + n + 2 < HalfMOD /\ w + n <= y
<1>1. HalfMOD \in Nat
  BY HalfIsHalf
<1> QED
  BY <1>1

LEMMA ConnWriteAdvances ==
  ASSUME NEW v, NEW c, Among(c, v), NEW data \in Seq(Byte), NEW w, w = c.sender.stream.written,
         w + Len(data) + 2 < HalfMOD, w + Len(data) <= Len(v.back), Matches(data, w, v.back)
  PROVE  LET e == conn_write(c, data)
         IN  /\ Advances(c, e, v)
             /\ e.sender.stream.written \in w .. w + Len(data) /\ e.sender.stream.ended = c.sender.stream.ended
<1> DEFINE o == write(c.sender.stream, data)
           d == [c EXCEPT !.sender = fill_window([c.sender EXCEPT !.stream = o])]
           l == Len(data)
           n == accepts(c.sender.stream, l)
           e == send_segments(d)
<1>1. GoodStream(c.sender.stream) /\ w \in Nat /\ l \in Nat
  BY AmongFacts, SenderFields, StreamFields
<1>2. conn_write(c, data) = e
  BY DEF conn_write
<1>3. /\ GoodStream(o) /\ o.read = c.sender.stream.read
      /\ c.sender.stream.ended => o.ended /\ o.buffer = c.sender.stream.buffer
  BY <1>1, WriteStream
<1>4. o.written = w + n /\ n \in 0 .. l /\ o.ended = c.sender.stream.ended
  BY <1>1, WriteCount
<1>5. Matches(o.buffer, o.read, v.back)
  <2>1. Matches(c.sender.stream.buffer, c.sender.stream.read, v.back)
    BY AmongFacts, BesideFacts
  <2>2. Matches(SubSeq(data, 1, n), w, v.back)
    <3>1. n \in Int /\ n <= Len(data)
      BY <1>1, <1>4
    <3> HIDE DEF n
    <3> QED
      BY <1>1, <3>1, MatchingFront
  <2>3. n = accepts(c.sender.stream, Len(data))
    OBVIOUS
  <2> HIDE DEF n
  <2> QED
    BY <1>1, <2>1, <2>2, <2>3, WriteMatches
<1> HIDE DEF o, n
<1>6. o.written + 2 < HalfMOD /\ o.written <= Len(v.back)
  <2>1. w + l + 2 < HalfMOD /\ w + l <= Len(v.back) /\ Len(v.back) \in Nat
    BY LenProperties DEF Among, GoodView
  <2> DEFINE x == o.written
             y == Len(v.back)
  <2>2. x = w + n /\ n \in 0 .. l /\ w \in Nat /\ l \in Nat
    BY <1>1, <1>4
  <2>3. w + l + 2 < HalfMOD /\ w + l <= y /\ y \in Nat /\ HalfMOD \in Nat
    BY <2>1, HalfIsHalf
  <2> HIDE DEF l, x, y
  <2>4. w + n + 2 < HalfMOD /\ w + n <= y
    BY <2>2, <2>3, WrittenWithin
  <2>5. x + 2 < HalfMOD /\ x <= y
    <3>1. x = w + n
      BY <2>2
    <3> QED
      BY <2>4, <3>1
  <2> QED
    BY <2>5 DEF x, y
<1> HIDE DEF e
<1>7. Advances(c, e, v) /\ SameStream(o, e.sender.stream)
  BY <1>3, <1>5, <1>6, StreamFillsAdvances DEF e
<1>8. e.sender.stream.written \in w .. w + l /\ e.sender.stream.ended = c.sender.stream.ended
  <2> HIDE DEF l
  <2> QED
    BY <1>1, <1>4, <1>7 DEF SameStream
<1> QED
  BY <1>2, <1>7, <1>8

LEMMA EndInputAdvances ==
  ASSUME NEW v, NEW c, Among(c, v)
  PROVE  LET e == end_input_stream(c)
         IN  /\ Advances(c, e, v)
             /\ e.sender.stream.written = c.sender.stream.written /\ e.sender.stream.ended
<1> DEFINE o == end_input(c.sender.stream)
           d == [c EXCEPT !.sender = fill_window([c.sender EXCEPT !.stream = o])]
           e == send_segments(d)
<1>1. /\ GoodStream(c.sender.stream) /\ c.sender.stream.written + 2 < HalfMOD
      /\ c.sender.stream.written <= Len(v.back) /\ Matches(c.sender.stream.buffer, c.sender.stream.read, v.back)
  BY AmongFacts, SenderFields, BesideFacts
<1>2. end_input_stream(c) = e
  BY DEF end_input_stream
<1>3. /\ GoodStream(o) /\ o.read = c.sender.stream.read /\ o.written = c.sender.stream.written
      /\ o.buffer = c.sender.stream.buffer /\ o.ended
  BY <1>1, EndStream
<1> HIDE DEF o, e
<1>4. Advances(c, e, v) /\ SameStream(o, e.sender.stream)
  BY <1>1, <1>3, StreamFillsAdvances DEF e
<1> QED
  BY <1>2, <1>3, <1>4 DEF SameStream

LEMMA PassiveCloseMoves ==
  ASSUME NEW v, NEW c, Among(c, v)
  PROVE  Moves(c, passive_close(c), v)
<1> DEFINE d == [c EXCEPT !.linger = FALSE]
<1>1. c = Connection(c.sender, c.receiver, c.segments_out, c.linger, c.is_active, c.silence)
  BY AmongFacts
<1>2. d.sender = c.sender /\ d.receiver = c.receiver /\ d.segments_out = c.segments_out
  BY <1>1 DEF Connection
<1>3. passive_close(c) = d \/ passive_close(c) = c
  BY DEF passive_close
<1> HIDE DEF d
<1>4. Moves(c, d, v) /\ Moves(c, c, v)
  BY <1>2, OthersMove
<1> QED
  BY <1>3, <1>4

\* The sender takes a step within a handler.
LEMMA SenderStepsMoves ==
  ASSUME NEW v, NEW c, Among(c, v), NEW s, GoodSender(s), Sends(c.sender, s, Acked(c.receiver), v),
         NEW d, d = [c EXCEPT !.sender = s]
  PROVE  Moves(c, d, v)
<1>1. c = Connection(c.sender, c.receiver, c.segments_out, c.linger, c.is_active, c.silence)
  BY AmongFacts
<1>2. d.sender = s /\ d.receiver = c.receiver /\ d.segments_out = c.segments_out
  BY <1>1 DEF Connection
<1> QED
  BY <1>2, SenderMoves

LEMMA ProcessAckMoves ==
  ASSUME NEW v, NEW c, Among(c, v), NEW seg \in MadeAs(v)
  PROVE  Moves(c, process_ack(c, seg), v)
<1> DEFINE s == ack_received(c.sender, seg.ackno, seg.win)
           d == [c EXCEPT !.sender = s]
<1>1. CASE ~seg.ack
  <2>1. process_ack(c, seg) = c
    BY <1>1 DEF process_ack
  <2> QED
    BY <2>1, MovesNowhere
<1>2. CASE seg.ack
  <2>1. process_ack(c, seg) = d
    BY <1>2 DEF process_ack
  <2>2. GoodSender(c.sender) /\ Beside(c.sender, Acked(c.receiver), v)
    BY AmongFacts
  <2>3. seg \in MadeBy(v.fin) /\ Numbered(seg, v)
    BY MadeAsFields
  <2>4. seg.ackno \in WrappingInt32 /\ seg.win \in Nat
    BY <2>3, SegmentFields
  <2>5. PICK x \in Nat : x <= v.acked /\ seg.ackno = wrap(x, v.to)
    BY <1>2, <2>3 DEF Numbered
  <2>6. GoodSender(s)
    BY <2>2, <2>4, AckReceived DEF Continues
  <2>7. Sends(c.sender, s, Acked(c.receiver), v)
    BY <2>2, <2>4, <2>5, AckCounts
  <2> HIDE DEF s
  <2>8. Moves(c, d, v)
    BY <2>6, <2>7, SenderStepsMoves
  <2> QED
    BY <2>1, <2>8
<1> QED
  BY <1>1, <1>2

LEMMA ReplyMoves ==
  ASSUME NEW v, NEW c, Among(c, v), NEW seg
  PROVE  Moves(c, reply(c, seg), v)
<1> DEFINE s == fill_window(c.sender)
           e == send_empty_segment(s)
           u == IF s.segments_out = <<>> THEN e ELSE s
           d == [c EXCEPT !.sender = u]
           a == Acked(c.receiver)
<1>1. CASE length_in_sequence_space(seg) = 0
  <2>1. reply(c, seg) = c
    BY <1>1 DEF reply
  <2> QED
    BY <2>1, MovesNowhere
<1>2. CASE length_in_sequence_space(seg) # 0
  <2>1. reply(c, seg) = d
    BY <1>2 DEF reply
  <2>2. GoodSender(c.sender) /\ Beside(c.sender, a, v)
    BY AmongFacts
  <2>3. GoodSender(s) /\ Sends(c.sender, s, a, v)
    BY <2>2, FillWindow, FillCounts DEF Continues
  <2> HIDE DEF s
  <2>4. Beside(s, a, v)
    BY <2>2, <2>3, BesideOn
  <2>5. GoodSender(e) /\ Sends(s, e, a, v)
    BY <2>3, <2>4, SendEmptySegment, SendEmptyCounts DEF Continues
  <2> HIDE DEF e
  <2>6. Sends(c.sender, e, a, v)
    BY <2>2, <2>3, <2>5, SendsOn
  <2>7. GoodSender(u) /\ Sends(c.sender, u, a, v)
    BY <2>3, <2>5, <2>6
  <2> HIDE DEF u
  <2>8. Moves(c, d, v)
    BY <2>7, SenderStepsMoves
  <2> QED
    BY <2>1, <2>8
<1> QED
  BY <1>1, <1>2

LEMMA AnswerKeepAliveMoves ==
  ASSUME NEW v, NEW c, Among(c, v), NEW seg
  PROVE  Moves(c, answer_keep_alive(c, seg), v)
<1> DEFINE s == send_empty_segment(c.sender)
           d == [c EXCEPT !.sender = s]
<1>1. answer_keep_alive(c, seg) = c \/ answer_keep_alive(c, seg) = d
  BY DEF answer_keep_alive
<1>2. GoodSender(s) /\ Sends(c.sender, s, Acked(c.receiver), v)
  BY AmongFacts, SendEmptySegment, SendEmptyCounts DEF Continues
<1> HIDE DEF s
<1>3. Moves(c, d, v)
  BY <1>2, SenderStepsMoves
<1> HIDE DEF d
<1> QED
  BY <1>1, <1>3, MovesNowhere

LEMMA ConnSegmentReceivedMoves ==
  ASSUME NEW v, NEW c, Among(c, v), NEW seg \in MadeAs(v)
  PROVE  Moves(c, conn_segment_received(c, seg), v)
<1> DEFINE f   == v.fin
           zero == 0
           c0  == [c EXCEPT !.silence = zero]
           rcv == receiver_segment_received(c.receiver, seg)
           r   == [c0 EXCEPT !.receiver = rcv]
           c1  == process_ack(r, seg)
           c2  == passive_close(c1)
           c3  == reply(c2, seg)
           c4  == answer_keep_alive(c3, seg)
           d   == conn_segment_received(c, seg)
<1>1. /\ GoodConnection(c, f) /\ GoodView(v) /\ ReceiverCounts(c.receiver, v)
      /\ c = Connection(c.sender, c.receiver, c.segments_out, c.linger, c.is_active, c.silence)
      /\ GoodReceiver(c.receiver, f) /\ c.segments_out \in Seq(MadeBy(c.sender.fin_sent))
      /\ c.linger \in BOOLEAN /\ MayLinger(c, c.linger, f) /\ Continues(c.sender, c.sender)
  BY AmongFacts, ConnectionFields DEF Among
<1>2. seg \in MadeBy(f)
  BY MadeAsFields
<1>3. d = IF ~c.is_active THEN c
          ELSE IF seg.rst THEN set_rst_state(c0, FALSE)
          ELSE IF receiver_summary(c1.receiver) = "SYN_RECV" /\ c1.sender.next = 0 THEN connect(c1)
          ELSE send_segments(c4)
  <2>1. c0.receiver = c.receiver
    BY <1>1 DEF Connection
  <2>2. r = [c0 EXCEPT !.receiver = receiver_segment_received(c0.receiver, seg)]
    BY <2>1
  <2> HIDE DEF c0
  <2> QED
    BY <2>2 DEF conn_segment_received, c0
<1> HIDE DEF d
<1>4. c0 = Connection(c.sender, c.receiver, c.segments_out, c.linger, c.is_active, zero)
  <2> HIDE DEF zero
  <2> QED
    BY <1>1 DEF Connection
<1> HIDE DEF c0, zero
<1>5. /\ Goes(c, c0, f)
      /\ c0.sender = c.sender /\ c0.receiver = c.receiver /\ c0.segments_out = c.segments_out
      /\ c0.linger = c.linger
  BY <1>1, <1>4, OtherParts
<1>6. Moves(c, c0, v) /\ Among(c0, v)
  BY <1>5, OthersMove, AmongOn DEF f
<1>7. GoodReceiver(rcv, f) /\ Hears(c.receiver, rcv, v)
  BY <1>1, <1>2, ReceivesSegment, ReceivesCounts
<1> HIDE DEF rcv
<1>8. Goes(c, r, f) /\ Moves(c, r, v)
  <2> DEFINE a == c.is_active
  <2>1. r = Connection(c.sender, rcv, c.segments_out, c.linger, a, zero)
    BY <1>4 DEF Connection
  <2> HIDE DEF r, a
  <2>2. Goes(c, r, f) /\ r.sender = c.sender /\ r.receiver = rcv /\ r.segments_out = c.segments_out
    BY <1>1, <1>7, <2>1, OtherParts
  <2> QED
    BY <1>7, <2>2, ReceiverMoves DEF f
<1> HIDE DEF r
<1>9. Among(r, v)
  BY <1>8, AmongOn DEF f
<1>10. Among(c1, v) /\ Moves(c, c1, v)
  <2>1. Goes(r, c1, f) /\ Moves(r, c1, v)
    BY <1>2, <1>9, ProcessAck, ProcessAckMoves DEF Among, f
  <2> HIDE DEF c1
  <2> QED
    BY <1>8, <1>9, <2>1, AmongOn, MovesOn DEF f
<1> HIDE DEF c1
<1>11. Among(c2, v) /\ Moves(c, c2, v)
  <2>1. Goes(c1, c2, f) /\ Moves(c1, c2, v)
    BY <1>10, PassiveClose, PassiveCloseMoves DEF Among, f
  <2> HIDE DEF c2
  <2> QED
    BY <1>10, <2>1, AmongOn, MovesOn DEF f
<1> HIDE DEF c2
<1>12. Among(c3, v) /\ Moves(c, c3, v)
  <2>1. Goes(c2, c3, f) /\ Moves(c2, c3, v)
    BY <1>11, Reply, ReplyMoves DEF Among, f
  <2> HIDE DEF c3
  <2> QED
    BY <1>11, <2>1, AmongOn, MovesOn DEF f
<1> HIDE DEF c3
<1>13. Among(c4, v) /\ Moves(c, c4, v)
  <2>1. Goes(c3, c4, f) /\ Moves(c3, c4, v)
    BY <1>12, AnswerKeepAlive, AnswerKeepAliveMoves DEF Among, f
  <2> HIDE DEF c4
  <2> QED
    BY <1>12, <2>1, AmongOn, MovesOn DEF f
<1> HIDE DEF c4
<1>14. Moves(c, send_segments(c4), v)
  <2> DEFINE e == send_segments(c4)
  <2>1. Goes(c4, e, f) /\ Moves(c4, e, v)
    BY <1>13, SendSegments, SendSegmentsMoves DEF Among, f
  <2> HIDE DEF e
  <2>2. Moves(c, e, v)
    BY <1>13, <2>1, AmongOn, MovesOn DEF f
  <2> QED
    BY <2>2 DEF e
<1>15. Moves(c, connect(c1), v)
  <2> DEFINE e == connect(c1)
  <2>1. Goes(c1, e, f) /\ Moves(c1, e, v)
    BY <1>10, Connects, ConnectsMoves DEF Among, f
  <2> HIDE DEF e
  <2>2. Moves(c, e, v)
    BY <1>10, <2>1, AmongOn, MovesOn DEF f
  <2> QED
    BY <2>2 DEF e
<1>16. Moves(c, set_rst_state(c0, FALSE), v)
  <2> DEFINE e == set_rst_state(c0, FALSE)
  <2>1. Goes(c0, e, f) /\ Moves(c0, e, v)
    BY <1>6, SetRstState, SetRstMoves DEF Among, f
  <2> HIDE DEF e
  <2>2. Moves(c, e, v)
    BY <1>6, <2>1, AmongOn, MovesOn DEF f
  <2> QED
    BY <2>2 DEF e
<1>17. Moves(c, c, v)
  BY MovesNowhere
<1>18. Moves(c, d, v)
  BY <1>3, <1>14, <1>15, <1>16, <1>17
<1> QED
  BY <1>18 DEF d

LEMMA ConnTickMoves ==
  ASSUME NEW v, NEW c, Among(c, v), NEW ms \in Nat
  PROVE  Moves(c, conn_tick(c, ms), v)
<1> DEFINE f  == v.fin
           t  == Smaller(c.silence + ms, LingerTime)
           s  == sender_tick(c.sender, ms)
           c1 == [c EXCEPT !.silence = t, !.sender = s]
           c2 == send_segments(c1)
           b  == active(c2)
           c3 == [c2 EXCEPT !.is_active = b]
           d  == conn_tick(c, ms)
<1>1. /\ c = Connection(c.sender, c.receiver, c.segments_out, c.linger, c.is_active, c.silence)
      /\ GoodConnection(c, f) /\ Beside(c.sender, Acked(c.receiver), v) /\ GoodSender(c.sender)
  BY AmongFacts DEF Among
<1>2. d = IF ~c.is_active THEN c
          ELSE IF c1.sender.retransmissions > MaxRetx THEN set_rst_state(c1, TRUE)
          ELSE c3
  BY DEF conn_tick
<1>3. Continues(c.sender, s) /\ Sends(c.sender, s, Acked(c.receiver), v)
  BY <1>1, SenderTick, TickCounts
<1> HIDE DEF d, t, s
<1>4. Goes(c, c1, f) /\ Moves(c, c1, v)
  <2> DEFINE a == c.is_active
  <2>1. c1 = [c EXCEPT !.silence = t, !.sender = s]
    OBVIOUS
  <2> HIDE DEF c1, a
  <2>2. c1 = Connection(s, c.receiver, c.segments_out, c.linger, a, t)
    BY <1>1, <2>1 DEF Connection, a
  <2>3. c1.sender = s /\ c1.receiver = c.receiver /\ c1.segments_out = c.segments_out
    BY <2>2 DEF Connection
  <2>4. Goes(c, c1, f)
    BY <1>1, <1>3, <2>2, SenderGoes
  <2>5. Moves(c, c1, v)
    BY <1>3, <2>3, SenderMoves DEF Continues
  <2> QED
    BY <2>4, <2>5
<1> HIDE DEF c1
<1>5. Among(c1, v)
  BY <1>4, AmongOn DEF f
<1>6. Among(c2, v) /\ Moves(c, c2, v)
  <2>1. Goes(c1, c2, f) /\ Moves(c1, c2, v)
    BY <1>5, SendSegments, SendSegmentsMoves DEF Among, f
  <2> HIDE DEF c2
  <2> QED
    BY <1>4, <1>5, <2>1, AmongOn, MovesOn DEF f
<1> HIDE DEF c2, b
<1>7. Moves(c, c3, v)
  <2>1. c2 = Connection(c2.sender, c2.receiver, c2.segments_out, c2.linger, c2.is_active, c2.silence)
    BY <1>6, AmongFacts
  <2>2. c3.sender = c2.sender /\ c3.receiver = c2.receiver /\ c3.segments_out = c2.segments_out
    BY <2>1 DEF Connection
  <2> HIDE DEF c3
  <2>3. Moves(c2, c3, v)
    BY <1>6, <2>2, OthersMove
  <2>4. Grows(ViewOf(c, v), ViewOf(c3, v))
    <3>1. ViewOf(c3, v) = ViewOf(c2, v)
      BY <2>2 DEF ViewOf
    <3> QED
      BY <1>6, <3>1 DEF Moves, Advances
  <2>5. /\ Later(c.receiver.reassembler, c3.receiver.reassembler)
        /\ SameStream(c.sender.stream, c3.sender.stream)
    BY <1>6, <2>2 DEF Moves, Advances
  <2> QED
    BY <2>3, <2>4, <2>5 DEF Moves, Advances
<1> HIDE DEF c3
<1>8. Moves(c, set_rst_state(c1, TRUE), v)
  <2> DEFINE e == set_rst_state(c1, TRUE)
  <2>1. Goes(c1, e, f) /\ Moves(c1, e, v)
    BY <1>5, SetRstState, SetRstMoves DEF Among, f
  <2> HIDE DEF e
  <2>2. Moves(c, e, v)
    BY <1>4, <1>5, <2>1, AmongOn, MovesOn DEF f
  <2> QED
    BY <2>2 DEF e
<1>9. Moves(c, c, v)
  BY MovesNowhere
<1>10. Moves(c, d, v)
  BY <1>2, <1>7, <1>8, <1>9
<1> QED
  BY <1>10 DEF d

\* Reading takes bytes off the output that have been counted.
LEMMA ReadsCounts ==
  ASSUME NEW v, NEW c, Among(c, v), NEW n \in Nat,
         NEW u, u = pop_output(c.receiver.reassembler.output, n),
         NEW d, d = [c EXCEPT !.receiver.reassembler = pop_assembled(@, n)]
  PROVE  /\ Counts(d, v) /\ ViewOf(d, v) = ViewOf(c, v)
         /\ d.sender = c.sender /\ inbound_stream(d) = u
<1> DEFINE o   == pop_output(c.receiver.reassembler.output, n)
           r   == [c.receiver.reassembler EXCEPT !.output = o]
           rcv == [c.receiver EXCEPT !.reassembler = r]
<1>1. /\ c = Connection(c.sender, c.receiver, c.segments_out, c.linger, c.is_active, c.silence)
      /\ GoodReceiver(c.receiver, v.fin) /\ ReceiverCounts(c.receiver, v)
  BY AmongFacts
<1>2. GoodReassembler(c.receiver.reassembler, v.fin) /\ ReassemblerCounts(c.receiver.reassembler, v)
  BY <1>1 DEF GoodReceiver, ReceiverCounts
<1>3. d = [c EXCEPT !.receiver = rcv]
  BY <1>1 DEF pop_assembled, Connection, GoodReceiver
<1>4. /\ GoodStream(o) /\ o.ended = c.receiver.reassembler.output.ended
      /\ o.written = c.receiver.reassembler.output.written
      /\ Matches(o.buffer, o.read, v.text)
  BY <1>2, PopStream, PopMatches DEF GoodReassembler, ReassemblerCounts
<1> HIDE DEF o
<1>5. GoodReassembler(r, v.fin) /\ ReassemblerCounts(r, v) /\ r.output = o
  BY <1>2, <1>4, OtherOutput, OtherOutputCounts
<1> HIDE DEF r
<1>6. rcv.isn = c.receiver.isn /\ rcv.syn_received = c.receiver.syn_received /\ rcv.reassembler = r
  BY <1>1 DEF GoodReceiver
<1> HIDE DEF rcv
<1>7. d.sender = c.sender /\ d.receiver = rcv /\ d.segments_out = c.segments_out
  BY <1>1, <1>3 DEF Connection
<1>8. ReceiverCounts(rcv, v)
  BY <1>1, <1>5, <1>6 DEF ReceiverCounts
<1>9. Acked(rcv) = Acked(c.receiver)
  BY <1>4, <1>5, <1>6 DEF Acked, has_ackno, abs_ackno, stream_out
<1>10. ViewOf(d, v) = ViewOf(c, v)
  BY <1>7, <1>9 DEF ViewOf
<1>11. Counts(d, v)
  BY <1>7, <1>8, <1>9, <1>10 DEF Among, Counts
<1> QED
  BY <1>5, <1>6, <1>7, <1>10, <1>11 DEF o, inbound_stream, stream_out

\* What the connection had to send has left it.
LEMMA DrainedAdvances ==
  ASSUME NEW v, NEW c, NEW d, Among(c, v), Among(d, v), Advances(c, d, v)
  PROVE  LET e == [d EXCEPT !.segments_out = <<>>]
         IN  /\ Advances(c, e, v) /\ ViewOf(e, v) = ViewOf(d, v)
             /\ e.is_active = d.is_active /\ e.sender = d.sender /\ e.receiver = d.receiver
<1> DEFINE none == <<>>
           e == [d EXCEPT !.segments_out = none]
<1>1. d = Connection(d.sender, d.receiver, d.segments_out, d.linger, d.is_active, d.silence)
  BY AmongFacts
<1>2. none \in Seq(MadeAs(ViewOf(d, v)))
  OBVIOUS
<1> HIDE DEF none
<1>3. e.sender = d.sender /\ e.receiver = d.receiver /\ e.segments_out = none /\ e.is_active = d.is_active
  BY <1>1 DEF Connection
<1>4. e = [d EXCEPT !.segments_out = <<>>]
  BY DEF none
<1> HIDE DEF e
<1>5. ViewOf(e, v) = ViewOf(d, v)
  BY <1>3 DEF ViewOf
<1>6. Advances(c, e, v)
  BY <1>2, <1>3, <1>5 DEF Advances, Counts
<1> QED
  BY <1>3, <1>4, <1>5, <1>6

\* A connection that is not active any more has failed, or both its streams are closed.
IsOver(c) == c.sender.stream.error \/ streams_closed(c)

Concluded(c) == c.is_active \in BOOLEAN /\ (~c.is_active => IsOver(c))

\* A connection has its six data members.
Whole(c) == c = Connection(c.sender, c.receiver, c.segments_out, c.linger, c.is_active, c.silence)

LEMMA StillWhole ==
  ASSUME NEW s, NEW rcv, NEW q, NEW l, NEW a, NEW t, NEW d, d = Connection(s, rcv, q, l, a, t)
  PROVE  Whole(d) /\ d.sender = s /\ d.receiver = rcv /\ d.is_active = a
BY DEF Whole, Connection

\* The handlers leave the flag alone, except where they set it.
LEMMA SenderKeepsActive ==
  ASSUME NEW c, Whole(c), NEW s, NEW d, d = [c EXCEPT !.sender = s]
  PROVE  Whole(d) /\ d.is_active = c.is_active /\ d.sender = s
<1>1. c = Connection(c.sender, c.receiver, c.segments_out, c.linger, c.is_active, c.silence)
  BY DEF Whole
<1>2. d = Connection(s, c.receiver, c.segments_out, c.linger, c.is_active, c.silence)
  BY <1>1 DEF Connection
<1> QED
  BY <1>2, StillWhole

LEMMA SendSegmentsKeepsActive ==
  ASSUME NEW c, Whole(c)
  PROVE  LET d == send_segments(c)
         IN  /\ Whole(d) /\ d.is_active = c.is_active /\ d.receiver = c.receiver
             /\ d.sender = [c.sender EXCEPT !.segments_out = <<>>]
<1> DEFINE out == c.sender.segments_out
           q == c.segments_out \o [i \in 1 .. Len(out) |-> stamp(c.receiver, out[i])]
           s == [c.sender EXCEPT !.segments_out = <<>>]
           d == send_segments(c)
<1>1. c = Connection(c.sender, c.receiver, c.segments_out, c.linger, c.is_active, c.silence)
  BY DEF Whole
<1>2. d = [c EXCEPT !.segments_out = q, !.sender = s]
  BY <1>1 DEF send_segments, Connection
<1> HIDE DEF q, s, d
<1>3. d = Connection(s, c.receiver, q, c.linger, c.is_active, c.silence)
  BY <1>1, <1>2 DEF Connection
<1>4. Whole(d) /\ d.sender = s /\ d.receiver = c.receiver /\ d.is_active = c.is_active
  BY <1>3, StillWhole
<1> QED
  BY <1>4 DEF d, s

LEMMA HandlersKeepActive ==
  ASSUME NEW c, Whole(c), NEW seg
  PROVE  /\ Whole(process_ack(c, seg)) /\ process_ack(c, seg).is_active = c.is_active
         /\ Whole(reply(c, seg)) /\ reply(c, seg).is_active = c.is_active
         /\ Whole(answer_keep_alive(c, seg)) /\ answer_keep_alive(c, seg).is_active = c.is_active
         /\ Whole(passive_close(c)) /\ passive_close(c).is_active = c.is_active
<1>1. Whole(process_ack(c, seg)) /\ process_ack(c, seg).is_active = c.is_active
  <2> DEFINE d == process_ack(c, seg)
             u == ack_received(c.sender, seg.ackno, seg.win)
  <2>1. d = c \/ d = [c EXCEPT !.sender = u]
    BY DEF process_ack
  <2> HIDE DEF d, u
  <2>2. Whole(d) /\ d.is_active = c.is_active
    BY <2>1, SenderKeepsActive
  <2> QED
    BY <2>2 DEF d
<1>2. Whole(reply(c, seg)) /\ reply(c, seg).is_active = c.is_active
  <2> DEFINE s == fill_window(c.sender)
             u == IF s.segments_out = <<>> THEN send_empty_segment(s) ELSE s
             d == reply(c, seg)
  <2>1. d = c \/ d = [c EXCEPT !.sender = u]
    BY DEF reply
  <2> HIDE DEF d, u
  <2>2. Whole(d) /\ d.is_active = c.is_active
    BY <2>1, SenderKeepsActive
  <2> QED
    BY <2>2 DEF d
<1>3. Whole(answer_keep_alive(c, seg)) /\ answer_keep_alive(c, seg).is_active = c.is_active
  <2> DEFINE d == answer_keep_alive(c, seg)
             u == send_empty_segment(c.sender)
  <2>1. d = c \/ d = [c EXCEPT !.sender = u]
    BY DEF answer_keep_alive
  <2> HIDE DEF d, u
  <2>2. Whole(d) /\ d.is_active = c.is_active
    BY <2>1, SenderKeepsActive
  <2> QED
    BY <2>2 DEF d
<1>4. Whole(passive_close(c)) /\ passive_close(c).is_active = c.is_active
  <2> DEFINE l == FALSE
             d == [c EXCEPT !.linger = l]
             a == c.is_active
             t == c.silence
  <2>1. passive_close(c) = c \/ passive_close(c) = d
    BY DEF passive_close
  <2>2. c = Connection(c.sender, c.receiver, c.segments_out, c.linger, a, t)
    BY DEF Whole
  <2>3. d = [c EXCEPT !.linger = l]
    OBVIOUS
  <2> HIDE DEF l, d, a, t
  <2>4. d = Connection(c.sender, c.receiver, c.segments_out, l, a, t)
    BY <2>2, <2>3 DEF Connection
  <2>5. Whole(d) /\ d.is_active = a
    BY <2>4, StillWhole
  <2> QED
    BY <2>1, <2>5 DEF a
<1> QED
  BY <1>1, <1>2, <1>3, <1>4

\* Whoever resets its connection has failed.
LEMMA RstConcludes ==
  ASSUME NEW c, Whole(c), GoodSender(c.sender), NEW send_rst
  PROVE  Concluded(set_rst_state(c, send_rst))
<1> DEFINE q == IF send_rst THEN Append(c.segments_out, rst_segment(c)) ELSE c.segments_out
           rcv == [c.receiver EXCEPT !.reassembler.output = set_error(@)]
           t == set_error(c.sender.stream)
           s == [c.sender EXCEPT !.stream = t]
           d == set_rst_state(c, send_rst)
<1>1. /\ c = Connection(c.sender, c.receiver, c.segments_out, c.linger, c.is_active, c.silence)
      /\ c.sender \in SendersOf(c.sender.fin_sent) /\ GoodStream(c.sender.stream)
  BY SenderFields DEF Whole
<1>2. d.sender = s /\ d.is_active = FALSE
  <2>1. d = [c EXCEPT !.segments_out = q, !.receiver = rcv, !.sender = s, !.is_active = FALSE]
    BY <1>1 DEF set_rst_state, Connection
  <2> HIDE DEF q, rcv, s, d
  <2> QED
    BY <1>1, <2>1 DEF Connection
<1>3. t.error
  BY <1>1, FailStream
<1> HIDE DEF d, t
<1>4. s.stream = t
  BY <1>1 DEF SendersOf
<1> HIDE DEF s
<1>5. Concluded(d)
  BY <1>2, <1>3, <1>4 DEF Concluded, IsOver
<1> QED
  BY <1>5 DEF d

\* connect() makes the connection active.
LEMMA ConnectIsActive ==
  ASSUME NEW c, Whole(c)
  PROVE  Concluded(connect(c))
<1> DEFINE u == fill_window(c.sender)
           b == TRUE
           d == [c EXCEPT !.sender = u, !.is_active = b]
<1>1. c = Connection(c.sender, c.receiver, c.segments_out, c.linger, c.is_active, c.silence)
  BY DEF Whole
<1>2. connect(c) = send_segments(d)
  BY <1>1 DEF connect, Connection
<1>3. d = [c EXCEPT !.sender = u, !.is_active = b]
  OBVIOUS
<1> HIDE DEF u, d, b
<1>4. d = Connection(u, c.receiver, c.segments_out, c.linger, b, c.silence)
  BY <1>1, <1>3 DEF Connection
<1>5. Whole(d) /\ d.is_active = b
  BY <1>4, StillWhole
<1>6. connect(c).is_active = TRUE
  BY <1>2, <1>5, SendSegmentsKeepsActive DEF b
<1> QED
  BY <1>6 DEF Concluded

\* write() is called on an active connection only.
LEMMA WriteStaysActive ==
  ASSUME NEW c, Whole(c), c.is_active = TRUE, NEW data
  PROVE  Concluded(conn_write(c, data))
<1> DEFINE s == fill_window([c.sender EXCEPT !.stream = write(@, data)])
           d == [c EXCEPT !.sender = s]
<1>1. conn_write(c, data) = send_segments(d)
  BY DEF conn_write
<1> HIDE DEF s
<1>2. Whole(d) /\ d.is_active = TRUE
  BY SenderKeepsActive
<1> HIDE DEF d
<1>3. conn_write(c, data).is_active = TRUE
  BY <1>1, <1>2, SendSegmentsKeepsActive
<1> QED
  BY <1>3 DEF Concluded

LEMMA FillKeepsError ==
  ASSUME NEW s, GoodSender(s)
  PROVE  fill_window(s).stream.error = s.stream.error
<1> DEFINE u    == fill_window(s)
           syn  == s.next = 0
           size == payload_size(s, syn)
           fin  == sends_fin(s, syn, size)
           segs == new_segments(s, size, syn, fin)
           b    == pop_output(s.stream, size)
           next == s.next + One(syn) + size + One(fin)
           out  == s.outstanding \o segs
           queue == s.segments_out \o segs
           el   == IF s.timer_running THEN s.elapsed ELSE 0
<1>1. s \in SendersOf(s.fin_sent)
  BY SenderFields
<1>2. CASE s.fin_sent \/ window_remain(s) = 0 \/ segs = <<>>
  <2>1. u = s
    BY <1>2 DEF fill_window
  <2> QED
    BY <2>1
<1>3. CASE ~s.fin_sent /\ window_remain(s) # 0 /\ segs # <<>>
  <2>1. u = [s EXCEPT !.stream        = b,
                      !.next          = next,
                      !.fin_sent      = fin,
                      !.segments_out  = queue,
                      !.outstanding   = out,
                      !.elapsed       = el,
                      !.timer_running = TRUE]
    BY <1>1, <1>3, Zenon DEF fill_window, SendersOf
  <2>2. b.error = s.stream.error
    BY <1>3, WindowPiece
  <2> HIDE DEF u, b, next, fin, queue, out, el
  <2>3. u.stream = b
    BY <1>1, <2>1 DEF SendersOf
  <2> QED
    BY <2>2, <2>3 DEF u
<1> QED
  BY <1>2, <1>3

\* end_input_stream() may also come after a reset, but not after both streams were closed.
LEMMA EndConcludes ==
  ASSUME NEW c, NEW f, GoodConnection(c, f), Concluded(c), ~c.sender.stream.ended
  PROVE  Concluded(end_input_stream(c))
<1> DEFINE o == end_input(c.sender.stream)
           s == [c.sender EXCEPT !.stream = o]
           u == fill_window(s)
           d == [c EXCEPT !.sender = u]
           e == send_segments(d)
<1>1. /\ c = Connection(c.sender, c.receiver, c.segments_out, c.linger, c.is_active, c.silence)
      /\ GoodSender(c.sender) /\ c.sender \in SendersOf(c.sender.fin_sent) /\ GoodStream(c.sender.stream)
  BY ConnectionFields, SenderFields
<1>2. end_input_stream(c) = e
  BY DEF end_input_stream
<1>3. /\ GoodStream(o) /\ o.ended /\ o.error = c.sender.stream.error
      /\ o.read = c.sender.stream.read /\ o.buffer = c.sender.stream.buffer
  BY <1>1, EndStream
<1> HIDE DEF o
<1>4. GoodSender(s) /\ s.stream = o
  <2>1. GoodSender(s)
    BY <1>1, <1>3, OtherStream DEF Continues
  <2> QED
    BY <1>1, <2>1 DEF SendersOf
<1> HIDE DEF s
<1>5. u.stream.error = c.sender.stream.error /\ GoodSender(u)
  BY <1>3, <1>4, FillKeepsError, FillWindow DEF Continues
<1> HIDE DEF u
<1>6. Whole(d) /\ d.is_active = c.is_active /\ d.sender = u
  BY <1>1, SenderKeepsActive DEF Whole, Connection
<1> HIDE DEF d
<1>7. e.is_active = c.is_active /\ e.sender = [u EXCEPT !.segments_out = <<>>]
  BY <1>6, SendSegmentsKeepsActive
<1> HIDE DEF e
<1>8. e.sender.stream = u.stream
  BY <1>5, <1>7, SenderFields DEF SendersOf
<1>9. ~streams_closed(c)
  BY DEF streams_closed, all_sent, eof
<1>10. Concluded(e)
  BY <1>5, <1>7, <1>8, <1>9 DEF Concluded, IsOver
<1> QED
  BY <1>2, <1>10

LEMMA ReceivedConcludes ==
  ASSUME NEW c, NEW f, GoodConnection(c, f), Concluded(c), NEW seg
  PROVE  Concluded(conn_segment_received(c, seg))
<1> DEFINE zero == 0
           c0  == [c EXCEPT !.silence = zero]
           rcv == receiver_segment_received(c.receiver, seg)
           r   == [c0 EXCEPT !.receiver = rcv]
           c1  == process_ack(r, seg)
           c2  == passive_close(c1)
           c3  == reply(c2, seg)
           c4  == answer_keep_alive(c3, seg)
           d   == conn_segment_received(c, seg)
<1>1. /\ c = Connection(c.sender, c.receiver, c.segments_out, c.linger, c.is_active, c.silence)
      /\ GoodSender(c.sender) /\ c.is_active \in BOOLEAN
  BY ConnectionFields DEF Concluded
<1>2. d = IF ~c.is_active THEN c
          ELSE IF seg.rst THEN set_rst_state(c0, FALSE)
          ELSE IF receiver_summary(c1.receiver) = "SYN_RECV" /\ c1.sender.next = 0 THEN connect(c1)
          ELSE send_segments(c4)
  <2>1. c0.receiver = c.receiver
    BY <1>1 DEF Connection
  <2>2. r = [c0 EXCEPT !.receiver = receiver_segment_received(c0.receiver, seg)]
    BY <2>1
  <2> HIDE DEF c0
  <2> QED
    BY <2>2 DEF conn_segment_received, c0
<1> HIDE DEF d
<1>3. c0 = Connection(c.sender, c.receiver, c.segments_out, c.linger, c.is_active, zero)
  <2> HIDE DEF zero
  <2> QED
    BY <1>1 DEF Connection
<1> HIDE DEF c0, zero, rcv
<1>4. Whole(c0) /\ c0.sender = c.sender
  BY <1>3, StillWhole
<1>5. Whole(r) /\ r.is_active = c.is_active
  <2>1. r = Connection(c.sender, rcv, c.segments_out, c.linger, c.is_active, zero)
    BY <1>3 DEF Connection
  <2> HIDE DEF r
  <2> QED
    BY <2>1, StillWhole
<1> HIDE DEF r
<1>6. Whole(c1) /\ c1.is_active = c.is_active
  BY <1>5, HandlersKeepActive
<1> HIDE DEF c1
<1>7. Whole(c2) /\ c2.is_active = c.is_active
  BY <1>6, HandlersKeepActive
<1> HIDE DEF c2
<1>8. Whole(c3) /\ c3.is_active = c.is_active
  BY <1>7, HandlersKeepActive
<1> HIDE DEF c3
<1>9. Whole(c4) /\ c4.is_active = c.is_active
  BY <1>8, HandlersKeepActive
<1> HIDE DEF c4
<1>10. c.is_active => Concluded(send_segments(c4))
  <2>1. send_segments(c4).is_active = c.is_active
    BY <1>9, SendSegmentsKeepsActive
  <2> QED
    BY <1>1, <2>1 DEF Concluded
<1>11. Concluded(connect(c1)) /\ Concluded(set_rst_state(c0, FALSE))
  BY <1>1, <1>4, <1>6, ConnectIsActive, RstConcludes
<1>12. Concluded(d)
  BY <1>2, <1>10, <1>11
<1> QED
  BY <1>12 DEF d

LEMMA TickConcludes ==
  ASSUME NEW c, NEW f, GoodConnection(c, f), Concluded(c), NEW ms \in Nat
  PROVE  Concluded(conn_tick(c, ms))
<1> DEFINE t  == Smaller(c.silence + ms, LingerTime)
           s  == sender_tick(c.sender, ms)
           c1 == [c EXCEPT !.silence = t, !.sender = s]
           c2 == send_segments(c1)
           b  == active(c2)
           c3 == [c2 EXCEPT !.is_active = b]
           d  == conn_tick(c, ms)
<1>1. /\ c = Connection(c.sender, c.receiver, c.segments_out, c.linger, c.is_active, c.silence)
      /\ GoodSender(c.sender) /\ c.is_active \in BOOLEAN
  BY ConnectionFields DEF Concluded
<1>2. d = IF ~c.is_active THEN c
          ELSE IF c1.sender.retransmissions > MaxRetx THEN set_rst_state(c1, TRUE)
          ELSE c3
  BY DEF conn_tick
<1>3. GoodSender(s)
  BY <1>1, SenderTick DEF Continues
<1> HIDE DEF d, t, s
<1>4. Whole(c1) /\ c1.is_active = c.is_active /\ c1.sender = s
  <2>1. c1 = [c EXCEPT !.silence = t, !.sender = s]
    OBVIOUS
  <2> HIDE DEF c1
  <2>2. c1 = Connection(s, c.receiver, c.segments_out, c.linger, c.is_active, t)
    BY <1>1, <2>1 DEF Connection
  <2> QED
    BY <2>2, StillWhole
<1> HIDE DEF c1
<1>5. Whole(c2) /\ c2.is_active = c.is_active
  BY <1>4, SendSegmentsKeepsActive
<1> HIDE DEF c2
<1>6. b \in BOOLEAN /\ (c.is_active /\ ~b => streams_closed(c2))
  BY <1>5 DEF active
<1> HIDE DEF b
<1>7. c3.sender = c2.sender /\ c3.receiver = c2.receiver /\ c3.is_active = b
  <2>1. c2 = Connection(c2.sender, c2.receiver, c2.segments_out, c2.linger, c2.is_active, c2.silence)
    BY <1>5 DEF Whole
  <2>2. c3 = [c2 EXCEPT !.is_active = b]
    OBVIOUS
  <2> HIDE DEF c3
  <2> QED
    BY <2>1, <2>2 DEF Connection
<1> HIDE DEF c3
<1>8. streams_closed(c2) => streams_closed(c3)
  BY <1>7 DEF streams_closed, inbound_stream
<1>9. c.is_active => Concluded(c3)
  BY <1>6, <1>7, <1>8 DEF Concluded, IsOver
<1>10. Concluded(set_rst_state(c1, TRUE))
  BY <1>3, <1>4, RstConcludes
<1>11. Concluded(d)
  BY <1>1, <1>2, <1>9, <1>10
<1> QED
  BY <1>11 DEF d

LEMMA ReadConcludes ==
  ASSUME NEW c, NEW f, GoodConnection(c, f), Concluded(c), NEW n \in Nat,
         NEW d, d = [c EXCEPT !.receiver.reassembler = pop_assembled(@, n)]
  PROVE  Concluded(d)
<1> DEFINE o   == pop_output(c.receiver.reassembler.output, n)
           r   == [c.receiver.reassembler EXCEPT !.output = o]
           rcv == [c.receiver EXCEPT !.reassembler = r]
<1>1. /\ c = Connection(c.sender, c.receiver, c.segments_out, c.linger, c.is_active, c.silence)
      /\ GoodReceiver(c.receiver, f) /\ GoodReassembler(c.receiver.reassembler, f)
  BY ConnectionFields DEF GoodReceiver
<1>2. d = [c EXCEPT !.receiver = rcv]
  BY <1>1 DEF pop_assembled, Connection, GoodReceiver
<1>3. o.ended = c.receiver.reassembler.output.ended
  BY <1>1, PopStream DEF GoodReassembler
<1> HIDE DEF o
<1>4. r.output = o
  BY <1>1 DEF GoodReassembler, IsReassembler, Reassembler
<1> HIDE DEF r
<1>5. rcv.reassembler = r
  BY <1>1 DEF GoodReceiver
<1> HIDE DEF rcv
<1>6. d.sender = c.sender /\ d.receiver = rcv /\ d.is_active = c.is_active
  BY <1>1, <1>2 DEF Connection
<1>7. inbound_stream(d).ended = inbound_stream(c).ended
  BY <1>3, <1>4, <1>5, <1>6 DEF inbound_stream, stream_out
<1>8. streams_closed(c) => streams_closed(d)
  BY <1>6, <1>7 DEF streams_closed
<1> QED
  BY <1>6, <1>8 DEF Concluded, IsOver

-----------------------------------------------------------------------------
(* The two peers. *)

\* What is settled about p from the start.
Side(p) == [isn |-> Isn[p], text |-> Data[p], back |-> Data[Other(p)]]

\* What the counters of p look like from the other end.
PeerView(p) == ViewOf(conn[p], Side(Other(p)))

\* The application of p has read a beginning of what that of its peer writes.
HasRead(p) ==
  /\ got[p] \in Seq(Byte)
  /\ Len(got[p]) = conn[p].receiver.reassembler.output.read
  /\ Matches(got[p], 0, Data[Other(p)])

CountsInv ==
  /\ got = [p \in Peers |-> got[p]]
  /\ \A p \in Peers :
       /\ Counts(conn[p], PeerView(Other(p)))
       /\ OnPath(net[p]) \subseteq MadeAs(PeerView(Other(p)))
       /\ Concluded(conn[p])
       /\ HasRead(p)

\* An application writes to its stream as long as it has not ended it.
Writes(o, u) ==
  /\ o.written <= u.written
  /\ o.ended => u.ended
  /\ u.ended => u.written = o.written

\* What a step of p means to the two applications: p may write, or end its stream, and more of
\* what it is sent may be assembled; nothing happens at the other end.
Turn(p) ==
  /\ Writes(stream_in(p), stream_in(p)')
  /\ Further(conn[p].receiver.reassembler, conn'[p].receiver.reassembler)
  /\ conn'[Other(p)] = conn[Other(p)] /\ got'[Other(p)] = got[Other(p)]

Turned == \E p \in Peers : Turn(p)

\* A network that repeats segments at any time may do so after 2^31 further bytes, when
\* unwrap() takes their numbers for later ones.
ShortStreams == \A p \in Peers : Len(Data[p]) + 2 < HalfMOD

LEMMA AckedIsNatural ==
  ASSUME NEW rcv, NEW f, GoodReceiver(rcv, f)
  PROVE  Acked(rcv) \in Nat
<1>1. stream_out(rcv).written \in Nat
  BY StreamFields DEF GoodReceiver, GoodReassembler, stream_out
<1>2. abs_ackno(rcv) \in Nat
  BY <1>1 DEF abs_ackno, One
<1> QED
  BY <1>2 DEF Acked

LEMMA PeerViews ==
  ASSUME NEW Paths, PeersInv(Paths), CountsInv, NEW p \in Peers
  PROVE  LET v == PeerView(Other(p))
             s == conn[Other(p)].sender
         IN  /\ Among(conn[p], v) /\ GoodView(v)
             /\ v.text = Data[Other(p)] /\ v.back = Data[p]
             /\ v.isn = Isn[Other(p)] /\ v.isn = s.isn /\ v.next = s.next /\ v.read = s.stream.read
             /\ v.fin = s.fin_sent /\ v.acked = Acked(conn[Other(p)].receiver)
             /\ PeerView(p) = ViewOf(conn[p], v)
<1> DEFINE o == Other(p)
           v == PeerView(o)
           s == conn[o].sender
           a == Acked(conn[o].receiver)
<1>1. o \in Peers /\ Other(o) = p
  BY TwoPeers
<1>2. GoodConnection(conn[o], conn[p].sender.fin_sent) /\ GoodConnection(conn[p], s.fin_sent)
  BY <1>1 DEF PeersInv
<1>3. GoodSender(s) /\ a \in Nat
  BY <1>2, ConnectionFields, AckedIsNatural
<1>4. SenderCounts(s, a, PeerView(p)) /\ Counts(conn[p], v)
  BY <1>1 DEF CountsInv, Counts
<1> DEFINE x == Side(p)
<1>5. /\ x.isn \in WrappingInt32 /\ x.text \in Seq(Byte) /\ x.back \in Seq(Byte)
      /\ x.isn = Isn[p] /\ x.text = Data[p] /\ x.back = Data[o] /\ s.stream.written + 2 < HalfMOD
  BY <1>1, <1>4, PeersAssumption DEF SenderCounts, Side
<1>6. v = View(s, a, x)
  BY <1>1 DEF PeerView, ViewOf
<1> HIDE DEF x
<1>7. /\ GoodView(v) /\ v.isn = s.isn /\ v.next = s.next /\ v.read = s.stream.read
      /\ v.fin = s.fin_sent /\ v.acked = a /\ v.text = Data[o] /\ v.back = Data[p]
  BY <1>3, <1>5, <1>6, SenderView
<1>8. s.isn = Isn[o]
  BY <1>4 DEF SenderCounts, PeerView, ViewOf, View, Side
<1>9. Among(conn[p], v)
  BY <1>2, <1>4, <1>7 DEF Among
<1>10. PeerView(p) = ViewOf(conn[p], v)
  BY <1>7, <1>8 DEF PeerView, ViewOf, View, Side
<1> QED
  BY <1>7, <1>8, <1>9, <1>10

\* The flag, the sender and the receiver stay.
LEMMA StaysConcluded ==
  ASSUME NEW c, Concluded(c), NEW d, d.is_active = c.is_active, d.sender = c.sender, d.receiver = c.receiver
  PROVE  Concluded(d)
BY DEF Concluded, IsOver, streams_closed, inbound_stream

\* The peer hears of what the counters have become: they grew, and so what it relies on
\* stays true.
LEMMA PeerCountsLater ==
  ASSUME NEW w, NEW c, Among(c, w), NEW z, GoodView(z), Grows(w, z), z.acked <= c.sender.next
  PROVE  Counts(c, z)
<1> DEFINE s == c.sender
           a == Acked(c.receiver)
<1>1. GoodReceiver(c.receiver, w.fin) /\ ReceiverCounts(c.receiver, w) /\ GoodView(w) /\ GoodSender(s)
  BY AmongFacts
<1>2. ReceiverCounts(c.receiver, z)
  BY <1>1, ReceiverCountsLater
<1>3. z.isn = w.isn /\ z.to = w.to /\ z.text = w.text /\ z.back = w.back /\ w.acked <= z.acked
  BY DEF Grows
<1>4. SenderCounts(s, a, w) /\ c.segments_out \in Seq(MadeAs(ViewOf(c, w)))
  BY DEF Among, Counts
<1>5. s.last_ack \in Nat /\ w.acked \in Nat /\ z.acked \in Nat
  BY <1>1, SenderFields DEF GoodView
<1>6. s.last_ack <= z.acked
  BY <1>3, <1>4, <1>5 DEF SenderCounts
<1>7. View(s, a, z) = View(s, a, w) /\ ViewOf(c, z) = ViewOf(c, w)
  BY <1>3 DEF View, ViewOf
<1>8. SenderCounts(s, a, z)
  BY <1>3, <1>4, <1>6, <1>7 DEF SenderCounts
<1> QED
  BY <1>2, <1>4, <1>7, <1>8 DEF Counts

\* One connection takes a step.
LEMMA OneMoves ==
  ASSUME NEW Paths, PeersInv(Paths), CountsInv, NEW p \in Peers, NEW d,
         Goes(conn[p], d, conn[Other(p)].sender.fin_sent), Counts(d, PeerView(Other(p))),
         Grows(ViewOf(conn[p], PeerView(Other(p))), ViewOf(d, PeerView(Other(p)))), Concluded(d),
         Further(conn[p].receiver.reassembler, d.receiver.reassembler),
         Writes(conn[p].sender.stream, d.sender.stream),
         conn' = [conn EXCEPT ![p] = d],
         got' = [q \in Peers |-> got'[q]], got'[Other(p)] = got[Other(p)], HasRead(p)',
         OnPath(net'[p]) \subseteq MadeAs(PeerView(Other(p))),
         OnPath(net'[Other(p)]) \subseteq MadeAs(ViewOf(d, Side(Other(p))))
  PROVE  CountsInv' /\ Turned
<1> DEFINE o == Other(p)
           v == PeerView(o)
           w == PeerView(p)
           z == ViewOf(d, Side(o))
<1>1. o \in Peers /\ o # p /\ Other(o) = p /\ \A q \in Peers : q = p \/ q = o
  BY TwoPeers
<1>2. conn = [q \in Peers |-> conn[q]]
  BY DEF PeersInv
<1>3. conn'[p] = d /\ conn'[o] = conn[o]
  BY <1>1, <1>2
<1>4. PeerView(p)' = z /\ PeerView(o)' = v
  BY <1>3 DEF PeerView, Side
<1>5. /\ Among(conn[p], v) /\ v.fin = conn[o].sender.fin_sent
      /\ v.isn = Isn[o] /\ v.text = Data[o] /\ v.back = Data[p]
      /\ v.next = conn[o].sender.next /\ w = ViewOf(conn[p], v)
  BY PeerViews
<1>6. Among(conn[o], w)
  BY <1>1, PeerViews
<1> HIDE DEF w
<1>7. Among(d, v) /\ Counts(d, v) /\ Grows(w, z) /\ z = ViewOf(d, v)
  <2>1. GoodConnection(d, v.fin) /\ Counts(d, v) /\ Grows(ViewOf(conn[p], v), ViewOf(d, v))
    BY <1>5 DEF Goes
  <2>2. z = ViewOf(d, v)
    <3> HIDE DEF v
    <3> QED
      BY <1>1, <1>5 DEF ViewOf, View, Side
  <2> HIDE DEF v, z
  <2> QED
    BY <1>5, <2>1, <2>2 DEF Among
<1> HIDE DEF v, z
<1>8. GoodView(z) /\ GoodView(v) /\ GoodReceiver(d.receiver, v.fin) /\ ReceiverCounts(d.receiver, v)
  BY <1>5, <1>7, AmongFacts
<1>9. z.acked <= conn[o].sender.next
  <2>1. z.acked = Acked(d.receiver)
    BY <1>7 DEF ViewOf, View
  <2> QED
    BY <1>5, <1>8, <2>1, AckedWasSent
<1>10. Counts(conn[o], z)
  BY <1>6, <1>7, <1>8, <1>9, PeerCountsLater
<1>11. /\ Counts(conn'[p], PeerView(o)') /\ OnPath(net'[p]) \subseteq MadeAs(PeerView(o)')
       /\ Concluded(conn'[p]) /\ HasRead(p)'
  BY <1>3, <1>4, <1>7 DEF v
<1>12. /\ Counts(conn'[o], PeerView(p)') /\ OnPath(net'[o]) \subseteq MadeAs(PeerView(p)')
       /\ Concluded(conn'[o]) /\ HasRead(o)'
  <2>1. HasRead(o)'
    BY <1>1, <1>3 DEF CountsInv, HasRead
  <2> QED
    BY <1>1, <1>3, <1>4, <1>10, <2>1 DEF CountsInv, z
<1>13. Turned
  BY <1>3 DEF Turned, Turn, stream_in
<1> HIDE DEF o
<1>14. \A q \in Peers : /\ Counts(conn'[q], PeerView(Other(q))')
                        /\ OnPath(net'[q]) \subseteq MadeAs(PeerView(Other(q))')
                        /\ Concluded(conn'[q]) /\ HasRead(q)'
  BY <1>1, <1>11, <1>12 DEF o
<1> QED
  BY <1>13, <1>14 DEF CountsInv

\* A call on a connection, and what it sends enters the path to the other peer.
LEMMA BecomesCounts ==
  ASSUME NEW Paths, HonestNetwork(Paths), PeersInv(Paths), CountsInv, NEW p \in Peers, NEW c,
         Goes(conn[p], c, conn[Other(p)].sender.fin_sent),
         Advances(conn[p], c, PeerView(Other(p))), Concluded(c),
         Writes(conn[p].sender.stream, c.sender.stream),
         NEW paths \in [Peers -> Paths],
         \A q \in Peers : OnPath(paths[q]) \subseteq MadeAs(PeerView(Other(q))),
         Becomes(p, c, paths), got' = got
  PROVE  CountsInv' /\ Turned
<1> DEFINE o == Other(p)
           v == PeerView(o)
           w == PeerView(p)
           d == [c EXCEPT !.segments_out = <<>>]
           out == c.segments_out
           z == ViewOf(c, Side(o))
<1>1. o \in Peers /\ o # p /\ Other(o) = p
  BY TwoPeers
<1>2. conn' = [conn EXCEPT ![p] = d] /\ net' = [paths EXCEPT ![o] = Enter(paths[o], out)]
  BY DEF Becomes
<1>3. /\ Among(conn[p], v) /\ GoodView(v) /\ v.fin = conn[o].sender.fin_sent
      /\ v.isn = Isn[o] /\ v.text = Data[o] /\ v.back = Data[p]
      /\ w = ViewOf(conn[p], v)
  BY PeerViews
<1> HIDE DEF v, w
<1>4. Goes(conn[p], c, v.fin) /\ Advances(conn[p], c, v)
  BY <1>3 DEF v
<1>5. Among(c, v)
  BY <1>3, <1>4, AmongFurther
<1>6. /\ Goes(conn[p], d, conn[o].sender.fin_sent)
      /\ Advances(conn[p], d, v) /\ ViewOf(d, v) = ViewOf(c, v)
      /\ d.is_active = c.is_active /\ d.sender = c.sender /\ d.receiver = c.receiver
  BY <1>3, <1>4, <1>5, Drained, DrainedAdvances
<1> HIDE DEF d
<1>7. Concluded(d)
  BY <1>6, StaysConcluded
<1>8. z = ViewOf(c, v) /\ ViewOf(d, Side(o)) = z
  BY <1>1, <1>3, <1>6 DEF ViewOf, View, Side
<1> HIDE DEF z
<1>9. GoodView(w) /\ GoodView(z) /\ Grows(w, z) /\ out \in Seq(MadeAs(z))
  BY <1>3, <1>4, <1>5, <1>8, AmongFacts DEF Advances
<1> HIDE DEF out
<1>10. out \in Seq(Segment) /\ Elements(out) \subseteq MadeAs(z)
  <2>1. out \in Seq(Segment)
    BY <1>9, LargerAlphabet DEF MadeAs
  <2> QED
    BY <1>9, <2>1, ElementOfSeq DEF Elements
<1>11. Enter(paths[o], out) \in Paths /\ OnPath(Enter(paths[o], out)) \subseteq OnPath(paths[o]) \cup Elements(out)
  BY <1>1, <1>10 DEF HonestNetwork, Honest
<1>12. net'[p] = paths[p] /\ net'[o] = Enter(paths[o], out)
  BY <1>1, <1>2, <1>11
<1>13. OnPath(net'[o]) \subseteq MadeAs(z)
  <2>1. OnPath(paths[o]) \subseteq MadeAs(w)
    BY <1>1 DEF w
  <2>2. MadeAs(w) \subseteq MadeAs(z)
    BY <1>9, MadeAsMore
  <2> QED
    BY <1>10, <1>11, <1>12, <2>1, <2>2
<1>14. OnPath(net'[p]) \subseteq MadeAs(v)
  BY <1>12 DEF v
<1>15. conn' = [conn EXCEPT ![p] = d] /\ conn'[p] = d
  BY <1>2 DEF PeersInv
<1>16. Later(conn[p].receiver.reassembler, d.receiver.reassembler) /\ Counts(d, v)
       /\ Grows(ViewOf(conn[p], v), ViewOf(d, v))
  BY <1>6 DEF Advances
<1>17. HasRead(p)'
  BY <1>15, <1>16 DEF CountsInv, HasRead, Later
<1>18. Writes(conn[p].sender.stream, d.sender.stream)
  BY <1>6
<1>19. got' = [q \in Peers |-> got'[q]] /\ got'[o] = got[o]
  BY DEF CountsInv
<1> QED
  BY <1>6, <1>7, <1>8, <1>13, <1>14, <1>15, <1>16, <1>17, <1>18, <1>19, OneMoves DEF v, Later

\* What the step lemmas start from: the connection of p among the numbers of the other end.
LEMMA PeerFacts ==
  ASSUME NEW Paths, PeersInv(Paths), CountsInv, NEW p \in Peers
  PROVE  LET c == conn[p]
             v == PeerView(Other(p))
         IN  /\ Among(c, v) /\ Concluded(c) /\ Whole(c)
             /\ GoodConnection(c, conn[Other(p)].sender.fin_sent) /\ GoodSender(c.sender)
             /\ net \in [Peers -> Paths]
             /\ \A q \in Peers : OnPath(net[q]) \subseteq MadeAs(PeerView(Other(q)))
<1> DEFINE c == conn[p]
           v == PeerView(Other(p))
<1>1. Among(c, v)
  BY PeerViews
<1>2. GoodConnection(c, conn[Other(p)].sender.fin_sent) /\ net \in [Peers -> Paths]
  BY DEF PeersInv
<1>3. Concluded(c) /\ \A q \in Peers : OnPath(net[q]) \subseteq MadeAs(PeerView(Other(q)))
  BY DEF CountsInv
<1> HIDE DEF c, v
<1>4. GoodSender(c.sender) /\ Whole(c)
  BY <1>1, AmongFacts DEF Whole
<1> QED
  BY <1>1, <1>2, <1>3, <1>4 DEF c, v

\* A step that is not a call of its application adds nothing to its stream.
LEMMA MovesWrites ==
  ASSUME NEW v, NEW c, Among(c, v), NEW d, Moves(c, d, v)
  PROVE  Advances(c, d, v) /\ Writes(c.sender.stream, d.sender.stream)
<1>1. c.sender.stream.written \in Nat
  BY AmongFacts, SenderFields, StreamFields
<1> QED
  BY <1>1 DEF Moves, SameStream, Writes

LEMMA ConnectCounts ==
  ASSUME NEW Paths, HonestNetwork(Paths), PeersInv(Paths), CountsInv, Connect
  PROVE  CountsInv' /\ Turned
<1> DEFINE c == connect(conn[Client])
           v == PeerView(Other(Client))
<1>1. Client \in Peers
  BY DEF Peers
<1>2. /\ Among(conn[Client], v) /\ Whole(conn[Client]) /\ net \in [Peers -> Paths]
      /\ GoodConnection(conn[Client], conn[Other(Client)].sender.fin_sent)
      /\ \A q \in Peers : OnPath(net[q]) \subseteq MadeAs(PeerView(Other(q)))
  BY <1>1, PeerFacts
<1>3. Becomes(Client, c, net) /\ got' = got
  BY DEF Connect
<1> HIDE DEF v
<1>4. Goes(conn[Client], c, conn[Other(Client)].sender.fin_sent) /\ Moves(conn[Client], c, v) /\ Concluded(c)
  BY <1>2, Connects, ConnectsMoves, ConnectIsActive
<1> HIDE DEF c
<1>5. Advances(conn[Client], c, v) /\ Writes(conn[Client].sender.stream, c.sender.stream)
  BY <1>2, <1>4, MovesWrites
<1> QED
  BY <1>1, <1>2, <1>3, <1>4, <1>5, BecomesCounts DEF v

LEMMA WriteCounts ==
  ASSUME NEW Paths, HonestNetwork(Paths), ShortStreams, PeersInv(Paths), CountsInv, NEW p \in Peers,
         NEW n \in 1 .. Len(Data[p]), AppWrite(p, n)
  PROVE  CountsInv' /\ Turned
<1> DEFINE w    == conn[p].sender.stream.written
           data == SubSeq(Data[p], w + 1, w + n)
           c    == conn_write(conn[p], data)
           v    == PeerView(Other(p))
<1>1. /\ Among(conn[p], v) /\ Whole(conn[p]) /\ Concluded(conn[p]) /\ GoodSender(conn[p].sender)
      /\ GoodConnection(conn[p], conn[Other(p)].sender.fin_sent) /\ net \in [Peers -> Paths]
      /\ \A q \in Peers : OnPath(net[q]) \subseteq MadeAs(PeerView(Other(q)))
  BY PeerFacts
<1>2. w + n <= Len(Data[p]) /\ Becomes(p, c, net) /\ got' = got /\ ~conn[p].sender.stream.ended
  BY DEF AppWrite, stream_in
<1>3. conn[p].is_active = TRUE
  BY <1>1 DEF AppWrite, Concluded
<1>4. w \in Nat
  BY <1>1, SenderFields, StreamFields
<1> HIDE DEF v
<1>5. w = conn[p].sender.stream.written
  OBVIOUS
<1> HIDE DEF w
<1>6. data \in Seq(Byte) /\ Len(data) = n /\ Matches(data, w, Data[p])
  <2> DEFINE x == w + 1
             y == w + n
             e == Len(Data[p])
  <2>1. Data[p] \in Seq(Byte) /\ e \in Nat
    BY PeersAssumption
  <2>2. x \in Nat /\ x > 0 /\ y \in Nat /\ y <= e /\ x <= y + 1 /\ y - x + 1 = n
    <3>1. w + n <= e /\ n \in 1 .. e
      BY <1>2
    <3> HIDE DEF e
    <3> QED
      BY <1>4, <2>1, <3>1
  <2>3. x \in 1 .. e + 1 /\ y \in x - 1 .. e
    BY <2>1, <2>2
  <2> HIDE DEF x, y
  <2>4. /\ SubSeq(Data[p], x, y) \in Seq(Byte) /\ Len(SubSeq(Data[p], x, y)) = y - x + 1
        /\ \A i \in 1 .. y - x + 1 : SubSeq(Data[p], x, y)[i] = Data[p][x + i - 1]
    BY <2>1, <2>2, <2>3, PartOf, SubSeqProperties
  <2>5. data = SubSeq(Data[p], x, y)
    BY DEF x, y
  <2> HIDE DEF data
  <2>6. data \in Seq(Byte) /\ Len(data) = n /\ \A i \in 1 .. n : data[i] = Data[p][x + i - 1]
    BY <2>2, <2>4, <2>5
  <2>7. \A i \in 1 .. n : x + i - 1 = w + i
    BY <1>4 DEF x
  <2> HIDE DEF x
  <2>8. \A i \in 1 .. n : data[i] = Data[p][w + i]
    BY <2>6, <2>7
  <2> QED
    BY <2>6, <2>8 DEF Matches
<1> HIDE DEF data
<1>7. w + Len(data) + 2 < HalfMOD /\ w + Len(data) <= Len(Data[p])
  <2> DEFINE e == Len(Data[p])
  <2>1. e \in Nat /\ e + 2 < HalfMOD
    BY PeersAssumption DEF ShortStreams
  <2>2. HalfMOD \in Nat
    BY HalfIsHalf
  <2>3. w + n <= e /\ Len(data) = n
    BY <1>2, <1>6
  <2> HIDE DEF e
  <2>4. w + n + 2 < HalfMOD /\ w + n <= e
    BY <1>4, <2>1, <2>2, <2>3
  <2> QED
    BY <2>3, <2>4 DEF e
<1>8. Goes(conn[p], c, conn[Other(p)].sender.fin_sent) /\ Concluded(c)
  BY <1>1, <1>3, <1>6, ConnWrite, WriteStaysActive
<1>9. v.back = Data[p]
  BY PeerViews DEF v
<1>10. /\ Advances(conn[p], c, v) /\ c.sender.stream.written \in w .. w + Len(data)
       /\ c.sender.stream.ended = conn[p].sender.stream.ended
  BY <1>1, <1>5, <1>6, <1>7, <1>9, ConnWriteAdvances
<1> HIDE DEF c
<1>11. Writes(conn[p].sender.stream, c.sender.stream)
  <2>1. w <= c.sender.stream.written
    BY <1>4, <1>6, <1>10
  <2> QED
    BY <1>2, <1>5, <1>10, <2>1 DEF Writes
<1> QED
  BY <1>1, <1>2, <1>8, <1>10, <1>11, BecomesCounts DEF v

LEMMA CloseCounts ==
  ASSUME NEW Paths, HonestNetwork(Paths), PeersInv(Paths), CountsInv, NEW p \in Peers, AppClose(p)
  PROVE  CountsInv' /\ Turned
<1> DEFINE c == end_input_stream(conn[p])
           v == PeerView(Other(p))
<1>1. /\ Among(conn[p], v) /\ Concluded(conn[p]) /\ net \in [Peers -> Paths]
      /\ GoodConnection(conn[p], conn[Other(p)].sender.fin_sent)
      /\ \A q \in Peers : OnPath(net[q]) \subseteq MadeAs(PeerView(Other(q)))
  BY PeerFacts
<1>2. ~conn[p].sender.stream.ended /\ Becomes(p, c, net) /\ got' = got
  BY DEF AppClose, stream_in
<1> HIDE DEF v
<1>3. Goes(conn[p], c, conn[Other(p)].sender.fin_sent) /\ Advances(conn[p], c, v) /\ Concluded(c)
  BY <1>1, <1>2, EndInputStream, EndInputAdvances, EndConcludes
<1>4. Writes(conn[p].sender.stream, c.sender.stream)
  <2>1. c.sender.stream.written = conn[p].sender.stream.written /\ c.sender.stream.ended
    BY <1>1, EndInputAdvances
  <2>2. conn[p].sender.stream.written \in Nat
    BY <1>1, AmongFacts, SenderFields, StreamFields
  <2> QED
    BY <2>1, <2>2 DEF Writes
<1> HIDE DEF c
<1> QED
  BY <1>1, <1>2, <1>3, <1>4, BecomesCounts DEF v

\* A connection takes a step that sends nothing: the paths stay.
LEMMA SilentStep ==
  ASSUME NEW Paths, PeersInv(Paths), CountsInv, NEW p \in Peers, NEW d,
         Goes(conn[p], d, conn[Other(p)].sender.fin_sent), Counts(d, PeerView(Other(p))),
         Grows(ViewOf(conn[p], PeerView(Other(p))), ViewOf(d, PeerView(Other(p)))), Concluded(d),
         Further(conn[p].receiver.reassembler, d.receiver.reassembler),
         Writes(conn[p].sender.stream, d.sender.stream),
         conn' = [conn EXCEPT ![p] = d], net' = net,
         got' = [q \in Peers |-> got'[q]], got'[Other(p)] = got[Other(p)], HasRead(p)'
  PROVE  CountsInv' /\ Turned
<1> DEFINE o == Other(p)
           v == PeerView(o)
           w == PeerView(p)
           z == ViewOf(d, v)
<1>1. o \in Peers /\ Other(o) = p
  BY TwoPeers
<1>2. /\ Among(conn[p], v) /\ v.fin = conn[o].sender.fin_sent /\ w = ViewOf(conn[p], v)
      /\ v.isn = Isn[o] /\ v.text = Data[o] /\ v.back = Data[p]
  BY PeerViews
<1>3. OnPath(net'[p]) \subseteq MadeAs(v) /\ OnPath(net'[o]) \subseteq MadeAs(w)
  BY <1>1 DEF CountsInv
<1> HIDE DEF w
<1>4. GoodConnection(d, v.fin) /\ Counts(d, v) /\ Grows(ViewOf(conn[p], v), ViewOf(d, v))
  BY <1>2 DEF Goes
<1> HIDE DEF v
<1>5. Among(d, v) /\ Grows(w, z)
  BY <1>2, <1>4 DEF Among
<1>6. GoodView(w) /\ GoodView(z)
  BY <1>2, <1>5, AmongFacts
<1>7. MadeAs(w) \subseteq MadeAs(z)
  BY <1>5, <1>6, MadeAsMore
<1>8. OnPath(net'[o]) \subseteq MadeAs(ViewOf(d, Side(o)))
  <2>1. z = ViewOf(d, Side(o))
    BY <1>1, <1>2 DEF ViewOf, View, Side
  <2> QED
    BY <1>3, <1>7, <2>1
<1> QED
  BY <1>3, <1>8, OneMoves DEF v

LEMMA ReadCounts ==
  ASSUME NEW Paths, PeersInv(Paths), CountsInv, NEW p \in Peers, NEW n \in Nat, AppRead(p, n)
  PROVE  CountsInv' /\ Turned
<1> DEFINE o == conn[p].receiver.reassembler.output
           u == pop_output(o, n)
           m == peekable(o, n)
           x == peek_output(o, n)
           e == got[p]
           g == e \o x
           d == [conn[p] EXCEPT !.receiver.reassembler = pop_assembled(@, n)]
           v == PeerView(Other(p))
<1>1. conn' = [conn EXCEPT ![p] = d] /\ conn'[p] = d /\ net' = net
  BY DEF AppRead, PeersInv
<1>2. /\ Among(conn[p], v) /\ Concluded(conn[p])
      /\ GoodConnection(conn[p], conn[Other(p)].sender.fin_sent)
  BY PeerFacts
<1>3. d = [conn[p] EXCEPT !.receiver.reassembler = pop_assembled(@, n)] /\ v.text = Data[Other(p)]
  BY PeerViews
<1> HIDE DEF d, v
<1>4. Goes(conn[p], d, conn[Other(p)].sender.fin_sent) /\ Concluded(d)
  BY <1>2, <1>3, ReadsOn, ReadConcludes
<1>5. /\ Counts(d, v) /\ ViewOf(d, v) = ViewOf(conn[p], v) /\ d.sender = conn[p].sender
      /\ d.receiver.reassembler.output = u
  <2>1. u = pop_output(conn[p].receiver.reassembler.output, n)
    OBVIOUS
  <2> HIDE DEF u
  <2>2. /\ Counts(d, v) /\ ViewOf(d, v) = ViewOf(conn[p], v) /\ d.sender = conn[p].sender
        /\ inbound_stream(d) = u
    BY <1>2, <1>3, <2>1, ReadsCounts
  <2> QED
    BY <2>2 DEF inbound_stream, stream_out
<1>6. Grows(ViewOf(conn[p], v), ViewOf(d, v))
  BY <1>2, <1>5, AmongFacts, GrowsNot
<1>7. /\ GoodStream(o) /\ Matches(o.buffer, o.read, v.text) /\ GoodStream(conn[p].sender.stream)
      /\ o.read \in Nat /\ o.written \in Nat /\ o.buffer \in Seq(Byte) /\ conn[p].sender.stream.written \in Nat
  BY <1>2, AmongFacts, SenderFields, StreamFields DEF GoodReceiver, GoodReassembler, ReceiverCounts, ReassemblerCounts
<1>8. u.ended = o.ended /\ u.written = o.written /\ u.read = o.read + m /\ m \in 0 .. Len(o.buffer)
  BY <1>7, PopStream
<1>9. Further(conn[p].receiver.reassembler, d.receiver.reassembler) /\ Writes(conn[p].sender.stream, d.sender.stream)
  BY <1>5, <1>7, <1>8 DEF Further, Writes
<1>10. got' = [got EXCEPT ![p] = g]
  BY DEF AppRead, inbound_stream, stream_out
<1>11. e \in Seq(Byte) /\ Len(e) = o.read /\ Matches(e, 0, Data[Other(p)])
  BY DEF CountsInv, HasRead
<1>12. x = SubSeq(o.buffer, 1, m)
  BY DEF peek_output
<1> HIDE DEF e, o, u, m, x
<1>13. m \in Int /\ m <= Len(o.buffer) /\ Len(o.buffer) \in Nat
  BY <1>7, <1>8, LenProperties
<1>14. x \in Seq(Byte) /\ Len(x) = m
  <2> DEFINE r == o.buffer
  <2>1. r \in Seq(Byte) /\ m <= Len(r) /\ m \in Nat /\ x = SubSeq(r, 1, m)
    BY <1>7, <1>8, <1>12, <1>13
  <2> HIDE DEF r
  <2> QED
    BY <2>1, PartOf
<1>15. Matches(x, o.read, v.text)
  BY <1>7, <1>12, <1>13, MatchingFront
<1>16. g \in Seq(Byte) /\ Len(g) = o.read + m
  <2>1. g \in Seq(Byte) /\ Len(g) = Len(e) + Len(x)
    BY <1>11, <1>14, ConcatProperties
  <2> QED
    BY <1>11, <1>14, <2>1
<1>17. o.read = 0 + Len(e)
  BY <1>7, <1>11
<1>18. Matches(g, 0, Data[Other(p)])
  BY <1>3, <1>7, <1>11, <1>14, <1>15, <1>17, MatchingBoth
<1> HIDE DEF g
<1>19. HasRead(p)'
  <2>1. got'[p] = g
    BY <1>10 DEF CountsInv
  <2>2. conn'[p].receiver.reassembler.output.read = o.read + m
    BY <1>1, <1>5, <1>8
  <2> QED
    BY <1>16, <1>18, <2>1, <2>2 DEF HasRead
<1>20. got' = [q \in Peers |-> got'[q]] /\ got'[Other(p)] = got[Other(p)]
  BY <1>10, TwoPeers DEF CountsInv
<1> QED
  BY <1>1, <1>4, <1>5, <1>6, <1>9, <1>19, <1>20, SilentStep DEF v

LEMMA DeliverCounts ==
  ASSUME NEW Paths, HonestNetwork(Paths), PeersInv(Paths), CountsInv, NEW p \in Peers,
         NEW arrival \in Arrivals(net[p]), Deliver(p, arrival)
  PROVE  CountsInv' /\ Turned
<1> DEFINE seg   == arrival[1]
           c     == conn_segment_received(conn[p], seg)
           paths == [net EXCEPT ![p] = arrival[2]]
           v     == PeerView(Other(p))
           f     == conn[Other(p)].sender.fin_sent
<1>1. /\ Among(conn[p], v) /\ Concluded(conn[p]) /\ net \in [Peers -> Paths] /\ GoodConnection(conn[p], f)
      /\ \A q \in Peers : OnPath(net[q]) \subseteq MadeAs(PeerView(Other(q)))
  BY PeerFacts
<1>2. seg \in OnPath(net[p]) /\ arrival[2] \in Paths /\ OnPath(arrival[2]) \subseteq OnPath(net[p])
  BY <1>1 DEF HonestNetwork, Honest
<1>3. Becomes(p, c, paths) /\ got' = got
  BY DEF Deliver
<1>4. seg \in MadeAs(v) /\ OnPath(net[p]) \subseteq MadeBy(f)
  BY <1>1, <1>2 DEF PeersInv
<1>5. paths \in [Peers -> Paths] /\ \A q \in Peers : OnPath(paths[q]) \subseteq MadeAs(PeerView(Other(q)))
  BY <1>1, <1>2
<1>6. seg \in MadeBy(f)
  BY <1>2, <1>4
<1> HIDE DEF seg, v, paths
<1>7. Goes(conn[p], c, f) /\ Moves(conn[p], c, v) /\ Concluded(c)
  BY <1>1, <1>4, <1>6, ConnSegmentReceived, ConnSegmentReceivedMoves, ReceivedConcludes
<1> HIDE DEF c
<1>8. Advances(conn[p], c, v) /\ Writes(conn[p].sender.stream, c.sender.stream)
  BY <1>1, <1>7, MovesWrites
<1> QED
  BY <1>3, <1>5, <1>7, <1>8, BecomesCounts DEF v, f

\* Nothing happens at either end.
LEMMA NothingCounts ==
  ASSUME NEW Paths, PeersInv(Paths), CountsInv, conn' = conn, got' = got,
         \A q \in Peers : OnPath(net'[q]) \subseteq MadeAs(PeerView(Other(q)))
  PROVE  CountsInv' /\ Turned
<1>1. \A q \in Peers : PeerView(q)' = PeerView(q) /\ (HasRead(q) => HasRead(q)')
  BY DEF PeerView, Side, HasRead
<1>2. CountsInv'
  BY <1>1, TwoPeers DEF CountsInv
<1>3. Client \in Peers
  BY DEF Peers
<1>4. /\ conn[Client].receiver.reassembler.output.written \in Nat
      /\ conn[Client].sender.stream.written \in Nat
  BY <1>3, PeerFacts, AmongFacts, SenderFields, StreamFields DEF GoodReceiver, GoodReassembler
<1>5. Turn(Client)
  BY <1>4 DEF Turn, Writes, Further, stream_in
<1> QED
  BY <1>2, <1>3, <1>5 DEF Turned

LEMMA LoseCounts ==
  ASSUME NEW Paths, HonestNetwork(Paths), PeersInv(Paths), CountsInv, NEW p \in Peers,
         NEW rest \in Losses(net[p]), Lose(p, rest)
  PROVE  CountsInv' /\ Turned
<1>1. net' = [net EXCEPT ![p] = rest] /\ conn' = conn /\ got' = got
  BY DEF Lose
<1>2. /\ net \in [Peers -> Paths]
      /\ \A q \in Peers : OnPath(net[q]) \subseteq MadeAs(PeerView(Other(q)))
  BY PeerFacts
<1>3. OnPath(rest) \subseteq OnPath(net[p])
  BY <1>2 DEF HonestNetwork, Honest
<1>4. \A q \in Peers : OnPath(net'[q]) \subseteq MadeAs(PeerView(Other(q)))
  BY <1>1, <1>2, <1>3
<1> QED
  BY <1>1, <1>4, NothingCounts

LEMMA TickingCounts ==
  ASSUME NEW Paths, HonestNetwork(Paths), PeersInv(Paths), CountsInv, NEW p \in Peers,
         NEW ms \in TickSizes, Tick(p, ms)
  PROVE  CountsInv' /\ Turned
<1> DEFINE c == conn_tick(conn[p], ms)
           v == PeerView(Other(p))
<1>1. /\ Among(conn[p], v) /\ Concluded(conn[p]) /\ net \in [Peers -> Paths]
      /\ GoodConnection(conn[p], conn[Other(p)].sender.fin_sent)
      /\ \A q \in Peers : OnPath(net[q]) \subseteq MadeAs(PeerView(Other(q)))
  BY PeerFacts
<1>2. Becomes(p, c, net) /\ got' = got /\ ms \in Nat
  BY PeersAssumption DEF Tick
<1> HIDE DEF v
<1>3. Goes(conn[p], c, conn[Other(p)].sender.fin_sent) /\ Moves(conn[p], c, v) /\ Concluded(c)
  BY <1>1, <1>2, ConnTick, ConnTickMoves, TickConcludes
<1> HIDE DEF c
<1>4. Advances(conn[p], c, v) /\ Writes(conn[p].sender.stream, c.sender.stream)
  BY <1>1, <1>3, MovesWrites
<1> QED
  BY <1>1, <1>2, <1>3, <1>4, BecomesCounts DEF v

LEMMA AbortCounts ==
  ASSUME NEW Paths, PeersInv(Paths), CountsInv, NEW p \in Peers, Abort(p)
  PROVE  CountsInv' /\ Turned
<1> DEFINE c == set_rst_state(conn[p], TRUE)
           d == [c EXCEPT !.segments_out = <<>>]
           v == PeerView(Other(p))
<1>1. conn = [q \in Peers |-> conn[q]]
  BY DEF PeersInv
<1>2. conn' = [conn EXCEPT ![p] = d] /\ net' = net /\ got' = got
  BY <1>1, Zenon DEF Abort
<1>3. /\ Among(conn[p], v) /\ Whole(conn[p]) /\ GoodSender(conn[p].sender)
      /\ GoodConnection(conn[p], conn[Other(p)].sender.fin_sent)
  BY PeerFacts
<1>4. v.fin = conn[Other(p)].sender.fin_sent
  BY PeerViews
<1> HIDE DEF v
<1>5. Goes(conn[p], c, v.fin) /\ Moves(conn[p], c, v) /\ Concluded(c)
  BY <1>3, <1>4, SetRstState, SetRstMoves, RstConcludes
<1> HIDE DEF c
<1>6. Among(c, v)
  BY <1>3, <1>5, AmongOn
<1>7. /\ Goes(conn[p], d, v.fin) /\ Advances(conn[p], d, v)
      /\ d.is_active = c.is_active /\ d.sender = c.sender /\ d.receiver = c.receiver
  BY <1>3, <1>5, <1>6, Drained, DrainedAdvances DEF Moves
<1> HIDE DEF d
<1>8. Concluded(d)
  BY <1>5, <1>7, StaysConcluded
<1>9. Counts(d, v) /\ Grows(ViewOf(conn[p], v), ViewOf(d, v)) /\ Later(conn[p].receiver.reassembler, d.receiver.reassembler)
  BY <1>7 DEF Advances
<1>10. Writes(conn[p].sender.stream, d.sender.stream)
  BY <1>3, <1>5, <1>7, MovesWrites
<1>11. HasRead(p)'
  BY <1>1, <1>2, <1>9 DEF CountsInv, HasRead, Later
<1>12. got' = [q \in Peers |-> got'[q]] /\ got'[Other(p)] = got[Other(p)]
  BY <1>2 DEF CountsInv
<1> QED
  BY <1>2, <1>4, <1>7, <1>8, <1>9, <1>10, <1>11, <1>12, SilentStep DEF v, Later

\* A new connection has counted nothing, whatever the view it is given.
LEMMA NewCounts ==
  ASSUME NEW isn \in WrappingInt32, NEW v, GoodView(v), v.to = isn, v.acked = 0, 2 < HalfMOD
  PROVE  LET c == NewConnection(isn, SendCapacity, RecvCapacity)
         IN  /\ Counts(c, v) /\ Concluded(c) /\ c.receiver.reassembler.output.read = 0
             /\ \A x : ViewOf(c, x) = [isn |-> isn, next |-> 0, read |-> 0, fin |-> FALSE, acked |-> 0,
                                       to |-> x.isn, text |-> x.back, back |-> x.text]
<1> DEFINE s    == NewSender(isn, SendCapacity)
           rcv  == NewReceiver(RecvCapacity)
           r    == NewReassembler(RecvCapacity)
           none == <<>>
           c    == NewConnection(isn, SendCapacity, RecvCapacity)
<1>1. /\ c.sender = s /\ c.receiver = rcv /\ c.segments_out = none /\ c.is_active = TRUE
      /\ rcv.syn_received = FALSE /\ rcv.reassembler = r
  BY DEF NewConnection, NewReceiver
<1>2. /\ s.isn = isn /\ s.last_ack = 0 /\ s.next = 0 /\ s.fin_sent = FALSE
      /\ s.outstanding = none /\ s.segments_out = none /\ s.stream.written = 0 /\ s.stream.read = 0
      /\ s.stream.buffer = none
  BY DEF NewSender, NewByteStream
<1>3. /\ r.output.written = 0 /\ r.output.read = 0 /\ r.output.buffer = none /\ r.next = 0 /\ r.strs = none /\ r.eof_idx = NoEof /\ r.output.ended = FALSE
  BY DEF NewReassembler, NewByteStream
<1>4. \A S : none \in Seq(S)
  OBVIOUS
<1>5. DOMAIN none = {} /\ \A from, text : Matches(none, from, text)
  BY DEF Matches
<1> HIDE DEF s, rcv, r, none, c
<1>6. ReassemblerCounts(r, v)
  BY <1>3, <1>5 DEF ReassemblerCounts, GoodView
<1>7. ReceiverCounts(rcv, v)
  BY <1>1, <1>6 DEF ReceiverCounts
<1>8. Acked(rcv) = 0
  BY <1>1 DEF Acked, has_ackno
<1>9. SenderCounts(s, Acked(rcv), v)
  <2>1. 0 <= Len(v.back)
    BY LenProperties DEF GoodView
  <2> QED
    BY <1>2, <1>4, <1>5, <2>1 DEF SenderCounts
<1>10. Counts(c, v)
  BY <1>1, <1>4, <1>7, <1>9 DEF Counts
<1>11. Concluded(c)
  BY <1>1 DEF Concluded
<1>12. \A x : ViewOf(c, x) = [isn |-> isn, next |-> 0, read |-> 0, fin |-> FALSE, acked |-> 0,
                              to |-> x.isn, text |-> x.back, back |-> x.text]
  BY <1>1, <1>2, <1>8 DEF ViewOf, View
<1>13. c.receiver.reassembler.output.read = 0
  BY <1>1, <1>3
<1> QED
  BY <1>10, <1>11, <1>12, <1>13 DEF c

LEMMA InitCounts ==
  ASSUME NEW Paths, HonestNetwork(Paths), ShortStreams, Init
  PROVE  CountsInv
<1> DEFINE V(p) == [isn |-> Isn[p], next |-> 0, read |-> 0, fin |-> FALSE, acked |-> 0,
                     to |-> Isn[Other(p)], text |-> Data[p], back |-> Data[Other(p)]]
<1>1. \A p \in Peers : /\ conn[p] = NewConnection(Isn[p], SendCapacity, RecvCapacity)
                       /\ OnPath(net[p]) = {} /\ got[p] = <<>>
  BY DEF Init, HonestNetwork, Honest
<1>2. 2 < HalfMOD
  <2>1. Client \in Peers /\ HalfMOD \in Nat
    BY HalfIsHalf DEF Peers
  <2>2. Len(Data[Client]) \in Nat
    BY <2>1, PeersAssumption
  <2> QED
    BY <2>1, <2>2 DEF ShortStreams
<1>3. \A p \in Peers : Other(p) \in Peers /\ Other(Other(p)) = p /\ Isn[p] \in WrappingInt32
  BY TwoPeers, PeersAssumption
<1>4. ASSUME NEW p \in Peers
      PROVE  GoodView(V(p)) /\ V(p).to = Isn[Other(p)] /\ V(p).acked = 0
  <2>1. /\ Isn[p] \in WrappingInt32 /\ Isn[Other(p)] \in WrappingInt32
        /\ Data[p] \in Seq(Byte) /\ Data[Other(p)] \in Seq(Byte)
    BY <1>3, PeersAssumption
  <2> QED
    BY <1>2, <2>1 DEF GoodView, One
<1>5. ASSUME NEW p \in Peers
      PROVE  /\ PeerView(p) = V(p) /\ Concluded(conn[p]) /\ Counts(conn[p], V(Other(p)))
             /\ HasRead(p)
  <2>1. GoodView(V(Other(p))) /\ V(Other(p)).to = Isn[p] /\ V(Other(p)).acked = 0
    BY <1>3, <1>4
  <2> DEFINE v == V(Other(p))
             c == NewConnection(Isn[p], SendCapacity, RecvCapacity)
  <2> HIDE DEF v
  <2>2. /\ Counts(c, v) /\ Concluded(c) /\ c.receiver.reassembler.output.read = 0
        /\ \A x : ViewOf(c, x) = [isn |-> Isn[p], next |-> 0, read |-> 0, fin |-> FALSE, acked |-> 0,
                                  to |-> x.isn, text |-> x.back, back |-> x.text]
    BY <1>2, <1>3, <2>1, NewCounts DEF v
  <2>3. conn[p] = c /\ got[p] = <<>>
    BY <1>1
  <2> HIDE DEF c
  <2>4. HasRead(p)
    BY <2>2, <2>3 DEF HasRead, Matches
  <2>5. Side(Other(p)).isn = Isn[Other(p)] /\ Side(Other(p)).back = Data[p] /\ Side(Other(p)).text = Data[Other(p)]
    BY <1>3 DEF Side
  <2> QED
    BY <2>2, <2>3, <2>4, <2>5 DEF PeerView, v
<1> HIDE DEF V
<1>6. got = [p \in Peers |-> got[p]]
  BY DEF Init
<1> QED
  BY <1>1, <1>3, <1>5, <1>6 DEF CountsInv

LEMMA CountsStep ==
  ASSUME NEW Paths, HonestNetwork(Paths), ShortStreams, PeersInv(Paths), CountsInv, [Next]_vars
  PROVE  CountsInv' /\ Turned
<1>1. CASE Connect
  BY <1>1, ConnectCounts
<1>2. CASE \E p \in Peers : Step(p)
  <2>1. PICK p \in Peers : Step(p)
    BY <1>2
  <2>2. CASE \E n \in 1 .. Len(Data[p]) : AppWrite(p, n)
    BY <2>2, WriteCounts
  <2>3. CASE AppClose(p)
    BY <2>3, CloseCounts
  <2>4. CASE \E n \in 1 .. RecvCapacity : AppRead(p, n)
    <3>1. PICK n \in 1 .. RecvCapacity : AppRead(p, n)
      BY <2>4
    <3>2. n \in Nat
      BY PeersAssumption
    <3> QED
      BY <3>1, <3>2, ReadCounts
  <2>5. CASE \E arrival \in Arrivals(net[p]) : Deliver(p, arrival)
    BY <2>5, DeliverCounts
  <2>6. CASE \E path \in Losses(net[p]) : Lose(p, path)
    BY <2>6, LoseCounts
  <2>7. CASE Abort(p)
    BY <2>7, AbortCounts
  <2> QED
    BY <2>1, <2>2, <2>3, <2>4, <2>5, <2>6, <2>7 DEF Step
<1>3. CASE \E p \in Peers, ms \in TickSizes : Tick(p, ms)
  BY <1>3, TickingCounts
<1>4. CASE UNCHANGED vars
  <2>1. \A p \in Peers : OnPath(net'[p]) \subseteq MadeAs(PeerView(Other(p)))
    BY <1>4 DEF vars, CountsInv
  <2> QED
    BY <1>4, <2>1, NothingCounts DEF vars
<1> QED
  BY <1>1, <1>2, <1>3, <1>4 DEF Next

LEMMA CountsAreTruthful ==
  ASSUME NEW Paths, PeersInv(Paths), CountsInv
  PROVE  AcksAreTruthful
<1> SUFFICES ASSUME NEW p \in Peers, has_ackno(conn[Other(p)].receiver)
             PROVE  LET s == conn[p].sender  rcv == conn[Other(p)].receiver
                    IN  rcv.isn = s.isn /\ s.last_ack <= abs_ackno(rcv) /\ abs_ackno(rcv) <= s.next
  BY DEF AcksAreTruthful
<1> DEFINE o   == Other(p)
           s   == conn[p].sender
           rcv == conn[o].receiver
           v   == PeerView(o)
           w   == PeerView(p)
<1>1. o \in Peers /\ Other(o) = p
  BY TwoPeers
<1>2. Among(conn[p], v) /\ v.acked = Acked(rcv)
  BY PeerViews
<1>3. Among(conn[o], w) /\ w.isn = s.isn /\ w.next = s.next
  BY <1>1, PeerViews
<1> HIDE DEF v, w
<1>4. GoodView(w) /\ GoodReceiver(rcv, w.fin) /\ ReceiverCounts(rcv, w)
  BY <1>3, AmongFacts
<1>5. Acked(rcv) <= w.next /\ Acked(rcv) = abs_ackno(rcv)
  BY <1>4, AckedWasSent
<1>6. rcv.isn = w.isn
  BY <1>4 DEF ReceiverCounts, has_ackno
<1>7. s.last_ack <= v.acked
  BY <1>2 DEF Among, Counts, SenderCounts
<1> QED
  BY <1>2, <1>3, <1>5, <1>6, <1>7

LEMMA CountsDeliverAll ==
  ASSUME NEW Paths, PeersInv(Paths), CountsInv
  PROVE  CleanCloseDeliversAll
<1> SUFFICES ASSUME NEW p \in Peers, ended_cleanly(p)
             PROVE  LET out == inbound_stream(conn[Other(p)])
                    IN  out.ended /\ out.written = stream_in(p).written /\ stream_in(p).ended
  BY DEF CleanCloseDeliversAll
<1> DEFINE o   == Other(p)
           s   == conn[p].sender
           rcv == conn[o].receiver
           out == rcv.reassembler.output
           v   == PeerView(o)
           w   == PeerView(p)
<1>1. o \in Peers /\ Other(o) = p
  BY TwoPeers
<1>2. Among(conn[p], v) /\ v.acked = Acked(rcv)
  BY PeerViews
<1>3. Among(conn[o], w) /\ w.read = s.stream.read
  BY <1>1, PeerViews
<1> HIDE DEF v, w
<1>4. streams_closed(conn[p])
  BY DEF CountsInv, Concluded, IsOver, ended_cleanly, active, failed, stream_in
<1>5. s.stream.ended /\ s.next = s.stream.written + 2 /\ s.next - s.last_ack = 0
  BY <1>4 DEF streams_closed, all_sent, eof, bytes_in_flight
<1>6. GoodSender(s) /\ GoodReceiver(rcv, w.fin) /\ ReceiverCounts(rcv, w)
  BY <1>2, <1>3, AmongFacts
<1>7. s.last_ack <= Acked(rcv)
  BY <1>2 DEF Among, Counts, SenderCounts
<1>8. s.next \in Nat /\ s.last_ack \in Nat /\ GoodStream(s.stream)
  BY <1>6, SenderFields
<1>9. s.stream.read <= s.stream.written /\ s.stream.written \in Nat /\ s.stream.read \in Nat
  BY <1>8, StreamFields
<1>10. out.written \in Nat /\ out.written <= s.stream.read
  <2>1. GoodStream(out)
    BY <1>6 DEF GoodReceiver, GoodReassembler
  <2> QED
    BY <1>3, <1>6, <2>1, StreamFields DEF ReceiverCounts, ReassemblerCounts
<1>11. Acked(rcv) = IF has_ackno(rcv) THEN out.written + 1 + One(out.ended) ELSE 0
  BY DEF Acked, abs_ackno, stream_out
<1> DEFINE n == s.stream.written
           m == out.written
<1>12. s.next = n + 2 /\ s.last_ack = n + 2
  BY <1>5, <1>8, <1>9
<1> HIDE DEF n, m, s, out
<1>13. n \in Nat /\ m \in Nat /\ m <= n /\ n + 2 <= Acked(rcv)
  BY <1>7, <1>9, <1>10, <1>12 DEF n, m
<1>14. Acked(rcv) = m + 1 + One(out.ended)
  BY <1>11, <1>13 DEF m
<1>15. out.ended /\ m = n
  BY <1>13, <1>14 DEF One
<1> QED
  BY <1>5, <1>15 DEF inbound_stream, stream_out, stream_in, m, n, out, s

\* What an ackno says was assembled and what it acknowledges was sent, on every honest
\* network: the counters of unwrap(), push_substring() and ack_received() at the two ends
\* never cross, however often a segment or an acknowledgment is lost, repeated or late.
THEOREM AcksTellTheTruth ==
  ASSUME NEW Paths, HonestNetwork(Paths), ShortStreams
  PROVE  Spec => []AcksAreTruthful
<1>1. Init => PeersInv(Paths) /\ CountsInv
  BY InitPeers, InitCounts
<1>2. PeersInv(Paths) /\ CountsInv /\ [Next]_vars => PeersInv(Paths)' /\ CountsInv'
  BY PeersStep, CountsStep
<1>3. PeersInv(Paths) /\ CountsInv => AcksAreTruthful
  BY CountsAreTruthful
<1> QED
  BY <1>1, <1>2, <1>3, PTL DEF Spec

\* A connection that is over without an error has got all its bytes and the end of its stream
\* across: streams_closed(), by which active() decides, is never true too early.
THEOREM CleanClosesDeliver ==
  ASSUME NEW Paths, HonestNetwork(Paths), ShortStreams
  PROVE  Spec => []CleanCloseDeliversAll
<1>1. Init => PeersInv(Paths) /\ CountsInv
  BY InitPeers, InitCounts
<1>2. PeersInv(Paths) /\ CountsInv /\ [Next]_vars => PeersInv(Paths)' /\ CountsInv'
  BY PeersStep, CountsStep
<1>3. PeersInv(Paths) /\ CountsInv => CleanCloseDeliversAll
  BY CountsDeliverAll
<1> QED
  BY <1>1, <1>2, <1>3, PTL DEF Spec

-----------------------------------------------------------------------------
(* The pipe from one application to the other. *)

LEMMA Beginning ==
  ASSUME NEW text \in Seq(Byte), NEW n \in 0 .. Len(text)
  PROVE  /\ SubSeq(text, 1, n) \in Seq(Byte) /\ Len(SubSeq(text, 1, n)) = n
         /\ \A i \in 1 .. n : SubSeq(text, 1, n)[i] = text[i]
<1> DEFINE sub == SubSeq(text, 1, n)
<1>1. Len(text) \in Nat /\ n \in Nat /\ n <= Len(text)
  BY LenProperties
<1>2. sub \in Seq(Byte) /\ Len(sub) = n
  BY <1>1, PartOf
<1>3. \A i \in 1 .. Len(sub) : sub[i] = text[1 + i - 1]
  BY SubSeqProperties
<1> HIDE DEF sub
<1>4. \A i \in 1 .. n : sub[i] = text[i]
  BY <1>2, <1>3
<1> QED
  BY <1>2, <1>4 DEF sub

\* What matches a text from its start on is its beginning.
LEMMA MatchesBeginning ==
  ASSUME NEW text \in Seq(Byte), NEW data \in Seq(Byte), NEW n \in 0 .. Len(text), Len(data) = n,
         \A i \in 1 .. n : data[i] = text[i]
  PROVE  data = SubSeq(text, 1, n)
<1> DEFINE sub == SubSeq(text, 1, n)
<1>1. sub \in Seq(Byte) /\ Len(sub) = n /\ \A i \in 1 .. n : sub[i] = text[i]
  BY Beginning
<1> HIDE DEF sub
<1>2. data = sub
  BY <1>1, SeqEqual
<1> QED
  BY <1>2 DEF sub

LEMMA BeginningTwice ==
  ASSUME NEW text \in Seq(Byte), NEW m \in 0 .. Len(text), NEW n \in 0 .. m
  PROVE  SubSeq(SubSeq(text, 1, m), 1, n) = SubSeq(text, 1, n)
<1> DEFINE sub == SubSeq(text, 1, m)
           l   == Len(text)
           b   == SubSeq(sub, 1, n)
<1>1. l \in Nat
  BY LenProperties
<1>2. sub \in Seq(Byte) /\ Len(sub) = m /\ \A i \in 1 .. m : sub[i] = text[i]
  BY Beginning
<1> HIDE DEF sub
<1>3. n \in 0 .. Len(sub)
  BY <1>2
<1>4. b \in Seq(Byte) /\ Len(b) = n /\ \A i \in 1 .. n : b[i] = sub[i]
  BY <1>2, <1>3, Beginning
<1> HIDE DEF b
<1>5. n \in 0 .. l /\ 1 .. n \subseteq 1 .. m
  <2> HIDE DEF l
  <2> QED
    BY <1>1 DEF l
<1>6. \A i \in 1 .. n : b[i] = text[i]
  BY <1>2, <1>4, <1>5
<1>7. b = SubSeq(text, 1, n)
  <2> HIDE DEF l
  <2> QED
    BY <1>4, <1>5, <1>6, MatchesBeginning DEF l
<1> QED
  BY <1>7 DEF b, sub

\* What the application beside the peer of p has or may read is a beginning of what that of p
\* has written, and all of it once its stream has ended.
Piped(p) ==
  LET s   == conn[p].sender.stream
      out == conn[Other(p)].receiver.reassembler.output
  IN  /\ s.written \in Nat /\ out.written \in Nat /\ s.ended \in BOOLEAN /\ out.ended \in BOOLEAN
      /\ out.written <= s.written /\ s.written <= Len(Data[p])
      /\ got[Other(p)] \o out.buffer = SubSeq(Data[p], 1, out.written)
      /\ out.ended => s.ended /\ out.written = s.written

LEMMA CountsPipe ==
  ASSUME NEW Paths, PeersInv(Paths), CountsInv, NEW p \in Peers
  PROVE  Piped(p)
<1> DEFINE o   == Other(p)
           s   == conn[p].sender
           t   == s.stream
           rcv == conn[o].receiver
           out == rcv.reassembler.output
           w   == PeerView(p)
           g   == got[o]
           b   == out.buffer
           e   == g \o b
<1>1. o \in Peers /\ Other(o) = p
  BY TwoPeers
<1>2. /\ Among(conn[o], w) /\ w.read = t.read /\ w.fin = s.fin_sent /\ w.text = Data[p]
  BY <1>1, PeerViews
<1>3. /\ Among(conn[p], PeerView(o)) /\ PeerView(o).back = Data[p]
  BY PeerViews
<1>4. g \in Seq(Byte) /\ Len(g) = out.read /\ Matches(g, 0, Data[p])
  BY <1>1 DEF CountsInv, HasRead
<1> HIDE DEF w
<1>5. GoodSender(s) /\ t.written <= Len(Data[p])
  BY <1>3, AmongFacts, BesideFacts
<1>6. GoodReceiver(rcv, w.fin) /\ ReceiverCounts(rcv, w)
  BY <1>2, AmongFacts
<1>7. /\ GoodStream(t) /\ GoodStream(out) /\ (s.fin_sent => t.ended /\ t.buffer = <<>>)
  BY <1>5, <1>6, SenderFields DEF GoodReceiver, GoodReassembler, GoodSender
<1>8. /\ out.written <= t.read /\ Matches(b, out.read, Data[p])
      /\ out.ended => s.fin_sent /\ out.written = t.read
  BY <1>2, <1>6 DEF ReceiverCounts, ReassemblerCounts
<1>9. /\ t.written \in Nat /\ t.read \in Nat /\ t.written = t.read + Len(t.buffer) /\ Len(t.buffer) \in Nat
      /\ t.ended \in BOOLEAN /\ out.ended \in BOOLEAN
      /\ out.written \in Nat /\ out.read \in Nat /\ b \in Seq(Byte) /\ out.written = out.read + Len(b) /\ Len(b) \in Nat
  BY <1>7, StreamFields
<1>10. s.fin_sent => t.written = t.read
  BY <1>7, <1>9
<1> HIDE DEF s, t, out, g, b
<1>11. e \in Seq(Byte) /\ Len(e) = out.written
  <2>1. e \in Seq(Byte) /\ Len(e) = Len(g) + Len(b)
    BY <1>4, <1>9, ConcatProperties
  <2>2. Len(g) + Len(b) = out.written
    BY <1>4, <1>9
  <2> QED
    BY <2>1, <2>2
<1>12. Matches(e, 0, Data[p])
  <2>1. out.read = 0 + Len(g)
    BY <1>4, <1>9
  <2> QED
    BY <1>4, <1>8, <1>9, <2>1, MatchingBoth
<1> HIDE DEF e
<1>13. \A i \in 1 .. Len(e) : e[i] = Data[p][i]
  <2>1. \A i \in 1 .. Len(e) : 0 + i = i
    OBVIOUS
  <2> QED
    BY <1>12, <2>1 DEF Matches
<1>14. Data[p] \in Seq(Byte) /\ Len(Data[p]) \in Nat
  BY PeersAssumption
<1>15. out.written <= t.written /\ out.written \in 0 .. Len(Data[p])
  BY <1>5, <1>8, <1>9, <1>14
<1>16. e = SubSeq(Data[p], 1, out.written)
  BY <1>11, <1>13, <1>14, <1>15, MatchesBeginning
<1>17. out.ended => t.ended /\ out.written = t.written
  BY <1>7, <1>8, <1>10
<1> QED
  BY <1>5, <1>9, <1>15, <1>16, <1>17 DEF Piped, s, t, out, g, b, e

LEMMA PipeInit ==
  ASSUME Init
  PROVE  ToServer!ChanInit
<1>1. Client \in Peers /\ Server \in Peers
  BY DEF Peers
<1>2. /\ conn[Client] = NewConnection(Isn[Client], SendCapacity, RecvCapacity)
      /\ conn[Server] = NewConnection(Isn[Server], SendCapacity, RecvCapacity) /\ got[Server] = <<>>
  BY <1>1 DEF Init
<1>3. stream_in(Client).written = 0 /\ stream_in(Client).ended = FALSE
  BY <1>2 DEF stream_in, NewConnection, NewSender, NewByteStream
<1>4. inbound_stream(conn[Server]).buffer = <<>> /\ inbound_stream(conn[Server]).ended = FALSE
  BY <1>2 DEF inbound_stream, stream_out, NewConnection, NewReceiver, NewReassembler, NewByteStream
<1>5. SubSeq(Data[Client], 1, 0) = <<>>
  BY <1>1, PeersAssumption, SubSeqEmpty
<1>6. got[Server] \o inbound_stream(conn[Server]).buffer = <<>>
  BY <1>2, <1>4
<1> QED
  BY <1>3, <1>4, <1>5, <1>6 DEF ToServer!ChanInit

\* Each turn of the client puts bytes into the pipe or closes it, and each turn of the server lets
\* more of them, or its end, arrive; or the pipe stays as it is.
LEMMA PipeStep ==
  ASSUME Piped(Client), Piped(Client)', Turned
  PROVE  [ToServer!ChanNext]_(ToServer!chanVars)
<1> DEFINE T == Data[Client]
           l == Len(T)
           w == conn[Client].sender.stream.written
           x == conn'[Client].sender.stream.written
           a == conn[Server].receiver.reassembler.output.written
           b == conn'[Server].receiver.reassembler.output.written
           closed == conn[Client].sender.stream.ended
           shut == conn'[Client].sender.stream.ended
           ended == conn[Server].receiver.reassembler.output.ended
           over == conn'[Server].receiver.reassembler.output.ended
           S(n) == SubSeq(T, 1, n)
<1>1. /\ Client \in Peers /\ Server \in Peers /\ Other(Client) = Server /\ Other(Server) = Client
      /\ T \in Seq(Byte) /\ l \in Nat
  <2>1. Client \in Peers /\ Server \in Peers /\ Other(Client) = Server /\ Other(Server) = Client
    BY PeersAssumption DEF Peers, Other
  <2>2. T \in Seq(Byte)
    BY <2>1, PeersAssumption
  <2> HIDE DEF T
  <2>3. l \in Nat
    BY <2>2, LenProperties
  <2> QED
    BY <2>1, <2>2, <2>3
<1>2. /\ w \in Nat /\ a \in Nat /\ closed \in BOOLEAN /\ ended \in BOOLEAN /\ a <= w /\ w <= l
      /\ ended => closed /\ a = w
      /\ got[Server] \o inbound_stream(conn[Server]).buffer = S(a)
  <2>1. inbound_stream(conn[Server]) = conn[Other(Client)].receiver.reassembler.output
    BY <1>1 DEF inbound_stream, stream_out
  <2> QED
    BY <1>1, <2>1, Zenon DEF Piped
<1>3. /\ x \in Nat /\ b \in Nat /\ shut \in BOOLEAN /\ over \in BOOLEAN /\ b <= x /\ x <= l
      /\ over => shut /\ b = x
      /\ (got[Server] \o inbound_stream(conn[Server]).buffer)' = S(b)
  <2>1. inbound_stream(conn[Server])' = conn'[Other(Client)].receiver.reassembler.output
    BY <1>1 DEF inbound_stream, stream_out
  <2> QED
    BY <1>1, <2>1, Zenon DEF Piped
<1>4. /\ stream_in(Client).written = w /\ stream_in(Client)'.written = x
      /\ stream_in(Client).ended = closed /\ stream_in(Client)'.ended = shut
      /\ inbound_stream(conn[Server]).ended = ended /\ inbound_stream(conn[Server])'.ended = over
  BY DEF stream_in, inbound_stream, stream_out
<1>5. \A n \in 0 .. l : S(n) \in Seq(Byte) /\ Len(S(n)) = n
  BY <1>1, Beginning
<1>6. \A m, n \in Nat : m <= n /\ n <= l => SubSeq(S(n), 1, m) = S(m)
  <2>1. SUFFICES ASSUME NEW m \in Nat, NEW n \in Nat, m <= n, n <= l PROVE SubSeq(S(n), 1, m) = S(m)
    OBVIOUS
  <2>2. n \in 0 .. l /\ m \in 0 .. n
    BY <1>1, <2>1
  <2> QED
    BY <1>1, <2>2, BeginningTwice
<1>7. w \in 0 .. l /\ x \in 0 .. l /\ a \in 0 .. l /\ b \in 0 .. l
  <2> HIDE DEF l, w, x, a, b
  <2> QED
    BY <1>1, <1>2, <1>3
<1> HIDE DEF S
<1>8. CASE Turn(Client)
  <2>1. w <= x /\ (closed => shut) /\ (shut => x = w) /\ b = a /\ over = ended
    BY <1>1, <1>8 DEF Turn, Writes, stream_in
  <2> HIDE DEF l, w, x, a, b, closed, shut, ended, over
  <2>2. CASE w < x
    <3>1. ~closed /\ shut = closed
      BY <1>2, <1>3, <2>1, <2>2
    <3>2. S(x) \in Seq(Byte) /\ Len(S(x)) > Len(S(w)) /\ SubSeq(S(x), 1, Len(S(w))) = S(w)
      BY <1>2, <1>3, <1>5, <1>6, <1>7, <2>2
    <3>3. ToServer!Put
      BY <1>2, <1>3, <1>4, <2>1, <3>1, <3>2 DEF ToServer!Put, S
    <3> QED
      BY <3>3 DEF ToServer!ChanNext
  <2>3. CASE w = x /\ ~closed /\ shut
    <3>1. ToServer!Close
      BY <1>2, <1>3, <1>4, <2>1, <2>3 DEF ToServer!Close
    <3> QED
      BY <3>1 DEF ToServer!ChanNext
  <2>4. CASE w = x /\ shut = closed
    <3>1. UNCHANGED ToServer!chanVars
      BY <1>2, <1>3, <1>4, <2>1, <2>4 DEF ToServer!chanVars
    <3> QED
      BY <3>1
  <2> QED
    BY <1>2, <1>3, <2>1, <2>2, <2>3, <2>4
<1>9. CASE Turn(Server)
  <2>1. a <= b /\ (ended => over) /\ x = w /\ shut = closed
    BY <1>1, <1>9 DEF Turn, Further, stream_in
  <2> HIDE DEF l, w, x, a, b, closed, shut, ended, over
  <2>2. CASE ended
    <3>1. b = a /\ over = ended
      BY <1>2, <1>3, <2>1, <2>2
    <3>2. UNCHANGED ToServer!chanVars
      BY <1>2, <1>3, <1>4, <2>1, <3>1 DEF ToServer!chanVars
    <3> QED
      BY <3>2
  <2>3. CASE ~ended
    <3>1. Len(S(b)) \in Len(S(a)) .. Len(S(w)) /\ S(b) = SubSeq(S(w), 1, Len(S(b))) /\ (over => S(b) = S(w))
      <4>1. Len(S(b)) = b /\ Len(S(a)) = a /\ Len(S(w)) = w
        BY <1>5, <1>7
      <4>2. b \in a .. w /\ (over => b = w)
        BY <1>2, <1>3, <2>1
      <4>3. SubSeq(S(w), 1, b) = S(b)
        BY <1>2, <1>3, <1>6, <2>1
      <4> QED
        BY <4>1, <4>2, <4>3
    <3>2. ToServer!Arrive
      BY <1>2, <1>3, <1>4, <2>1, <2>3, <3>1 DEF ToServer!Arrive, S
    <3> QED
      BY <3>2 DEF ToServer!ChanNext
  <2> QED
    BY <1>2, <2>2, <2>3
<1> QED
  BY <1>8, <1>9 DEF Turned, Peers

\* The direction from the client to the server is a pipe, on every honest network: the bytes that
\* leave the server's stream are those that write() took at the client, in order and each once,
\* whatever was segmented, lost, repeated and reassembled on the way, and eof() is true of it only
\* after the last byte of a stream that the client has ended.
THEOREM ConnectionIsPipe ==
  ASSUME NEW Paths, HonestNetwork(Paths), ShortStreams
  PROVE  Spec => PipeToServer
<1>1. Init => PeersInv(Paths) /\ CountsInv
  BY InitPeers, InitCounts
<1>2. PeersInv(Paths) /\ CountsInv /\ [Next]_vars => PeersInv(Paths)' /\ CountsInv' /\ Turned
  BY PeersStep, CountsStep
<1>3. PeersInv(Paths) /\ CountsInv => Piped(Client)
  BY CountsPipe DEF Peers
<1>4. Piped(Client) /\ Piped(Client)' /\ Turned => [ToServer!ChanNext]_(ToServer!chanVars)
  BY PipeStep
<1>5. Init => ToServer!ChanInit
  BY PipeInit
<1> QED
  BY <1>1, <1>2, <1>3, <1>4, <1>5, PTL DEF Spec, PipeToServer, ToServer!ChanSpec

-----------------------------------------------------------------------------
(* The two networks of the runs are honest. *)

\* Delivery in any order and any number of times, of what was ever sent.
LEMMA AnyOrderIsHonest ==
  Honest(SUBSET Segment, AnyOrderEmpty, AnyOrderEnter, AnyOrderArrivals, AnyOrderLosses, AnyOrderOnPath)
<1>1. ASSUME NEW S \in SUBSET Segment, NEW segs \in Seq(Segment)
      PROVE  Elements(segs) \subseteq Segment
  BY DEF Elements
<1> HIDE DEF Segment
<1> QED
  BY <1>1 DEF Honest, AnyOrderEmpty, AnyOrderEnter, AnyOrderArrivals, AnyOrderLosses, AnyOrderOnPath

\* A queue that loses segments.
LEMMA FifoIsHonest ==
  Honest([queue : Seq(Segment), lost : Nat],
         FifoEmpty, FifoEnter, FifoArrivals, FifoLosses, FifoOnPath)
<1> DEFINE Queues == [queue : Seq(Segment), lost : Nat]
<1>1. FifoEmpty \in Queues /\ FifoOnPath(FifoEmpty) = {}
  BY DEF FifoEmpty, FifoOnPath, Elements
<1>2. ASSUME NEW f \in Queues, NEW segs \in Seq(Segment)
      PROVE  /\ FifoEnter(f, segs) \in Queues
             /\ FifoOnPath(FifoEnter(f, segs)) \subseteq FifoOnPath(f) \cup Elements(segs)
  <2>1. FifoEnter(f, segs) \in Queues /\ FifoEnter(f, segs).queue = f.queue \o segs
    <3>1. f.queue \o segs \in Seq(Segment)
      BY ConcatProperties
    <3> HIDE DEF Segment
    <3>2. \A q \in Seq(Segment) : [f EXCEPT !.queue = q] \in Queues /\ [f EXCEPT !.queue = q].queue = q
      OBVIOUS
    <3> QED
      BY <3>1, <3>2 DEF FifoEnter
  <2>2. \A i \in 1 .. Len(f.queue \o segs) :
          (f.queue \o segs)[i] \in Elements(f.queue) \cup Elements(segs)
    BY ConcatProperties DEF Elements
  <2> QED
    BY <2>1, <2>2 DEF FifoOnPath, Elements
<1>3. ASSUME NEW f \in Queues, f.queue # <<>>
      PROVE  /\ Head(f.queue) \in FifoOnPath(f)
             /\ Tail(f.queue) \in Seq(Segment)
             /\ Elements(Tail(f.queue)) \subseteq FifoOnPath(f)
  BY <1>3, HeadTailProperties DEF FifoOnPath, Elements
<1>4. ASSUME NEW f \in Queues, NEW arrival \in FifoArrivals(f)
      PROVE  /\ arrival[1] \in FifoOnPath(f)
             /\ arrival[2] \in Queues
             /\ FifoOnPath(arrival[2]) \subseteq FifoOnPath(f)
  <2>1. /\ f.queue # <<>>
        /\ arrival[1] = Head(f.queue)
        /\ arrival[2] = [f EXCEPT !.queue = Tail(f.queue)]
    <3>1. f.queue # <<>> /\ arrival = <<Head(f.queue), [f EXCEPT !.queue = Tail(f.queue)]>>
      BY <1>4, Zenon DEF FifoArrivals
    <3> DEFINE h == Head(f.queue)  g == [f EXCEPT !.queue = Tail(f.queue)]
    <3>2. arrival = <<h, g>>
      BY <3>1, Zenon
    <3> HIDE DEF h, g
    <3>3. arrival[1] = h /\ arrival[2] = g
      BY <3>2
    <3> QED
      BY <3>1, <3>3 DEF h, g
  <2> HIDE DEF Segment
  <2>2. arrival[2] \in Queues /\ arrival[2].queue = Tail(f.queue)
    BY <1>3, <2>1
  <2> QED
    BY <1>3, <2>1, <2>2 DEF FifoOnPath
<1>5. ASSUME NEW f \in Queues, NEW rest \in FifoLosses(f)
      PROVE  rest \in Queues /\ FifoOnPath(rest) \subseteq FifoOnPath(f)
  <2>1. f.queue # <<>> /\ rest = [queue |-> Tail(f.queue), lost |-> f.lost + 1]
    BY <1>5 DEF FifoLosses
  <2> HIDE DEF Segment
  <2>2. rest \in Queues /\ rest.queue = Tail(f.queue)
    BY <1>3, <2>1
  <2> QED
    BY <1>3, <2>1, <2>2 DEF FifoOnPath
<1> HIDE DEF Queues
<1>6. Honest(Queues, FifoEmpty, FifoEnter, FifoArrivals, FifoLosses, FifoOnPath)
  BY <1>1, <1>2, <1>4, <1>5, Zenon DEF Honest
<1> QED
  BY <1>6 DEF Queues
=============================================================================
