---------------------------- MODULE StreamCopyProofs ----------------------------
(***************************************************************************)
(* bidirectional_stream_copy implements two pipes, whatever is typed and   *)
(* sent, for every size of the streams, the copies and the kernel's        *)
(* queues.  The invariant follows the bytes: what was written at one end   *)
(* is what the other end has, what waits there, what the program holds and *)
(* what waits to be read, one after the other; and it says what poll()'s   *)
(* results and the flags at the descriptors still mean when they are used. *)
(*                                                                         *)
(* At the end, the Buffers in which the bytes are written and sent, for    *)
(* strings of any kind and length.                                         *)
(***************************************************************************)
EXTENDS StreamCopy, Buffers, SequenceTheorems, TLAPS

-----------------------------------------------------------------------------
(* Parts of a sequence. *)

\* s is the part of S that starts after its first k elements.
Part(S, k, s) ==
  /\ s \in Seq(Byte) /\ k + Len(s) <= Len(S)
  /\ \A i \in 1 .. Len(s) : s[i] = S[k + i]

\* Two adjacent parts make one.
LEMMA JoinParts ==
  ASSUME NEW S \in Seq(Byte), NEW k \in Nat, NEW a, Part(S, k, a), NEW b, Part(S, k + Len(a), b)
  PROVE  Part(S, k, a \o b) /\ Len(a \o b) = Len(a) + Len(b)
<1> DEFINE l == Len(a)
           m == Len(b)
           c == a \o b
<1>1. a \in Seq(Byte) /\ b \in Seq(Byte) /\ l \in Nat /\ m \in Nat /\ Len(S) \in Nat
  BY DEF Part
<1>2. (k + l) + m <= Len(S)
  BY DEF Part
<1>3. \A i \in 1 .. l : a[i] = S[k + i]
  BY DEF Part
<1>4. \A i \in 1 .. m : b[i] = S[(k + l) + i]
  BY DEF Part
<1>5. c \in Seq(Byte) /\ Len(c) = l + m /\ \A i \in 1 .. l + m : c[i] = IF i <= l THEN a[i] ELSE b[i - l]
  BY <1>1, ConcatProperties
<1> HIDE DEF c, l, m
<1>6. ASSUME NEW i \in 1 .. l + m
      PROVE  c[i] = S[k + i]
  <2>1. CASE i <= l
    BY <1>1, <1>3, <1>5, <2>1
  <2>2. CASE ~(i <= l)
    <3>1. i - l \in 1 .. m /\ (k + l) + (i - l) = k + i
      BY <1>1, <2>2
    <3> QED
      BY <1>1, <1>4, <1>5, <2>2, <3>1
  <2> QED
    BY <2>1, <2>2
<1>7. k + (l + m) <= Len(S)
  BY <1>1, <1>2
<1> QED
  BY <1>5, <1>6, <1>7 DEF Part, c, l, m

\* One part makes two.
LEMMA SplitPart ==
  ASSUME NEW S \in Seq(Byte), NEW k \in Nat, NEW s, Part(S, k, s), NEW n \in 0 .. Len(s)
  PROVE  LET a == SubSeq(s, 1, n)
             b == SubSeq(s, n + 1, Len(s))
         IN  /\ Part(S, k, a) /\ Len(a) = n
             /\ Part(S, k + n, b) /\ Len(b) = Len(s) - n
<1> DEFINE l == Len(s)
           a == SubSeq(s, 1, n)
           b == SubSeq(s, n + 1, l)
<1>1. s \in Seq(Byte) /\ l \in Nat /\ Len(S) \in Nat /\ n \in Nat /\ n <= l /\ k + l <= Len(S)
  BY DEF Part
<1>2. \A i \in 1 .. l : s[i] = S[k + i] /\ s[i] \in Byte
  BY DEF Part
<1> HIDE DEF l
<1>3. a \in Seq(Byte) /\ Len(a) = (IF 1 <= n THEN n - 1 + 1 ELSE 0) /\ \A i \in 1 .. n - 1 + 1 : a[i] = s[1 + i - 1]
  BY <1>1, <1>2, SubSeqProperties
<1>4. /\ b \in Seq(Byte) /\ Len(b) = (IF n + 1 <= l THEN l - (n + 1) + 1 ELSE 0)
      /\ \A i \in 1 .. l - (n + 1) + 1 : b[i] = s[(n + 1) + i - 1]
  <2>1. \A i \in n + 1 .. l : s[i] \in Byte
    BY <1>1, <1>2
  <2> QED
    BY <1>1, <2>1, SubSeqProperties
<1> HIDE DEF a, b
<1>5. Len(a) = n /\ Len(b) = l - n
  BY <1>1, <1>3, <1>4
<1>6. ASSUME NEW i \in 1 .. n
      PROVE  a[i] = S[k + i]
  <2>1. i \in 1 .. l /\ 1 + i - 1 = i /\ i \in 1 .. n - 1 + 1
    BY <1>1
  <2> QED
    BY <1>2, <1>3, <2>1
<1>7. ASSUME NEW i \in 1 .. l - n
      PROVE  b[i] = S[(k + n) + i]
  <2>1. n + i \in 1 .. l /\ (n + 1) + i - 1 = n + i /\ k + (n + i) = (k + n) + i /\ i \in 1 .. l - (n + 1) + 1
    BY <1>1
  <2> QED
    BY <1>2, <1>4, <2>1
<1>8. k + n <= Len(S) /\ (k + n) + (l - n) <= Len(S)
  BY <1>1
<1> QED
  BY <1>3, <1>4, <1>5, <1>6, <1>7, <1>8 DEF Part, a, b, l

\* The next element is a part.
LEMMA NextElement ==
  ASSUME NEW S \in Seq(Byte), NEW k \in Nat, NEW a, Part(S, k, a), k + Len(a) < Len(S)
  PROVE  LET b == Append(a, S[k + Len(a) + 1])
         IN  Part(S, k, b) /\ Len(b) = Len(a) + 1
<1> DEFINE l == Len(a)
           x == S[k + l + 1]
           b == Append(a, x)
<1>1. a \in Seq(Byte) /\ l \in Nat /\ Len(S) \in Nat /\ k + l + 1 \in 1 .. Len(S)
  BY DEF Part
<1>2. x \in Byte
  BY <1>1
<1>3. \A i \in 1 .. l : a[i] = S[k + i]
  BY DEF Part
<1> HIDE DEF x
<1>4. b \in Seq(Byte) /\ Len(b) = l + 1 /\ b[l + 1] = x /\ \A i \in 1 .. l : b[i] = a[i]
  BY <1>1, <1>2, AppendProperties
<1> HIDE DEF b, l
<1>5. \A i \in 1 .. l + 1 : b[i] = S[k + i]
  <2>1. k + (l + 1) = k + l + 1
    BY <1>1
  <2>2. b[l + 1] = S[k + (l + 1)]
    BY <1>4, <2>1 DEF x
  <2>3. \A i \in 1 .. l + 1 : i = l + 1 \/ i \in 1 .. l
    BY <1>1
  <2> QED
    BY <1>3, <1>4, <2>2, <2>3
<1>6. k + (l + 1) <= Len(S)
  BY <1>1
<1> QED
  BY <1>4, <1>5, <1>6 DEF Part, b, l, x

\* A part from the beginning is a beginning of every longer one.
LEMMA Beginning ==
  ASSUME NEW S \in Seq(Byte), NEW s, Part(S, 0, s), NEW n \in Nat, Len(s) <= n, n <= Len(S)
  PROVE  s = SubSeq(SubSeq(S, 1, n), 1, Len(s))
<1> DEFINE l == Len(s)
           w == SubSeq(S, 1, n)
           t == SubSeq(w, 1, l)
<1>1. s \in Seq(Byte) /\ l \in Nat /\ Len(S) \in Nat /\ l <= n /\ \A i \in 1 .. l : s[i] = S[i]
  BY DEF Part
<1>2. Part(S, 0, S)
  BY DEF Part
<1>3. Part(S, 0, w) /\ Len(w) = n
  BY <1>1, <1>2, SplitPart
<1> HIDE DEF w, l
<1>4. Part(S, 0, t) /\ Len(t) = l
  BY <1>1, <1>3, SplitPart
<1>5. t \in Seq(Byte) /\ \A i \in 1 .. l : t[i] = S[i]
  BY <1>1, <1>4 DEF Part
<1> HIDE DEF t
<1>6. s = t
  <2>1. Len(s) = l
    BY DEF l
  <2> QED
    BY <1>1, <1>4, <1>5, <2>1, SeqEqual
<1> QED
  BY <1>6 DEF l, t, w

-----------------------------------------------------------------------------
(* The invariant. *)

\* A stream that works and holds no more than it may.
Working(o) ==
  /\ o \in ByteStreams(Byte)
  /\ o.capacity = BufferSize /\ Len(o.buffer) <= BufferSize
  /\ ~o.error

TypeOK ==
  /\ stdin \in [queue : Seq(Byte), typed : Nat, shut : BOOLEAN, hangs_up : BOOLEAN]
  /\ sock \in [tx : Seq(Byte), rx : Seq(Byte), tx_shut : BOOLEAN, rx_shut : BOOLEAN,
               fate : {"up", "ended", "reset"}]
  /\ far \in [wrote : Nat, shut : BOOLEAN, got : Seq(Byte), got_eof : BOOLEAN]
  /\ stdout \in [queue : Seq(Byte), shown : Seq(Byte), gone : BOOLEAN]
  /\ Working(outbound) /\ Working(inbound)
  /\ closed \subseteq {"stdout"}

\* The bytes that stages a, b, c and d of a pipe hold, in this order, are the first n of S.
Stages(S, n, a, b, c, d) ==
  /\ Part(S, 0, a)
  /\ Part(S, Len(a), b)
  /\ Part(S, Len(a) + Len(b), c)
  /\ Part(S, Len(a) + Len(b) + Len(c), d)
  /\ n = Len(a) + Len(b) + Len(c) + Len(d)

\* The far end has a beginning of what was typed; while the socket is up, the rest waits.
OutwardBytes ==
  /\ Part(Typed, 0, far.got) /\ Len(far.got) <= stdin.typed /\ stdin.typed <= Len(Typed)
  /\ sock.fate = "up" => Stages(Typed, stdin.typed, far.got, sock.tx, outbound.buffer, stdin.queue)

\* How the end of the outward stream travels.
OutwardEnd ==
  /\ "stdin" \in eofs => outbound.ended
  /\ outbound.ended /\ sock.fate = "up" => stdin.shut /\ stdin.queue = <<>>
  /\ sock.tx_shut => eof(outbound)
  /\ far.got_eof => stdin.shut /\ Len(far.got) = stdin.typed
  /\ far.got_eof /\ sock.fate = "up" => sock.tx_shut /\ sock.tx = <<>>

\* What poll() found of rules 1 and 2 still means the same when they are looked at.
OutwardResults ==
  /\ 1 \in DOMAIN results /\ results[1] = "ready"  => stdin.queue # <<>> \/ stdin.shut
  /\ 1 \in DOMAIN results /\ results[1] = "hangup" => stdin.queue = <<>> /\ stdin.shut
  /\ 2 \in DOMAIN results /\ results[2] = "hangup" => sock.fate # "up" \/ sock.tx_shut

InwardBytes ==
  /\ far.wrote <= Len(FarData)
  /\ Stages(FarData, far.wrote, stdout.shown, stdout.queue, inbound.buffer, sock.rx)

InwardEnd ==
  /\ "socket" \in eofs => inbound.ended
  /\ inbound.ended => sock.rx_shut /\ sock.rx = <<>>
  /\ sock.rx_shut => far.shut \/ sock.fate # "up"
  /\ far.shut \/ sock.fate # "up" => sock.rx_shut
  /\ "stdout" \in closed => eof(inbound)

InwardResults ==
  /\ 3 \in DOMAIN results => results[3] \in {"ready", "error"}
  /\ 3 \in DOMAIN results /\ results[3] = "ready" => sock.rx # <<>> \/ sock.rx_shut
  /\ 4 \in DOMAIN results => results[4] \in {"ready", "error"}

OutwardInv == OutwardBytes /\ OutwardEnd /\ OutwardResults
InwardInv  == InwardBytes /\ InwardEnd /\ InwardResults

CopyInv == TypeOK /\ OutwardInv /\ InwardInv

-----------------------------------------------------------------------------
(* What the calls on the streams do. *)

LEMMA WriteToStream ==
  ASSUME NEW o, Working(o), NEW data \in Seq(Byte), Len(data) <= remaining_capacity(o)
  PROVE  LET w == write(o, data)
         IN  /\ Working(w) /\ w.ended = o.ended
             /\ ~o.ended => w.buffer = o.buffer \o data
             /\ o.ended => w.buffer = o.buffer
<1> DEFINE l == Len(o.buffer)
           m == Len(data)
           n == accepts(o, m)
           b == o.buffer \o SubSeq(data, 1, n)
           v == o.written + n
           w == write(o, data)
<1>1. /\ o \in ByteStreams(Byte) /\ o.buffer \in Seq(Byte) /\ l \in Nat /\ m \in Nat
      /\ o.written \in Nat /\ BufferSize \in Nat /\ l <= BufferSize /\ o.capacity = BufferSize /\ ~o.error
  BY CopyAssumption DEF Working, ByteStreams
<1>2. m <= BufferSize - l
  BY <1>1 DEF remaining_capacity
<1>3. n = IF o.ended THEN 0 ELSE IF BufferSize - l <= m THEN BufferSize - l ELSE m
  BY <1>1 DEF accepts, remaining_capacity, Smaller
<1>4. w = [o EXCEPT !.buffer = b, !.written = v]
  BY <1>1, Zenon DEF write, ByteStreams
<1> HIDE DEF n, l, m, w
<1>5. n = IF o.ended THEN 0 ELSE m
  BY <1>1, <1>2, <1>3
<1>6. /\ b \in Seq(Byte) /\ Len(b) = l + n
      /\ ~o.ended => b = o.buffer \o data
      /\ o.ended => b = o.buffer
  <2>1. CASE o.ended
    <3>1. SubSeq(data, 1, n) = <<>>
      BY <1>5, <2>1, SubSeqEmpty
    <3>2. b = o.buffer
      BY <1>1, <3>1, ConcatEmptySeq
    <3> HIDE DEF b
    <3> QED
      BY <1>1, <1>5, <2>1, <3>2 DEF l
  <2>2. CASE ~o.ended
    <3>1. SubSeq(data, 1, n) = data
      BY <1>5, <2>2, SubSeqFull DEF m
    <3>2. b = o.buffer \o data
      BY <3>1
    <3> HIDE DEF b
    <3> QED
      BY <1>1, <1>5, <2>2, <3>2, ConcatProperties DEF l, m
  <2> QED
    BY <2>1, <2>2
<1>7. v \in Nat /\ l + n <= BufferSize
  BY <1>1, <1>2, <1>5
<1> HIDE DEF b, v
<1>8. /\ w \in ByteStreams(Byte) /\ w.buffer = b
      /\ w.capacity = o.capacity /\ w.error = o.error /\ w.ended = o.ended
  <2>1. ASSUME NEW p, p = [o EXCEPT !.buffer = b, !.written = v]
        PROVE  /\ p \in ByteStreams(Byte) /\ p.buffer = b
               /\ p.capacity = o.capacity /\ p.error = o.error /\ p.ended = o.ended
    BY <1>1, <1>6, <1>7, <2>1 DEF ByteStreams
  <2> QED
    BY <1>4, <2>1
<1> QED
  BY <1>1, <1>6, <1>7, <1>8 DEF Working, w

LEMMA EndStream ==
  ASSUME NEW o, Working(o)
  PROVE  LET e == end_input(o)
         IN  Working(e) /\ e.ended /\ e.buffer = o.buffer
<1> DEFINE e == end_input(o)
<1>1. o \in ByteStreams(Byte) /\ e = [o EXCEPT !.ended = TRUE]
  BY DEF Working, end_input
<1> HIDE DEF e
<1>2. /\ e \in ByteStreams(Byte) /\ e.buffer = o.buffer /\ e.ended = TRUE
      /\ e.capacity = o.capacity /\ e.error = o.error
  BY <1>1 DEF ByteStreams
<1> QED
  BY <1>2 DEF Working, e

LEMMA PopStream ==
  ASSUME NEW o, Working(o), NEW n \in 0 .. Len(o.buffer)
  PROVE  LET p == pop_output(o, n)
         IN  /\ Working(p) /\ p.ended = o.ended
             /\ p.buffer = SubSeq(o.buffer, n + 1, Len(o.buffer))
<1> DEFINE l == Len(o.buffer)
           b == SubSeq(o.buffer, n + 1, l)
           v == o.read + n
           p == pop_output(o, n)
<1>1. /\ o \in ByteStreams(Byte) /\ o.buffer \in Seq(Byte) /\ l \in Nat /\ n \in Nat
      /\ o.read \in Nat /\ BufferSize \in Nat /\ l <= BufferSize /\ o.capacity = BufferSize /\ ~o.error
  BY CopyAssumption DEF Working, ByteStreams
<1>2. peekable(o, n) = n
  BY <1>1 DEF peekable, Smaller
<1>3. p = [o EXCEPT !.buffer = b, !.read = v]
  BY <1>1, <1>2, Zenon DEF pop_output, ByteStreams
<1>4. b \in Seq(Byte) /\ Len(b) = l - n
  <2>1. Part(o.buffer, 0, o.buffer)
    BY <1>1 DEF Part
  <2>2. Part(o.buffer, 0 + n, b) /\ Len(b) = l - n
    BY <1>1, <2>1, SplitPart
  <2> HIDE DEF b
  <2> QED
    BY <2>2 DEF Part
<1>5. v \in Nat /\ l - n <= BufferSize
  BY <1>1
<1> HIDE DEF b, v, p, l
<1>6. /\ p \in ByteStreams(Byte) /\ p.buffer = b
      /\ p.capacity = o.capacity /\ p.error = o.error /\ p.ended = o.ended
  BY <1>1, <1>3, <1>4, <1>5 DEF ByteStreams
<1> QED
  BY <1>1, <1>4, <1>5, <1>6 DEF Working, p, b, l

\* What a read takes from a queue.
LEMMA ReadPart ==
  ASSUME NEW queue \in Seq(Byte), NEW limit \in Nat
  PROVE  LET data == read_limited(queue, limit)
         IN  /\ data \in Seq(Byte)
             /\ Len(data) \in 0 .. Len(queue) /\ Len(data) <= limit
             /\ data = SubSeq(queue, 1, Len(data))
             /\ limit > 0 /\ data = <<>> => queue = <<>>
             /\ SubSeq(queue, Len(data) + 1, Len(queue)) \in Seq(Byte)
             /\ queue = <<>> => SubSeq(queue, Len(data) + 1, Len(queue)) = <<>>
<1> DEFINE l == Len(queue)
           n == Smaller(limit, l)
           data == SubSeq(queue, 1, n)
<1>1. l \in Nat /\ n = (IF limit <= l THEN limit ELSE l)
  BY DEF Smaller
<1>2. data = read_limited(queue, limit)
  BY DEF read_limited
<1> HIDE DEF n
<1>3. n \in 0 .. l /\ n <= limit
  BY <1>1
<1>4. Part(queue, 0, queue)
  BY DEF Part
<1>5. Part(queue, 0, data) /\ Len(data) = n /\ Part(queue, 0 + n, SubSeq(queue, n + 1, l))
      /\ Len(SubSeq(queue, n + 1, l)) = l - n
  BY <1>3, <1>4, SplitPart
<1>6. limit > 0 /\ data = <<>> => queue = <<>>
  <2>1. SUFFICES ASSUME limit > 0, data = <<>> PROVE queue = <<>>
    OBVIOUS
  <2>2. n = 0
    BY <1>5, <2>1
  <2>3. l = 0
    <3> HIDE DEF l
    <3> QED
      BY <1>1, <2>1, <2>2
  <2> QED
    BY <2>3
<1>7. queue = <<>> => SubSeq(queue, n + 1, l) = <<>>
  <2>1. SUFFICES ASSUME queue = <<>> PROVE l < n + 1
    BY <1>1, <1>3, SubSeqEmpty
  <2> QED
    BY <1>3, <2>1
<1>8. data \in Seq(Byte) /\ SubSeq(queue, n + 1, l) \in Seq(Byte)
  BY <1>5 DEF Part
<1>9. Len(data) = n
  BY <1>5
<1>10. data = SubSeq(queue, 1, n)
  OBVIOUS
<1> HIDE DEF data, l
<1>11. SubSeq(queue, Len(data) + 1, Len(queue)) = SubSeq(queue, n + 1, l)
  BY <1>9 DEF l
<1>12. data = SubSeq(queue, 1, Len(data)) /\ Len(data) \in 0 .. Len(queue) /\ Len(data) <= limit
  BY <1>3, <1>9, <1>10 DEF l
<1> QED
  BY <1>2, <1>6, <1>7, <1>8, <1>11, <1>12

\* What a write takes from a stream.
LEMMA WritePart ==
  ASSUME NEW o, Working(o), NEW queue \in Seq(Byte), NEW n \in write_sizes(peek_output(o, MaxCopyLength), queue)
  PROVE  /\ n \in 0 .. Len(o.buffer)
         /\ SubSeq(peek_output(o, MaxCopyLength), 1, n) = SubSeq(o.buffer, 1, n)
<1> DEFINE b == o.buffer
           l == Len(b)
           q == Len(queue)
           m == peekable(o, MaxCopyLength)
           data == SubSeq(b, 1, m)
<1>1. b \in Seq(Byte) /\ l \in Nat /\ q \in Nat /\ ~o.error /\ MaxCopyLength \in Nat /\ Room \in Nat
  BY CopyAssumption DEF Working, ByteStreams
<1>2. data = peek_output(o, MaxCopyLength)
  BY DEF peek_output
<1>3. m = IF MaxCopyLength <= l THEN MaxCopyLength ELSE l
  BY <1>1 DEF peekable, Smaller
<1> HIDE DEF m, b
<1>4. m \in 0 .. l
  BY <1>1, <1>3
<1>5. data \in Seq(Byte) /\ Len(data) = m
  <2>1. Part(b, 0, b)
    BY <1>1 DEF Part
  <2>2. Part(b, 0, data) /\ Len(data) = m
    BY <1>1, <1>4, <2>1, SplitPart
  <2> HIDE DEF data
  <2> QED
    BY <2>2 DEF Part
<1>6. n \in IF data = <<>> THEN {0} ELSE 1 .. (IF Room - q <= m THEN Room - q ELSE m)
  BY <1>2, <1>5 DEF write_sizes, Smaller
<1>7. n \in 0 .. m
  <2> HIDE DEF data, q
  <2> QED
    BY <1>1, <1>4, <1>6
<1>8. SubSeq(data, 1, n) = SubSeq(b, 1, n)
  <2>1. CASE n = 0
    BY <2>1, SubSeqEmpty
  <2>2. CASE n # 0
    <3>1. n \in 1 .. m /\ m \in 1 .. l /\ 1 \in 1 .. l /\ m - 1 + 1 = m /\ 1 + 1 - 1 = 1 /\ 1 + n - 1 = n /\ 1 \in 1 .. m
      BY <1>1, <1>4, <1>7, <2>2
    <3> HIDE DEF l
    <3>2. SubSeq(SubSeq(b, 1, m), 1, n) = SubSeq(b, 1 + 1 - 1, 1 + n - 1)
      BY <1>1, <3>1, SubSeqOfSubSeq DEF l
    <3> QED
      BY <3>1, <3>2
  <2> QED
    BY <2>1, <2>2
<1>9. n \in 0 .. l
  BY <1>1, <1>4, <1>7
<1> QED
  BY <1>2, <1>8, <1>9 DEF b

-----------------------------------------------------------------------------
(* The rules. *)

\* The results that are left are those of the other rules.
LEMMA OtherResults ==
  ASSUME NEW i, NEW found, Turn(i, found)
  PROVE  /\ i \in DOMAIN results /\ results[i] = found
         /\ DOMAIN results' = DOMAIN results \ {i}
         /\ \A j \in DOMAIN results' : j # i /\ j \in DOMAIN results /\ results'[j] = results[j]
<1>1. results' = [j \in DOMAIN results \ {i} |-> results[j]] /\ i \in DOMAIN results /\ results[i] = found
  BY DEF Turn
<1> QED
  BY <1>1

\* Two streams that are not written to.
LEMMA Numbers ==
  /\ Typed \in Seq(Byte) /\ FarData \in Seq(Byte)
  /\ Len(Typed) \in Nat /\ Len(FarData) \in Nat
  /\ BufferSize \in Nat /\ Room \in Nat /\ MaxCopyLength \in Nat
BY CopyAssumption

\* The bytes of the last stage of a pipe move on.
LEMMA LastStageMoves ==
  ASSUME NEW S \in Seq(Byte), NEW n, NEW a, NEW b, NEW c, NEW d, Stages(S, n, a, b, c, d),
         NEW m \in 0 .. Len(d)
  PROVE  Stages(S, n, a, b, c \o SubSeq(d, 1, m), SubSeq(d, m + 1, Len(d)))
<1> DEFINE x == SubSeq(d, 1, m)
           y == SubSeq(d, m + 1, Len(d))
           k == Len(a) + Len(b)
           l == Len(c)
           u == Len(d)
<1>1. k \in Nat /\ l \in Nat /\ u \in Nat /\ Part(S, k, c) /\ Part(S, k + l, d) /\ n = k + l + u
  BY DEF Stages, Part
<1>2. Part(S, k + l, x) /\ Len(x) = m /\ Part(S, (k + l) + m, y) /\ Len(y) = u - m
  <2>1. k + l \in Nat
    BY <1>1
  <2> HIDE DEF k, l
  <2> QED
    BY <1>1, <2>1, SplitPart
<1> HIDE DEF x, y
<1>3. Part(S, k, c \o x) /\ Len(c \o x) = l + m
  <2> HIDE DEF k
  <2> QED
    BY <1>1, <1>2, JoinParts
<1>4. (k + l) + m = k + (l + m) /\ k + (l + m) + (u - m) = k + l + u
  <2> HIDE DEF k, l, u
  <2> QED
    BY <1>1
<1> HIDE DEF l, u
<1>5. Part(S, k + Len(c \o x), y) /\ n = k + Len(c \o x) + Len(y)
  <2> HIDE DEF k
  <2> QED
    BY <1>1, <1>2, <1>3, <1>4
<1> QED
  BY <1>3, <1>5 DEF Stages, x, y

\* The bytes of the third stage move on.
LEMMA ThirdStageMoves ==
  ASSUME NEW S \in Seq(Byte), NEW n, NEW a, NEW b, NEW c, NEW d, Stages(S, n, a, b, c, d),
         NEW m \in 0 .. Len(c)
  PROVE  Stages(S, n, a, b \o SubSeq(c, 1, m), SubSeq(c, m + 1, Len(c)), d)
<1> DEFINE x == SubSeq(c, 1, m)
           y == SubSeq(c, m + 1, Len(c))
           k == Len(a)
           l == Len(b)
           u == Len(c)
           v == Len(d)
<1>1. k \in Nat /\ l \in Nat /\ u \in Nat /\ v \in Nat
      /\ Part(S, k, b) /\ Part(S, k + l, c) /\ Part(S, k + l + u, d) /\ n = k + l + u + v
  BY DEF Stages, Part
<1>2. Part(S, k + l, x) /\ Len(x) = m /\ Part(S, (k + l) + m, y) /\ Len(y) = u - m
  <2>1. k + l \in Nat
    BY <1>1
  <2> HIDE DEF k, l
  <2> QED
    BY <1>1, <2>1, SplitPart
<1> HIDE DEF x, y
<1>3. Part(S, k, b \o x) /\ Len(b \o x) = l + m
  <2> HIDE DEF k
  <2> QED
    BY <1>1, <1>2, JoinParts, SMTT(40)
<1>4. /\ (k + l) + m = k + (l + m)
      /\ k + (l + m) + (u - m) = k + l + u
      /\ k + (l + m) + (u - m) + v = k + l + u + v
  <2> HIDE DEF k, l, u, v
  <2> QED
    BY <1>1
<1> HIDE DEF l, u
<1>5. /\ Part(S, k + Len(b \o x), y) /\ Part(S, k + Len(b \o x) + Len(y), d)
      /\ n = k + Len(b \o x) + Len(y) + v
  <2> HIDE DEF k, v
  <2> QED
    BY <1>1, <1>2, <1>3, <1>4
<1> QED
  BY <1>3, <1>5 DEF Stages, x, y

\* The second stage arrives.
LEMMA SecondStageArrives ==
  ASSUME NEW S \in Seq(Byte), NEW n, NEW a, NEW b, NEW c, NEW d, Stages(S, n, a, b, c, d)
  PROVE  /\ Stages(S, n, a \o b, <<>>, c, d)
         /\ Len(a \o b) = Len(a) + Len(b)
<1> DEFINE k == Len(a)
           l == Len(b)
<1>1. k \in Nat /\ l \in Nat /\ Part(S, 0, a) /\ Part(S, k, b) /\ Part(S, k + l, c) /\ Len(S) \in Nat
  BY DEF Stages, Part
<1>2. Part(S, 0, a \o b) /\ Len(a \o b) = k + l
  <2>1. 0 + k = k
    BY <1>1
  <2> QED
    BY <1>1, <2>1, JoinParts
<1>3. k + l <= Len(S)
  BY <1>1 DEF Part
<1>4. Part(S, k + l, <<>>) /\ Len(<<>>) = 0 /\ (k + l) + 0 = k + l
  BY <1>1, <1>3, EmptySeq DEF Part
<1>5. Stages(S, n, a \o b, <<>>, c, d)
  BY <1>2, <1>4 DEF Stages
<1> QED
  BY <1>2, <1>5

\* One more element enters the last stage.
LEMMA LastStageGrows ==
  ASSUME NEW S \in Seq(Byte), NEW n \in Nat, n < Len(S),
         NEW a, NEW b, NEW c, NEW d, Stages(S, n, a, b, c, d)
  PROVE  Stages(S, n + 1, a, b, c, Append(d, S[n + 1])) /\ Append(d, S[n + 1]) \in Seq(Byte)
<1> DEFINE k == Len(a) + Len(b) + Len(c)
           e == Append(d, S[n + 1])
<1>1. k \in Nat /\ Part(S, k, d) /\ n = k + Len(d) /\ Len(d) \in Nat
  BY DEF Stages, Part
<1>2. Part(S, k, e) /\ Len(e) = Len(d) + 1
  <2> HIDE DEF k
  <2>1. Part(S, k, Append(d, S[k + Len(d) + 1])) /\ Len(Append(d, S[k + Len(d) + 1])) = Len(d) + 1
    BY <1>1, NextElement
  <2> QED
    BY <1>1, <2>1
<1> HIDE DEF e
<1>3. n + 1 = k + Len(e)
  <2> HIDE DEF k
  <2> QED
    BY <1>1, <1>2
<1> QED
  BY <1>2, <1>3 DEF Stages, Part, e

\* Rule 1: what is read fits into the outbound stream, unless that has ended; then there is
\* nothing to read, or nobody at the other end.
LEMMA ReadInputStep ==
  ASSUME CopyInv, ReadInput
  PROVE  CopyInv'
<1> DEFINE limit == remaining_capacity(outbound)
           data  == read_limited(stdin.queue, limit)
           rest  == SubSeq(stdin.queue, Len(data) + 1, Len(stdin.queue))
           s     == write(outbound, data)
<1>1. /\ Turn(1, "ready")
      /\ stdin' = [stdin EXCEPT !.queue = rest]
      /\ eofs' = eofs_after_read("stdin", data, limit)
      /\ outbound' = IF "stdin" \in eofs' THEN end_input(s) ELSE s
      /\ inbound' = inbound /\ closed' = closed /\ sock' = sock /\ far' = far /\ stdout' = stdout
  BY DEF ReadInput
<1>2. TypeOK /\ OutwardInv /\ InwardInv
  BY DEF CopyInv
<1>3. stdin.queue \in Seq(Byte) /\ Working(outbound) /\ limit \in Nat
  BY <1>2, Numbers DEF TypeOK, Working, ByteStreams, remaining_capacity
<1>4. /\ data \in Seq(Byte) /\ Len(data) \in 0 .. Len(stdin.queue) /\ Len(data) <= limit
      /\ data = SubSeq(stdin.queue, 1, Len(data))
      /\ limit > 0 /\ data = <<>> => stdin.queue = <<>>
      /\ rest \in Seq(Byte) /\ (stdin.queue = <<>> => rest = <<>>)
  <2> HIDE DEF limit
  <2> QED
    BY <1>3, ReadPart
<1>5. /\ Working(s) /\ s.ended = outbound.ended
      /\ ~outbound.ended => s.buffer = outbound.buffer \o data
      /\ outbound.ended => s.buffer = outbound.buffer
  <2> HIDE DEF data
  <2> QED
    BY <1>3, <1>4, WriteToStream
<1> HIDE DEF limit, rest, s, data
<1>6. /\ stdin' \in [queue : Seq(Byte), typed : Nat, shut : BOOLEAN, hangs_up : BOOLEAN]
      /\ stdin'.queue = rest /\ stdin'.typed = stdin.typed /\ stdin'.shut = stdin.shut
  BY <1>1, <1>2, <1>4 DEF TypeOK
<1>7. /\ Working(outbound') /\ outbound'.buffer = s.buffer
      /\ "stdin" \in eofs' => outbound'.ended
      /\ outbound'.ended => outbound.ended \/ "stdin" \in eofs'
      /\ outbound.ended => outbound'.ended
  BY <1>1, <1>5, EndStream
<1>8. ("socket" \in eofs' <=> "socket" \in eofs) /\ ("stdin" \in eofs' => "stdin" \in eofs \/ (limit > 0 /\ data = <<>>))
  BY <1>1 DEF eofs_after_read
<1>9. /\ 1 \in DOMAIN results /\ results[1] = "ready" /\ 1 \notin DOMAIN results'
      /\ \A j \in DOMAIN results' : j \in DOMAIN results /\ results'[j] = results[j]
  BY <1>1, OtherResults
<1>10. TypeOK'
  BY <1>1, <1>2, <1>6, <1>7 DEF TypeOK
<1>11. InwardInv'
  BY <1>1, <1>2, <1>8, <1>9 DEF InwardInv, InwardBytes, InwardEnd, InwardResults, Stages
<1>12. OutwardBytes'
  <2>1. CASE sock.fate # "up"
    BY <1>1, <1>2, <1>6, <2>1 DEF OutwardInv, OutwardBytes
  <2>2. CASE sock.fate = "up" /\ outbound.ended
    <3>1. stdin.queue = <<>>
      BY <1>2, <2>2 DEF OutwardInv, OutwardEnd
    <3>2. outbound'.buffer = outbound.buffer /\ stdin'.queue = stdin.queue
      BY <1>4, <1>5, <1>6, <1>7, <2>2, <3>1
    <3> QED
      BY <1>1, <1>2, <1>6, <3>2 DEF OutwardInv, OutwardBytes
  <2>3. CASE sock.fate = "up" /\ ~outbound.ended
    <3>1. Stages(Typed, stdin.typed, far.got, sock.tx, outbound.buffer, stdin.queue)
      BY <1>2, <2>3 DEF OutwardInv, OutwardBytes
    <3>2. Stages(Typed, stdin.typed, far.got, sock.tx, outbound.buffer \o SubSeq(stdin.queue, 1, Len(data)), rest)
      BY <1>4, <3>1, Numbers, LastStageMoves DEF rest
    <3>3. Stages(Typed, stdin'.typed, far'.got, sock'.tx, outbound'.buffer, stdin'.queue)
      BY <1>1, <1>4, <1>5, <1>6, <1>7, <2>3, <3>2
    <3> QED
      BY <1>1, <1>2, <1>6, <3>3 DEF OutwardInv, OutwardBytes
  <2> QED
    BY <2>1, <2>2, <2>3
<1>13. OutwardEnd'
  <2>1. outbound'.ended /\ sock'.fate = "up" => stdin'.shut /\ stdin'.queue = <<>>
    <3>1. SUFFICES ASSUME outbound'.ended, sock.fate = "up" PROVE stdin.shut /\ stdin.queue = <<>>
      BY <1>1, <1>4, <1>6
    <3>2. CASE outbound.ended
      BY <1>2, <3>1, <3>2 DEF OutwardInv, OutwardEnd
    <3>3. CASE ~outbound.ended
      <4>1. "stdin" \notin eofs
        BY <1>2, <3>3 DEF OutwardInv, OutwardEnd
      <4>2. stdin.queue = <<>>
        BY <1>4, <1>7, <1>8, <3>1, <3>3, <4>1
      <4> QED
        BY <1>2, <1>9, <4>2 DEF OutwardInv, OutwardResults
    <3> QED
      BY <3>2, <3>3
  <2>2. sock'.tx_shut => eof(outbound')
    BY <1>1, <1>2, <1>5, <1>7 DEF OutwardInv, OutwardEnd, eof
  <2> QED
    BY <1>1, <1>2, <1>6, <1>7, <2>1, <2>2 DEF OutwardInv, OutwardEnd
<1>14. OutwardResults'
  BY <1>1, <1>2, <1>9 DEF OutwardInv, OutwardResults
<1> QED
  BY <1>10, <1>11, <1>12, <1>13, <1>14 DEF CopyInv, OutwardInv

\* When only results are used up, nothing changes.
LEMMA OnlyResults ==
  ASSUME CopyInv, UNCHANGED <<outbound, inbound, fds, world>>,
         \A j \in DOMAIN results' : j \in DOMAIN results /\ results'[j] = results[j]
  PROVE  CopyInv'
<1>1. TypeOK'
  BY DEF CopyInv, TypeOK, fds, world
<1>2. OutwardBytes' /\ OutwardEnd' /\ OutwardResults'
  BY DEF CopyInv, OutwardInv, OutwardBytes, OutwardEnd, OutwardResults, Stages, fds, world
<1>3. InwardBytes' /\ InwardEnd' /\ InwardResults'
  BY DEF CopyInv, InwardInv, InwardBytes, InwardEnd, InwardResults, Stages, fds, world
<1> QED
  BY <1>1, <1>2, <1>3 DEF CopyInv, OutwardInv, InwardInv

\* The socket after a write.
LEMMA SentOn ==
  ASSUME TypeOK, NEW bytes \in Seq(Byte), NEW last
  PROVE  LET k == sent_on(bytes, last)
         IN  /\ k \in [tx : Seq(Byte), rx : Seq(Byte), tx_shut : BOOLEAN, rx_shut : BOOLEAN,
                       fate : {"up", "ended", "reset"}]
             /\ k.tx = sock.tx \o bytes /\ k.rx = sock.rx /\ k.rx_shut = sock.rx_shut
             /\ k.fate = sock.fate /\ (k.tx_shut <=> sock.tx_shut \/ last)
<1> DEFINE b == sock.tx \o bytes
           w == [sock EXCEPT !.tx = b]
           k == sent_on(bytes, last)
<1>1. sock \in [tx : Seq(Byte), rx : Seq(Byte), tx_shut : BOOLEAN, rx_shut : BOOLEAN,
                fate : {"up", "ended", "reset"}]
  BY DEF TypeOK
<1>2. b \in Seq(Byte)
  BY <1>1, ConcatProperties
<1>3. k = IF last THEN [w EXCEPT !.tx_shut = TRUE] ELSE w
  BY DEF sent_on, shutdown_write
<1> HIDE DEF b, k
<1>4. /\ w \in [tx : Seq(Byte), rx : Seq(Byte), tx_shut : BOOLEAN, rx_shut : BOOLEAN,
                fate : {"up", "ended", "reset"}]
      /\ w.tx = b /\ w.rx = sock.rx /\ w.rx_shut = sock.rx_shut
      /\ w.fate = sock.fate /\ w.tx_shut = sock.tx_shut
  BY <1>1, <1>2
<1> HIDE DEF w
<1>5. CASE last
  BY <1>3, <1>4, <1>5 DEF b, k
<1>6. CASE ~last
  BY <1>3, <1>4, <1>6 DEF b, k
<1> QED
  BY <1>5, <1>6

\* Rule 2: what is written leaves the outbound stream, however little the kernel takes, and
\* the end follows the last byte.
LEMMA WriteSocketStep ==
  ASSUME CopyInv, WriteSocket
  PROVE  CopyInv'
<1> DEFINE data == peek_output(outbound, MaxCopyLength)
<1>1. /\ Turn(2, "ready")
      /\ inbound' = inbound /\ UNCHANGED fds /\ stdin' = stdin /\ far' = far /\ stdout' = stdout
      /\ \/ outbound' = outbound /\ sock' = sock
         \/ \E n \in write_sizes(data, sock.tx) :
              outbound' = pop_output(outbound, n) /\ sock' = sent_on(SubSeq(data, 1, n), eof(outbound'))
  BY DEF WriteSocket
<1>2. TypeOK /\ OutwardInv /\ InwardInv
  BY DEF CopyInv
<1>3. /\ 2 \notin DOMAIN results'
      /\ \A j \in DOMAIN results' : j \in DOMAIN results /\ results'[j] = results[j]
  BY <1>1, OtherResults
<1>4. eofs' = eofs /\ closed' = closed
  BY <1>1 DEF fds
<1>5. CASE outbound' = outbound /\ sock' = sock
  BY <1>1, <1>3, <1>5, OnlyResults DEF world
<1>6. ASSUME NEW n \in write_sizes(data, sock.tx),
             outbound' = pop_output(outbound, n), sock' = sent_on(SubSeq(data, 1, n), eof(outbound'))
      PROVE  CopyInv'
  <2> DEFINE b == outbound.buffer
             h == SubSeq(b, 1, n)
             t == SubSeq(b, n + 1, Len(b))
  <2>1. Working(outbound) /\ sock.tx \in Seq(Byte) /\ b \in Seq(Byte)
    BY <1>2 DEF TypeOK, Working, ByteStreams
  <2>2. n \in 0 .. Len(b) /\ SubSeq(data, 1, n) = h
    BY <1>6, <2>1, WritePart
  <2> HIDE DEF data
  <2>3. Working(outbound') /\ outbound'.ended = outbound.ended /\ outbound'.buffer = t
    BY <1>6, <2>1, <2>2, PopStream
  <2>4. h \in Seq(Byte) /\ Len(h) = n /\ (b = <<>> => t = <<>> /\ h = <<>>)
    <3>1. Part(b, 0, b)
      BY <2>1 DEF Part
    <3>2. Part(b, 0, h) /\ Len(h) = n /\ Part(b, 0 + n, t) /\ Len(t) = Len(b) - n
      BY <2>1, <2>2, <3>1, SplitPart
    <3>3. h \in Seq(Byte) /\ t \in Seq(Byte)
      BY <3>2 DEF Part
    <3>4. b = <<>> => Len(h) = 0 /\ Len(t) = 0
      BY <2>2, <3>2
    <3> HIDE DEF h, t
    <3>5. h \in Seq(Byte) /\ Len(h) = n /\ (b = <<>> => t = <<>> /\ h = <<>>)
      BY <3>2, <3>3, <3>4, EmptySeq
    <3> QED
      BY <3>5 DEF h, t
  <2>5. sock' = sent_on(h, eof(outbound'))
    BY <1>6, <2>2
  <2> HIDE DEF h, t
  <2>6. /\ sock' \in [tx : Seq(Byte), rx : Seq(Byte), tx_shut : BOOLEAN, rx_shut : BOOLEAN,
                      fate : {"up", "ended", "reset"}]
        /\ sock'.tx = sock.tx \o h /\ sock'.rx = sock.rx /\ sock'.rx_shut = sock.rx_shut
        /\ sock'.fate = sock.fate /\ (sock'.tx_shut <=> sock.tx_shut \/ eof(outbound'))
    BY <1>2, <2>4, <2>5, SentOn, SMTT(40)
  <2>7. TypeOK'
    BY <1>1, <1>2, <1>4, <2>3, <2>6 DEF TypeOK
  <2>8. InwardInv'
    BY <1>1, <1>2, <1>3, <1>4, <2>6 DEF InwardInv, InwardBytes, InwardEnd, InwardResults, Stages
  <2>9. OutwardBytes'
    <3>1. CASE sock.fate # "up"
      BY <1>1, <1>2, <2>6, <3>1 DEF OutwardInv, OutwardBytes
    <3>2. CASE sock.fate = "up"
      <4>1. Stages(Typed, stdin.typed, far.got, sock.tx, b, stdin.queue)
        BY <1>2, <3>2 DEF OutwardInv, OutwardBytes
      <4>2. Stages(Typed, stdin.typed, far.got, sock.tx \o h, t, stdin.queue)
        BY <2>2, <4>1, Numbers, ThirdStageMoves DEF h, t
      <4>3. Stages(Typed, stdin'.typed, far'.got, sock'.tx, outbound'.buffer, stdin'.queue)
        BY <1>1, <2>3, <2>6, <4>2
      <4> QED
        BY <1>1, <1>2, <4>3 DEF OutwardInv, OutwardBytes
    <3> QED
      BY <3>1, <3>2
  <2>10. OutwardEnd'
    <3>1. sock'.tx_shut => eof(outbound')
      BY <1>2, <2>3, <2>4, <2>6 DEF OutwardInv, OutwardEnd, eof
    <3>2. far'.got_eof /\ sock'.fate = "up" => sock'.tx_shut /\ sock'.tx = <<>>
      <4>1. SUFFICES ASSUME far.got_eof, sock.fate = "up" PROVE sock'.tx_shut /\ sock'.tx = <<>>
        BY <1>1, <2>6
      <4>2. sock.tx_shut /\ sock.tx = <<>> /\ b = <<>>
        BY <1>2, <4>1 DEF OutwardInv, OutwardEnd, eof
      <4>3. <<>> \o <<>> = <<>>
        BY EmptySeq, ConcatEmptySeq
      <4> QED
        BY <2>4, <2>6, <4>2, <4>3
    <3> QED
      BY <1>1, <1>2, <1>4, <2>3, <2>6, <3>1, <3>2 DEF OutwardInv, OutwardEnd
  <2>11. OutwardResults'
    BY <1>1, <1>2, <1>3 DEF OutwardInv, OutwardResults
  <2> QED
    BY <2>7, <2>8, <2>9, <2>10, <2>11 DEF CopyInv, OutwardInv
<1> QED
  BY <1>1, <1>5, <1>6

\* Rule 3: the inbound stream has ended only if nothing is left to read.
LEMMA ReadSocketStep ==
  ASSUME CopyInv, ReadSocket
  PROVE  CopyInv'
<1> DEFINE limit == remaining_capacity(inbound)
           data  == read_limited(sock.rx, limit)
           rest  == SubSeq(sock.rx, Len(data) + 1, Len(sock.rx))
           s     == write(inbound, data)
<1>1. /\ Turn(3, "ready")
      /\ outbound' = outbound /\ closed' = closed /\ stdin' = stdin /\ far' = far /\ stdout' = stdout
      /\ \/ inbound' = inbound /\ sock' = sock /\ eofs' = eofs
         \/ /\ sock' = [sock EXCEPT !.rx = rest]
            /\ eofs' = eofs_after_read("socket", data, limit)
            /\ inbound' = IF "socket" \in eofs' THEN end_input(s) ELSE s
  BY DEF ReadSocket
<1>2. TypeOK /\ OutwardInv /\ InwardInv
  BY DEF CopyInv
<1>3. /\ 3 \in DOMAIN results /\ results[3] = "ready" /\ 3 \notin DOMAIN results'
      /\ \A j \in DOMAIN results' : j \in DOMAIN results /\ results'[j] = results[j]
  BY <1>1, OtherResults
<1>4. CASE inbound' = inbound /\ sock' = sock /\ eofs' = eofs
  BY <1>1, <1>3, <1>4, OnlyResults DEF world, fds
<1>5. CASE /\ sock' = [sock EXCEPT !.rx = rest]
           /\ eofs' = eofs_after_read("socket", data, limit)
           /\ inbound' = IF "socket" \in eofs' THEN end_input(s) ELSE s
  <2>1. sock.rx \in Seq(Byte) /\ Working(inbound) /\ limit \in Nat
    BY <1>2, Numbers DEF TypeOK, Working, ByteStreams, remaining_capacity
  <2>2. /\ data \in Seq(Byte) /\ Len(data) \in 0 .. Len(sock.rx) /\ Len(data) <= limit
        /\ data = SubSeq(sock.rx, 1, Len(data))
        /\ limit > 0 /\ data = <<>> => sock.rx = <<>>
        /\ rest \in Seq(Byte) /\ (sock.rx = <<>> => rest = <<>>)
    <3> HIDE DEF limit
    <3> QED
      BY <2>1, ReadPart
  <2>3. /\ Working(s) /\ s.ended = inbound.ended
        /\ ~inbound.ended => s.buffer = inbound.buffer \o data
        /\ inbound.ended => s.buffer = inbound.buffer
    <3> HIDE DEF data
    <3> QED
      BY <2>1, <2>2, WriteToStream
  <2> HIDE DEF limit, rest, s, data
  <2>4. /\ sock' \in [tx : Seq(Byte), rx : Seq(Byte), tx_shut : BOOLEAN, rx_shut : BOOLEAN,
                      fate : {"up", "ended", "reset"}]
        /\ sock'.rx = rest /\ sock'.tx = sock.tx /\ sock'.tx_shut = sock.tx_shut
        /\ sock'.rx_shut = sock.rx_shut /\ sock'.fate = sock.fate
    BY <1>2, <1>5, <2>2 DEF TypeOK
  <2>5. /\ Working(inbound') /\ inbound'.buffer = s.buffer
        /\ "socket" \in eofs' => inbound'.ended
        /\ inbound'.ended => inbound.ended \/ "socket" \in eofs'
        /\ inbound.ended => inbound'.ended
    BY <1>5, <2>3, EndStream
  <2>6. ("stdin" \in eofs' <=> "stdin" \in eofs)
        /\ ("socket" \in eofs' => "socket" \in eofs \/ (limit > 0 /\ data = <<>>))
    BY <1>5 DEF eofs_after_read
  <2>7. TypeOK'
    BY <1>1, <1>2, <2>4, <2>5 DEF TypeOK
  <2>8. OutwardInv'
    BY <1>1, <1>2, <1>3, <2>4, <2>6 DEF OutwardInv, OutwardBytes, OutwardEnd, OutwardResults, Stages
  <2>9. InwardBytes'
    <3>1. Stages(FarData, far.wrote, stdout.shown, stdout.queue, inbound.buffer, sock.rx)
      BY <1>2 DEF InwardInv, InwardBytes
    <3>2. CASE inbound.ended
      <4>1. sock.rx = <<>>
        BY <1>2, <3>2 DEF InwardInv, InwardEnd
      <4>2. inbound'.buffer = inbound.buffer /\ sock'.rx = sock.rx
        BY <2>2, <2>3, <2>4, <2>5, <3>2, <4>1
      <4> QED
        BY <1>1, <1>2, <4>2 DEF InwardInv, InwardBytes
    <3>3. CASE ~inbound.ended
      <4>1. Stages(FarData, far.wrote, stdout.shown, stdout.queue, inbound.buffer \o SubSeq(sock.rx, 1, Len(data)), rest)
        BY <2>2, <3>1, Numbers, LastStageMoves DEF rest
      <4>2. Stages(FarData, far'.wrote, stdout'.shown, stdout'.queue, inbound'.buffer, sock'.rx)
        BY <1>1, <2>2, <2>3, <2>4, <2>5, <3>3, <4>1
      <4> QED
        BY <1>1, <1>2, <4>2 DEF InwardInv, InwardBytes
    <3> QED
      BY <3>2, <3>3
  <2>10. InwardEnd'
    <3>1. inbound'.ended => sock'.rx_shut /\ sock'.rx = <<>>
      <4>1. SUFFICES ASSUME inbound'.ended PROVE sock.rx_shut /\ sock.rx = <<>>
        BY <2>2, <2>4
      <4>2. CASE inbound.ended
        BY <1>2, <4>2 DEF InwardInv, InwardEnd
      <4>3. CASE ~inbound.ended
        <5>1. "socket" \notin eofs
          BY <1>2, <4>3 DEF InwardInv, InwardEnd
        <5>2. sock.rx = <<>>
          BY <2>2, <2>5, <2>6, <4>1, <4>3, <5>1
        <5> QED
          BY <1>2, <1>3, <5>2 DEF InwardInv, InwardResults
      <4> QED
        BY <4>2, <4>3
    <3>2. "stdout" \in closed' => eof(inbound')
      BY <1>1, <1>2, <2>3, <2>5 DEF InwardInv, InwardEnd, eof
    <3> QED
      BY <1>1, <1>2, <2>4, <2>5, <3>1, <3>2 DEF InwardInv, InwardEnd
  <2>11. InwardResults'
    BY <1>2, <1>3, <2>4 DEF InwardInv, InwardResults
  <2> QED
    BY <2>7, <2>8, <2>9, <2>10, <2>11 DEF CopyInv, InwardInv
<1> QED
  BY <1>1, <1>4, <1>5

\* Rule 4: like rule 2; standard output is closed after the last byte.
LEMMA WriteOutputStep ==
  ASSUME CopyInv, WriteOutput
  PROVE  CopyInv'
<1> DEFINE data == peek_output(inbound, MaxCopyLength)
<1>1. /\ Turn(4, "ready")
      /\ outbound' = outbound /\ stdin' = stdin /\ sock' = sock /\ far' = far
      /\ \/ inbound' = inbound /\ UNCHANGED fds /\ stdout' = stdout
         \/ \E n \in write_sizes(data, stdout.queue) :
              /\ inbound' = pop_output(inbound, n)
              /\ stdout' = [stdout EXCEPT !.queue = stdout.queue \o SubSeq(data, 1, n)]
              /\ IF eof(inbound') THEN close("stdout") ELSE UNCHANGED fds
  BY DEF WriteOutput
<1>2. TypeOK /\ OutwardInv /\ InwardInv
  BY DEF CopyInv
<1>3. /\ 4 \notin DOMAIN results'
      /\ \A j \in DOMAIN results' : j \in DOMAIN results /\ results'[j] = results[j]
  BY <1>1, OtherResults
<1>4. CASE inbound' = inbound /\ UNCHANGED fds /\ stdout' = stdout
  BY <1>1, <1>3, <1>4, OnlyResults DEF world
<1>5. ASSUME NEW n \in write_sizes(data, stdout.queue), inbound' = pop_output(inbound, n),
             stdout' = [stdout EXCEPT !.queue = stdout.queue \o SubSeq(data, 1, n)],
             IF eof(inbound') THEN close("stdout") ELSE UNCHANGED fds
      PROVE  CopyInv'
  <2> DEFINE b == inbound.buffer
             h == SubSeq(b, 1, n)
             t == SubSeq(b, n + 1, Len(b))
             q == stdout.queue \o h
  <2>1. Working(inbound) /\ stdout.queue \in Seq(Byte) /\ b \in Seq(Byte)
    BY <1>2 DEF TypeOK, Working, ByteStreams
  <2>2. n \in 0 .. Len(b) /\ SubSeq(data, 1, n) = h
    BY <1>5, <2>1, WritePart
  <2> HIDE DEF data
  <2>3. Working(inbound') /\ inbound'.ended = inbound.ended /\ inbound'.buffer = t
    BY <1>5, <2>1, <2>2, PopStream
  <2>4. h \in Seq(Byte) /\ (b = <<>> => t = <<>>)
    <3>1. Part(b, 0, b)
      BY <2>1 DEF Part
    <3>2. Part(b, 0, h) /\ Part(b, 0 + n, t) /\ Len(t) = Len(b) - n
      BY <2>1, <2>2, <3>1, SplitPart
    <3>3. h \in Seq(Byte) /\ t \in Seq(Byte)
      BY <3>2 DEF Part
    <3>4. b = <<>> => Len(t) = 0
      BY <2>2, <3>2
    <3> HIDE DEF h, t
    <3> QED
      BY <3>3, <3>4
  <2>5. stdout' = [stdout EXCEPT !.queue = q]
    BY <1>5, <2>2
  <2> HIDE DEF h, t
  <2>6. q \in Seq(Byte)
    BY <2>1, <2>4, ConcatProperties
  <2> HIDE DEF q
  <2>7. /\ stdout' \in [queue : Seq(Byte), shown : Seq(Byte), gone : BOOLEAN]
        /\ stdout'.queue = q /\ stdout'.shown = stdout.shown
    BY <1>2, <2>5, <2>6 DEF TypeOK
  <2>8. /\ closed' \subseteq {"stdout"}
        /\ "stdin" \in eofs' <=> "stdin" \in eofs
        /\ "socket" \in eofs' <=> "socket" \in eofs
        /\ "stdout" \in closed' => "stdout" \in closed \/ eof(inbound')
    BY <1>2, <1>5, SMTT(40) DEF TypeOK, close, fds
  <2>9. TypeOK'
    BY <1>1, <1>2, <2>3, <2>7, <2>8 DEF TypeOK
  <2>10. OutwardInv'
    BY <1>1, <1>2, <1>3, <2>8 DEF OutwardInv, OutwardBytes, OutwardEnd, OutwardResults, Stages
  <2>11. InwardBytes'
    <3>1. Stages(FarData, far.wrote, stdout.shown, stdout.queue, b, sock.rx)
      BY <1>2 DEF InwardInv, InwardBytes
    <3>2. Stages(FarData, far.wrote, stdout.shown, q, t, sock.rx)
      BY <2>2, <3>1, Numbers, ThirdStageMoves DEF h, t, q
    <3>3. Stages(FarData, far'.wrote, stdout'.shown, stdout'.queue, inbound'.buffer, sock'.rx)
      BY <1>1, <2>3, <2>7, <3>2
    <3> QED
      BY <1>1, <1>2, <3>3 DEF InwardInv, InwardBytes
  <2>12. InwardEnd'
    BY <1>1, <1>2, <2>3, <2>4, <2>8 DEF InwardInv, InwardEnd, eof
  <2>13. InwardResults'
    BY <1>1, <1>2, <1>3 DEF InwardInv, InwardResults
  <2> QED
    BY <2>9, <2>10, <2>11, <2>12, <2>13 DEF CopyInv, InwardInv
<1> QED
  BY <1>1, <1>4, <1>5

-----------------------------------------------------------------------------
(* The event loop. *)

\* What the descriptors of the rules are, and what poll() says of each.
LEMMA Descriptors == FdOf(1) = "stdin" /\ FdOf(2) = "socket" /\ FdOf(3) = "socket" /\ FdOf(4) = "stdout"
BY DEF FdOf

LEMMA Reported ==
  ASSUME NEW i
  PROVE  /\ result(i) \in {"", "ready", "hangup", "error"}
         /\ result(i) = "ready" => is_ready(i)
         /\ result(i) = "hangup" => hung_up(i) /\ ~is_ready(i)
BY DEF result

LEMMA Readiness ==
  /\ is_ready(1) => stdin.queue # <<>> \/ stdin.shut
  /\ ~is_ready(1) => stdin.queue = <<>>
  /\ is_ready(3) => sock.rx # <<>> \/ sock.rx_shut
  /\ ~is_ready(3) => ~sock.rx_shut
BY DEF is_ready

LEMMA HangUps ==
  /\ hung_up(1) => stdin.shut
  /\ hung_up(2) => sock.fate # "up" \/ sock.tx_shut
  /\ hung_up(3) => sock.fate # "up" \/ sock.rx_shut
  /\ ~hung_up(4)
BY DEF hung_up

\* What poll() reports is so when it returns, and who is told of the end of a stream has
\* seen it before.
LEMMA PollStep ==
  ASSUME CopyInv, after_cancels(cancelled), fds' = fds, world' = world,
         \/ results' = results
         \/ results' = [i \in {j \in remaining : result(j) # ""} |-> result(i)]
  PROVE  CopyInv'
<1>1. TypeOK /\ OutwardInv /\ InwardInv
  BY DEF CopyInv
<1>2. eofs' = eofs /\ closed' = closed /\ stdin' = stdin /\ sock' = sock /\ far' = far /\ stdout' = stdout
  BY DEF fds, world
<1>3. outbound' = outbound \/ (outbound' = end_input(outbound) /\ outbound.ended)
  <2>1. SUFFICES ASSUME cancelled \cap {1, 2} # {} PROVE outbound.ended
    BY DEF after_cancels
  <2>2. PICK i \in {1, 2} : i \in cancelled
    BY <2>1
  <2>3. (i \in In /\ FdOf(i) \in eofs) \/ FdOf(i) \in closed
    BY <2>2 DEF cancelled
  <2>4. i = 1 /\ "stdin" \in eofs
    BY <1>1, <2>2, <2>3, Descriptors, ZenonT(40) DEF In, TypeOK
  <2> QED
    BY <1>1, <2>4 DEF OutwardInv, OutwardEnd
<1>4. inbound' = inbound \/ (inbound' = end_input(inbound) /\ inbound.ended)
  <2>1. SUFFICES ASSUME cancelled \cap {3, 4} # {} PROVE inbound.ended
    BY DEF after_cancels
  <2>2. PICK i \in {3, 4} : i \in cancelled
    BY <2>1
  <2>3. (i \in In /\ FdOf(i) \in eofs) \/ FdOf(i) \in closed
    BY <2>2 DEF cancelled
  <2>4. (i = 3 /\ "socket" \in eofs) \/ "stdout" \in closed
    BY <1>1, <2>2, <2>3, Descriptors, ZenonT(40) DEF In, TypeOK
  <2>5. ("socket" \in eofs => inbound.ended) /\ ("stdout" \in closed => eof(inbound))
    BY <1>1 DEF InwardInv, InwardEnd
  <2>6. eof(inbound) => inbound.ended
    BY DEF eof
  <2> QED
    BY <2>4, <2>5, <2>6
<1>5. Working(outbound') /\ outbound'.ended = outbound.ended /\ outbound'.buffer = outbound.buffer
  <2>1. outbound.ended \in BOOLEAN
    BY <1>1 DEF TypeOK, Working, ByteStreams
  <2>2. Working(outbound)
    BY <1>1 DEF TypeOK
  <2>3. Working(end_input(outbound)) /\ end_input(outbound).ended /\ end_input(outbound).buffer = outbound.buffer
    BY <2>2, EndStream
  <2>4. outbound' = end_input(outbound) => outbound'.ended
    BY <2>3
  <2>5. CASE outbound' = outbound
    BY <2>2, <2>5
  <2>6. CASE outbound' = end_input(outbound) /\ outbound.ended
    <3>1. outbound'.ended \in BOOLEAN
      BY <2>3, <2>6 DEF Working, ByteStreams
    <3> QED
      BY <2>1, <2>3, <2>4, <2>6, <3>1
  <2> QED
    BY <1>3, <2>5, <2>6
<1>6. Working(inbound') /\ inbound'.ended = inbound.ended /\ inbound'.buffer = inbound.buffer
  <2>1. inbound.ended \in BOOLEAN
    BY <1>1 DEF TypeOK, Working, ByteStreams
  <2>2. Working(inbound)
    BY <1>1 DEF TypeOK
  <2>3. Working(end_input(inbound)) /\ end_input(inbound).ended /\ end_input(inbound).buffer = inbound.buffer
    BY <2>2, EndStream
  <2>4. inbound' = end_input(inbound) => inbound'.ended
    BY <2>3
  <2>5. CASE inbound' = inbound
    BY <2>2, <2>5
  <2>6. CASE inbound' = end_input(inbound) /\ inbound.ended
    <3>1. inbound'.ended \in BOOLEAN
      BY <2>3, <2>6 DEF Working, ByteStreams
    <3> QED
      BY <2>1, <2>3, <2>4, <2>6, <3>1
  <2> QED
    BY <1>4, <2>5, <2>6
<1>7. TypeOK'
  BY <1>1, <1>2, <1>5, <1>6 DEF TypeOK
<1>8. OutwardBytes' /\ OutwardEnd'
  BY <1>1, <1>2, <1>5 DEF OutwardInv, OutwardBytes, OutwardEnd, Stages, eof
<1>9. InwardBytes' /\ InwardEnd'
  BY <1>1, <1>2, <1>6 DEF InwardInv, InwardBytes, InwardEnd, Stages, eof
<1>10. OutwardResults' /\ InwardResults'
  <2>1. CASE results' = results
    BY <1>1, <1>2, <2>1 DEF OutwardInv, OutwardResults, InwardInv, InwardResults
  <2>2. CASE results' = [i \in {j \in remaining : result(j) # ""} |-> result(i)]
    <3>1. \A i \in DOMAIN results' : results'[i] = result(i) /\ result(i) # ""
      BY <2>2
    <3>2. \A i \in DOMAIN results' : results'[i] \in {"ready", "hangup", "error"}
      BY <3>1, Reported
    <3>3. 1 \in DOMAIN results' /\ results'[1] = "ready" => stdin.queue # <<>> \/ stdin.shut
      BY <3>1, Reported, Readiness
    <3>4. 1 \in DOMAIN results' /\ results'[1] = "hangup" => stdin.queue = <<>> /\ stdin.shut
      BY <3>1, Reported, Readiness, HangUps
    <3>5. 2 \in DOMAIN results' /\ results'[2] = "hangup" => sock.fate # "up" \/ sock.tx_shut
      BY <3>1, Reported, HangUps
    <3>6. 3 \in DOMAIN results' /\ results'[3] = "ready" => sock.rx # <<>> \/ sock.rx_shut
      BY <3>1, Reported, Readiness
    <3>7. 3 \in DOMAIN results' => results'[3] # "hangup"
      BY <1>1, <3>1, Reported, Readiness, HangUps DEF InwardInv, InwardEnd
    <3>8. 4 \in DOMAIN results' => results'[4] # "hangup"
      BY <3>1, Reported, HangUps
    <3> QED
      BY <1>2, <3>2, <3>3, <3>4, <3>5, <3>6, <3>7, <3>8 DEF OutwardResults, InwardResults
  <2> QED
    BY <2>1, <2>2
<1> QED
  BY <1>7, <1>8, <1>9, <1>10 DEF CopyInv, OutwardInv, InwardInv

\* A rule whose descriptor hung up ends a stream that nobody can add to.
LEMMA CancelStep ==
  ASSUME CopyInv, NEW i \in 1 .. 4, Cancel(i)
  PROVE  CopyInv'
<1>1. TypeOK /\ OutwardInv /\ InwardInv
  BY DEF CopyInv
<1>2. /\ Turn(i, "hangup") /\ after_cancels({i})
      /\ eofs' = eofs /\ closed' = closed /\ stdin' = stdin /\ sock' = sock /\ far' = far /\ stdout' = stdout
  BY DEF Cancel, fds, world
<1>3. /\ i \in DOMAIN results /\ results[i] = "hangup"
      /\ \A j \in DOMAIN results' : j \in DOMAIN results /\ results'[j] = results[j]
  BY <1>2, OtherResults
<1>4. i \in {1, 2}
  <2>1. i # 3 /\ i # 4
    BY <1>1, <1>3 DEF InwardInv, InwardResults
  <2> QED
    BY <2>1
<1>5. outbound' = end_input(outbound) /\ inbound' = inbound
  <2>1. i \in {i} \cap {1, 2}
    BY <1>4
  <2>2. {i} \cap {3, 4} = {}
    BY <1>4
  <2> QED
    BY <1>2, <2>1, <2>2 DEF after_cancels
<1>6. Working(outbound') /\ outbound'.ended /\ outbound'.buffer = outbound.buffer
  BY <1>1, <1>5, EndStream DEF TypeOK
<1>7. TypeOK'
  BY <1>1, <1>2, <1>5, <1>6 DEF TypeOK
<1>8. OutwardBytes'
  BY <1>1, <1>2, <1>6 DEF OutwardInv, OutwardBytes, Stages
<1>9. OutwardEnd'
  <2>1. sock.fate = "up" => stdin.shut /\ stdin.queue = <<>>
    <3>1. CASE i = 1
      BY <1>1, <1>3, <3>1 DEF OutwardInv, OutwardResults
    <3>2. CASE i = 2
      BY <1>1, <1>3, <3>2 DEF OutwardInv, OutwardResults, OutwardEnd, eof
    <3> QED
      BY <1>4, <3>1, <3>2
  <2> QED
    BY <1>1, <1>2, <1>6, <2>1 DEF OutwardInv, OutwardEnd, eof
<1>10. OutwardResults'
  BY <1>1, <1>2, <1>3 DEF OutwardInv, OutwardResults
<1>11. InwardInv'
  BY <1>1, <1>2, <1>3, <1>5 DEF InwardInv, InwardBytes, InwardEnd, InwardResults, Stages
<1> QED
  BY <1>7, <1>8, <1>9, <1>10, <1>11 DEF CopyInv, OutwardInv

LEMMA LoopStep ==
  ASSUME CopyInv, Poll \/ Exit \/ \E i \in 1 .. 4 : Throw(i) \/ Cancel(i)
  PROVE  CopyInv'
<1>1. CASE Poll
  <2>1. after_cancels(cancelled) /\ UNCHANGED <<fds, world>>
        /\ results' = [i \in {j \in remaining : result(j) # ""} |-> result(i)]
    BY <1>1 DEF Poll
  <2> QED
    BY <2>1, PollStep
<1>2. CASE Exit
  <2>1. after_cancels(cancelled) /\ UNCHANGED <<fds, world>> /\ results' = results
    BY <1>2 DEF Exit
  <2> QED
    BY <2>1, PollStep
<1>3. ASSUME NEW i \in 1 .. 4, Throw(i)
      PROVE  CopyInv'
  <2>1. Turn(i, "error") /\ UNCHANGED <<outbound, inbound, fds, world>>
    BY <1>3 DEF Throw, streams
  <2>2. \A j \in DOMAIN results' : j \in DOMAIN results /\ results'[j] = results[j]
    BY <2>1, OtherResults
  <2> QED
    BY <2>1, <2>2, OnlyResults
<1>4. ASSUME NEW i \in 1 .. 4, Cancel(i)
      PROVE  CopyInv'
  BY <1>4, CancelStep
<1> QED
  BY <1>1, <1>2, <1>3, <1>4

-----------------------------------------------------------------------------
(* The user, the far end and the reader. *)

LEMMA InsideStays ==
  ASSUME UNCHANGED Inside
  PROVE  outbound' = outbound /\ inbound' = inbound /\ eofs' = eofs /\ closed' = closed /\ results' = results
BY DEF Inside, streams, fds

LEMMA UserStep ==
  ASSUME CopyInv, Type \/ EndInput
  PROVE  CopyInv'
<1>1. TypeOK /\ OutwardInv /\ InwardInv
  BY DEF CopyInv
<1>2. UNCHANGED <<outbound, inbound, eofs, closed, results, sock, far, stdout>>
  BY InsideStays DEF Type, EndInput
<1>3. InwardInv'
  BY <1>1, <1>2 DEF InwardInv, InwardBytes, InwardEnd, InwardResults, Stages
<1>4. CASE Type
  <2> DEFINE x == Typed[stdin.typed + 1]
             q == Append(stdin.queue, x)
             n == stdin.typed + 1
  <2>1. /\ ~stdin.shut /\ stdin.typed \in Nat /\ stdin.typed < Len(Typed) /\ stdin.queue \in Seq(Byte)
        /\ stdin' = [stdin EXCEPT !.queue = q, !.typed = n]
        /\ n \in Nat
    BY <1>1, <1>4 DEF Type, TypeOK
  <2>2. x \in Byte
    BY <2>1, Numbers
  <2>3. q \in Seq(Byte) /\ q # <<>>
    <3> HIDE DEF x
    <3> QED
      BY <2>1, <2>2, AppendProperties
  <2>4. Stages(Typed, stdin.typed, far.got, sock.tx, outbound.buffer, stdin.queue)
          => Stages(Typed, n, far.got, sock.tx, outbound.buffer, q)
    BY <2>1, Numbers, LastStageGrows
  <2> HIDE DEF q
  <2>5. /\ stdin' \in [queue : Seq(Byte), typed : Nat, shut : BOOLEAN, hangs_up : BOOLEAN]
        /\ stdin'.queue = q /\ stdin'.typed = n /\ stdin'.shut = stdin.shut
    <3> HIDE DEF n
    <3> QED
      BY <1>1, <2>1, <2>3 DEF TypeOK
  <2>6. TypeOK'
    BY <1>1, <1>2, <2>5 DEF TypeOK
  <2>7. Part(Typed, 0, far.got) /\ Len(far.got) \in Nat /\ Len(far.got) <= stdin.typed
    BY <1>1 DEF OutwardInv, OutwardBytes, TypeOK
  <2>8. Len(far.got) <= n /\ n <= Len(Typed)
    BY <2>1, <2>7, Numbers
  <2> HIDE DEF n
  <2>9. OutwardBytes'
    BY <1>1, <1>2, <2>4, <2>5, <2>7, <2>8 DEF OutwardInv, OutwardBytes
  <2>10. OutwardEnd'
    BY <1>1, <1>2, <2>1, <2>5 DEF OutwardInv, OutwardEnd
  <2>11. OutwardResults'
    BY <1>1, <1>2, <2>1, <2>3, <2>5 DEF OutwardInv, OutwardResults
  <2> QED
    BY <1>3, <2>6, <2>9, <2>10, <2>11 DEF CopyInv, OutwardInv
<1>5. CASE EndInput
  <2>1. stdin' = [stdin EXCEPT !.shut = TRUE]
    BY <1>5 DEF EndInput
  <2>2. /\ stdin' \in [queue : Seq(Byte), typed : Nat, shut : BOOLEAN, hangs_up : BOOLEAN]
        /\ stdin'.queue = stdin.queue /\ stdin'.typed = stdin.typed /\ stdin'.shut
    BY <1>1, <2>1 DEF TypeOK
  <2>3. TypeOK'
    BY <1>1, <1>2, <2>2 DEF TypeOK
  <2>4. OutwardInv'
    BY <1>1, <1>2, <2>2 DEF OutwardInv, OutwardBytes, OutwardEnd, OutwardResults
  <2> QED
    BY <1>3, <2>3, <2>4 DEF CopyInv
<1> QED
  BY <1>4, <1>5

LEMMA FarReadStep ==
  ASSUME CopyInv, FarRead
  PROVE  CopyInv'
<1>1. TypeOK /\ OutwardInv /\ InwardInv
  BY DEF CopyInv
<1>2. UNCHANGED <<outbound, inbound, eofs, closed, results, stdin, stdout>>
  BY InsideStays DEF FarRead
<1> DEFINE g == far.got \o sock.tx
           e == (sock.tx = <<>>)
<1>3. /\ sock.fate = "up" /\ (sock.tx = <<>> => sock.tx_shut)
      /\ far' = [far EXCEPT !.got = g, !.got_eof = e]
      /\ sock' = [sock EXCEPT !.tx = <<>>]
  BY DEF FarRead, can_take
<1>4. g \in Seq(Byte) /\ e \in BOOLEAN
  BY <1>1, ConcatProperties DEF TypeOK
<1>5. Stages(Typed, stdin.typed, far.got, sock.tx, outbound.buffer, stdin.queue)
  BY <1>1, <1>3 DEF OutwardInv, OutwardBytes
<1>6. Stages(Typed, stdin.typed, g, <<>>, outbound.buffer, stdin.queue)
  BY <1>5, Numbers, SecondStageArrives
<1> HIDE DEF g, e
<1>7. /\ far' \in [wrote : Nat, shut : BOOLEAN, got : Seq(Byte), got_eof : BOOLEAN]
      /\ far'.wrote = far.wrote /\ far'.shut = far.shut /\ far'.got = g /\ far'.got_eof = e
  BY <1>1, <1>3, <1>4 DEF TypeOK
<1>8. /\ sock' \in [tx : Seq(Byte), rx : Seq(Byte), tx_shut : BOOLEAN, rx_shut : BOOLEAN,
                    fate : {"up", "ended", "reset"}]
      /\ sock'.tx = <<>> /\ sock'.rx = sock.rx /\ sock'.tx_shut = sock.tx_shut
      /\ sock'.rx_shut = sock.rx_shut /\ sock'.fate = sock.fate
  BY <1>1, <1>3, EmptySeq DEF TypeOK
<1>9. TypeOK'
  BY <1>1, <1>2, <1>7, <1>8 DEF TypeOK
<1>10. /\ Part(Typed, 0, g) /\ Len(g) \in Nat /\ Len(outbound.buffer) \in Nat /\ Len(stdin.queue) \in Nat
       /\ stdin.typed = Len(g) + 0 + Len(outbound.buffer) + Len(stdin.queue)
  BY <1>6, EmptySeq DEF Stages, Part
<1>11. OutwardBytes'
  <2>1. Len(g) <= stdin.typed
    <3> DEFINE l == Len(g)
               b == Len(outbound.buffer)
               q == Len(stdin.queue)
               n == stdin.typed
    <3>1. l \in Nat /\ b \in Nat /\ q \in Nat /\ n = l + 0 + b + q
      BY <1>10
    <3> HIDE DEF l, b, q, n
    <3>2. l <= n
      BY <3>1
    <3> QED
      BY <3>2 DEF l, n
  <2> QED
    BY <1>1, <1>2, <1>6, <1>7, <1>8, <1>10, <2>1 DEF OutwardInv, OutwardBytes
<1>12. OutwardEnd'
  <2>1. ASSUME e
        PROVE  sock.tx_shut /\ stdin.shut /\ Len(g) = stdin.typed
    <3>1. sock.tx_shut
      BY <1>3, <2>1 DEF e
    <3>2. outbound.ended /\ outbound.buffer = <<>>
      BY <1>1, <3>1 DEF OutwardInv, OutwardEnd, eof
    <3>3. stdin.shut /\ stdin.queue = <<>>
      BY <1>1, <1>3, <3>2 DEF OutwardInv, OutwardEnd
    <3> QED
      BY <1>10, <3>1, <3>2, <3>3, EmptySeq
  <2> QED
    BY <1>1, <1>2, <1>7, <1>8, <2>1 DEF OutwardInv, OutwardEnd
<1>13. OutwardResults'
  BY <1>1, <1>2, <1>8 DEF OutwardInv, OutwardResults
<1>14. InwardInv'
  BY <1>1, <1>2, <1>7, <1>8 DEF InwardInv, InwardBytes, InwardEnd, InwardResults
<1> QED
  BY <1>9, <1>11, <1>12, <1>13, <1>14 DEF CopyInv, OutwardInv

LEMMA FarWriteStep ==
  ASSUME CopyInv, FarWrite
  PROVE  CopyInv'
<1>1. TypeOK /\ OutwardInv /\ InwardInv
  BY DEF CopyInv
<1>2. UNCHANGED <<outbound, inbound, eofs, closed, results, stdin, stdout>>
  BY InsideStays DEF FarWrite
<1> DEFINE x == FarData[far.wrote + 1]
           q == Append(sock.rx, x)
           n == far.wrote + 1
<1>3. /\ sock.fate = "up" /\ ~far.shut /\ far.wrote \in Nat /\ far.wrote < Len(FarData)
      /\ sock.rx \in Seq(Byte)
      /\ far' = [far EXCEPT !.wrote = n]
      /\ sock' = [sock EXCEPT !.rx = q]
      /\ n \in Nat
  BY <1>1 DEF FarWrite, TypeOK
<1>4. x \in Byte
  BY <1>3, Numbers
<1>5. q \in Seq(Byte) /\ q # <<>>
  <2> HIDE DEF x
  <2> QED
    BY <1>3, <1>4, AppendProperties
<1>6. Stages(FarData, n, stdout.shown, stdout.queue, inbound.buffer, q) /\ n <= Len(FarData)
  <2>1. n <= Len(FarData)
    BY <1>3, Numbers
  <2> QED
    BY <1>1, <1>3, <2>1, Numbers, LastStageGrows DEF InwardInv, InwardBytes
<1> HIDE DEF q, n
<1>7. /\ far' \in [wrote : Nat, shut : BOOLEAN, got : Seq(Byte), got_eof : BOOLEAN]
      /\ far'.wrote = n /\ far'.shut = far.shut /\ far'.got = far.got /\ far'.got_eof = far.got_eof
  BY <1>1, <1>3 DEF TypeOK
<1>8. /\ sock' \in [tx : Seq(Byte), rx : Seq(Byte), tx_shut : BOOLEAN, rx_shut : BOOLEAN,
                    fate : {"up", "ended", "reset"}]
      /\ sock'.tx = sock.tx /\ sock'.rx = q /\ sock'.tx_shut = sock.tx_shut
      /\ sock'.rx_shut = sock.rx_shut /\ sock'.fate = sock.fate
  BY <1>1, <1>3, <1>5 DEF TypeOK
<1>9. TypeOK'
  BY <1>1, <1>2, <1>7, <1>8 DEF TypeOK
<1>10. OutwardInv'
  BY <1>1, <1>2, <1>7, <1>8 DEF OutwardInv, OutwardBytes, OutwardEnd, OutwardResults
<1>11. InwardBytes'
  BY <1>2, <1>6, <1>7, <1>8 DEF InwardBytes
<1>12. InwardEnd'
  <2>1. ~sock.rx_shut
    BY <1>1, <1>3 DEF InwardInv, InwardEnd
  <2> QED
    BY <1>1, <1>2, <1>7, <1>8, <2>1 DEF InwardInv, InwardEnd
<1>13. InwardResults'
  BY <1>1, <1>2, <1>5, <1>8 DEF InwardInv, InwardResults
<1> QED
  BY <1>9, <1>10, <1>11, <1>12, <1>13 DEF CopyInv, InwardInv

LEMMA FarEndsStep ==
  ASSUME CopyInv, FarShut \/ SocketFails
  PROVE  CopyInv'
<1>1. TypeOK /\ OutwardInv /\ InwardInv
  BY DEF CopyInv
<1>2. UNCHANGED <<outbound, inbound, eofs, closed, results, stdin, stdout>>
  BY InsideStays DEF FarShut, SocketFails
<1>3. /\ far' \in [wrote : Nat, shut : BOOLEAN, got : Seq(Byte), got_eof : BOOLEAN]
      /\ far'.wrote = far.wrote /\ far'.got = far.got /\ far'.got_eof = far.got_eof
      /\ far.shut => far'.shut
  <2>1. far' = far \/ far' = [far EXCEPT !.shut = TRUE]
    BY DEF FarShut, SocketFails
  <2> QED
    BY <1>1, <2>1 DEF TypeOK
<1>4. /\ sock' \in [tx : Seq(Byte), rx : Seq(Byte), tx_shut : BOOLEAN, rx_shut : BOOLEAN,
                    fate : {"up", "ended", "reset"}]
      /\ sock'.tx = sock.tx /\ sock'.rx = sock.rx /\ sock'.tx_shut = sock.tx_shut
      /\ sock'.rx_shut
  BY <1>1, ZenonT(40) DEF TypeOK, FarShut, SocketFails
<1>5. sock.fate = "up" /\ (far'.shut \/ sock'.fate # "up")
  BY <1>1 DEF TypeOK, FarShut, SocketFails
<1>6. TypeOK'
  BY <1>1, <1>2, <1>3, <1>4 DEF TypeOK
<1>7. OutwardInv'
  BY <1>1, <1>2, <1>3, <1>4, <1>5 DEF OutwardInv, OutwardBytes, OutwardEnd, OutwardResults
<1>8. InwardInv'
  BY <1>1, <1>2, <1>3, <1>4, <1>5 DEF InwardInv, InwardBytes, InwardEnd, InwardResults
<1> QED
  BY <1>6, <1>7, <1>8 DEF CopyInv

LEMMA ReaderStep ==
  ASSUME CopyInv, Show \/ ReaderLeaves
  PROVE  CopyInv'
<1>1. TypeOK /\ OutwardInv /\ InwardInv
  BY DEF CopyInv
<1>2. UNCHANGED <<outbound, inbound, eofs, closed, results, stdin, sock, far>>
  BY InsideStays DEF Show, ReaderLeaves
<1>3. OutwardInv'
  BY <1>1, <1>2 DEF OutwardInv, OutwardBytes, OutwardEnd, OutwardResults
<1>4. InwardEnd' /\ InwardResults'
  BY <1>1, <1>2 DEF InwardInv, InwardEnd, InwardResults
<1>5. CASE Show
  <2> DEFINE w == stdout.shown \o stdout.queue
  <2>1. stdout' = [stdout EXCEPT !.shown = w, !.queue = <<>>]
    BY <1>5 DEF Show
  <2>2. w \in Seq(Byte)
    BY <1>1, ConcatProperties DEF TypeOK
  <2>3. Stages(FarData, far.wrote, w, <<>>, inbound.buffer, sock.rx)
    BY <1>1, Numbers, SecondStageArrives DEF InwardInv, InwardBytes
  <2> HIDE DEF w
  <2>4. /\ stdout' \in [queue : Seq(Byte), shown : Seq(Byte), gone : BOOLEAN]
        /\ stdout'.queue = <<>> /\ stdout'.shown = w
    BY <1>1, <2>1, <2>2, EmptySeq DEF TypeOK
  <2>5. TypeOK' /\ InwardBytes'
    BY <1>1, <1>2, <2>3, <2>4 DEF TypeOK, InwardInv, InwardBytes
  <2> QED
    BY <1>3, <1>4, <2>5 DEF CopyInv, InwardInv
<1>6. CASE ReaderLeaves
  <2>1. stdout' = [stdout EXCEPT !.gone = TRUE]
    BY <1>6 DEF ReaderLeaves
  <2>2. /\ stdout' \in [queue : Seq(Byte), shown : Seq(Byte), gone : BOOLEAN]
        /\ stdout'.queue = stdout.queue /\ stdout'.shown = stdout.shown
    BY <1>1, <2>1 DEF TypeOK
  <2>3. TypeOK' /\ InwardBytes'
    BY <1>1, <1>2, <2>2 DEF TypeOK, InwardInv, InwardBytes
  <2> QED
    BY <1>3, <1>4, <2>3 DEF CopyInv, InwardInv
<1> QED
  BY <1>5, <1>6

-----------------------------------------------------------------------------
(* The invariant holds. *)

LEMMA CopyInit ==
  ASSUME Init
  PROVE  CopyInv
<1>1. Part(Typed, 0, <<>>) /\ Part(FarData, 0, <<>>) /\ Len(<<>>) = 0 /\ <<>> \in Seq(Byte)
  BY Numbers, EmptySeq DEF Part
<1>2. Stages(Typed, 0, <<>>, <<>>, <<>>, <<>>) /\ Stages(FarData, 0, <<>>, <<>>, <<>>, <<>>)
  BY <1>1 DEF Stages
<1>3. /\ Working(outbound) /\ outbound.buffer = <<>> /\ outbound.ended = FALSE
      /\ Working(inbound) /\ inbound.buffer = <<>> /\ inbound.ended = FALSE
  BY <1>1, Numbers DEF Init, Working, NewByteStream, ByteStreams
<1>4. /\ stdin \in [queue : Seq(Byte), typed : Nat, shut : BOOLEAN, hangs_up : BOOLEAN]
      /\ stdin.queue = <<>> /\ stdin.typed = 0 /\ ~stdin.shut
  BY <1>1 DEF Init
<1>5. /\ sock = [tx |-> <<>>, rx |-> <<>>, tx_shut |-> FALSE, rx_shut |-> FALSE, fate |-> "up"]
      /\ far = [wrote |-> 0, shut |-> FALSE, got |-> <<>>, got_eof |-> FALSE]
      /\ stdout = [queue |-> <<>>, shown |-> <<>>, gone |-> FALSE]
      /\ results = <<>> /\ eofs = {} /\ closed = {}
  BY DEF Init
<1>6. TypeOK
  BY <1>1, <1>3, <1>4, <1>5 DEF TypeOK
<1>7. DOMAIN results = {}
  BY <1>5
<1>8. OutwardInv
  BY <1>1, <1>2, <1>3, <1>4, <1>5, <1>7, Numbers DEF OutwardInv, OutwardBytes, OutwardEnd, OutwardResults
<1>9. InwardInv
  BY <1>1, <1>2, <1>3, <1>5, <1>7, Numbers DEF InwardInv, InwardBytes, InwardEnd, InwardResults
<1> QED
  BY <1>6, <1>8, <1>9 DEF CopyInv

LEMMA CopyStep ==
  ASSUME CopyInv, [Next]_vars
  PROVE  CopyInv'
<1>1. CASE UNCHANGED vars
  <2>1. UNCHANGED <<outbound, inbound, fds, world, results>>
    BY <1>1 DEF vars, streams
  <2> QED
    BY <2>1, OnlyResults
<1>2. CASE Copy
  BY <1>2, LoopStep, ReadInputStep, WriteSocketStep, ReadSocketStep, WriteOutputStep DEF Copy
<1>3. CASE External
  BY <1>3, UserStep, FarReadStep, FarWriteStep, FarEndsStep, ReaderStep DEF External
<1> QED
  BY <1>1, <1>2, <1>3 DEF Next

\* Between the two ends of each direction no byte is lost, doubled or out of its place: each
\* has arrived, or waits in the kernel's queues or in one of the program's two streams.
THEOREM BytesAreAccountedFor == Spec => []CopyInv
<1>1. Init => CopyInv
  BY CopyInit
<1>2. CopyInv /\ [Next]_vars => CopyInv'
  BY CopyStep
<1> QED
  BY <1>1, <1>2, PTL DEF Spec
-----------------------------------------------------------------------------
(* Each direction is a pipe. *)

\* What was written so far.
LEMMA WrittenSoFar ==
  ASSUME NEW S \in Seq(Byte), NEW n \in 0 .. Len(S)
  PROVE  LET w == SubSeq(S, 1, n)
         IN  w \in Seq(Byte) /\ Len(w) = n /\ Part(S, 0, w)
<1> DEFINE w == SubSeq(S, 1, n)
<1>1. Part(S, 0, S)
  BY DEF Part
<1>2. Part(S, 0, w) /\ Len(w) = n
  BY <1>1, SplitPart
<1> QED
  BY <1>2 DEF Part

\* Writing one more is a step of the writer of a pipe.
LEMMA OneMoreWritten ==
  ASSUME NEW S \in Seq(Byte), NEW n \in Nat, n < Len(S)
  PROVE  LET v == SubSeq(S, 1, n)
             w == SubSeq(S, 1, n + 1)
         IN  w \in Seq(Byte) /\ Len(w) > Len(v) /\ SubSeq(w, 1, Len(v)) = v
<1> DEFINE v == SubSeq(S, 1, n)
           m == n + 1
           w == SubSeq(S, 1, m)
<1>1. n \in 0 .. Len(S) /\ m \in 0 .. Len(S) /\ m \in Nat /\ n <= m /\ m > n
  OBVIOUS
<1> HIDE DEF m
<1>2. Part(S, 0, v) /\ Len(v) = n /\ w \in Seq(Byte) /\ Len(w) = m
  BY <1>1, WrittenSoFar
<1>3. Len(v) <= m /\ m <= Len(S)
  BY <1>1, <1>2
<1> HIDE DEF v
<1>4. v = SubSeq(w, 1, Len(v))
  BY <1>1, <1>2, <1>3, Beginning, ZenonT(40)
<1> QED
  BY <1>1, <1>2, <1>4 DEF m, v

\* What has arrived is the beginning of what was written.
LEMMA ArrivedIsBeginning ==
  ASSUME NEW S \in Seq(Byte), NEW n \in 0 .. Len(S), NEW a, Part(S, 0, a), Len(a) <= n
  PROVE  LET w == SubSeq(S, 1, n)
         IN  a = SubSeq(w, 1, Len(a)) /\ (Len(a) = n => a = w)
<1> DEFINE w == SubSeq(S, 1, n)
<1>1. w \in Seq(Byte) /\ Len(w) = n /\ n \in Nat /\ n <= Len(S)
  BY WrittenSoFar
<1>2. a = SubSeq(w, 1, Len(a))
  BY <1>1, Beginning
<1> HIDE DEF w
<1>3. SubSeq(w, 1, Len(w)) = w
  BY <1>1, SubSeqFull
<1> QED
  BY <1>1, <1>2, <1>3 DEF w

LEMMA OutwardInit ==
  ASSUME Init
  PROVE  Outward!ChanInit
<1>1. stdin.typed = 0 /\ stdin.shut = FALSE /\ far.got = <<>> /\ far.got_eof = FALSE
  BY DEF Init
<1>2. SubSeq(Typed, 1, 0) = <<>>
  BY Numbers, SubSeqEmpty
<1> QED
  BY <1>1, <1>2 DEF Outward!ChanInit

LEMMA OutwardStep ==
  ASSUME CopyInv, CopyInv', [Next]_vars
  PROVE  [Outward!ChanNext]_(Outward!chanVars)
<1>1. /\ stdin.typed \in Nat /\ stdin.typed <= Len(Typed)
      /\ far.got_eof \in BOOLEAN
  BY Numbers DEF CopyInv, TypeOK, OutwardInv, OutwardBytes
<1>2. CASE Type
  <2>1. /\ ~stdin.shut /\ stdin.typed < Len(Typed)
        /\ stdin'.typed = stdin.typed + 1 /\ stdin'.shut = stdin.shut /\ far' = far
    BY <1>2 DEF Type, CopyInv, TypeOK
  <2>2. Outward!Put
    BY <1>1, <2>1, Numbers, OneMoreWritten DEF Outward!Put
  <2> QED
    BY <2>2 DEF Outward!ChanNext
<1>3. CASE EndInput
  <2>1. stdin'.typed = stdin.typed /\ ~stdin.shut /\ stdin'.shut = TRUE /\ far' = far
    BY <1>3 DEF EndInput, CopyInv, TypeOK
  <2>2. Outward!Close
    BY <2>1 DEF Outward!Close
  <2> QED
    BY <2>2 DEF Outward!ChanNext
<1>4. CASE FarRead
  <2>1. stdin' = stdin /\ ~far.got_eof /\ far'.got = far.got \o sock.tx
    <3>1. sock.fate = "up" /\ (sock.tx # <<>> \/ ~far.got_eof) /\ far'.got = far.got \o sock.tx /\ stdin' = stdin
      BY <1>4 DEF FarRead, can_take, CopyInv, TypeOK
    <3> QED
      BY <3>1 DEF CopyInv, OutwardInv, OutwardEnd
  <2> DEFINE n == stdin.typed
             w == SubSeq(Typed, 1, n)
             a == far'.got
             k == Len(a)
  <2>2. Part(Typed, 0, a) /\ k <= n /\ (far'.got_eof => stdin.shut /\ k = n)
    BY <2>1 DEF CopyInv, OutwardInv, OutwardBytes, OutwardEnd
  <2>3. n \in 0 .. Len(Typed)
    BY <1>1, Numbers
  <2>4. a = SubSeq(w, 1, k) /\ (k = n => a = w) /\ Len(w) = n
    BY <2>2, <2>3, Numbers, ArrivedIsBeginning, WrittenSoFar
  <2>5. k \in Len(far.got) .. Len(w)
    <3>1. far.got \in Seq(Byte) /\ sock.tx \in Seq(Byte)
      BY DEF CopyInv, TypeOK
    <3>2. k = Len(far.got) + Len(sock.tx) /\ Len(far.got) \in Nat /\ Len(sock.tx) \in Nat
      BY <2>1, <3>1, ConcatProperties
    <3> DEFINE x == Len(far.got)
               y == Len(sock.tx)
    <3>3. n \in Nat /\ k <= n /\ k = x + y /\ x \in Nat /\ y \in Nat
      BY <1>1, <2>2, <3>2
    <3>4. Len(w) = n
      BY <2>4
    <3> HIDE DEF k, n, x, y
    <3>5. k \in x .. n
      BY <3>3
    <3> QED
      BY <3>4, <3>5 DEF k, x
  <2>6. Outward!Arrive
    BY <2>1, <2>2, <2>4, <2>5 DEF Outward!Arrive
  <2> QED
    BY <2>6 DEF Outward!ChanNext
<1>5. ASSUME stdin'.typed = stdin.typed, stdin'.shut = stdin.shut, far'.got = far.got, far'.got_eof = far.got_eof
      PROVE  UNCHANGED Outward!chanVars
  BY <1>5 DEF Outward!chanVars
<1>6. CASE Copy \/ UNCHANGED vars
  <2>1. stdin' = stdin \/ stdin' = [stdin EXCEPT !.queue = stdin'.queue]
    BY <1>6 DEF Copy, Poll, Exit, ReadInput, WriteSocket, ReadSocket, WriteOutput, Throw, Cancel, world, vars
  <2>2. far' = far
    BY <1>6 DEF Copy, Poll, Exit, ReadInput, WriteSocket, ReadSocket, WriteOutput, Throw, Cancel, world, vars
  <2>3. stdin'.typed = stdin.typed /\ stdin'.shut = stdin.shut
    BY <2>1 DEF CopyInv, TypeOK
  <2> QED
    BY <1>5, <2>2, <2>3
<1>7. CASE FarWrite \/ FarShut \/ SocketFails \/ Show \/ ReaderLeaves
  <2>1. stdin' = stdin
    BY <1>7 DEF FarWrite, FarShut, SocketFails, Show, ReaderLeaves
  <2>2. far'.got = far.got /\ far'.got_eof = far.got_eof
    BY <1>7, ZenonT(40) DEF FarWrite, FarShut, SocketFails, Show, ReaderLeaves, CopyInv, TypeOK
  <2> QED
    BY <1>5, <2>1, <2>2
<1> QED
  BY <1>2, <1>3, <1>4, <1>5, <1>6, <1>7 DEF Next, External

LEMMA InwardInit ==
  ASSUME Init
  PROVE  Inward!ChanInit
<1>1. far.wrote = 0 /\ far.shut = FALSE /\ stdout.shown = <<>>
  BY DEF Init
<1>2. SubSeq(FarData, 1, 0) = <<>>
  BY Numbers, SubSeqEmpty
<1> QED
  BY <1>1, <1>2 DEF Inward!ChanInit

\* The reader has seen the end of the inward stream.
AllShown == far.shut /\ "stdout" \in closed /\ stdout.queue = <<>>

\* Whoever has seen the end has been shown everything.
LEMMA EndIsLast ==
  ASSUME CopyInv, "stdout" \in closed
  PROVE  /\ far.wrote = Len(stdout.shown) + Len(stdout.queue)
         /\ Len(stdout.shown) \in Nat /\ Len(stdout.queue) \in Nat
         /\ sock.rx_shut
<1>1. inbound.ended /\ inbound.buffer = <<>>
  BY DEF CopyInv, InwardInv, InwardEnd, eof
<1>2. sock.rx_shut /\ sock.rx = <<>>
  BY <1>1 DEF CopyInv, InwardInv, InwardEnd
<1>3. /\ far.wrote = Len(stdout.shown) + Len(stdout.queue) + Len(inbound.buffer) + Len(sock.rx)
      /\ Len(stdout.shown) \in Nat /\ Len(stdout.queue) \in Nat
  BY DEF CopyInv, InwardInv, InwardBytes, Stages, Part
<1>4. Len(inbound.buffer) = 0 /\ Len(sock.rx) = 0
  BY <1>1, <1>2, EmptySeq
<1> HIDE DEF eof
<1> QED
  BY <1>2, <1>3, <1>4

\* What has been shown is the beginning of what the far end wrote.
Shown ==
  LET w == SubSeq(FarData, 1, far.wrote)
  IN  /\ Len(stdout.shown) <= far.wrote /\ Len(w) = far.wrote
      /\ stdout.shown = SubSeq(w, 1, Len(stdout.shown))
      /\ AllShown => stdout.shown = w
      /\ "stdout" \in closed => sock.rx_shut /\ far.wrote = Len(stdout.shown) + Len(stdout.queue)

LEMMA ShownIsBeginning == CopyInv => Shown
<1> SUFFICES ASSUME CopyInv PROVE Shown
  OBVIOUS
<1> DEFINE n == far.wrote
           w == SubSeq(FarData, 1, n)
           a == stdout.shown
           k == Len(a)
           q == Len(stdout.queue)
           b == Len(inbound.buffer)
           r == Len(sock.rx)
<1>1. n \in Nat /\ n <= Len(FarData) /\ Part(FarData, 0, a)
  BY DEF CopyInv, TypeOK, InwardInv, InwardBytes, Stages
<1>2. k \in Nat /\ q \in Nat /\ b \in Nat /\ r \in Nat /\ n = k + q + b + r
  BY DEF CopyInv, InwardInv, InwardBytes, Stages, Part
<1>3. k <= n
  <2> HIDE DEF k, q, b, r, n
  <2>1. k <= n
    BY <1>2
  <2> QED
    BY <2>1
<1>4. n \in 0 .. Len(FarData)
  BY <1>1, Numbers
<1>5. a = SubSeq(w, 1, k) /\ (k = n => a = w) /\ Len(w) = n
  BY <1>1, <1>3, <1>4, Numbers, ArrivedIsBeginning, WrittenSoFar
<1>6. "stdout" \in closed => sock.rx_shut /\ n = k + q
  BY EndIsLast
<1>7. AllShown => k = n
  <2>1. SUFFICES ASSUME AllShown PROVE k = n
    OBVIOUS
  <2>2. n = k + q /\ q = 0
    BY <1>6, <2>1, EmptySeq DEF AllShown
  <2>3. k \in Nat
    BY <1>2
  <2> HIDE DEF n, k, q
  <2>4. k = n
    BY <2>2, <2>3
  <2> QED
    BY <2>4 DEF k, n
<1> QED
  BY <1>3, <1>5, <1>6, <1>7 DEF Shown

\* Steps that are neither of the far end's writer nor of the reader.
LEMMA InwardMoves ==
  ASSUME CopyInv, Shown, CopyInv', Shown',
         far'.wrote = far.wrote, far'.shut = far.shut, stdout'.shown = stdout.shown,
         closed \subseteq closed'
  PROVE  [Inward!ChanNext]_(Inward!chanVars)
<1> DEFINE w == SubSeq(FarData, 1, far.wrote)
           k == Len(stdout.shown)
<1>1. AllShown => AllShown'
  <2>1. SUFFICES ASSUME AllShown PROVE stdout'.queue = <<>>
    BY DEF AllShown
  <2> DEFINE q == Len(stdout'.queue)
  <2>2. "stdout" \in closed /\ "stdout" \in closed' /\ Len(stdout.queue) = 0
    BY <2>1, EmptySeq DEF AllShown
  <2>3. k \in Nat /\ q \in Nat
    BY DEF CopyInv, TypeOK
  <2>4. far.wrote = k + 0 /\ far.wrote = k + q
    BY <2>2 DEF Shown
  <2>5. q = 0
    <3> HIDE DEF k, q
    <3>1. q = 0
      BY <2>3, <2>4
    <3> QED
      BY <3>1
  <2> QED
    BY <2>5, EmptySeq DEF CopyInv, TypeOK
<1>2. CASE AllShown' = AllShown
  BY <1>2 DEF Inward!chanVars, AllShown
<1>3. CASE ~AllShown /\ AllShown'
  <2>1. k <= far.wrote /\ Len(w) = far.wrote /\ stdout.shown = SubSeq(w, 1, k) /\ stdout'.shown = w
    BY <1>3 DEF Shown
  <2>2. k \in Nat /\ far.wrote \in Nat
    BY DEF CopyInv, TypeOK
  <2>3. k \in k .. Len(w)
    <3> HIDE DEF k, w
    <3>1. k \in k .. Len(w)
      BY <2>1, <2>2
    <3> QED
      BY <3>1
  <2>4. Inward!Arrive
    BY <1>3, <2>1, <2>3 DEF Inward!Arrive, AllShown
  <2> QED
    BY <2>4 DEF Inward!ChanNext
<1>4. AllShown \in BOOLEAN /\ AllShown' \in BOOLEAN
  BY DEF AllShown, CopyInv, TypeOK
<1> QED
  BY <1>1, <1>2, <1>3, <1>4

LEMMA InwardStep ==
  ASSUME CopyInv, Shown, CopyInv', Shown', [Next]_vars
  PROVE  [Inward!ChanNext]_(Inward!chanVars)
<1>1. CASE FarWrite
  <2>1. /\ ~far.shut /\ far.wrote < Len(FarData) /\ far.wrote \in Nat
        /\ far'.wrote = far.wrote + 1 /\ far'.shut = far.shut /\ stdout' = stdout
    BY <1>1 DEF FarWrite, CopyInv, TypeOK
  <2>2. Inward!Put
    BY <2>1, Numbers, OneMoreWritten DEF Inward!Put
  <2> QED
    BY <2>2 DEF Inward!ChanNext
<1>2. CASE FarShut
  <2>1. ~far.shut /\ sock.fate = "up" /\ far'.wrote = far.wrote /\ far'.shut = TRUE
        /\ stdout' = stdout /\ closed' = closed
    BY <1>2, InsideStays DEF FarShut, CopyInv, TypeOK
  <2>2. ~sock.rx_shut
    BY <2>1 DEF CopyInv, InwardInv, InwardEnd
  <2>3. "stdout" \notin closed
    BY <2>2, EndIsLast
  <2>4. Inward!Close
    BY <2>1, <2>3 DEF Inward!Close
  <2> QED
    BY <2>4 DEF Inward!ChanNext
<1>3. CASE Show
  <2>1. /\ far' = far /\ closed' = closed /\ stdout.queue # <<>>
        /\ stdout'.shown = stdout.shown \o stdout.queue
    BY <1>3, InsideStays DEF Show, CopyInv, TypeOK
  <2> DEFINE w == SubSeq(FarData, 1, far.wrote)
             k == Len(stdout'.shown)
  <2>2. /\ k <= far.wrote /\ Len(w) = far.wrote /\ stdout'.shown = SubSeq(w, 1, k) /\ far.wrote \in Nat
        /\ AllShown' => stdout'.shown = w
    BY <2>1 DEF Shown, CopyInv, TypeOK
  <2>3. k \in Len(stdout.shown) .. Len(w)
    <3>1. k = Len(stdout.shown) + Len(stdout.queue) /\ Len(stdout.shown) \in Nat /\ Len(stdout.queue) \in Nat
      BY <2>1, ConcatProperties DEF CopyInv, TypeOK
    <3> DEFINE x == Len(stdout.shown)
               y == Len(stdout.queue)
               n == far.wrote
    <3>2. n \in Nat /\ k <= n /\ k = x + y /\ x \in Nat /\ y \in Nat
      BY <2>2, <3>1
    <3>3. Len(w) = n
      BY <2>2
    <3> HIDE DEF k, n, x, y
    <3>4. k \in x .. n
      BY <3>2
    <3> QED
      BY <3>3, <3>4 DEF k, x
  <2>4. Inward!Arrive
    BY <2>1, <2>2, <2>3 DEF Inward!Arrive, AllShown
  <2> QED
    BY <2>4 DEF Inward!ChanNext
<1>4. CASE Copy \/ UNCHANGED vars
  <2>1. far' = far
    BY <1>4 DEF Copy, Poll, Exit, ReadInput, WriteSocket, ReadSocket, WriteOutput, Throw, Cancel, world, vars
  <2>2. stdout' = stdout \/ stdout' = [stdout EXCEPT !.queue = stdout'.queue]
    BY <1>4 DEF Copy, Poll, Exit, ReadInput, WriteSocket, ReadSocket, WriteOutput, Throw, Cancel, world, vars
  <2>3. closed \subseteq closed'
    BY <1>4 DEF Copy, Poll, Exit, ReadInput, WriteSocket, ReadSocket, WriteOutput, Throw, Cancel, close, fds, vars
  <2>4. stdout'.shown = stdout.shown
    BY <2>2 DEF CopyInv, TypeOK
  <2> QED
    BY <2>1, <2>3, <2>4, InwardMoves
<1>5. CASE Type \/ EndInput \/ FarRead \/ SocketFails \/ ReaderLeaves
  <2>1. far'.wrote = far.wrote /\ far'.shut = far.shut
    BY <1>5 DEF Type, EndInput, FarRead, SocketFails, ReaderLeaves, CopyInv, TypeOK
  <2>2. stdout'.shown = stdout.shown
    BY <1>5 DEF Type, EndInput, FarRead, SocketFails, ReaderLeaves, CopyInv, TypeOK
  <2>3. closed' = closed
    BY <1>5, InsideStays DEF Type, EndInput, FarRead, SocketFails, ReaderLeaves
  <2> QED
    BY <2>1, <2>2, <2>3, InwardMoves
<1> QED
  BY <1>1, <1>2, <1>3, <1>4, <1>5 DEF Next, External

\* bidirectional_stream_copy is two pipes: what is typed reaches the far end, and what the
\* far end sends reaches the reader of standard output, in order and once, and each end
\* after the last byte; however the kernel splits the calls, and whatever ends first.
THEOREM CopyingImplementsPipes == Spec => CopiesBothWays
<1>1. Init => Outward!ChanInit /\ Inward!ChanInit
  BY OutwardInit, InwardInit
<1>2. CopyInv /\ CopyInv' /\ [Next]_vars => [Outward!ChanNext]_(Outward!chanVars)
  BY OutwardStep
<1>3. CopyInv /\ Shown /\ CopyInv' /\ Shown' /\ [Next]_vars => [Inward!ChanNext]_(Inward!chanVars)
  BY InwardStep
<1> QED
  BY <1>1, <1>2, <1>3, BytesAreAccountedFor, ShownIsBeginning, PTL
     DEF Spec, CopiesBothWays, Outward!ChanSpec, Inward!ChanSpec

-----------------------------------------------------------------------------
(* Buffers. *)

\* What a Buffer is after its construction and any number of removals: while it has its
\* storage, some of it is left.
Buffer(S) ==
  {b \in [storage : Seq(S), offset : Nat] : b.storage # <<>> => b.offset < Len(b.storage)}

\* A new Buffer shows the string it was made of (Buffer::Buffer, Buffer::str).
THEOREM NewBufferShowsAll ==
  ASSUME NEW S, NEW string \in Seq(S)
  PROVE  NewBuffer(string) \in Buffer(S) /\ str(NewBuffer(string)) = string
<1>1. NewBuffer(string) \in Buffer(S) BY DEF NewBuffer, Buffer
<1>2. str(NewBuffer(string)) = string BY DEF NewBuffer, str
<1> QED BY <1>1, <1>2

\* A part of a part of a string is a part of it.
LEMMA SuffixOfSuffix ==
  ASSUME NEW S, NEW s \in Seq(S), NEW k \in Nat, NEW n \in Nat, k + n < Len(s)
  PROVE  SubSeq(SubSeq(s, k + 1, Len(s)), n + 1, Len(s) - k) = SubSeq(s, k + n + 1, Len(s))
<1> DEFINE t == SubSeq(s, k + 1, Len(s))
           u == SubSeq(t, n + 1, Len(s) - k)
           v == SubSeq(s, k + n + 1, Len(s))
<1>1. Len(s) \in Nat /\ \A i \in 1 .. Len(s) : s[i] \in S BY LenProperties, ElementOfSeq
<1>2. /\ t \in Seq(S) /\ Len(t) = Len(s) - k
      /\ \A i \in 1 .. Len(s) - k : t[i] = s[k + i]
  <2>1. k + 1 \in Int /\ k + 1 <= Len(s) /\ Len(s) \in Int BY <1>1
  <2>2. \A i \in k + 1 .. Len(s) : s[i] \in S BY <1>1
  <2>3. /\ t \in Seq(S) /\ Len(t) = Len(s) - (k + 1) + 1
        /\ \A i \in 1 .. Len(s) - (k + 1) + 1 : t[i] = s[k + 1 + i - 1]
    BY <2>1, <2>2, SubSeqProperties
  <2> HIDE DEF t
  <2> QED BY <1>1, <2>3
<1>3. /\ v \in Seq(S) /\ Len(v) = Len(s) - k - n
      /\ \A i \in 1 .. Len(s) - k - n : v[i] = s[k + n + i]
  <2>1. k + n + 1 \in Int /\ k + n + 1 <= Len(s) /\ Len(s) \in Int BY <1>1
  <2>2. \A i \in k + n + 1 .. Len(s) : s[i] \in S BY <1>1
  <2>3. /\ v \in Seq(S) /\ Len(v) = Len(s) - (k + n + 1) + 1
        /\ \A i \in 1 .. Len(s) - (k + n + 1) + 1 : v[i] = s[k + n + 1 + i - 1]
    BY <2>1, <2>2, SubSeqProperties
  <2> HIDE DEF v
  <2> QED BY <1>1, <2>3
<1>4. /\ u \in Seq(S) /\ Len(u) = Len(s) - k - n
      /\ \A i \in 1 .. Len(s) - k - n : u[i] = t[n + i]
  <2> HIDE DEF t
  <2>1. n + 1 \in Int /\ n + 1 <= Len(s) - k /\ Len(s) - k \in Int BY <1>1
  <2>2. \A i \in n + 1 .. Len(s) - k : t[i] \in S BY <1>1, <1>2
  <2>3. /\ u \in Seq(S) /\ Len(u) = Len(s) - k - (n + 1) + 1
        /\ \A i \in 1 .. Len(s) - k - (n + 1) + 1 : u[i] = t[n + 1 + i - 1]
    <3>1. /\ u \in Seq(S)
          /\ Len(u) = IF n + 1 <= Len(s) - k THEN Len(s) - k - (n + 1) + 1 ELSE 0
          /\ \A i \in 1 .. Len(s) - k - (n + 1) + 1 : u[i] = t[n + 1 + i - 1]
      BY <2>1, <2>2, SubSeqProperties
    <3> HIDE DEF u
    <3> QED BY <2>1, <3>1
  <2> HIDE DEF u, v
  <2>4. Len(s) - k - (n + 1) + 1 = Len(s) - k - n BY <1>1
  <2>5. \A i \in 1 .. Len(s) - k - n : n + 1 + i - 1 = n + i BY <1>1
  <2> QED BY <2>3, <2>4, <2>5
<1> HIDE DEF t, u, v
<1>5. ASSUME NEW i \in 1 .. Len(u) PROVE u[i] = v[i]
  <2>1. i \in 1 .. Len(s) - k - n /\ n + i \in 1 .. Len(s) - k /\ k + (n + i) = k + n + i
    BY <1>1, <1>4
  <2> QED BY <1>2, <1>3, <1>4, <2>1
<1>6. u = v BY <1>3, <1>4, <1>5, SeqEqual
<1> QED BY <1>6 DEF t, u, v

\* Removing a prefix that the Buffer holds leaves a Buffer that shows the rest, whether or
\* not the storage is let go (Buffer::remove_prefix).
THEOREM RemovePrefixDrops ==
  ASSUME NEW S, NEW b \in Buffer(S), NEW n \in Nat, holds(b, n)
  PROVE  /\ remove_prefix(b, n) \in Buffer(S)
         /\ str(remove_prefix(b, n)) = SubSeq(str(b), n + 1, Len(str(b)))
<1> DEFINE size == Len(b.storage)
           r    == remove_prefix(b, n)
<1>1. b.storage \in Seq(S) /\ b.offset \in Nat /\ size \in Nat BY DEF Buffer
<1>2. CASE b.storage = <<>>
  <2>1. n = 0 BY <1>2 DEF holds, str
  <2>2. r.storage = <<>> /\ r.offset = b.offset BY <1>1, <1>2, <2>1 DEF remove_prefix
  <2>3. r \in Buffer(S) BY <1>1, <2>2 DEF remove_prefix, Buffer
  <2>4. str(r) = <<>> /\ str(b) = <<>> BY <1>2, <2>2 DEF str
  <2>5. SubSeq(str(b), n + 1, Len(str(b))) = <<>> BY <2>1, <2>4, SubSeqEmpty
  <2> QED BY <2>3, <2>4, <2>5
<1>3. CASE b.storage # <<>>
  <2>1. b.offset < size BY <1>3 DEF Buffer
  <2>2. Len(str(b)) = size - b.offset BY <1>1, <1>3, <2>1 DEF str
  <2>3. b.offset + n <= size BY <1>1, <2>1, <2>2 DEF holds
  <2>4. CASE b.offset + n = size
    <3>1. r = [storage |-> <<>>, offset |-> b.offset + n] BY <2>4 DEF remove_prefix
    <3>2. r \in Buffer(S) BY <1>1, <3>1 DEF Buffer
    <3>3. n = Len(str(b)) BY <1>1, <2>2, <2>4
    <3>4. SubSeq(str(b), n + 1, Len(str(b))) = <<>> BY <1>1, <2>2, <3>3, SubSeqEmpty
    <3>5. r.storage = <<>> BY <3>1
    <3>6. str(r) = <<>> BY <3>5 DEF str
    <3> QED BY <3>2, <3>4, <3>6
  <2>5. CASE b.offset + n < size
    <3>1. r = [storage |-> b.storage, offset |-> b.offset + n] BY <1>1, <2>5 DEF remove_prefix
    <3>2. r \in Buffer(S) BY <1>1, <2>5, <3>1 DEF Buffer
    <3>3. str(r) = SubSeq(b.storage, b.offset + n + 1, size)
      <4>1. r.storage = b.storage /\ r.offset = b.offset + n BY <3>1
      <4> HIDE DEF r
      <4> QED BY <1>3, <4>1 DEF str
    <3>4. str(b) = SubSeq(b.storage, b.offset + 1, size) BY <1>3 DEF str
    <3>5. SubSeq(SubSeq(b.storage, b.offset + 1, size), n + 1, size - b.offset)
            = SubSeq(b.storage, b.offset + n + 1, size)
      BY <1>1, <2>5, SuffixOfSuffix
    <3> QED BY <2>2, <3>2, <3>3, <3>4, <3>5
  <2> QED BY <1>1, <2>3, <2>4, <2>5
<1> QED BY <1>2, <1>3
=============================================================================
