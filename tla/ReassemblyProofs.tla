--------------------------- MODULE ReassemblyProofs ---------------------------
(***************************************************************************)
(* A StreamReassembler delivers the stream in order and keeps every byte   *)
(* within its window, whatever the stream, the capacity and the substrings *)
(* that are pushed.  The invariant says what the map holds: disjoint parts *)
(* of the stream, none of it assembled; each stage of push_substring()     *)
(* preserves it and loses no byte of the window by a lemma of its own.     *)
(***************************************************************************)
EXTENDS Reassembly, SequenceTheorems, WellFoundedInduction, TLAPS

-----------------------------------------------------------------------------
\* A set of natural numbers that is not empty has a least element.
LEMMA LeastNatural ==
  ASSUME NEW S, S \subseteq Nat, S # {}
  PROVE  Min(S) \in S /\ \A y \in S : Min(S) <= y
<1> DEFINE R == OpToRel(<, Nat)
<1>1. PICK x \in S : \A y \in S : ~ (<<y, x>> \in R)
  BY NatLessThanWellFounded, WFMin
<1>2. \A y \in S : y < x => <<y, x>> \in R
  BY DEF OpToRel
<1> HIDE DEF R
<1>3. ASSUME NEW y \in S PROVE x <= y
  <2>1. ~ (y < x)
    BY <1>1, <1>2, Zenon
  <2> QED
    BY <2>1
<1> QED
  BY <1>3 DEF Min

\* One that is bounded has a greatest element.
LEMMA GreatestNatural ==
  ASSUME NEW S, S \subseteq Nat, S # {}, NEW n \in Nat, \A y \in S : y <= n
  PROVE  Max(S) \in S /\ \A y \in S : y <= Max(S)
<1> DEFINE B == {b \in Nat : \A y \in S : y <= b}
<1>1. B \subseteq Nat /\ B # {}
  OBVIOUS
<1>2. PICK b \in B : \A c \in B : b <= c
  BY <1>1, LeastNatural
<1>3. b \in S
  <2>1. SUFFICES ASSUME b \notin S PROVE FALSE
    OBVIOUS
  <2>2. PICK y \in S : TRUE
    OBVIOUS
  <2>3. b # 0
    BY <1>2, <2>1, <2>2
  <2>4. b - 1 \in B
    BY <1>2, <2>1, <2>3
  <2> QED
    BY <1>2, <2>4
<1>4. \A y \in S : b >= y
  BY <1>2
<1> HIDE DEF B
<1> QED
  BY <1>3, <1>4 DEF Max

-----------------------------------------------------------------------------
(* Parts of the stream. *)

\* s is the part of the stream that starts at byte k.
Part(k, s) ==
  /\ s \in Seq(Byte) /\ k + Len(s) <= Len(Stream)
  /\ \A i \in 1 .. Len(s) : s[i] = Stream[k + i]

\* What a part of a part is.
LEMMA PartOfPart ==
  ASSUME NEW k \in Nat, NEW s, Part(k, s), NEW m \in Nat, NEW n \in Nat, n <= Len(s),
         k + m <= Len(Stream)
  PROVE  LET t == SubSeq(s, m + 1, n)
         IN  /\ Part(k + m, t)
             /\ Len(t) = IF m <= n THEN n - m ELSE 0
<1> DEFINE t == SubSeq(s, m + 1, n)
<1>1. Len(s) \in Nat /\ Len(Stream) \in Nat /\ \A i \in 1 .. Len(s) : s[i] \in Byte
  BY ReassemblyAssumption DEF Part
<1>2. \A i \in m + 1 .. n : s[i] \in Byte
  BY <1>1
<1>3. /\ t \in Seq(Byte)
      /\ Len(t) = IF m + 1 <= n THEN n - (m + 1) + 1 ELSE 0
      /\ \A i \in 1 .. n - (m + 1) + 1 : t[i] = s[m + 1 + i - 1]
  BY <1>2, SubSeqProperties
<1> HIDE DEF t
<1>4. Len(t) = IF m <= n THEN n - m ELSE 0
  BY <1>3
<1>5. CASE m < n
  <2>1. Len(t) = n - m
    BY <1>4, <1>5
  <2>2. ASSUME NEW i \in 1 .. n - m
        PROVE  t[i] = Stream[(k + m) + i]
    <3>1. m + i \in 1 .. Len(s) /\ m + 1 + i - 1 = m + i /\ k + (m + i) = (k + m) + i
      BY <1>1
    <3>2. i \in 1 .. n - (m + 1) + 1
      OBVIOUS
    <3>3. t[i] = s[m + i]
      BY <1>3, <3>1, <3>2
    <3> QED
      BY <3>1, <3>3 DEF Part
  <2>3. (k + m) + (n - m) <= Len(Stream)
    BY <1>1, <1>5 DEF Part
  <2> QED
    BY <1>3, <1>4, <2>1, <2>2, <2>3 DEF Part, t
<1>6. CASE ~(m < n)
  <2>1. Len(t) = 0 /\ (k + m) + 0 <= Len(Stream)
    BY <1>1, <1>4, <1>6
  <2> QED
    BY <1>3, <1>4, <2>1 DEF Part, t
<1> QED
  BY <1>5, <1>6

\* Nothing is a part.
LEMMA EmptyPart ==
  ASSUME NEW k \in Nat, k <= Len(Stream)
  PROVE  Part(k, <<>>)
<1>1. Len(Stream) \in Nat
  BY ReassemblyAssumption
<1> QED
  BY <1>1, EmptySeq DEF Part

-----------------------------------------------------------------------------
(* The invariant. *)

\* The output stream has received the first `next` bytes of the stream, of which those
\* that were not read are buffered.
Output(o, next) ==
  /\ o \in ByteStreams(Byte)
  /\ o.capacity = Capacity /\ Len(o.buffer) <= Capacity
  /\ ~o.error
  /\ o.written = next /\ o.read + Len(o.buffer) = next
  /\ \A i \in 1 .. Len(o.buffer) : o.buffer[i] = Stream[o.read + i]

\* The map holds parts of the stream that do not overlap, from byte `next` on.
Waiting(strs, next) ==
  /\ strs = [k \in DOMAIN strs |-> strs[k]]
  /\ DOMAIN strs \subseteq Nat
  /\ \A k \in DOMAIN strs : next <= k /\ strs[k] # <<>> /\ Part(k, strs[k])
  /\ \A j, k \in DOMAIN strs : j < k => j + Len(strs[j]) <= k

Reassembler(strs, next, unassembled, eof_idx, output) ==
  [strs |-> strs, next |-> next, unassembled |-> unassembled, eof_idx |-> eof_idx, output |-> output]

IsReassembler(q) == q = Reassembler(q.strs, q.next, q.unassembled, q.eof_idx, q.output)

Sound(q) ==
  /\ IsReassembler(q)
  /\ q.next \in 0 .. Len(Stream)
  /\ Waiting(q.strs, q.next)
  /\ Output(q.output, q.next)
  /\ q.output.ended => q.next = Len(Stream)
  /\ q.eof_idx \in {NoEof, Len(Stream)}

\* Byte i is assembled or waits.
HeldBy(q, i) == i < q.next \/ \E k \in DOMAIN q.strs : covers(q, k, i)

\* Byte i is within the window.
InWindow(q, i) == i < first_unacceptable_idx(q)

-----------------------------------------------------------------------------
(* Writing to the output. *)

\* What is taken when there is room for c - l.
LEMMA RoomTaken ==
  ASSUME NEW c \in Nat, NEW l \in Nat, NEW m \in Nat, l <= c,
         NEW a, a = IF c - l <= m THEN c - l ELSE m
  PROVE  a \in 0 .. m /\ l + a <= c /\ (a < m => l + a = c)
OBVIOUS

\* How much a write() of the next part of the stream accepts: as much as there is room
\* for, unless the stream has ended.
LEMMA Accepts ==
  ASSUME NEW o, NEW next \in Nat, Output(o, next), NEW m \in Nat
  PROVE  /\ accepts(o, m) \in 0 .. m
         /\ Len(o.buffer) + accepts(o, m) <= Capacity
         /\ ~o.ended /\ accepts(o, m) < m => Len(o.buffer) + accepts(o, m) = Capacity
         /\ o.ended => accepts(o, m) = 0
<1>1. Len(o.buffer) \in Nat /\ Len(o.buffer) <= Capacity /\ Capacity \in Nat
  BY ReassemblyAssumption DEF Output, ByteStreams
<1>2. o.capacity = Capacity /\ ~o.error
  BY DEF Output
<1>3. accepts(o, m) = IF o.ended THEN 0 ELSE IF Capacity - Len(o.buffer) <= m THEN Capacity - Len(o.buffer) ELSE m
  BY <1>2 DEF accepts, remaining_capacity, Smaller
<1>4. CASE o.ended
  BY <1>1, <1>3, <1>4
<1>5. CASE ~o.ended
  <2>1. accepts(o, m) = IF Capacity - Len(o.buffer) <= m THEN Capacity - Len(o.buffer) ELSE m
    BY <1>3, <1>5
  <2> DEFINE a == accepts(o, m)
             l == Len(o.buffer)
  <2>2. l \in Nat /\ l <= Capacity /\ Capacity \in Nat /\ a = IF Capacity - l <= m THEN Capacity - l ELSE m
    BY <1>1, <2>1
  <2> HIDE DEF a, l
  <2>3. a \in 0 .. m /\ l + a <= Capacity /\ (a < m => l + a = Capacity)
    BY <2>2, RoomTaken
  <2> QED
    BY <1>5, <2>3 DEF a, l
<1> QED
  BY <1>4, <1>5

\* write() appends what it accepts of the next part of the stream.
LEMMA WritePart ==
  ASSUME NEW o, NEW next \in Nat, Output(o, next), NEW data, Part(next, data)
  PROVE  LET n == accepts(o, Len(data))
         IN  /\ Output(write(o, data), next + n)
             /\ write(o, data).ended = o.ended
             /\ Len(write(o, data).buffer) = Len(o.buffer) + n
<1> DEFINE n == accepts(o, Len(data))
           w == write(o, data)
           t == SubSeq(data, 1, n)
           b == o.buffer \o t
<1>1. Len(data) \in Nat /\ data \in Seq(Byte)
  BY DEF Part
<1>2. n \in 0 .. Len(data) /\ Len(o.buffer) + n <= Capacity
  BY <1>1, Accepts
<1> HIDE DEF n
<1>3. /\ o \in ByteStreams(Byte) /\ o.buffer \in Seq(Byte) /\ o.read \in Nat /\ o.written \in Nat
  BY DEF Output, ByteStreams
<1> HIDE DEF b
<1>4. w = [o EXCEPT !.buffer = b, !.written = o.written + n]
  BY <1>3, Zenon DEF write, n, b, ByteStreams
<1>5. t \in Seq(Byte) /\ Len(t) = n /\ \A i \in 1 .. n : t[i] = data[i]
  <2>1. Part(next + 0, SubSeq(data, 0 + 1, n)) /\ Len(SubSeq(data, 0 + 1, n)) = n
    BY <1>1, <1>2, PartOfPart DEF Part
  <2>2. \A i \in 1 .. n : t[i] = data[i]
    BY <1>1, <1>2
  <2> QED
    BY <2>1, <2>2 DEF Part
<1> HIDE DEF t
<1>6. b \in Seq(Byte) /\ Len(b) = Len(o.buffer) + n
  BY <1>2, <1>3, <1>5, ConcatProperties DEF b
<1>7. o.read + Len(o.buffer) = next /\ Len(o.buffer) \in Nat
  BY <1>3 DEF Output
<1>8. ASSUME NEW i \in 1 .. Len(b)
      PROVE  b[i] = Stream[o.read + i]
  <2>1. CASE i <= Len(o.buffer)
    <3>1. b[i] = o.buffer[i] /\ i \in 1 .. Len(o.buffer)
      BY <1>3, <1>5, <1>6, <1>7, <2>1, ConcatProperties DEF b
    <3> QED
      BY <3>1 DEF Output
  <2>2. CASE ~(i <= Len(o.buffer))
    <3> DEFINE j == i - Len(o.buffer)
    <3>1. j \in 1 .. n /\ j \in 1 .. Len(data) /\ o.read + i = next + j
      <4> DEFINE l     == Len(o.buffer)
                 start == o.read
                 m     == Len(data)
      <4>1. n \in Nat /\ m \in Nat /\ n <= m /\ start \in Nat /\ l \in Nat /\ start + l = next
        BY <1>1, <1>2, <1>3, <1>7
      <4>2. i \in 1 .. l + n /\ ~(i <= l)
        BY <1>6, <2>2
      <4> HIDE DEF l, start, m
      <4>3. i - l \in 1 .. n /\ i - l \in 1 .. m /\ start + i = next + (i - l)
        BY <4>1, <4>2
      <4> QED
        BY <4>3 DEF l, start, m
    <3>2. b[i] = t[j]
      BY <1>2, <1>3, <1>5, <1>6, <1>7, <2>2, ConcatProperties DEF b
    <3> HIDE DEF j
    <3> QED
      BY <1>5, <3>1, <3>2 DEF Part
  <2> QED
    BY <2>1, <2>2
<1>9. o.read + Len(b) = next + n /\ o.written + n = next + n
  <2>1. \A a, c, d \in Nat : a + c = next => a + (c + d) = next + d
    OBVIOUS
  <2>2. n \in Nat
    BY <1>1, <1>2
  <2>3. o.written = next
    BY DEF Output
  <2> QED
    BY <1>3, <1>6, <1>7, <2>1, <2>2, <2>3, SMTT(40)
<1>10. /\ w \in ByteStreams(Byte) /\ w.buffer = b /\ w.written = o.written + n
       /\ w.capacity = o.capacity /\ w.read = o.read /\ w.error = o.error /\ w.ended = o.ended
  <2> DEFINE v == o.written + n
  <2>1. b \in Seq(Byte) /\ v \in Nat
    BY <1>2, <1>3, <1>6
  <2> HIDE DEF v
  <2>2. ASSUME NEW p, p = [o EXCEPT !.buffer = b, !.written = v]
        PROVE  /\ p \in ByteStreams(Byte) /\ p.buffer = b /\ p.written = v
               /\ p.capacity = o.capacity /\ p.read = o.read /\ p.error = o.error /\ p.ended = o.ended
    BY <1>3, <2>1, <2>2 DEF ByteStreams
  <2> HIDE DEF w
  <2> QED
    BY <1>4, <2>2 DEF v, w
<1>11. Output(w, next + n)
  BY <1>2, <1>3, <1>6, <1>8, <1>9, <1>10 DEF Output
<1> QED
  BY <1>6, <1>10, <1>11 DEF n

-----------------------------------------------------------------------------
(* The stages of push_substring(). *)

\* What is known of an entry of the map.
LEMMA EntryFacts ==
  ASSUME NEW q, Sound(q), NEW k \in DOMAIN q.strs
  PROVE  /\ k \in Nat /\ q.next \in Nat /\ q.next <= k
         /\ Len(q.strs[k]) \in Nat /\ Len(q.strs[k]) > 0
         /\ EntryEnd(q, k) \in Nat /\ k < EntryEnd(q, k) /\ EntryEnd(q, k) <= Len(Stream)
         /\ EntryEnd(q, k) = k + Len(q.strs[k])
         /\ Part(k, q.strs[k])
         /\ \A j \in DOMAIN q.strs : j < k => EntryEnd(q, j) <= k
<1>1. Part(k, q.strs[k]) /\ k \in Nat /\ q.next <= k /\ q.strs[k] # <<>> /\ q.next \in Nat
  BY DEF Sound, Waiting
<1>2. Len(q.strs[k]) \in Nat /\ Len(q.strs[k]) > 0
  BY <1>1 DEF Part
<1>3. \A j \in DOMAIN q.strs : j < k => EntryEnd(q, j) <= k
  BY DEF Sound, Waiting, EntryEnd
<1>4. EntryEnd(q, k) <= Len(Stream)
  BY <1>1 DEF Part, EntryEnd
<1> QED
  BY <1>1, <1>2, <1>3, <1>4 DEF EntryEnd

\* The new part starts past every entry at or before the substring and before all
\* others; what comes before it is held.
LEMMA NewIdx ==
  ASSUME NEW q, Sound(q), NEW index \in Nat, index <= Len(Stream)
  PROVE  LET from == new_idx(q, index)
         IN  /\ from \in Nat /\ index <= from /\ q.next <= from /\ from <= Len(Stream)
             /\ \A k \in DOMAIN q.strs : EntryEnd(q, k) <= from \/ from <= k
             /\ \A i \in index .. from - 1 : HeldBy(q, i)
<1> DEFINE before == {k \in DOMAIN q.strs : k <= index}
           from   == new_idx(q, index)
<1>1. q.next \in Nat /\ q.next <= Len(Stream) /\ Len(Stream) \in Nat
  BY ReassemblyAssumption DEF Sound
<1>2. CASE before = {}
  <2>1. from = IF index >= q.next THEN index ELSE q.next
    BY <1>2 DEF new_idx, Larger
  <2> HIDE DEF from
  <2>2. from \in Nat /\ index <= from /\ q.next <= from /\ from <= Len(Stream)
    BY <1>1, <2>1
  <2>3. ASSUME NEW k \in DOMAIN q.strs
        PROVE  from <= k
    BY <1>1, <1>2, <2>1, EntryFacts
  <2>4. \A i \in index .. from - 1 : i < q.next
    BY <1>1, <2>1
  <2> QED
    BY <2>2, <2>3, <2>4 DEF HeldBy, from
<1>3. CASE before # {}
  <2> DEFINE m == Max(before)
  <2>1. before \subseteq Nat /\ \A k \in before : k <= index
    BY EntryFacts
  <2>2. m \in before /\ \A k \in before : k <= m
    BY <1>3, <2>1, GreatestNatural
  <2>3. m \in DOMAIN q.strs /\ m <= index
    BY <2>2
  <2>4. from = Larger(index, EntryEnd(q, m))
    BY <1>3 DEF new_idx
  <2>5. \A k \in DOMAIN q.strs : k <= index => k <= m
    BY <2>2
  <2> HIDE DEF m, from, before
  <2>6. from = IF index >= EntryEnd(q, m) THEN index ELSE EntryEnd(q, m)
    BY <2>4 DEF Larger
  <2>7. m \in Nat /\ EntryEnd(q, m) \in Nat /\ m < EntryEnd(q, m) /\ EntryEnd(q, m) <= Len(Stream) /\ q.next <= m
    BY <2>3, EntryFacts
  <2>8. from \in Nat /\ index <= from /\ EntryEnd(q, m) <= from /\ q.next <= from /\ from <= Len(Stream)
    BY <1>1, <2>6, <2>7
  <2>9. ASSUME NEW k \in DOMAIN q.strs
        PROVE  EntryEnd(q, k) <= from \/ from <= k
    <3>1. k \in Nat /\ EntryEnd(q, k) \in Nat /\ (m < k => EntryEnd(q, m) <= k)
            /\ (k < m => EntryEnd(q, k) <= m)
      BY <2>3, EntryFacts
    <3>2. CASE k <= index
      <4>1. k <= m
        BY <2>5, <3>2
      <4> QED
        BY <2>7, <2>8, <3>1, <4>1
    <3>3. CASE ~(k <= index)
      BY <2>3, <2>6, <2>7, <3>1, <3>3
    <3> QED
      BY <3>2, <3>3
  <2>10. ASSUME NEW i \in index .. from - 1
         PROVE  HeldBy(q, i)
    <3>1. m <= i /\ i < EntryEnd(q, m)
      BY <2>3, <2>6, <2>7
    <3> QED
      BY <2>3, <3>1 DEF HeldBy, covers
  <2> QED
    BY <2>8, <2>9, <2>10 DEF from
<1> QED
  BY <1>2, <1>3

\* Only part of the map is left, the rest is as it was.
LEMMA KeepSome ==
  ASSUME NEW q, Sound(q), NEW S, S \subseteq DOMAIN q.strs, NEW u
  PROVE  Sound(Reassembler(Keep(q.strs, S), q.next, u, q.eof_idx, q.output))
<1> DEFINE f == Keep(q.strs, S)
           p == Reassembler(f, q.next, u, q.eof_idx, q.output)
<1>1. DOMAIN f = S /\ \A k \in S : f[k] = q.strs[k]
  BY DEF Keep
<1>2. Waiting(f, q.next)
  <2>1. f = [k \in DOMAIN f |-> f[k]]
    BY DEF Keep
  <2> HIDE DEF f
  <2> QED
    BY <1>1, <2>1 DEF Sound, Waiting
<1>3. /\ p.strs = f /\ p.next = q.next /\ p.unassembled = u /\ p.eof_idx = q.eof_idx
      /\ p.output = q.output /\ IsReassembler(p)
  BY DEF Reassembler, IsReassembler
<1> HIDE DEF f, p
<1>4. Sound(p)
  BY <1>2, <1>3 DEF Sound
<1> QED
  BY <1>4 DEF p, f

\* The entries that the substring contains go, and with them only bytes that it brings
\* again before the next entry.  An entry that overlaps its end goes beyond it.
LEMMA DiscardSwallowed ==
  ASSUME NEW q, Sound(q), NEW from \in Nat, NEW end \in Nat
  PROVE  LET p == discard_swallowed(q, from, end)
         IN  /\ Sound(p)
             /\ p.next = q.next /\ p.output = q.output /\ p.eof_idx = q.eof_idx
             /\ DOMAIN p.strs \subseteq DOMAIN q.strs
             /\ \A k \in DOMAIN p.strs : p.strs[k] = q.strs[k]
             /\ \A i \in Nat : HeldBy(q, i) =>
                  \/ HeldBy(p, i)
                  \/ from <= i /\ i < end /\ \A k \in DOMAIN p.strs : from <= k => i < k
             /\ \A k \in DOMAIN p.strs : from <= k =>
                  EntryEnd(p, k) > end \/ \E j \in DOMAIN p.strs : from <= j /\ j < k
<1> DEFINE gone == swallowed(q, from, end)
           S    == DOMAIN q.strs \ gone
           p    == discard_swallowed(q, from, end)
<1>1. \E u : p = Reassembler(Keep(q.strs, S), q.next, u, q.eof_idx, q.output)
  <2> DEFINE Size(k) == Len(q.strs[k])
             u       == q.unassembled - MapThenSumSet(Size, gone)
  <2>1. p = [q EXCEPT !.strs = Keep(q.strs, S), !.unassembled = u]
    BY DEF discard_swallowed, Sound, IsReassembler, Reassembler
  <2> HIDE DEF u, S
  <2>2. p = Reassembler(Keep(q.strs, S), q.next, u, q.eof_idx, q.output)
    BY <2>1 DEF Sound, IsReassembler, Reassembler
  <2> QED
    BY <2>2
<1>2. PICK u : p = Reassembler(Keep(q.strs, S), q.next, u, q.eof_idx, q.output)
  BY <1>1
<1>3. gone = {k \in DOMAIN q.strs :
                from <= k /\ \A j \in DOMAIN q.strs : from <= j /\ j <= k => EntryEnd(q, j) <= end}
  BY DEF swallowed
<1>4. S \subseteq DOMAIN q.strs
  OBVIOUS
<1> HIDE DEF p
<1>5. Sound(p)
  BY <1>2, <1>4, KeepSome
<1>6. /\ p.next = q.next /\ p.output = q.output /\ p.eof_idx = q.eof_idx
      /\ DOMAIN p.strs = S /\ \A k \in S : p.strs[k] = q.strs[k]
  <2> HIDE DEF S
  <2> QED
    BY <1>2 DEF Reassembler, Keep
<1>7. \A k \in S : EntryEnd(p, k) = EntryEnd(q, k)
  BY <1>6 DEF EntryEnd
<1>8. ASSUME NEW i \in Nat, HeldBy(q, i), ~HeldBy(p, i)
      PROVE  from <= i /\ i < end /\ \A k \in S : from <= k => i < k
  <2>1. PICK k \in DOMAIN q.strs : covers(q, k, i)
    BY <1>6, <1>8 DEF HeldBy
  <2>2. k <= i /\ i < EntryEnd(q, k) /\ k \in Nat /\ EntryEnd(q, k) \in Nat
    BY <2>1, EntryFacts DEF covers
  <2>3. k \in gone
    <3>1. SUFFICES ASSUME k \in S PROVE FALSE
      OBVIOUS
    <3>2. covers(p, k, i)
      BY <1>7, <2>2, <3>1 DEF covers
    <3> QED
      BY <1>6, <1>8, <3>1, <3>2 DEF HeldBy
  <2>4. from <= k /\ EntryEnd(q, k) <= end
    BY <1>3, <2>2, <2>3
  <2>5. ASSUME NEW j \in S, from <= j
        PROVE  i < j
    <3>1. j \in DOMAIN q.strs /\ j \notin gone
      BY <2>5
    <3>2. j \in Nat /\ (k < j => EntryEnd(q, k) <= j)
      BY <3>1, EntryFacts
    <3>3. ~(j <= k)
      <4>1. SUFFICES ASSUME j <= k PROVE j \in gone
        BY <3>1
      <4>2. \A l \in DOMAIN q.strs : from <= l /\ l <= j => l <= k
        BY <2>2, <3>2, <4>1, EntryFacts
      <4> QED
        BY <1>3, <2>3, <2>5, <3>1, <4>2
    <3> QED
      BY <2>2, <3>2, <3>3
  <2> QED
    BY <2>2, <2>4, <2>5
<1>9. ASSUME NEW k \in S, from <= k, ~(EntryEnd(q, k) > end)
      PROVE  \E j \in S : from <= j /\ j < k
  <2>1. k \in Nat /\ EntryEnd(q, k) \in Nat
    BY EntryFacts
  <2>2. PICK j \in DOMAIN q.strs : from <= j /\ j <= k /\ ~(EntryEnd(q, j) <= end)
    BY <1>3, <1>9
  <2>3. j \in Nat /\ EntryEnd(q, j) \in Nat
    BY EntryFacts
  <2>4. j \in S
    BY <1>3, <2>2, <2>3
  <2>5. j # k
    BY <1>9, <2>1, <2>2
  <2> QED
    BY <2>1, <2>2, <2>3, <2>4, <2>5
<1> HIDE DEF S
<1> QED
  BY <1>5, <1>6, <1>7, <1>8, <1>9 DEF p, S

\* The window ends as far from what was read as the capacity allows.
LEMMA WindowEnd ==
  ASSUME NEW q, Sound(q)
  PROVE  first_unacceptable_idx(q) = q.output.read + Capacity /\ q.output.read \in Nat
<1> DEFINE l == Len(q.output.buffer)
           a == q.output.read
<1>1. a \in Nat /\ l \in Nat /\ a + l = q.next /\ Capacity \in Nat
  BY ReassemblyAssumption DEF Sound, Output, ByteStreams
<1>2. first_unacceptable_idx(q) = q.next + Capacity - l
  BY DEF first_unacceptable_idx, Sound, Output
<1> HIDE DEF l, a
<1>3. q.next + Capacity - l = a + Capacity
  BY <1>1
<1> QED
  BY <1>1, <1>2, <1>3 DEF a

\* A stage of push_substring() that reads nothing from the output and does not end it.
Stage(q, p) ==
  /\ Sound(p)
  /\ p.output.read = q.output.read /\ p.output.ended = q.output.ended
  /\ p.eof_idx = q.eof_idx

\* A part that fits between the entries is stored.
LEMMA StorePart ==
  ASSUME NEW q, Sound(q), NEW idx \in Nat, q.next <= idx, NEW data, Part(idx, data), data # <<>>,
         \A k \in DOMAIN q.strs : EntryEnd(q, k) <= idx \/ idx + Len(data) <= k
  PROVE  LET p == store(q, idx, data)
         IN  /\ Stage(q, p) /\ p.next = q.next
             /\ \A i \in Nat : HeldBy(q, i) \/ (idx <= i /\ i < idx + Len(data)) => HeldBy(p, i)
<1> DEFINE p == store(q, idx, data)
           f == [k \in DOMAIN q.strs \cup {idx} |-> IF k = idx THEN data ELSE q.strs[k]]
           u == q.unassembled + Len(data)
<1>1. Len(data) \in Nat /\ Len(data) > 0
  BY DEF Part
<1>2. p = Reassembler(f, q.next, u, q.eof_idx, q.output)
  <2>1. p = [q EXCEPT !.strs = f, !.unassembled = u]
    BY DEF store, Sound, IsReassembler, Reassembler
  <2> HIDE DEF f, u
  <2> QED
    BY <2>1 DEF Sound, IsReassembler, Reassembler
<1>3. idx \notin DOMAIN q.strs
  BY <1>1, EntryFacts
<1>4. /\ DOMAIN f = DOMAIN q.strs \cup {idx}
      /\ f[idx] = data /\ \A k \in DOMAIN q.strs : f[k] = q.strs[k]
      /\ f = [k \in DOMAIN f |-> f[k]]
  BY <1>3
<1> HIDE DEF p, f, u
<1>5. p.strs = f /\ p.next = q.next /\ p.eof_idx = q.eof_idx /\ p.output = q.output /\ IsReassembler(p)
  BY <1>2 DEF Reassembler, IsReassembler
<1>6. \A k \in DOMAIN q.strs : k \in Nat /\ k < EntryEnd(q, k) /\ EntryEnd(q, k) = k + Len(q.strs[k])
                                 /\ EntryEnd(q, k) \in Nat
  BY EntryFacts
<1>7. Waiting(f, q.next)
  <2>1. ASSUME NEW k \in DOMAIN q.strs
        PROVE  /\ k < idx => k + Len(q.strs[k]) <= idx
               /\ idx < k => idx + Len(data) <= k
    BY <1>6, <2>1
  <2>2. DOMAIN f \subseteq Nat /\ \A k \in DOMAIN f : q.next <= k /\ f[k] # <<>> /\ Part(k, f[k])
    BY <1>4 DEF Sound, Waiting
  <2>3. ASSUME NEW j \in DOMAIN f, NEW k \in DOMAIN f, j < k
        PROVE  j + Len(f[j]) <= k
    <3>1. CASE j \in DOMAIN q.strs /\ k \in DOMAIN q.strs
      BY <1>4, <2>3, <3>1 DEF Sound, Waiting
    <3>2. CASE j = idx
      BY <1>4, <2>1, <2>3, <3>2
    <3>3. CASE k = idx
      BY <1>4, <2>1, <2>3, <3>3
    <3> QED
      BY <1>4, <3>1, <3>2, <3>3
  <2> QED
    BY <1>4, <2>2, <2>3 DEF Waiting
<1>8. Sound(p)
  BY <1>5, <1>7 DEF Sound
<1>9. \A i \in Nat : HeldBy(q, i) \/ (idx <= i /\ i < idx + Len(data)) => HeldBy(p, i)
  BY <1>4, <1>5 DEF HeldBy, covers, EntryEnd
<1> QED
  BY <1>5, <1>8, <1>9 DEF Stage, p

\* The next part of the stream is written, as far as the output takes it; nothing waits
\* before its end.
LEMMA WriteNext ==
  ASSUME NEW q, Sound(q), NEW data, Part(q.next, data),
         NEW n, n = accepts(q.output, Len(data)),
         \A k \in DOMAIN q.strs : q.next + n <= k,
         NEW p, p = Reassembler(q.strs, q.next + n, p.unassembled, q.eof_idx, write(q.output, data))
  PROVE  Stage(q, p) /\ n \in 0 .. Len(data) /\ p.next = q.next + n
<1> DEFINE w == write(q.output, data)
<1>1. Len(data) \in Nat /\ q.next \in Nat /\ Len(Stream) \in Nat /\ q.next + Len(data) <= Len(Stream)
  BY ReassemblyAssumption DEF Part, Sound
<1>2. n \in 0 .. Len(data)
  BY <1>1, Accepts DEF Sound
<1>3. Output(w, q.next + n) /\ w.ended = q.output.ended
  BY <1>1, WritePart DEF Sound
<1>4. w.read = q.output.read
  BY DEF write, Sound, Output, ByteStreams
<1> HIDE DEF w
<1>5. p.strs = q.strs /\ p.next = q.next + n /\ p.eof_idx = q.eof_idx /\ p.output = w /\ IsReassembler(p)
  BY DEF Reassembler, IsReassembler, w
<1>6. q.next + n \in 0 .. Len(Stream)
  BY <1>1, <1>2
<1>7. Waiting(q.strs, q.next + n)
  BY DEF Sound, Waiting
<1>8. w.ended => q.next + n = Len(Stream)
  <2>1. q.output.ended => q.next = Len(Stream)
    BY DEF Sound
  <2> QED
    BY <1>1, <1>2, <1>3, <2>1
<1>9. Sound(p)
  BY <1>3, <1>5, <1>6, <1>7, <1>8 DEF Sound
<1> QED
  BY <1>2, <1>3, <1>4, <1>5, <1>9 DEF Stage

\* New bytes that fit between the entries are held afterwards, and whatever was.
LEMMA DepositPart ==
  ASSUME NEW q, Sound(q), NEW idx \in Nat, q.next <= idx, NEW data, Part(idx, data),
         data # <<>> => \A k \in DOMAIN q.strs : EntryEnd(q, k) <= idx \/ idx + Len(data) <= k
  PROVE  LET p == deposit(q, idx, data)
         IN  /\ Stage(q, p)
             /\ \A i \in Nat : HeldBy(q, i) \/ (idx <= i /\ i < idx + Len(data)) => HeldBy(p, i)
<1> DEFINE n      == accepts(q.output, Len(data))
           direct == [q EXCEPT !.output = write(@, data), !.next = @ + n]
           p      == deposit(q, idx, data)
<1>1. Len(data) \in Nat /\ q.next \in Nat
  BY DEF Part, Sound
<1>2. CASE data = <<>>
  <2>1. p = q
    BY <1>2 DEF deposit
  <2>2. Len(data) = 0
    BY <1>2
  <2>3. Stage(q, q)
    BY DEF Stage
  <2> HIDE DEF p
  <2> QED
    BY <2>1, <2>2, <2>3 DEF p
<1>3. CASE data # <<>> /\ idx # q.next
  <2>1. p = store(q, idx, data)
    BY <1>3 DEF deposit
  <2> HIDE DEF p
  <2> QED
    BY <1>3, <2>1, StorePart DEF p
<1>4. CASE data # <<>> /\ idx = q.next
  <2>1. Len(data) > 0
    BY <1>1, <1>4
  <2>2. n \in 0 .. Len(data)
    BY <1>1, Accepts DEF Sound
  <2>3. ASSUME NEW k \in DOMAIN q.strs
        PROVE  q.next + Len(data) <= k
    <3>1. k \in Nat /\ q.next <= k /\ k < EntryEnd(q, k) /\ EntryEnd(q, k) \in Nat
      BY EntryFacts
    <3> QED
      BY <1>1, <1>4, <3>1
  <2>4. \E u : direct = Reassembler(q.strs, q.next + n, u, q.eof_idx, write(q.output, data))
    <3> DEFINE w == write(q.output, data)
               m == q.next + n
    <3>1. direct = [q EXCEPT !.output = w, !.next = m]
      BY DEF Sound, IsReassembler, Reassembler
    <3> HIDE DEF w, m, direct
    <3>2. direct = Reassembler(q.strs, m, q.unassembled, q.eof_idx, w)
      BY <3>1 DEF Sound, IsReassembler, Reassembler
    <3>3. \E u : direct = Reassembler(q.strs, m, u, q.eof_idx, w)
      BY <3>2
    <3> QED
      BY <3>3 DEF w, m, direct
  <2>5. direct = Reassembler(q.strs, q.next + n, direct.unassembled, q.eof_idx, write(q.output, data))
    <3> HIDE DEF direct
    <3> QED
      BY <2>4 DEF Reassembler
  <2>6. \A k \in DOMAIN q.strs : q.next + n <= k
    BY <1>1, <2>2, <2>3, EntryFacts
  <2> HIDE DEF direct
  <2>7. Stage(q, direct) /\ direct.next = q.next + n
    BY <1>4, <2>5, <2>6, WriteNext
  <2>8. direct.strs = q.strs
    BY <2>5 DEF Reassembler
  <2>9. \A i \in Nat : HeldBy(q, i) \/ (idx <= i /\ i < idx + n) => HeldBy(direct, i)
    <3>1. n \in Nat
      BY <1>1, <2>2
    <3> HIDE DEF n
    <3> QED
      BY <1>1, <1>4, <2>7, <2>8, <3>1 DEF HeldBy, covers, EntryEnd
  <2>10. CASE n = Len(data)
    <3>1. p = direct
      BY <1>4, <2>10 DEF deposit, direct
    <3> HIDE DEF p
    <3> QED
      BY <2>7, <2>9, <2>10, <3>1 DEF p
  <2>11. CASE n # Len(data)
    <3> DEFINE rest == SubSeq(data, n + 1, Len(data))
    <3>1. n \in Nat /\ n < Len(data)
      BY <1>1, <2>2, <2>11
    <3>2. p = store(direct, direct.next, rest)
      BY <1>4, <3>1 DEF deposit, direct
    <3>3. q.next + n <= Len(Stream)
      BY <1>1, <2>2, <1>4, ReassemblyAssumption DEF Part
    <3>4. Part(q.next + n, rest) /\ Len(rest) = Len(data) - n
      BY <1>1, <1>4, <3>1, <3>3, PartOfPart
    <3> HIDE DEF n, rest, p
    <3>5. rest # <<>>
      BY <1>1, <3>1, <3>4
    <3>6. (q.next + n) + Len(rest) = q.next + Len(data)
      BY <1>1, <3>1, <3>4
    <3>7. q.next + n \in Nat
      BY <1>1, <3>1
    <3>8. Sound(direct)
      BY <2>7 DEF Stage
    <3>9. \A k \in DOMAIN direct.strs : direct.next + Len(rest) <= k
      BY <2>3, <2>7, <2>8, <3>6
    <3>10. direct.next \in Nat /\ Part(direct.next, rest) /\ direct.next <= direct.next
      BY <2>7, <3>4, <3>7
    <3>11. /\ Stage(direct, p)
           /\ \A i \in Nat : HeldBy(direct, i) \/ (direct.next <= i /\ i < direct.next + Len(rest)) => HeldBy(p, i)
      BY <3>2, <3>5, <3>8, <3>9, <3>10, StorePart
    <3>12. \A i \in Nat : idx <= i /\ i < idx + Len(data) =>
              i < idx + n \/ (direct.next <= i /\ i < direct.next + Len(rest))
      BY <1>4, <2>7, <3>6, <3>7
    <3>13. Stage(q, p)
      BY <2>7, <3>11 DEF Stage
    <3> QED
      BY <2>9, <3>11, <3>12, <3>13 DEF p
  <2> QED
    BY <2>10, <2>11
<1> QED
  BY <1>2, <1>3, <1>4

\* What assemble() writes: the bytes from `next` to where the first gap is, as far as the
\* output takes them.
run_end(q) == Max({q.next} \cup {EntryEnd(q, k) : k \in assembling(q)})
taken(q)   == accepts(q.output, run_end(q) - q.next)
written_bytes(q) == [i \in 1 .. taken(q) |-> stored_byte(q, q.next + i - 1)]

\* There is no gap before run_end, and an entry that starts there or earlier is assembled.
LEMMA RunIsCovered ==
  ASSUME NEW q, Sound(q)
  PROVE  /\ q.next \in Nat /\ run_end(q) \in Nat /\ q.next <= run_end(q) /\ run_end(q) <= Len(Stream)
         /\ \A k \in assembling(q) : EntryEnd(q, k) <= run_end(q)
         /\ \A i \in q.next .. run_end(q) - 1 : \E k \in DOMAIN q.strs : covers(q, k, i)
         /\ \A k \in DOMAIN q.strs : k <= run_end(q) => k \in assembling(q)
<1> DEFINE run  == assembling(q)
           ends == {q.next} \cup {EntryEnd(q, k) : k \in run}
           end  == run_end(q)
<1>1. q.next \in Nat /\ q.next <= Len(Stream) /\ Len(Stream) \in Nat
  BY ReassemblyAssumption DEF Sound
<1>2. /\ run \subseteq DOMAIN q.strs
      /\ \A k \in run : q.next <= k /\ \A i \in q.next .. k - 1 : \E j \in DOMAIN q.strs : covers(q, j, i)
  BY DEF assembling
<1>3. \A k \in run : EntryEnd(q, k) \in Nat /\ EntryEnd(q, k) <= Len(Stream)
  BY <1>2, EntryFacts
<1>4. ends \subseteq Nat /\ ends # {} /\ \A y \in ends : y <= Len(Stream)
  BY <1>1, <1>3
<1>5. end = Max(ends)
  BY DEF run_end
<1>6. end \in ends /\ \A y \in ends : y <= end
  <2> HIDE DEF ends, end
  <2> QED
    BY <1>1, <1>4, <1>5, GreatestNatural
<1> HIDE DEF end, run
<1>7. end \in Nat /\ q.next <= end /\ end <= Len(Stream) /\ \A k \in run : EntryEnd(q, k) <= end
  BY <1>4, <1>6
<1>8. ASSUME NEW i \in q.next .. end - 1
      PROVE  \E k \in DOMAIN q.strs : covers(q, k, i)
  <2>1. end # q.next
    BY <1>1, <1>7
  <2>2. PICK k \in run : end = EntryEnd(q, k)
    BY <1>6, <2>1
  <2>3. k \in Nat /\ k \in DOMAIN q.strs
    BY <1>2, EntryFacts
  <2>4. CASE i < k
    BY <1>1, <1>2, <1>7, <2>3, <2>4
  <2>5. CASE ~(i < k)
    BY <1>1, <1>7, <2>2, <2>3, <2>5 DEF covers
  <2> QED
    BY <2>4, <2>5
<1>9. ASSUME NEW k \in DOMAIN q.strs, k <= end
      PROVE  k \in run
  <2>1. k \in Nat /\ q.next <= k
    BY EntryFacts
  <2>2. \A i \in q.next .. k - 1 : i \in q.next .. end - 1
    BY <1>1, <1>7, <1>9, <2>1
  <2> QED
    BY <1>8, <2>1, <2>2 DEF assembling, run
<1> QED
  BY <1>1, <1>7, <1>8, <1>9 DEF end, run

\* It writes the next part of the stream, and all of it: what is not written does not fit.
LEMMA AssembledBytes ==
  ASSUME NEW q, Sound(q)
  PROVE  /\ taken(q) \in 0 .. run_end(q) - q.next
         /\ ~q.output.ended /\ taken(q) < run_end(q) - q.next => Len(q.output.buffer) + taken(q) = Capacity
         /\ Output(write(q.output, written_bytes(q)), q.next + taken(q))
         /\ write(q.output, written_bytes(q)).ended = q.output.ended
         /\ write(q.output, written_bytes(q)).read = q.output.read
<1> DEFINE n == taken(q)
           d == written_bytes(q)
           room == run_end(q) - q.next
<1>1. q.next \in Nat /\ run_end(q) \in Nat /\ q.next <= run_end(q) /\ run_end(q) <= Len(Stream)
  BY RunIsCovered
<1>2. room \in Nat
  BY <1>1
<1>3. Output(q.output, q.next)
  BY DEF Sound
<1>4. /\ n \in 0 .. room /\ Len(q.output.buffer) + n <= Capacity
      /\ ~q.output.ended /\ n < room => Len(q.output.buffer) + n = Capacity
      /\ q.output.ended => n = 0
  <2> HIDE DEF room
  <2> QED
    BY <1>1, <1>2, <1>3, Accepts DEF taken, room
<1> HIDE DEF n
<1>5. n \in Nat /\ q.next + n <= run_end(q) /\ q.next + n <= Len(Stream)
  BY <1>1, <1>4, ReassemblyAssumption
<1>6. ASSUME NEW i \in 1 .. n
      PROVE  stored_byte(q, q.next + i - 1) = Stream[q.next + i] /\ Stream[q.next + i] \in Byte
  <2> DEFINE b == q.next + i - 1
             k == CHOOSE k \in DOMAIN q.strs : covers(q, k, b)
  <2>1. b \in q.next .. run_end(q) - 1 /\ b \in Nat /\ b + 1 = q.next + i
    BY <1>1, <1>5
  <2> HIDE DEF b
  <2>2. k \in DOMAIN q.strs /\ covers(q, k, b)
    BY <2>1, RunIsCovered
  <2>3. stored_byte(q, b) = q.strs[k][b - k + 1]
    BY DEF stored_byte
  <2> HIDE DEF k
  <2>4. k \in Nat /\ Part(k, q.strs[k]) /\ k <= b /\ b < k + Len(q.strs[k]) /\ Len(q.strs[k]) \in Nat
    BY <2>2, EntryFacts DEF covers, EntryEnd
  <2>5. b - k + 1 \in 1 .. Len(q.strs[k]) /\ k + (b - k + 1) = b + 1
    BY <2>1, <2>4
  <2>6. q.strs[k][b - k + 1] = Stream[b + 1]
    BY <2>4, <2>5 DEF Part
  <2>7. Stream[q.next + i] \in Byte
    <3>1. q.next + i \in 1 .. Len(Stream)
      BY <1>1, <1>5, ReassemblyAssumption
    <3> QED
      BY <3>1, ReassemblyAssumption
  <2> QED
    BY <2>1, <2>3, <2>6, <2>7 DEF b
<1>7. d \in Seq(Byte) /\ Len(d) = n /\ \A i \in 1 .. n : d[i] = Stream[q.next + i]
  <2>1. d = [i \in 1 .. n |-> stored_byte(q, q.next + i - 1)]
    BY DEF written_bytes, n
  <2> HIDE DEF d
  <2>2. d \in [1 .. n -> Byte] /\ \A i \in 1 .. n : d[i] = Stream[q.next + i]
    BY <1>6, <2>1
  <2>3. d \in Seq(Byte)
    BY <1>5, <2>2
  <2>4. Len(d) = n
    BY <1>5, <2>2, <2>3
  <2> QED
    BY <2>2, <2>3, <2>4
<1> HIDE DEF d
<1>8. Part(q.next, d)
  BY <1>5, <1>7 DEF Part
<1>9. accepts(q.output, n) = n
  <2> DEFINE a == accepts(q.output, n)
             l == Len(q.output.buffer)
  <2>1. /\ a \in 0 .. n /\ (q.output.ended => a = 0)
        /\ ~q.output.ended /\ a < n => l + a = Capacity
    BY <1>1, <1>3, <1>5, Accepts
  <2>2. l \in Nat /\ l + n <= Capacity /\ (q.output.ended => n = 0) /\ Capacity \in Nat
    BY <1>3, <1>4, ReassemblyAssumption DEF Output, ByteStreams
  <2> HIDE DEF a, l
  <2>3. a = n
    BY <1>5, <2>1, <2>2
  <2> QED
    BY <2>3 DEF a
<1>10. /\ Output(write(q.output, d), q.next + n)
       /\ write(q.output, d).ended = q.output.ended
  BY <1>1, <1>3, <1>7, <1>8, <1>9, WritePart
<1>11. write(q.output, d).read = q.output.read
  BY <1>3 DEF write, Output, ByteStreams
<1> HIDE DEF room
<1> QED
  BY <1>4, <1>10, <1>11 DEF n, d, room

\* The assembling loop loses no byte of the window.
LEMMA AssemblePart ==
  ASSUME NEW q, Sound(q)
  PROVE  LET p == assemble(q)
         IN  /\ Stage(q, p)
             /\ \A i \in Nat : HeldBy(q, i) /\ InWindow(q, i) => HeldBy(p, i)
<1> DEFINE run   == assembling(q)
           n     == taken(q)
           next  == q.next + n
           split == {k \in run : k < next /\ next < EntryEnd(q, k)}
           kept  == (DOMAIN q.strs \ {k \in run : k <= next}) \cup (IF split = {} THEN {} ELSE {next})
           whole == CHOOSE s \in split : TRUE
           rest(k) == SubSeq(q.strs[k], next - k + 1, Len(q.strs[k]))
           f     == [k \in kept |-> IF k = next THEN rest(whole) ELSE q.strs[k]]
           u     == q.unassembled - n
           w     == write(q.output, written_bytes(q))
           p     == assemble(q)
<1>1. p = Reassembler(f, next, u, q.eof_idx, w)
  <2>1. p = [q EXCEPT !.strs = f, !.next = next, !.unassembled = u, !.output = w]
    BY DEF assemble, written_bytes, taken, run_end
  <2> HIDE DEF f, u, w, next, p
  <2>2. p = Reassembler(f, next, u, q.eof_idx, w)
    BY <2>1 DEF Sound, IsReassembler, Reassembler
  <2> QED
    BY <2>2 DEF p
<1>2. /\ q.next \in Nat /\ run_end(q) \in Nat /\ q.next <= run_end(q) /\ run_end(q) <= Len(Stream)
      /\ \A k \in run : EntryEnd(q, k) <= run_end(q)
      /\ \A k \in DOMAIN q.strs : k <= run_end(q) => k \in run
      /\ run \subseteq DOMAIN q.strs
  BY RunIsCovered DEF assembling
<1>3. n \in 0 .. run_end(q) - q.next
  BY AssembledBytes
<1>4. Output(w, next) /\ w.ended = q.output.ended /\ w.read = q.output.read
  BY AssembledBytes
<1> HIDE DEF p, u, w, run, n
<1>5. n \in Nat /\ next \in Nat /\ q.next <= next /\ next <= run_end(q) /\ next <= Len(Stream) /\ Len(Stream) \in Nat
  BY <1>2, <1>3, ReassemblyAssumption
<1> HIDE DEF next
<1>6. p.strs = f /\ p.next = next /\ p.eof_idx = q.eof_idx /\ p.output = w /\ IsReassembler(p)
  <2> HIDE DEF f
  <2> QED
    BY <1>1 DEF Reassembler, IsReassembler
<1>7. \A k \in DOMAIN q.strs : /\ k \in Nat /\ EntryEnd(q, k) \in Nat /\ k < EntryEnd(q, k)
                                /\ q.next <= k /\ EntryEnd(q, k) <= Len(Stream)
  BY EntryFacts
<1>8. kept = {k \in DOMAIN q.strs : next < k} \cup (IF split = {} THEN {} ELSE {next})
  <2>1. \A k \in DOMAIN q.strs : k <= next => k \in run
    BY <1>2, <1>5, <1>7
  <2>2. DOMAIN q.strs \ {k \in run : k <= next} = {k \in DOMAIN q.strs : next < k}
    BY <1>2, <1>5, <1>7, <2>1
  <2> HIDE DEF split
  <2> QED
    BY <2>2
<1> HIDE DEF kept
<1>9. DOMAIN f = kept /\ f = [k \in DOMAIN f |-> f[k]]
  OBVIOUS
<1>10. \A k \in DOMAIN q.strs : next < k => k \in kept /\ f[k] = q.strs[k]
  BY <1>5, <1>7, <1>8
<1>11. ASSUME split # {}
       PROVE  /\ next \in kept /\ Part(next, f[next]) /\ Len(f[next]) \in Nat /\ Len(f[next]) > 0
              /\ next + Len(f[next]) = EntryEnd(q, whole)
              /\ whole \in DOMAIN q.strs /\ whole < next /\ next < EntryEnd(q, whole)
  <2>1. whole \in split
    BY <1>11
  <2>2. next \in kept /\ f[next] = rest(whole)
    BY <1>8, <1>11
  <2> HIDE DEF whole, f
  <2>3. whole \in DOMAIN q.strs /\ whole < next /\ next < EntryEnd(q, whole)
    BY <1>2, <2>1
  <2>4. /\ whole \in Nat /\ Part(whole, q.strs[whole]) /\ Len(q.strs[whole]) \in Nat
        /\ EntryEnd(q, whole) = whole + Len(q.strs[whole])
    BY <2>3, EntryFacts
  <2> DEFINE m == next - whole
             l == Len(q.strs[whole])
  <2>5. m \in Nat /\ m < l /\ l \in Nat /\ whole + m = next /\ next + (l - m) = whole + l
    BY <1>5, <2>3, <2>4
  <2>6. f[next] = SubSeq(q.strs[whole], m + 1, l)
    BY <2>2
  <2> HIDE DEF m, l
  <2>7. Part(whole + m, f[next]) /\ Len(f[next]) = l - m
    BY <1>5, <2>4, <2>5, <2>6, PartOfPart DEF l
  <2>8. Part(next, f[next]) /\ Len(f[next]) \in Nat /\ Len(f[next]) > 0 /\ next + Len(f[next]) = EntryEnd(q, whole)
    BY <2>4, <2>5, <2>7 DEF l
  <2> QED
    BY <2>2, <2>3, <2>8 DEF whole, f
<1> HIDE DEF f
<1>12. \A k \in kept : k # next => k \in DOMAIN q.strs /\ next < k
  BY <1>8
<1>13. next \in kept => split # {}
  BY <1>5, <1>8
<1>14. whole \in DOMAIN q.strs => \A k \in DOMAIN q.strs : whole < k => EntryEnd(q, whole) <= k
  <2> HIDE DEF whole
  <2> QED
    BY EntryFacts
<1> HIDE DEF whole
<1>15. Waiting(f, next)
  <2>1. \A k \in kept : k \in Nat /\ next <= k
    BY <1>5, <1>7, <1>12
  <2>2. ASSUME NEW k \in kept
        PROVE  f[k] # <<>> /\ Part(k, f[k])
    <3>1. CASE k = next
      BY <1>11, <1>13, <3>1
    <3>2. CASE k # next
      BY <1>10, <1>12, <3>2 DEF Sound, Waiting
    <3> QED
      BY <3>1, <3>2
  <2>3. ASSUME NEW j \in kept, NEW k \in kept, j < k
        PROVE  j + Len(f[j]) <= k
    <3>1. k # next /\ k \in DOMAIN q.strs /\ next < k
      BY <1>5, <1>12, <2>1, <2>3
    <3>2. CASE j = next
      BY <1>5, <1>7, <1>11, <1>13, <1>14, <3>1, <3>2
    <3>3. CASE j # next
      BY <1>10, <1>12, <2>3, <3>1, <3>3 DEF Sound, Waiting
    <3> QED
      BY <3>2, <3>3
  <2> QED
    BY <1>9, <2>1, <2>2, <2>3 DEF Waiting
<1>16. Stage(q, p)
  <2>1. w.ended => next = Len(Stream)
    BY <1>4, <1>5 DEF Sound
  <2>2. Sound(p)
    BY <1>4, <1>5, <1>6, <1>15, <2>1 DEF Sound
  <2> QED
    BY <1>4, <1>6, <2>2 DEF Stage
<1>17. \A k \in kept : EntryEnd(p, k) = k + Len(f[k])
  BY <1>6 DEF EntryEnd
<1>18. ASSUME NEW i \in Nat, HeldBy(q, i), InWindow(q, i)
       PROVE  HeldBy(p, i)
  <2>1. CASE i < next
    BY <1>6, <2>1 DEF HeldBy
  <2>2. CASE ~(i < next)
    <3>1. PICK k \in DOMAIN q.strs : k <= i /\ i < EntryEnd(q, k)
      BY <1>2, <1>5, <1>18, <2>2 DEF HeldBy, covers
    <3>2. CASE next < k
      <4>1. k \in kept /\ EntryEnd(p, k) = EntryEnd(q, k)
        BY <1>10, <1>17, <3>2 DEF EntryEnd
      <4> QED
        BY <1>6, <1>9, <3>1, <4>1 DEF HeldBy, covers
    <3>3. CASE k < next
      <4>1. k \in split
        BY <1>2, <1>5, <1>7, <2>2, <3>1, <3>3
      <4>2. split # {}
        BY <4>1
      <4>3. /\ next \in kept /\ next + Len(f[next]) = EntryEnd(q, whole)
            /\ whole \in DOMAIN q.strs /\ whole < next /\ next < EntryEnd(q, whole)
        BY <1>11, <4>2
      <4>4. whole = k
        <5>1. ~(whole < k)
          BY <1>5, <1>7, <1>14, <3>3, <4>3
        <5>2. k < whole => EntryEnd(q, k) <= whole
          BY <4>3, EntryFacts
        <5> QED
          BY <1>5, <1>7, <2>2, <3>1, <4>3, <5>1, <5>2
      <4>5. EntryEnd(p, next) = EntryEnd(q, k)
        BY <1>17, <4>3, <4>4
      <4> QED
        BY <1>5, <1>6, <1>9, <2>2, <3>1, <4>3, <4>5 DEF HeldBy, covers
    <3>4. CASE k = next
      <4>1. k \in run
        BY <1>2, <1>5, <3>4
      <4>2. EntryEnd(q, k) <= run_end(q) /\ EntryEnd(q, k) \in Nat /\ k < EntryEnd(q, k)
        BY <1>2, <1>7, <4>1
      <4>3. n < run_end(q) - q.next
        BY <1>2, <1>5, <3>4, <4>2 DEF next
      <4>4. ~q.output.ended
        BY <1>2, <1>7 DEF Sound
      <4>5. Len(q.output.buffer) + n = Capacity
        BY <4>3, <4>4, AssembledBytes DEF n
      <4>6. first_unacceptable_idx(q) = next
        <5> DEFINE l == Len(q.output.buffer)
        <5>1. l \in Nat /\ l + n = Capacity
          BY <4>5 DEF Sound, Output, ByteStreams
        <5>2. first_unacceptable_idx(q) = q.next + Capacity - l
          BY DEF first_unacceptable_idx, Sound, Output
        <5> HIDE DEF l
        <5> QED
          BY <1>2, <1>5, <5>1, <5>2 DEF next
      <4> QED
        BY <1>5, <1>18, <2>2, <4>6 DEF InWindow
    <3> QED
      BY <1>5, <1>7, <3>2, <3>3, <3>4
  <2> QED
    BY <2>1, <2>2
<1> QED
  BY <1>16, <1>18 DEF p

\* The output ends when the last byte is assembled.
LEMMA MarkEof ==
  ASSUME NEW q, Sound(q), NEW end, NEW is_last, is_last => end = Len(Stream)
  PROVE  LET p == mark_eof(q, end, is_last)
         IN  /\ Sound(p)
             /\ p.next = q.next /\ p.strs = q.strs /\ p.output.read = q.output.read
<1> DEFINE e == IF is_last THEN end ELSE q.eof_idx
           p == mark_eof(q, end, is_last)
           o == IF e # NoEof /\ e <= q.next THEN end_input(q.output) ELSE q.output
<1>1. e \in {NoEof, Len(Stream)}
  BY DEF Sound
<1>2. p = Reassembler(q.strs, q.next, q.unassembled, e, o)
  <2>1. p = [q EXCEPT !.eof_idx = e, !.output = o]
    BY DEF mark_eof
  <2> HIDE DEF e, o, p
  <2>2. p = Reassembler(q.strs, q.next, q.unassembled, e, o)
    BY <2>1 DEF Sound, IsReassembler, Reassembler
  <2> QED
    BY <2>2 DEF p
<1>3. q.next \in Nat /\ Len(Stream) \in Nat /\ q.next <= Len(Stream) /\ Output(q.output, q.next)
  BY ReassemblyAssumption DEF Sound
<1> HIDE DEF p, e
<1>4. /\ Output(o, q.next) /\ o.read = q.output.read
      /\ o.ended => q.output.ended \/ (e # NoEof /\ e <= q.next)
  <2>1. CASE e # NoEof /\ e <= q.next
    <3>1. o = [q.output EXCEPT !.ended = TRUE]
      BY <2>1 DEF end_input
    <3> HIDE DEF o
    <3>2. o \in ByteStreams(Byte)
      BY <1>3, <3>1 DEF Output, ByteStreams
    <3>3. /\ o.buffer = q.output.buffer /\ o.read = q.output.read /\ o.written = q.output.written
          /\ o.capacity = q.output.capacity /\ o.error = q.output.error
      BY <1>3, <3>1 DEF Output, ByteStreams
    <3> QED
      BY <1>3, <2>1, <3>2, <3>3 DEF Output
  <2>2. CASE ~(e # NoEof /\ e <= q.next)
    <3>1. o = q.output
      BY <2>2
    <3> QED
      BY <1>3, <3>1
  <2> QED
    BY <2>1, <2>2
<1> HIDE DEF o
<1>5. /\ p.strs = q.strs /\ p.next = q.next /\ p.eof_idx = e /\ p.output = o /\ IsReassembler(p)
  BY <1>2 DEF Reassembler, IsReassembler
<1>6. o.ended => q.next = Len(Stream)
  BY <1>1, <1>3, <1>4 DEF Sound
<1>7. Sound(p)
  BY <1>1, <1>4, <1>5, <1>6 DEF Sound
<1> QED
  BY <1>4, <1>5, <1>7 DEF p

\* A substring is pushed: what it brings within the window is held, and so is what was.
LEMMA PushPart ==
  ASSUME NEW q, Sound(q), NEW index \in Nat, NEW len \in Nat, index + len <= Len(Stream),
         NEW is_last, is_last => index + len = Len(Stream)
  PROVE  LET p == push_substring(q, SubSeq(Stream, index + 1, index + len), index, is_last)
         IN  /\ Sound(p) /\ p.output.read = q.output.read
             /\ \A i \in Nat : /\ InWindow(q, i)
                               /\ HeldBy(q, i) \/ (index <= i /\ i < index + len)
                               => HeldBy(p, i)
<1> DEFINE data == SubSeq(Stream, index + 1, index + len)
           from == new_idx(q, index)
           last == index + len
           q1   == discard_swallowed(q, from, last)
           end  == clipped_end(q1, from, last)
           new  == SubSeq(data, from - index + 1, end - index)
           q2   == deposit(q1, from, new)
           q3   == assemble(q2)
           p    == push_substring(q, data, index, is_last)
<1>1. Len(Stream) \in Nat /\ index <= Len(Stream) /\ last \in Nat
  BY ReassemblyAssumption
<1>2. Part(index, data) /\ Len(data) = len
  <2>1. Part(0, Stream)
    BY ReassemblyAssumption DEF Part
  <2>2. /\ Part(0 + index, SubSeq(Stream, index + 1, last))
        /\ Len(SubSeq(Stream, index + 1, last)) = IF index <= last THEN last - index ELSE 0
    BY <1>1, <2>1, PartOfPart
  <2>3. 0 + index = index /\ index <= last /\ last - index = len
    BY <1>1
  <2> HIDE DEF last
  <2> QED
    BY <2>2, <2>3 DEF last
<1>3. p = IF first_unacceptable_idx(q1) <= from THEN q1 ELSE mark_eof(q3, last, is_last)
  <2> HIDE DEF data
  <2> QED
    BY <1>2 DEF push_substring
<1> HIDE DEF data, p
<1>4. /\ from \in Nat /\ index <= from /\ q.next <= from /\ from <= Len(Stream)
      /\ \A k \in DOMAIN q.strs : EntryEnd(q, k) <= from \/ from <= k
      /\ \A i \in index .. from - 1 : HeldBy(q, i)
  BY <1>1, NewIdx
<1> HIDE DEF from, last
<1>5. /\ Sound(q1)
      /\ q1.next = q.next /\ q1.output = q.output /\ q1.eof_idx = q.eof_idx
      /\ DOMAIN q1.strs \subseteq DOMAIN q.strs
      /\ \A k \in DOMAIN q1.strs : q1.strs[k] = q.strs[k]
      /\ \A i \in Nat : HeldBy(q, i) =>
           \/ HeldBy(q1, i)
           \/ from <= i /\ i < last /\ \A k \in DOMAIN q1.strs : from <= k => i < k
      /\ \A k \in DOMAIN q1.strs : from <= k =>
           EntryEnd(q1, k) > last \/ \E j \in DOMAIN q1.strs : from <= j /\ j < k
  BY <1>1, <1>4, DiscardSwallowed
<1> HIDE DEF q1
<1>6. \A k \in DOMAIN q1.strs : k \in Nat /\ EntryEnd(q1, k) \in Nat
  BY <1>5, EntryFacts
<1>7. /\ end \in Nat /\ end <= last
      /\ end = last \/ (end \in DOMAIN q1.strs /\ from <= end)
      /\ \A k \in DOMAIN q1.strs : from <= k => end <= k
  <2> DEFINE stops == {last} \cup {k \in DOMAIN q1.strs : from <= k}
  <2>1. stops \subseteq Nat /\ stops # {}
    BY <1>1, <1>6
  <2>2. end = Min(stops)
    BY DEF clipped_end
  <2>3. end \in stops /\ \A y \in stops : end <= y
    <3> HIDE DEF stops, end
    <3> QED
      BY <2>1, <2>2, LeastNatural
  <2> HIDE DEF end
  <2> QED
    BY <2>1, <2>3
<1> HIDE DEF end
<1>8. Part(from, new) /\ (from <= end => Len(new) = end - from) /\ (~(from <= end) => Len(new) = 0)
  <2> DEFINE m == from - index
             n == end - index
  <2>1. m \in Nat /\ n \in Nat /\ n <= len /\ index + m = from /\ n - m = end - from /\ (m <= n <=> from <= end)
    BY <1>1, <1>4, <1>7 DEF last
  <2> HIDE DEF m, n
  <2>2. Part(index + m, SubSeq(data, m + 1, n)) /\ Len(SubSeq(data, m + 1, n)) = IF m <= n THEN n - m ELSE 0
    BY <1>2, <1>4, <2>1, PartOfPart
  <2>3. new = SubSeq(data, m + 1, n)
    BY DEF m, n
  <2> HIDE DEF new
  <2> QED
    BY <2>1, <2>2, <2>3 DEF new
<1> HIDE DEF new
<1>9. new # <<>> => \A k \in DOMAIN q1.strs : EntryEnd(q1, k) <= from \/ from + Len(new) <= k
  <2>1. SUFFICES ASSUME new # <<>>, NEW k \in DOMAIN q1.strs, ~(EntryEnd(q1, k) <= from)
                 PROVE  from + Len(new) <= k
    OBVIOUS
  <2>2. Len(new) # 0
    BY <1>8, <2>1 DEF Part
  <2>3. from <= end /\ Len(new) = end - from
    BY <1>8, <2>2
  <2>4. EntryEnd(q1, k) = EntryEnd(q, k)
    BY <1>5 DEF EntryEnd
  <2>5. from <= k
    BY <1>4, <1>5, <2>1, <2>4
  <2> QED
    BY <1>4, <1>6, <1>7, <2>3, <2>5
<1>10. /\ Stage(q1, q2)
       /\ \A i \in Nat : HeldBy(q1, i) \/ (from <= i /\ i < from + Len(new)) => HeldBy(q2, i)
  BY <1>4, <1>5, <1>8, <1>9, DepositPart
<1> HIDE DEF q2
<1>11. /\ Stage(q2, q3)
       /\ \A i \in Nat : HeldBy(q2, i) /\ InWindow(q2, i) => HeldBy(q3, i)
  BY <1>10, AssemblePart DEF Stage
<1> HIDE DEF q3
<1>12. first_unacceptable_idx(q1) = first_unacceptable_idx(q) /\ first_unacceptable_idx(q2) = first_unacceptable_idx(q)
  BY <1>5, <1>10, WindowEnd DEF Stage
<1>13. first_unacceptable_idx(q) \in Nat
  BY WindowEnd, ReassemblyAssumption
<1>14. CASE first_unacceptable_idx(q1) <= from
  <2>1. p = q1
    BY <1>3, <1>14
  <2>2. ASSUME NEW i \in Nat, InWindow(q, i), HeldBy(q, i) \/ (index <= i /\ i < last)
        PROVE  HeldBy(q1, i)
    <3>1. i < from
      BY <1>4, <1>12, <1>13, <1>14, <2>2 DEF InWindow
    <3>2. HeldBy(q, i)
      BY <1>4, <2>2, <3>1
    <3> QED
      BY <1>4, <1>5, <3>1, <3>2
  <2> QED
    BY <1>5, <2>1, <2>2 DEF p, data, last
<1>15. CASE ~(first_unacceptable_idx(q1) <= from)
  <2>1. p = mark_eof(q3, last, is_last)
    BY <1>3, <1>15
  <2>2. Sound(p) /\ p.next = q3.next /\ p.strs = q3.strs /\ p.output.read = q3.output.read
    BY <1>11, <2>1, MarkEof DEF Stage, last
  <2>3. p.output.read = q.output.read
    BY <1>5, <1>10, <1>11, <2>2 DEF Stage
  <2>4. \A i \in Nat : HeldBy(q3, i) => HeldBy(p, i)
    BY <2>2 DEF HeldBy, covers, EntryEnd
  <2>5. ASSUME NEW i \in Nat, from <= i, i < end
        PROVE  HeldBy(q2, i)
    <3>1. from <= end /\ from + (end - from) = end
      BY <1>4, <1>7, <2>5
    <3> QED
      BY <1>8, <1>10, <2>5, <3>1
  <2>6. ASSUME NEW i \in Nat, HeldBy(q, i)
        PROVE  HeldBy(q2, i)
    <3>1. CASE HeldBy(q1, i)
      BY <1>10, <3>1
    <3>2. CASE ~HeldBy(q1, i)
      <4>1. from <= i /\ i < last /\ \A k \in DOMAIN q1.strs : from <= k => i < k
        BY <1>5, <2>6, <3>2
      <4>2. i < end
        BY <1>7, <4>1
      <4> QED
        BY <2>5, <4>1, <4>2
    <3> QED
      BY <3>1, <3>2
  <2>7. ASSUME NEW i \in Nat, index <= i, i < last
        PROVE  HeldBy(q2, i)
    <3>1. CASE i < from
      BY <1>4, <2>6, <2>7, <3>1
    <3>2. CASE ~(i < from) /\ i < end
      BY <1>4, <2>5, <3>2
    <3>3. CASE ~(i < from) /\ ~(i < end)
      <4>1. end \in DOMAIN q1.strs /\ from <= end
        BY <1>1, <1>7, <2>7, <3>3
      <4>2. EntryEnd(q1, end) > last
        BY <1>5, <1>6, <1>7, <4>1
      <4>3. covers(q1, end, i)
        BY <1>1, <1>6, <1>7, <2>7, <3>3, <4>1, <4>2 DEF covers
      <4> QED
        BY <1>10, <4>1, <4>3 DEF HeldBy
    <3> QED
      BY <3>1, <3>2, <3>3
  <2>8. ASSUME NEW i \in Nat, InWindow(q, i), HeldBy(q, i) \/ (index <= i /\ i < last)
        PROVE  HeldBy(p, i)
    <3>1. InWindow(q2, i)
      BY <1>12, <2>8 DEF InWindow
    <3> QED
      BY <1>11, <2>4, <2>6, <2>7, <2>8, <3>1
  <2> QED
    BY <2>2, <2>3, <2>8 DEF p, data, last
<1> QED
  BY <1>14, <1>15

-----------------------------------------------------------------------------
(* The application's side. *)

\* What was read is the stream up to where the output has been read.
Delivered(q, read) ==
  /\ read \in Seq(Byte) /\ Len(read) = q.output.read
  /\ \A i \in 1 .. Len(read) : read[i] = Stream[i]

\* Popping moves bytes from the output to the application and disturbs nothing else.
LEMMA PopPart ==
  ASSUME NEW q, Sound(q), NEW read, Delivered(q, read), NEW len \in Nat
  PROVE  LET p == pop_assembled(q, len)
         IN  /\ Sound(p) /\ p.next = q.next /\ p.strs = q.strs
             /\ Delivered(p, read \o peek_output(q.output, len))
<1> DEFINE o == q.output
           l == Len(o.buffer)
           a == o.read
           n == peekable(o, len)
           head == SubSeq(o.buffer, 1, n)
           tail == SubSeq(o.buffer, n + 1, l)
           v == pop_output(o, len)
           p == pop_assembled(q, len)
<1>1. Output(o, q.next) /\ q.next \in Nat /\ q.next <= Len(Stream) /\ Len(Stream) \in Nat
  BY ReassemblyAssumption DEF Sound
<1>2. o \in ByteStreams(Byte) /\ o.buffer \in Seq(Byte) /\ l \in Nat /\ a \in Nat /\ a + l = q.next
  BY <1>1 DEF Output, ByteStreams
<1>3. n = IF len <= l THEN len ELSE l
  BY <1>1 DEF peekable, Smaller, Output
<1>4. Part(a, o.buffer)
  BY <1>1, <1>2 DEF Part, Output
<1>5. v = [o EXCEPT !.buffer = tail, !.read = a + n]
  BY <1>2, Zenon DEF pop_output, ByteStreams
<1>6. peek_output(o, len) = head
  BY DEF peek_output
<1> HIDE DEF n
<1>7. n \in Nat /\ n <= l
  BY <1>2, <1>3
<1>8. Part(a, head) /\ Len(head) = n
  <2>1. Part(a + 0, SubSeq(o.buffer, 0 + 1, n)) /\ Len(SubSeq(o.buffer, 0 + 1, n)) = n
    <3>1. n <= Len(o.buffer) /\ a + 0 <= Len(Stream) /\ 0 <= n /\ n - 0 = n
      BY <1>1, <1>2, <1>7
    <3> HIDE DEF a, l
    <3> QED
      BY <1>2, <1>4, <1>7, <3>1, PartOfPart DEF l
  <2>2. a + 0 = a /\ 0 + 1 = 1
    BY <1>2
  <2> HIDE DEF o, a
  <2> QED
    BY <2>1, <2>2 DEF head
<1>9. Part(a + n, tail) /\ Len(tail) = l - n
  <2>1. a + n <= Len(Stream)
    BY <1>1, <1>2, <1>7
  <2> QED
    BY <1>2, <1>4, <1>7, <2>1, PartOfPart
<1> HIDE DEF head, tail
<1>10. /\ v \in ByteStreams(Byte) /\ v.buffer = tail /\ v.read = a + n
       /\ v.capacity = o.capacity /\ v.written = o.written /\ v.error = o.error /\ v.ended = o.ended
  <2> DEFINE b == a + n
  <2>1. b \in Nat /\ tail \in Seq(Byte)
    BY <1>2, <1>7, <1>9 DEF Part
  <2> HIDE DEF b
  <2>2. ASSUME NEW x, x = [o EXCEPT !.buffer = tail, !.read = b]
        PROVE  /\ x \in ByteStreams(Byte) /\ x.buffer = tail /\ x.read = b
               /\ x.capacity = o.capacity /\ x.written = o.written /\ x.error = o.error /\ x.ended = o.ended
    BY <1>2, <2>1, <2>2 DEF ByteStreams
  <2> HIDE DEF v
  <2> QED
    BY <1>5, <2>2 DEF b, v
<1> HIDE DEF v
<1>11. Output(v, q.next)
  <2>1. \A i \in 1 .. l - n : tail[i] = Stream[(a + n) + i]
    BY <1>9 DEF Part
  <2>2. (a + n) + (l - n) = q.next /\ l - n <= l
    BY <1>2, <1>7
  <2>3. l <= Capacity /\ Capacity \in Nat
    BY <1>1, ReassemblyAssumption DEF Output
  <2>4. l - n <= Capacity
    BY <1>2, <1>7, <2>3
  <2>5. o.capacity = Capacity /\ ~o.error /\ o.written = q.next
    BY <1>1 DEF Output
  <2> HIDE DEF a, l, o
  <2> QED
    BY <1>9, <1>10, <2>1, <2>2, <2>4, <2>5 DEF Output
<1>12. p = Reassembler(q.strs, q.next, q.unassembled, q.eof_idx, v)
  <2>1. p = [q EXCEPT !.output = v]
    BY DEF pop_assembled, v
  <2> HIDE DEF p
  <2>2. p = Reassembler(q.strs, q.next, q.unassembled, q.eof_idx, v)
    BY <2>1 DEF Sound, IsReassembler, Reassembler
  <2> QED
    BY <2>2 DEF p
<1> HIDE DEF p
<1>13. /\ p.strs = q.strs /\ p.next = q.next /\ p.eof_idx = q.eof_idx /\ p.output = v /\ IsReassembler(p)
  BY <1>12 DEF Reassembler, IsReassembler
<1>14. Sound(p)
  BY <1>10, <1>11, <1>13 DEF Sound
<1>15. Delivered(p, read \o head)
  <2> DEFINE b == read \o head
  <2>1. read \in Seq(Byte) /\ Len(read) = a /\ head \in Seq(Byte)
    BY <1>8 DEF Delivered, Part
  <2> HIDE DEF a
  <2>2. /\ b \in Seq(Byte) /\ Len(b) = a + n
        /\ \A i \in 1 .. a + n : b[i] = IF i <= a THEN read[i] ELSE head[i - a]
    BY <1>8, <2>1, ConcatProperties
  <2> HIDE DEF b
  <2>3. ASSUME NEW i \in 1 .. Len(b)
        PROVE  b[i] = Stream[i]
    <3>1. i \in Nat /\ 1 <= i /\ i <= a + n
      BY <1>2, <1>7, <2>2
    <3>2. CASE i <= a
      <4>1. b[i] = read[i] /\ i \in 1 .. Len(read)
        BY <1>2, <2>1, <2>2, <3>1, <3>2
      <4> QED
        BY <4>1 DEF Delivered
    <3>3. CASE ~(i <= a)
      <4>1. b[i] = head[i - a]
        BY <2>2, <3>1, <3>3
      <4>2. i - a \in 1 .. n /\ a + (i - a) = i
        BY <1>2, <1>7, <3>1, <3>3
      <4> QED
        BY <1>8, <4>1, <4>2 DEF Part
    <3> QED
      BY <3>2, <3>3
  <2>4. p.output.read = a + n
    BY <1>10, <1>13 DEF a
  <2> QED
    BY <2>2, <2>3, <2>4 DEF Delivered, b
<1> QED
  BY <1>6, <1>13, <1>14, <1>15 DEF p, o

-----------------------------------------------------------------------------
(* The invariant of the specification. *)

SoundDelivery == Sound(r) /\ Delivered(r, popped)

LEMMA SoundInit == Init => SoundDelivery
<1> SUFFICES ASSUME Init PROVE SoundDelivery
  OBVIOUS
<1>1. r = NewReassembler(Capacity) /\ popped = <<>>
  BY DEF Init
<1>2. Capacity \in Nat /\ Len(Stream) \in Nat
  BY ReassemblyAssumption
<1> DEFINE o == NewByteStream(Capacity)
<1>3. /\ r.strs = <<>> /\ r.next = 0 /\ r.eof_idx = NoEof /\ r.output = o /\ IsReassembler(r)
  BY <1>1 DEF NewReassembler, IsReassembler, Reassembler
<1>4. /\ o \in ByteStreams(Byte) /\ o.buffer = <<>> /\ o.read = 0 /\ o.written = 0
      /\ o.capacity = Capacity /\ o.error = FALSE /\ o.ended = FALSE
  BY <1>2, EmptySeq DEF NewByteStream, ByteStreams
<1> HIDE DEF o
<1>5. Output(r.output, 0)
  <2>1. Len(o.buffer) = 0 /\ 0 <= Capacity
    BY <1>2, <1>4
  <2> QED
    BY <1>3, <1>4, <2>1 DEF Output
<1>6. Waiting(r.strs, 0)
  <2>1. DOMAIN <<>> = {} /\ <<>> = [k \in {} |-> <<>>[k]]
    OBVIOUS
  <2> QED
    BY <1>3, <2>1 DEF Waiting
<1>7. Delivered(r, popped)
  BY <1>1, <1>3, <1>4, EmptySeq DEF Delivered
<1> QED
  BY <1>2, <1>3, <1>4, <1>5, <1>6, <1>7 DEF SoundDelivery, Sound

\* What a step does to what is held.
LEMMA SoundStep ==
  ASSUME SoundDelivery, [Next]_vars
  PROVE  /\ SoundDelivery'
         /\ \A i \in Nat : HeldBy(r, i) /\ InWindow(r, i) => HeldBy(r', i)
<1>1. Sound(r) /\ Delivered(r, popped)
  BY DEF SoundDelivery
<1>2. CASE PushAny
  <2>1. PICK i \in 0 .. Len(Stream), n \in 0 .. Len(Stream), l \in BOOLEAN : Push(i, n, l)
    BY <1>2 DEF PushAny
  <2>2. i \in Nat /\ n \in Nat
    BY ReassemblyAssumption
  <2>3. i + n <= Len(Stream) /\ (l => i + n = Len(Stream)) /\ popped' = popped
        /\ r' = push_substring(r, SubSeq(Stream, i + 1, i + n), i, l)
    BY <2>1, ZenonT(40) DEF Push
  <2>4. /\ Sound(r') /\ r'.output.read = r.output.read
        /\ \A b \in Nat : InWindow(r, b) /\ (HeldBy(r, b) \/ (i <= b /\ b < i + n)) => HeldBy(r', b)
    BY <1>1, <2>2, <2>3, PushPart, ZenonT(40)
  <2>5. Delivered(r', popped')
    BY <1>1, <2>3, <2>4 DEF Delivered
  <2> QED
    BY <2>4, <2>5 DEF SoundDelivery
<1>3. CASE PopAny
  <2>1. PICK n \in 1 .. Capacity : Pop(n)
    BY <1>3 DEF PopAny
  <2>2. n \in Nat
    BY ReassemblyAssumption
  <2>3. popped' = popped \o peek_output(r.output, n) /\ r' = pop_assembled(r, n)
    BY <2>1 DEF Pop
  <2>4. Sound(r') /\ Delivered(r', popped') /\ r'.next = r.next /\ r'.strs = r.strs
    BY <1>1, <2>2, <2>3, PopPart
  <2> QED
    BY <2>4 DEF SoundDelivery, HeldBy, covers, EntryEnd
<1>4. CASE UNCHANGED vars
  <2>1. r' = r /\ popped' = popped
    BY <1>4 DEF vars
  <2> QED
    BY <1>1, <2>1 DEF SoundDelivery
<1> QED
  BY <1>2, <1>3, <1>4 DEF Next

\* The map holds disjoint parts of the stream past what is assembled; the output holds
\* what is assembled and not read.
THEOREM DeliveryIsSound == Spec => []SoundDelivery
<1>1. SoundDelivery /\ [Next]_vars => SoundDelivery'
  BY SoundStep
<1> QED
  BY SoundInit, <1>1, PTL DEF Spec

\* Whatever push_substring() is handed, the application reads the stream in order, none of
\* it missing or repeated, and the output ends with the stream.
THEOREM DeliveryIsInOrder == Spec => []InOrderDelivery
<1>1. SoundDelivery => InOrderDelivery
  <2> SUFFICES ASSUME SoundDelivery PROVE InOrderDelivery
    OBVIOUS
  <2> DEFINE b == r.output.buffer
             l == Len(b)
             a == r.output.read
             all == popped \o b
             t == SubSeq(Stream, 1, r.next)
  <2>1. Output(r.output, r.next) /\ r.next \in 0 .. Len(Stream) /\ Len(Stream) \in Nat
        /\ (r.output.ended => r.next = Len(Stream))
    BY ReassemblyAssumption DEF SoundDelivery, Sound
  <2>2. b \in Seq(Byte) /\ l \in Nat /\ a \in Nat /\ a + l = r.next /\ l <= Capacity
        /\ r.output.written = r.next /\ r.output.capacity = Capacity
        /\ \A i \in 1 .. l : b[i] = Stream[a + i]
    BY <2>1 DEF Output, ByteStreams
  <2>3. popped \in Seq(Byte) /\ Len(popped) = a /\ \A i \in 1 .. a : popped[i] = Stream[i]
    BY DEF SoundDelivery, Delivered
  <2>4. StreamConsistent(r.output)
    BY <2>2 DEF StreamConsistent
  <2> HIDE DEF a, l, b
  <2>5. Len(b) = l
    BY DEF l
  <2>6. /\ all \in Seq(Byte) /\ Len(all) = r.next
        /\ \A i \in 1 .. r.next : all[i] = IF i <= a THEN popped[i] ELSE b[i - a]
    <3>1. popped \in Seq(Byte) /\ Len(popped) = a /\ b \in Seq(Byte) /\ Len(popped) + Len(b) = r.next
      BY <2>2, <2>3, <2>5
    <3> QED
      BY <3>1, ConcatProperties, ZenonT(40)
  <2>7. t \in Seq(Byte) /\ Len(t) = r.next /\ \A i \in 1 .. r.next : t[i] = Stream[i]
    <3>1. \A i \in 1 .. r.next : Stream[i] \in Byte
      BY <2>1, ReassemblyAssumption
    <3>2. /\ t \in Seq(Byte) /\ Len(t) = IF 1 <= r.next THEN r.next - 1 + 1 ELSE 0
          /\ \A i \in 1 .. r.next - 1 + 1 : t[i] = Stream[1 + i - 1]
      BY <2>1, <3>1, SubSeqProperties
    <3> HIDE DEF t
    <3> QED
      BY <2>1, <3>2
  <2>8. ASSUME NEW i \in 1 .. r.next
        PROVE  all[i] = t[i]
    <3>1. CASE i <= a
      BY <2>1, <2>2, <2>3, <2>6, <2>7, <2>8, <3>1
    <3>2. CASE ~(i <= a)
      <4>1. all[i] = b[i - a]
        BY <2>6, <2>8, <3>2
      <4>2. i - a \in 1 .. l /\ a + (i - a) = i
        BY <2>1, <2>2, <3>2
      <4> QED
        BY <2>2, <2>7, <4>1, <4>2
    <3> QED
      BY <3>1, <3>2
  <2> HIDE DEF all, t
  <2>9. all = t
    BY <2>1, <2>6, <2>7, <2>8, SeqEqual
  <2> QED
    BY <2>1, <2>2, <2>4, <2>9 DEF InOrderDelivery, all, t, b
<1> QED
  BY DeliveryIsSound, <1>1, PTL

\* No later substring makes the reassembler give up a byte that it holds and that is within
\* the window.
THEOREM WindowIsNotForgotten == Spec => NeverForgetsWindow
<1> DEFINE Keeps == \A i \in Indices : Held(i) /\ i < first_unacceptable_idx(r) => Held(i)'
<1>1. SoundDelivery /\ [Next]_vars => Keeps
  <2> SUFFICES ASSUME SoundDelivery, [Next]_vars, NEW i \in Indices, Held(i), i < first_unacceptable_idx(r)
               PROVE  Held(i)'
    OBVIOUS
  <2>1. i \in Nat
    BY ReassemblyAssumption DEF Indices
  <2>2. HeldBy(r, i) /\ InWindow(r, i)
    BY DEF Held, HeldBy, InWindow
  <2>3. HeldBy(r', i)
    BY <2>1, <2>2, SoundStep
  <2> QED
    BY <2>3 DEF Held, HeldBy, covers, EntryEnd
<1>2. SoundDelivery /\ [Next]_vars => [Keeps]_vars
  BY <1>1
<1> QED
  BY DeliveryIsSound, <1>2, PTL DEF Spec, NeverForgetsWindow

\* What arrives within the window is kept, whatever it overlaps and wherever it ends.
THEOREM WindowIsAccepted == Spec => WindowAccepted
<1> DEFINE Accepted ==
      \A index \in Indices, len \in 1 .. Len(Stream), l \in BOOLEAN :
        Push(index, len, l) =>
          \A i \in index .. index + len - 1 : i < first_unacceptable_idx(r) => Held(i)'
<1>1. SoundDelivery => Accepted
  <2> SUFFICES ASSUME SoundDelivery,
                      NEW index \in Indices, NEW len \in 1 .. Len(Stream), NEW l \in BOOLEAN,
                      Push(index, len, l),
                      NEW i \in index .. index + len - 1, i < first_unacceptable_idx(r)
               PROVE  Held(i)'
    OBVIOUS
  <2>1. index \in Nat /\ len \in Nat /\ i \in Nat /\ index <= i /\ i < index + len
    BY ReassemblyAssumption DEF Indices
  <2>2. index + len <= Len(Stream) /\ (l => index + len = Len(Stream))
        /\ r' = push_substring(r, SubSeq(Stream, index + 1, index + len), index, l)
    BY DEF Push
  <2>3. HeldBy(r', i)
    BY <2>1, <2>2, PushPart DEF SoundDelivery, InWindow
  <2> QED
    BY <2>3 DEF Held, HeldBy, covers, EntryEnd
<1>2. SoundDelivery /\ [Next]_vars => [Accepted]_vars
  BY <1>1
<1> QED
  BY DeliveryIsSound, <1>2, PTL DEF Spec, WindowAccepted
=============================================================================
