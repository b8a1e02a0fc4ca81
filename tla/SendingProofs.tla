----------------------------- MODULE SendingProofs -----------------------------
(***************************************************************************)
(* The sender's bookkeeping, for every modulus, window, payload size and   *)
(* stream.  The invariant is stated with the absolute positions of the     *)
(* outstanding segments, which the code only keeps modulo MOD; unwrap()    *)
(* recovers them because what is in flight is less than half of MOD.       *)
(***************************************************************************)
EXTENDS Sending, WrappingProofs, SequenceTheorems, WellFoundedInduction

-----------------------------------------------------------------------------
\* A set of natural numbers that is not empty has a least element.
LEMMA LeastNatural ==
  ASSUME NEW S, S \subseteq Nat, S # {}
  PROVE  Min(S) \in S /\ \A y \in S : Min(S) <= y
<1> DEFINE R == OpToRel(<, Nat)
<1>1. PICK x \in S : \A y \in S : ~ (<<y, x>> \in R)
  BY NatLessThanWellFounded, WFMin
<1>2. \A y \in S : y < x => <<y, x>> \in R
  BY DEF OpToRel
<1> HIDE DEF R
<1>3. ASSUME NEW y \in S PROVE x <= y
  <2>1. ~ (y < x)
    BY <1>1, <1>2, Zenon
  <2> QED
    BY <2>1
<1> QED
  BY <1>3 DEF Min

\* The number of segments that `size` bytes are cut into.
LEMMA SegmentCount ==
  ASSUME NEW size \in Nat, NEW syn \in BOOLEAN, NEW fin \in BOOLEAN
  PROVE  LET c == segment_count(size, syn, fin)
         IN  /\ c \in Nat
             /\ size <= c * MaxPayload
             /\ c = 0 <=> (size = 0 /\ ~syn /\ ~fin)
             /\ c > 1 => (c - 1) * MaxPayload < size
             /\ c = 1 => size > 0 \/ syn \/ fin
<1> DEFINE m == MaxPayload
           q == (size + MaxPayload - 1) \div MaxPayload
           r == (size + MaxPayload - 1) % MaxPayload
           c == segment_count(size, syn, fin)
<1>1. m \in Nat /\ m > 0
  BY SenderAssumption
<1>2. q \in Int /\ r \in 0 .. m - 1 /\ size + m - 1 = m * q + r
  BY <1>1, DivMod
<1>3. c = IF q >= One(syn \/ fin) THEN q ELSE One(syn \/ fin)
  BY DEF segment_count, Larger
<1> HIDE DEF m, q, r, c
<1>4. size <= q * m /\ (q - 1) * m < size /\ q >= 0
  BY <1>1, <1>2
<1>5. q = 0 <=> size = 0
  BY <1>1, <1>2, <1>4
<1>6. c = IF q > 0 THEN q ELSE IF syn \/ fin THEN 1 ELSE 0
  BY <1>2, <1>3, <1>4 DEF One
<1> QED
  BY <1>1, <1>2, <1>4, <1>5, <1>6 DEF c, m

\* q is the part of the stream that starts after its first k bytes.
Part(k, q) ==
  /\ q \in Seq(Byte) /\ k + Len(q) <= Len(Stream)
  /\ \A i \in 1 .. Len(q) : q[i] = Stream[k + i]

\* What lies between two places of a part is a part.
LEMMA PartOfPart ==
  ASSUME NEW k \in Nat, NEW b, Part(k, b), NEW m \in Nat, NEW n \in Nat, m <= n, n <= Len(b)
  PROVE  LET a == SubSeq(b, m + 1, n)
         IN  Part(k + m, a) /\ Len(a) = n - m
<1> DEFINE l == Len(b)
           a == SubSeq(b, m + 1, n)
<1>1. b \in Seq(Byte) /\ l \in Nat /\ Len(Stream) \in Nat /\ n <= l /\ k + l <= Len(Stream)
  BY SendingAssumption DEF Part
<1>2. \A i \in 1 .. l : b[i] = Stream[k + i] /\ b[i] \in Byte
  BY DEF Part
<1> HIDE DEF l
<1>3. /\ a \in Seq(Byte) /\ Len(a) = (IF m + 1 <= n THEN n - (m + 1) + 1 ELSE 0)
      /\ \A i \in 1 .. n - (m + 1) + 1 : a[i] = b[(m + 1) + i - 1]
  <2>1. \A i \in m + 1 .. n : b[i] \in Byte
    BY <1>1, <1>2
  <2> QED
    BY <2>1, SubSeqProperties
<1> HIDE DEF a
<1>4. Len(a) = n - m
  BY <1>3
<1>5. ASSUME NEW i \in 1 .. n - m
      PROVE  a[i] = Stream[(k + m) + i]
  <2>1. m + i \in 1 .. l /\ (m + 1) + i - 1 = m + i /\ k + (m + i) = (k + m) + i /\ i \in 1 .. n - (m + 1) + 1
    BY <1>1
  <2> QED
    BY <1>2, <1>3, <2>1
<1>6. (k + m) + (n - m) <= Len(Stream)
  BY <1>1
<1> QED
  BY <1>3, <1>4, <1>5, <1>6 DEF Part, a

\* What lies between two places of the stream is a part.
LEMMA PartOfStream ==
  ASSUME NEW m \in Nat, NEW n \in Nat, m <= n, n <= Len(Stream)
  PROVE  Part(m, SubSeq(Stream, m + 1, n)) /\ Len(SubSeq(Stream, m + 1, n)) = n - m
<1> DEFINE k == 0
<1>1. k \in Nat /\ k + m = m
  OBVIOUS
<1>2. Part(k, Stream)
  BY SendingAssumption DEF Part
<1> HIDE DEF k
<1> QED
  BY <1>1, <1>2, PartOfPart

\* The beginning of a part is a part.
LEMMA BeginningOfPart ==
  ASSUME NEW k \in Nat, NEW b, Part(k, b), NEW n \in Nat, n <= Len(b)
  PROVE  Part(k, SubSeq(b, 1, n))
<1> DEFINE m == 0
<1>1. m \in Nat /\ m <= n /\ k + m = k /\ m + 1 = 1
  OBVIOUS
<1> HIDE DEF m
<1>2. Part(k + m, SubSeq(b, m + 1, n))
  BY <1>1, PartOfPart
<1> QED
  BY <1>1, <1>2

\* A part is what SubSeq takes from the stream.
LEMMA PartIsSubSeq ==
  ASSUME NEW k \in Nat, NEW b, Part(k, b)
  PROVE  b = SubSeq(Stream, k + 1, k + Len(b))
<1> DEFINE l == Len(b)
           n == k + l
           a == SubSeq(Stream, k + 1, n)
<1>1. b \in Seq(Byte) /\ l \in Nat /\ n \in Nat /\ k <= n /\ n <= Len(Stream) /\ n - k = l
  BY DEF Part
<1>2. \A i \in 1 .. l : b[i] = Stream[k + i]
  BY DEF Part
<1> HIDE DEF l, n
<1>3. Part(k, a) /\ Len(a) = n - k
  BY <1>1, PartOfStream
<1>4. a \in Seq(Byte) /\ Len(a) = l /\ \A i \in 1 .. l : a[i] = Stream[k + i]
  BY <1>1, <1>3 DEF Part
<1> HIDE DEF a
<1>5. b = a
  BY <1>1, <1>2, <1>4, SeqEqual DEF l
<1> QED
  BY <1>5 DEF a, n, l

\* Two adjacent parts make one.
LEMMA JoinParts ==
  ASSUME NEW k \in Nat, NEW a, Part(k, a), NEW b, Part(k + Len(a), b)
  PROVE  Part(k, a \o b) /\ Len(a \o b) = Len(a) + Len(b)
<1> DEFINE l == Len(a)
           m == Len(b)
           c == a \o b
<1>1. a \in Seq(Byte) /\ b \in Seq(Byte) /\ l \in Nat /\ m \in Nat /\ Len(Stream) \in Nat
  BY SendingAssumption DEF Part
<1>2. (k + l) + m <= Len(Stream)
  BY DEF Part
<1>3. \A i \in 1 .. l : a[i] = Stream[k + i]
  BY DEF Part
<1>4. \A i \in 1 .. m : b[i] = Stream[(k + l) + i]
  BY DEF Part
<1>5. c \in Seq(Byte) /\ Len(c) = l + m /\ \A i \in 1 .. l + m : c[i] = IF i <= l THEN a[i] ELSE b[i - l]
  BY <1>1, ConcatProperties
<1> HIDE DEF c, l, m
<1>6. ASSUME NEW i \in 1 .. l + m
      PROVE  c[i] = Stream[k + i]
  <2>1. CASE i <= l
    <3>1. i \in 1 .. l
      BY <1>1, <2>1
    <3> QED
      BY <1>3, <1>5, <2>1, <3>1
  <2>2. CASE ~(i <= l)
    <3>1. i - l \in 1 .. m /\ (k + l) + (i - l) = k + i
      BY <1>1, <2>2
    <3> QED
      BY <1>1, <1>4, <1>5, <2>2, <3>1
  <2> QED
    BY <2>1, <2>2
<1>7. k + (l + m) <= Len(Stream)
  BY <1>1, <1>2
<1> QED
  BY <1>5, <1>6, <1>7 DEF Part, c, l, m

-----------------------------------------------------------------------------
Segment == Segments(Byte, WrappingInt32, Window)

Length(seg) == length_in_sequence_space(seg)

\* A segment at number `at` holds the bytes that belong there, and the SYN is at 0.
Carries(seg, at) ==
  /\ Part(at - One(~seg.syn), seg.payload)
  /\ seg.syn <=> at = 0

\* The segments of `out` lie end to end from pos[1] to hi, and a FIN is the last number.
Chain(out, isn, hi, pos) ==
  /\ out \in Seq(Segment)
  /\ pos \in [1 .. Len(out) -> Nat]
  /\ \A i \in 1 .. Len(out) : out[i].seqno = wrap(pos[i], isn)
  /\ \A i \in 1 .. Len(out) : Length(out[i]) \in 1 .. MaxPayload + 2
  /\ \A i, j \in 1 .. Len(out) : i < j => pos[i] + Length(out[i]) <= pos[j]
  /\ \A i, j \in 1 .. Len(out) : j = i + 1 => pos[i] + Length(out[i]) = pos[j]
  /\ Len(out) > 0 => pos[Len(out)] + Length(out[Len(out)]) = hi
  /\ \A i \in 1 .. Len(out) : Carries(out[i], pos[i])
  /\ \A i \in 1 .. Len(out) : out[i].fin => pos[i] + Length(out[i]) = hi

\* They hold the numbers from lo on: all are in flight, the first perhaps in part.
Flight(out, isn, lo, hi, pos) ==
  /\ Chain(out, isn, hi, pos)
  /\ lo \in Nat /\ hi \in Nat
  /\ hi - lo <= MaxWindow
  /\ Len(out) = 0 => lo = hi
  /\ Len(out) > 0 => pos[1] <= lo /\ lo < pos[1] + Length(out[1])

\* Positions and lengths in a chain are natural numbers.
LEMMA ChainTypes ==
  ASSUME NEW out, NEW isn, NEW hi, NEW pos, Chain(out, isn, hi, pos), NEW i \in 1 .. Len(out)
  PROVE  pos[i] \in Nat /\ Length(out[i]) \in Nat /\ Length(out[i]) > 0
<1>1. pos[i] \in Nat /\ Length(out[i]) \in 1 .. MaxPayload + 2
  BY DEF Chain
<1> QED
  BY <1>1, SenderAssumption

\* What is in flight is recovered by unwrap() from the numbers in the headers.
LEMMA FlightUnwraps ==
  ASSUME NEW out, NEW isn \in WrappingInt32, NEW lo, NEW hi, NEW pos,
         Flight(out, isn, lo, hi, pos), NEW i \in 1 .. Len(out)
  PROVE  unwrap(out[i].seqno, isn, hi) = pos[i]
<1> DEFINE n == Len(out)
           len(k) == Length(out[k])
<1>1. n \in Nat /\ n > 0 /\ 1 \in 1 .. n /\ n \in 1 .. n
  BY DEF Flight, Chain
<1>2. \A k \in 1 .. n : pos[k] \in Nat /\ len(k) \in 1 .. MaxPayload + 2
  BY DEF Flight, Chain
<1>3. /\ pos[n] + len(n) = hi
      /\ pos[1] <= lo /\ lo < pos[1] + len(1)
      /\ hi - lo <= MaxWindow /\ lo \in Nat /\ hi \in Nat
  BY <1>1 DEF Flight, Chain
<1>4. pos[1] <= pos[i] /\ pos[i] <= pos[n]
  <2>1. 1 < i => pos[1] + len(1) <= pos[i]
    BY <1>1 DEF Flight, Chain
  <2>2. i < n => pos[i] + len(i) <= pos[n]
    BY <1>1 DEF Flight, Chain
  <2> HIDE DEF len
  <2> QED
    BY <1>1, <1>2, <2>1, <2>2, SenderAssumption
<1> HIDE DEF len
<1>5. pos[i] - hi < HalfMOD /\ hi - pos[i] < HalfMOD
  <2>1. MaxWindow \in Nat /\ MaxPayload \in Nat /\ HalfMOD \in Nat
    BY SenderAssumption, SendingAssumption, HalfIsHalf
  <2>2. pos[1] \in Nat /\ pos[n] \in Nat /\ pos[i] \in Nat
    BY <1>1, <1>2
  <2>3. len(1) \in 1 .. MaxPayload + 2 /\ len(n) \in 1 .. MaxPayload + 2
    BY <1>1, <1>2
  <2> QED
    BY <1>3, <1>4, <2>1, <2>2, <2>3, FlightAssumption, SMTT(40)
<1>6. out[i].seqno = wrap(pos[i], isn)
  BY DEF Flight, Chain
<1> QED
  BY <1>2, <1>3, <1>5, <1>6, UnwrapOfWrap

\* The oldest unacknowledged number is not past the next one.
LEMMA FlightOrdered ==
  ASSUME NEW out, NEW isn, NEW lo, NEW hi, NEW pos, Flight(out, isn, lo, hi, pos)
  PROVE  lo <= hi
<1> DEFINE n == Len(out)
<1>1. n \in Nat /\ lo \in Nat /\ hi \in Nat
  BY DEF Flight, Chain
<1>2. CASE n = 0
  BY <1>1, <1>2 DEF Flight
<1>3. CASE n > 0
  <2>1. 1 \in 1 .. n /\ n \in 1 .. n
    BY <1>1, <1>3
  <2>2. pos[n] + Length(out[n]) = hi /\ lo < pos[1] + Length(out[1])
    BY <1>3 DEF Flight, Chain
  <2>3. 1 < n => pos[1] + Length(out[1]) <= pos[n]
    BY <2>1 DEF Flight, Chain
  <2>4. pos[1] \in Nat /\ pos[n] \in Nat /\ Length(out[1]) \in Nat /\ Length(out[n]) \in Nat
    BY <2>1, ChainTypes DEF Flight
  <2> QED
    BY <1>1, <1>3, <2>2, <2>3, <2>4
<1> QED
  BY <1>1, <1>2, <1>3

\* New segments that start where the flight ends prolong it, unless it has a FIN.
LEMMA FlightGrows ==
  ASSUME NEW out, NEW isn \in WrappingInt32, NEW lo, NEW hi, NEW pos,
         Flight(out, isn, lo, hi, pos), \A i \in 1 .. Len(out) : ~out[i].fin,
         NEW new, NEW end \in Nat, NEW at, Chain(new, isn, end, at),
         Len(new) > 0, at[1] = hi, end - lo <= MaxWindow
  PROVE  \E p : Flight(out \o new, isn, lo, end, p)
<1> DEFINE n == Len(out)
           m == Len(new)
           all == out \o new
           p == [i \in 1 .. n + m |-> IF i <= n THEN pos[i] ELSE at[i - n]]
<1>1. /\ n \in Nat /\ m \in Nat /\ m > 0
      /\ out \in Seq(Segment) /\ new \in Seq(Segment)
      /\ pos \in [1 .. n -> Nat] /\ at \in [1 .. m -> Nat]
  BY DEF Flight, Chain
<1>2. all \in Seq(Segment) /\ Len(all) = n + m
  BY <1>1, ConcatProperties
<1>3. \A i \in 1 .. n : i \in 1 .. n + m /\ all[i] = out[i] /\ p[i] = pos[i]
  BY <1>1, ConcatProperties
<1>4. \A i \in 1 .. n + m : i > n => i - n \in 1 .. m /\ all[i] = new[i - n] /\ p[i] = at[i - n]
  BY <1>1, ConcatProperties
<1>5. \A i \in 1 .. n + m : i <= n => i \in 1 .. n
  BY <1>1
<1> HIDE DEF all, p
<1>6. p \in [1 .. n + m -> Nat]
  BY <1>1, <1>5 DEF p
<1>7. ASSUME NEW i \in 1 .. n + m
      PROVE  /\ all[i].seqno = wrap(p[i], isn) /\ Length(all[i]) \in 1 .. MaxPayload + 2
             /\ Carries(all[i], p[i])
             /\ all[i].fin => p[i] + Length(all[i]) = end
  <2>1. CASE i <= n
    <3>1. i \in 1 .. n /\ all[i] = out[i] /\ p[i] = pos[i]
      BY <1>3, <1>5, <2>1
    <3> QED
      BY <3>1 DEF Flight, Chain
  <2>2. CASE i > n
    <3>1. i - n \in 1 .. m /\ all[i] = new[i - n] /\ p[i] = at[i - n]
      BY <1>4, <2>2
    <3> QED
      BY <3>1 DEF Chain
  <2> QED
    BY <1>1, <2>1, <2>2
<1>8. n > 0 => pos[n] + Length(out[n]) = hi
  BY DEF Flight, Chain
<1>9. ASSUME NEW i \in 1 .. n + m, NEW j \in 1 .. n + m, i < j
      PROVE  /\ p[i] + Length(all[i]) <= p[j]
             /\ j = i + 1 => p[i] + Length(all[i]) = p[j]
  <2>1. CASE j <= n
    <3>1. i \in 1 .. n /\ j \in 1 .. n
      BY <1>1, <1>9, <2>1
    <3>2. p[i] = pos[i] /\ all[i] = out[i] /\ p[j] = pos[j]
      BY <1>3, <3>1
    <3> QED
      BY <1>9, <3>1, <3>2 DEF Flight, Chain
  <2>2. CASE i > n
    <3>1. i - n \in 1 .. m /\ j - n \in 1 .. m /\ i - n < j - n
      BY <1>1, <1>9, <2>2
    <3>2. j > n /\ (j = i + 1 => j - n = (i - n) + 1)
      BY <1>1, <1>9, <2>2
    <3>3. /\ at[i - n] + Length(new[i - n]) <= at[j - n]
          /\ j - n = (i - n) + 1 => at[i - n] + Length(new[i - n]) = at[j - n]
      BY <3>1 DEF Chain
    <3>4. all[i] = new[i - n] /\ p[i] = at[i - n] /\ p[j] = at[j - n]
      BY <1>4, <2>2, <3>2
    <3> QED
      BY <3>2, <3>3, <3>4
  <2>3. CASE i <= n /\ j > n
    <3>1. i \in 1 .. n /\ j - n \in 1 .. m /\ n \in 1 .. n /\ 1 \in 1 .. m /\ n > 0
      BY <1>1, <2>3
    <3>2. pos[i] \in Nat /\ pos[n] \in Nat /\ at[1] \in Nat /\ at[j - n] \in Nat
      BY <1>1, <3>1
    <3>3. Length(out[n]) \in Nat /\ Length(out[i]) \in Nat /\ Length(new[1]) \in Nat
      BY <3>1, ChainTypes DEF Flight
    <3>4. pos[i] + Length(out[i]) <= hi /\ (i = n => pos[i] + Length(out[i]) = hi)
      <4>1. i < n => pos[i] + Length(out[i]) <= pos[n]
        BY <3>1 DEF Flight, Chain
      <4> QED
        BY <1>1, <1>8, <3>1, <3>2, <3>3, <4>1, SMTT(40)
    <3>5. hi <= at[j - n] /\ (j - n = 1 => at[j - n] = hi)
      <4>1. 1 < j - n => at[1] + Length(new[1]) <= at[j - n]
        BY <3>1 DEF Chain
      <4> QED
        BY <1>1, <3>1, <3>2, <3>3, <4>1, SMTT(40)
    <3>6. p[i] = pos[i] /\ all[i] = out[i] /\ p[j] = at[j - n]
      BY <1>3, <1>4, <2>3, <3>1
    <3>7. hi \in Nat
      BY DEF Flight
    <3> QED
      BY <1>1, <2>3, <3>2, <3>3, <3>4, <3>5, <3>6, <3>7, SMTT(40)
  <2> QED
    BY <1>1, <2>1, <2>2, <2>3
<1>10. p[n + m] + Length(all[n + m]) = end
  <2>1. n + m \in 1 .. n + m /\ n + m > n /\ (n + m) - n = m
    BY <1>1
  <2> QED
    BY <1>4, <2>1, <1>1 DEF Chain
<1>11. Chain(all, isn, end, p)
  <2>1. \A i, j \in 1 .. n + m : i < j => p[i] + Length(all[i]) <= p[j]
    BY <1>9
  <2>2. \A i, j \in 1 .. n + m : j = i + 1 => p[i] + Length(all[i]) = p[j]
    <3>1. \A i, j \in 1 .. n + m : j = i + 1 => i < j
      BY <1>1
    <3> QED
      BY <1>9, <3>1
  <2> QED
    BY <1>2, <1>6, <1>7, <1>10, <2>1, <2>2 DEF Chain
<1>12. p[1] <= lo /\ lo < p[1] + Length(all[1])
  <2>1. CASE n = 0
    <3>1. 1 \in 1 .. n + m /\ 1 > n /\ 1 - n = 1 /\ 1 \in 1 .. m
      BY <1>1, <2>1
    <3>2. p[1] = at[1] /\ all[1] = new[1] /\ lo = hi
      BY <1>4, <2>1, <3>1 DEF Flight
    <3>3. Length(new[1]) \in 1 .. MaxPayload + 2
      BY <3>1 DEF Chain
    <3> QED
      BY <3>2, <3>3, SenderAssumption DEF Flight
  <2>2. CASE n > 0
    <3>1. 1 \in 1 .. n
      BY <1>1, <2>2
    <3> QED
      BY <1>3, <2>2, <3>1 DEF Flight
  <2> QED
    BY <1>1, <2>1, <2>2
<1>13. Len(all) > 0 /\ Len(all) # 0
  BY <1>1, <1>2
<1>14. Flight(all, isn, lo, end, p)
  BY <1>11, <1>12, <1>13 DEF Flight
<1> QED
  BY <1>14 DEF all

\* The first segment that is not fully acknowledged.
LEMMA FirstUnacked ==
  ASSUME NEW n \in Nat, NEW end, NEW ack, NEW U,
         \A i : i \in U <=> (i \in 1 .. n /\ end[i] > ack) \/ i = n + 1
  PROVE  /\ Min(U) \in 1 .. n + 1
         /\ \A i \in 1 .. n : i < Min(U) => ~(end[i] > ack)
         /\ Min(U) <= n => end[Min(U)] > ack
<1> DEFINE k == Min(U)
<1>1. U \subseteq Nat /\ U # {}
  OBVIOUS
<1>2. k \in U /\ \A i \in U : k <= i
  BY <1>1, LeastNatural
<1> HIDE DEF k
<1>3. k \in 1 .. n + 1
  BY <1>2
<1>4. ASSUME NEW i \in 1 .. n, i < k, end[i] > ack
      PROVE  FALSE
  <2>1. k <= i
    BY <1>2, <1>4
  <2> QED
    BY <1>3, <1>4, <2>1
<1>5. k <= n => end[k] > ack
  BY <1>2
<1> QED
  BY <1>3, <1>4, <1>5 DEF k

\* What is left after the acknowledged segments are dropped is the flight from the
\* acknowledgment on.
LEMMA FlightShrinks ==
  ASSUME NEW out, NEW isn \in WrappingInt32, NEW lo, NEW hi, NEW pos,
         Flight(out, isn, lo, hi, pos), NEW ack \in Nat, ack <= hi,
         NEW k \in 1 .. Len(out) + 1,
         \A i \in 1 .. Len(out) : i < k => ~(pos[i] + Length(out[i]) > ack),
         k <= Len(out) => pos[k] + Length(out[k]) > ack
  PROVE  \E p : Flight(SubSeq(out, k, Len(out)), isn, Larger(lo, ack), hi, p)
<1> DEFINE n == Len(out)
           rest == SubSeq(out, k, n)
           m == n - k + 1
           p == [i \in 1 .. m |-> pos[i + k - 1]]
           low == Larger(lo, ack)
<1>1. /\ n \in Nat /\ out \in Seq(Segment) /\ lo \in Nat /\ hi \in Nat
      /\ pos \in [1 .. n -> Nat]
      /\ \A i \in 1 .. n : Length(out[i]) \in 1 .. MaxPayload + 2
  BY DEF Flight, Chain
<1>2. \A i \in 1 .. n : pos[i] \in Nat /\ Length(out[i]) \in Nat
  BY <1>1, SenderAssumption
<1>3. k \in Nat /\ k >= 1 /\ k <= n + 1
  BY <1>1
<1>4. \A i \in 1 .. n : i < k => ~(pos[i] + Length(out[i]) > ack)
  OBVIOUS
<1>5. k <= n => pos[k] + Length(out[k]) > ack
  OBVIOUS
<1>6. \A i \in k .. n : out[i] \in Segment
  BY <1>1, <1>4, ElementOfSeq
<1>7. m \in Nat /\ rest \in Seq(Segment) /\ Len(rest) = m
  BY <1>1, <1>3, <1>6, SubSeqProperties
<1>8. ASSUME NEW i \in 1 .. m
      PROVE  i + k - 1 \in 1 .. n /\ rest[i] = out[i + k - 1] /\ p[i] = pos[i + k - 1]
  <2>1. i + k - 1 \in 1 .. n /\ k + i - 1 = i + k - 1
    BY <1>1, <1>3
  <2>2. \A j \in 1 .. n - k + 1 : rest[j] = out[k + j - 1]
    BY <1>1, <1>3, <1>6, SubSeqProperties
  <2> QED
    BY <2>1, <2>2
<1>9. p \in [1 .. m -> Nat]
  BY <1>2, <1>8
<1> HIDE DEF rest, p
<1>10. Chain(rest, isn, hi, p)
  <2>1. ASSUME NEW i \in 1 .. m
        PROVE  /\ rest[i].seqno = wrap(p[i], isn) /\ Length(rest[i]) \in 1 .. MaxPayload + 2
               /\ Carries(rest[i], p[i])
               /\ rest[i].fin => p[i] + Length(rest[i]) = hi
    <3>1. i + k - 1 \in 1 .. n /\ rest[i] = out[i + k - 1] /\ p[i] = pos[i + k - 1]
      BY <1>8
    <3> QED
      BY <3>1 DEF Flight, Chain
  <2>2. ASSUME NEW i \in 1 .. m, NEW j \in 1 .. m
        PROVE  /\ i < j => p[i] + Length(rest[i]) <= p[j]
               /\ j = i + 1 => p[i] + Length(rest[i]) = p[j]
    <3>1. i + k - 1 \in 1 .. n /\ rest[i] = out[i + k - 1] /\ p[i] = pos[i + k - 1]
      BY <1>8
    <3>2. j + k - 1 \in 1 .. n /\ p[j] = pos[j + k - 1]
      BY <1>8
    <3>3. /\ i < j => i + k - 1 < j + k - 1
          /\ j = i + 1 => j + k - 1 = (i + k - 1) + 1
      BY <1>1, <1>3
    <3> QED
      BY <3>1, <3>2, <3>3, ZenonT(30) DEF Flight, Chain
  <2>3. m > 0 => p[m] + Length(rest[m]) = hi
    <3>1. SUFFICES ASSUME m > 0 PROVE p[m] + Length(rest[m]) = hi
      OBVIOUS
    <3>2. m \in 1 .. m /\ m + k - 1 = n /\ n > 0
      BY <1>1, <1>3, <1>7, <3>1
    <3>3. rest[m] = out[n] /\ p[m] = pos[n]
      BY <1>8, <3>2
    <3> QED
      BY <3>2, <3>3 DEF Flight, Chain
  <2> QED
    BY <1>7, <1>9, <2>1, <2>2, <2>3 DEF Chain
<1>11. low \in Nat /\ low >= lo /\ low >= ack /\ (low = lo \/ low = ack) /\ hi - low <= MaxWindow
  <2>1. hi - lo <= MaxWindow /\ MaxWindow \in Nat
    BY SendingAssumption DEF Flight
  <2> QED
    BY <1>1, <2>1 DEF Larger
<1>12. lo <= hi
  BY FlightOrdered
<1>13. m = 0 => low = hi
  <2>1. SUFFICES ASSUME m = 0 PROVE low = hi
    OBVIOUS
  <2>2. k = n + 1
    BY <1>1, <1>3, <2>1
  <2>3. CASE n = 0
    BY <1>1, <1>11, <2>3 DEF Flight
  <2>4. CASE n > 0
    <3>1. n \in 1 .. n /\ n < k
      BY <1>1, <2>2, <2>4
    <3>2. pos[n] + Length(out[n]) = hi
      BY <2>4 DEF Flight, Chain
    <3>3. ~(hi > ack)
      BY <1>4, <3>1, <3>2
    <3> QED
      BY <1>1, <1>11, <1>12, <3>3
  <2> QED
    BY <1>1, <2>3, <2>4
<1>14. m > 0 => p[1] <= low /\ low < p[1] + Length(rest[1])
  <2>1. SUFFICES ASSUME m > 0 PROVE p[1] <= low /\ low < p[1] + Length(rest[1])
    OBVIOUS
  <2>2. 1 \in 1 .. m /\ 1 + k - 1 = k /\ k \in 1 .. n /\ 1 \in 1 .. n /\ n > 0
    BY <1>1, <1>3, <1>7, <2>1
  <2>3. rest[1] = out[k] /\ p[1] = pos[k]
    BY <1>8, <2>2
  <2>4. /\ pos[k] \in Nat /\ Length(out[k]) \in Nat
        /\ pos[1] \in Nat /\ Length(out[1]) \in Nat
    BY <1>2, <2>2
  <2>5. pos[1] <= lo /\ lo < pos[1] + Length(out[1])
    BY <2>2 DEF Flight
  <2>6. pos[k] + Length(out[k]) > ack
    BY <1>5, <2>2
  <2>7. CASE k = 1
    BY <1>1, <1>11, <2>3, <2>4, <2>5, <2>6, <2>7
  <2>8. CASE k > 1
    <3>1. k - 1 \in 1 .. n /\ k - 1 < k /\ k = (k - 1) + 1 /\ 1 < k
      BY <1>3, <2>2, <2>8
    <3>2. pos[k - 1] + Length(out[k - 1]) = pos[k]
      BY <2>2, <3>1 DEF Flight, Chain
    <3>3. ~(pos[k] > ack)
      BY <1>4, <3>1, <3>2
    <3>4. pos[1] + Length(out[1]) <= pos[k]
      BY <2>2, <3>1 DEF Flight, Chain
    <3> QED
      BY <1>1, <1>11, <2>3, <2>4, <2>5, <2>6, <3>3, <3>4, SMTT(40)
  <2> QED
    BY <2>2, <2>7, <2>8
<1>15. Flight(rest, isn, low, hi, p)
  BY <1>1, <1>7, <1>10, <1>11, <1>13, <1>14 DEF Flight
<1> QED
  BY <1>15 DEF rest

\* What is buffered of the stream that the application writes.
OfStream(b) == b.written = b.read + Len(b.buffer) /\ Part(b.read, b.buffer)

\* The SYN and the bytes read from the stream are what next_seqno counts.
Numbered(t, syn) == (syn <=> t.next = 0) /\ t.next + One(syn) = 1 + t.stream.read

\* The segments that fill_window() cuts lie end to end from next_seqno on and hold
\* the SYN, the next `size` bytes of the stream and the FIN.
LEMMA NewSegmentsChain ==
  ASSUME NEW t, t.next \in Nat, t.isn \in WrappingInt32, t.stream.buffer \in Seq(Byte),
         t.stream.read \in Nat, OfStream(t.stream),
         NEW size \in 0 .. Len(t.stream.buffer), NEW syn \in BOOLEAN, NEW fin \in BOOLEAN,
         Numbered(t, syn),
         segment_count(size, syn, fin) > 0
  PROVE  /\ Len(new_segments(t, size, syn, fin)) > 0
         /\ \A i \in 1 .. Len(new_segments(t, size, syn, fin)) :
              new_segments(t, size, syn, fin)[i].fin => fin
         /\ \E at : /\ Chain(new_segments(t, size, syn, fin), t.isn,
                             t.next + One(syn) + size + One(fin), at)
                    /\ at[1] = t.next
<1> DEFINE M      == MaxPayload
           c      == segment_count(size, syn, fin)
           new    == new_segments(t, size, syn, fin)
           shift(i) == IF i = 1 THEN 0 ELSE One(syn)
           at     == [i \in 1 .. c |-> t.next + (i - 1) * M + shift(i)]
           upto(i) == Smaller((i - 1) * M + M, size)
           stop(i) == t.next + One(syn) + upto(i) + One(fin /\ i = c)
<1>1. M \in Nat /\ M > 0 /\ size \in Nat /\ t.next \in Nat
  BY SenderAssumption
<1>2. /\ c \in Nat /\ c > 0 /\ size <= c * M
      /\ c > 1 => (c - 1) * M < size
      /\ c = 1 => size > 0 \/ syn \/ fin
  BY <1>1, SegmentCount
<1>3. One(syn) \in 0 .. 1 /\ One(fin) \in 0 .. 1
  BY DEF One
<1> HIDE DEF M, c
<1>4. ASSUME NEW i \in 1 .. c
      PROVE  /\ (i - 1) * M \in Nat
             /\ i < c => upto(i) = i * M /\ i * M <= (c - 1) * M
             /\ i = c => upto(i) = size
             /\ (i - 1) * M <= upto(i) /\ upto(i) <= size /\ upto(i) - (i - 1) * M <= M
             /\ (i - 1) * M = upto(i) => c = 1 /\ size = 0
  <2>1. i \in Nat /\ i >= 1 /\ i <= c
    BY <1>2
  <2>2. (i - 1) * M \in Nat /\ (i - 1) * M + M = i * M
    BY <1>1, <2>1
  <2>3. i < c => i * M <= (c - 1) * M
    BY <1>1, <1>2, <2>1
  <2>4. i < c => i * M < size
    <3>1. i < c => c > 1
      BY <1>2, <2>1
    <3>2. (c - 1) * M \in Int /\ i * M \in Int
      BY <1>1, <1>2, <2>1
    <3> QED
      BY <1>1, <1>2, <2>3, <3>1, <3>2
  <2>5. i > 1 => (i - 1) * M < size
    <3>1. i > 1 => c > 1 /\ (i - 1) * M <= (c - 1) * M
      BY <1>1, <1>2, <2>1
    <3>2. (c - 1) * M \in Int
      BY <1>1, <1>2
    <3> QED
      BY <1>1, <1>2, <2>2, <3>1, <3>2
  <2>6. i = 1 => (i - 1) * M = 0
    BY <1>1
  <2>7. (i - 1) * M <= size /\ ((i - 1) * M = size => i = 1 /\ size = 0)
    BY <1>1, <2>1, <2>2, <2>5, <2>6
  <2>8. i = c => size <= (i - 1) * M + M
    BY <1>2, <2>2
  <2>9. upto(i) = IF (i - 1) * M + M <= size THEN (i - 1) * M + M ELSE size
    BY DEF Smaller
  <2> HIDE DEF upto
  <2>10. (i - 1) * M = upto(i) => i = 1 /\ size = 0
    BY <1>1, <2>2, <2>7, <2>9
  <2>11. size = 0 => c = 1
    BY <1>1, <1>2
  <2>12. (c - 1) * M \in Int /\ i * M \in Int
    BY <1>1, <1>2, <2>1
  <2> QED
    BY <1>1, <1>2, <2>1, <2>2, <2>3, <2>4, <2>7, <2>8, <2>9, <2>10, <2>11, <2>12
<1>5. new = [i \in 1 .. c |-> new_segment(t, size, syn, fin, i)] /\ Len(new) = c
  BY <1>2 DEF new_segments, c
<1>6. ASSUME NEW i \in 1 .. c
      PROVE  /\ new[i] \in Segment
             /\ new[i].seqno = wrap(at[i], t.isn)
             /\ Length(new[i]) = (upto(i) - (i - 1) * M) + One(syn /\ i = 1) + One(fin /\ i = c)
             /\ at[i] \in Nat
             /\ Carries(new[i], at[i])
             /\ new[i].fin => fin /\ i = c
  <2> DEFINE data == SubSeq(t.stream.buffer, (i - 1) * M + 1, upto(i))
  <2>1. new[i] = [EmptySegment EXCEPT !.syn = syn /\ i = 1, !.fin = fin /\ i = c, !.payload = data,
                                      !.seqno = wrap(at[i], t.isn)]
    BY <1>5 DEF new_segment, c, M
  <2>2. upto(i) \in Nat /\ (i - 1) * M \in Nat /\ (i - 1) * M <= upto(i) /\ upto(i) <= Len(t.stream.buffer)
    <3>1. upto(i) \in Nat
      BY <1>1, <1>4 DEF Smaller
    <3> HIDE DEF upto
    <3>2. (i - 1) * M \in Nat /\ (i - 1) * M <= upto(i) /\ upto(i) <= size
      BY <1>4
    <3> QED
      BY <1>1, <3>1, <3>2
  <2>3. at[i] \in Nat
    BY <1>1, <1>3, <2>2
  <2> HIDE DEF upto, at
  <2>4. data \in Seq(Byte) /\ Len(data) = upto(i) - (i - 1) * M
    <3>1. (i - 1) * M + 1 \in Int /\ upto(i) \in Int
      BY <2>2
    <3>2. \A j \in (i - 1) * M + 1 .. upto(i) : t.stream.buffer[j] \in Byte
      <4>1. \A j \in (i - 1) * M + 1 .. upto(i) : j \in 1 .. Len(t.stream.buffer)
        BY <2>2
      <4> QED
        BY <4>1, ElementOfSeq
    <3>3. /\ data \in Seq(Byte)
          /\ Len(data) = IF (i - 1) * M + 1 <= upto(i) THEN upto(i) - ((i - 1) * M + 1) + 1 ELSE 0
      BY <3>1, <3>2, SubSeqProperties
    <3> QED
      BY <2>2, <3>3
  <2>5. wrap(at[i], t.isn) \in WrappingInt32
    BY <2>3, WrapType
  <2>6. 0 \in WrappingInt32 /\ 0 \in Window
    BY MODAssumption, SendingAssumption DEF WrappingInt32, Window
  <2> HIDE DEF data
  <2>7. new[i] = [seqno |-> wrap(at[i], t.isn), syn |-> (syn /\ i = 1), fin |-> (fin /\ i = c), rst |-> FALSE,
                  payload |-> data, ack |-> FALSE, ackno |-> 0, win |-> 0]
    BY <2>1 DEF EmptySegment
  <2>8. new[i] \in Segment
    BY <2>4, <2>5, <2>6, <2>7 DEF Segment, Segments
  <2>9. Length(new[i]) = Len(data) + One(syn /\ i = 1) + One(fin /\ i = c)
    BY <2>7 DEF Length, length_in_sequence_space
  <2>10. /\ new[i].seqno = wrap(at[i], t.isn) /\ new[i].payload = data
         /\ new[i].syn = (syn /\ i = 1) /\ new[i].fin = (fin /\ i = c)
    <3> DEFINE y == syn /\ i = 1
               f == fin /\ i = c
    <3> HIDE DEF y, f
    <3>1. new[i] = [seqno |-> wrap(at[i], t.isn), syn |-> y, fin |-> f, rst |-> FALSE,
                    payload |-> data, ack |-> FALSE, ackno |-> 0, win |-> 0]
      BY <2>7, Zenon DEF y, f
    <3>2. new[i].seqno = wrap(at[i], t.isn) /\ new[i].payload = data /\ new[i].syn = y /\ new[i].fin = f
      BY <3>1
    <3> QED
      BY <3>2, Zenon DEF y, f
  <2>11. at[i] - One(~new[i].syn) = t.stream.read + (i - 1) * M /\ (new[i].syn <=> at[i] = 0)
    <3> DEFINE d == (i - 1) * M
               x == at[i]
               y == new[i].syn
    <3>1. x = t.next + d + shift(i) /\ y = (syn /\ i = 1) /\ d \in Nat /\ (i = 1 => d = 0)
      BY <1>1, <2>2, <2>10 DEF at
    <3>2. t.next + One(syn) = 1 + t.stream.read /\ t.stream.read \in Nat /\ (syn <=> t.next = 0)
      BY DEF Numbered
    <3> HIDE DEF d, x, y
    <3>3. CASE syn /\ i = 1
      <4>1. One(syn) = 1 /\ One(~y) = 0 /\ shift(i) = 0 /\ y
        BY <3>1, <3>3 DEF One
      <4>2. t.next = 0 /\ t.stream.read = 0
        <5>1. t.next = 0
          BY <3>2, <3>3, Zenon
        <5>2. 0 + 1 = 1 + t.stream.read
          BY <3>2, <4>1, <5>1, Zenon
        <5> QED
          BY <3>2, <5>1, <5>2
      <4>3. x = 0 /\ x - One(~y) = t.stream.read + d
        BY <3>1, <3>3, <4>1, <4>2
      <4> QED
        BY <4>1, <4>3 DEF d, x, y
    <3>4. CASE ~(syn /\ i = 1)
      <4>1. One(~y) = 1 /\ shift(i) = One(syn) /\ ~y
        BY <3>1, <3>4 DEF One
      <4>2. x = 1 + t.stream.read + d
        <5> DEFINE o == One(syn)
                   q == t.stream.read
        <5>1. o \in Nat /\ q \in Nat /\ t.next \in Nat /\ t.next + o = 1 + q /\ x = t.next + d + o
          BY <1>1, <1>3, <3>1, <3>2, <4>1
        <5> HIDE DEF o, q
        <5>2. d \in Nat
          BY <3>1
        <5>3. x = 1 + q + d
          BY ONLY <5>1, <5>2
        <5> QED
          BY <5>3 DEF q
      <4>3. x - One(~y) = t.stream.read + d /\ x # 0
        BY <3>1, <3>2, <4>1, <4>2
      <4> QED
        BY <4>1, <4>3 DEF d, x, y
    <3> QED
      BY <3>3, <3>4
  <2>12. Part(t.stream.read + (i - 1) * M, data)
    <3>1. Part(t.stream.read, t.stream.buffer)
      BY DEF OfStream
    <3> QED
      BY <2>2, <3>1, PartOfPart DEF data
  <2>13. Carries(new[i], at[i])
    BY <2>10, <2>11, <2>12 DEF Carries
  <2> QED
    BY <2>3, <2>4, <2>8, <2>9, <2>10, <2>13
<1>7. ASSUME NEW i \in 1 .. c
      PROVE  at[i] + Length(new[i]) = stop(i)
  <2>1. at[i] = t.next + (i - 1) * M + shift(i)
    OBVIOUS
  <2>2. Length(new[i]) = (upto(i) - (i - 1) * M) + One(syn /\ i = 1) + One(fin /\ i = c)
    BY <1>6
  <2>3. upto(i) \in Nat /\ (i - 1) * M \in Nat
    BY <1>1, <1>4 DEF Smaller
  <2>4. shift(i) + One(syn /\ i = 1) = One(syn) /\ One(fin /\ i = c) \in 0 .. 1
    BY DEF One
  <2>5. shift(i) \in 0 .. 1 /\ One(syn /\ i = 1) \in 0 .. 1
    BY DEF One
  <2> HIDE DEF shift, upto, at, new
  <2> DEFINE d == (i - 1) * M
             e == One(syn /\ i = 1)
             f == One(fin /\ i = c)
  <2>6. /\ at[i] = t.next + d + shift(i) /\ Length(new[i]) = (upto(i) - d) + e + f
        /\ d \in Nat /\ upto(i) \in Nat /\ t.next \in Nat
        /\ shift(i) \in 0 .. 1 /\ e \in 0 .. 1 /\ f \in 0 .. 1 /\ shift(i) + e = One(syn)
        /\ stop(i) = t.next + One(syn) + upto(i) + f
    BY <1>1, <2>1, <2>2, <2>3, <2>4, <2>5, Zenon
  <2> HIDE DEF d, e, f, stop
  <2> DEFINE u == upto(i)
             x == shift(i)
             h == t.next
  <2>7. /\ at[i] = h + d + x /\ Length(new[i]) = (u - d) + e + f
        /\ d \in Nat /\ u \in Nat /\ h \in Nat /\ x \in 0 .. 1 /\ e \in 0 .. 1 /\ f \in 0 .. 1
        /\ stop(i) = h + (x + e) + u + f
    BY <2>6, Zenon
  <2> HIDE DEF u, x, h
  <2> QED
    BY ONLY <2>7
<1>8. ASSUME NEW i \in 1 .. c
      PROVE  Length(new[i]) \in 1 .. M + 2
  <2>1. Length(new[i]) = (upto(i) - (i - 1) * M) + One(syn /\ i = 1) + One(fin /\ i = c)
    BY <1>6
  <2>2. upto(i) \in Nat /\ (i - 1) * M \in Nat
    BY <1>1, <1>4 DEF Smaller
  <2>3. One(syn /\ i = 1) \in 0 .. 1 /\ One(fin /\ i = c) \in 0 .. 1
    BY DEF One
  <2> HIDE DEF upto, new
  <2>4. (i - 1) * M <= upto(i) /\ upto(i) - (i - 1) * M <= M
    BY <1>4
  <2>5. (i - 1) * M = upto(i) => One(syn /\ i = 1) = 1 \/ One(fin /\ i = c) = 1
    <3>1. SUFFICES ASSUME (i - 1) * M = upto(i)
                   PROVE  One(syn /\ i = 1) = 1 \/ One(fin /\ i = c) = 1
      OBVIOUS
    <3>2. c = 1 /\ size = 0
      BY <1>4, <3>1
    <3>3. i = 1
      BY <3>2
    <3>4. syn \/ fin
      BY <1>1, <1>2, <3>2
    <3> QED
      BY <3>2, <3>3, <3>4 DEF One
  <2> DEFINE d == upto(i) - (i - 1) * M
             x == One(syn /\ i = 1)
             y == One(fin /\ i = c)
  <2>6. d \in Nat /\ d <= M /\ (d = 0 => x = 1 \/ y = 1)
    BY <1>1, <2>2, <2>4, <2>5
  <2>7. Length(new[i]) = d + x + y /\ x \in 0 .. 1 /\ y \in 0 .. 1
    BY <2>1, <2>3
  <2> HIDE DEF d, x, y
  <2> QED
    BY <1>1, <2>6, <2>7
<1>9. ASSUME NEW i \in 1 .. c, NEW j \in 1 .. c, i < j
      PROVE  /\ at[i] + Length(new[i]) <= at[j]
             /\ j = i + 1 => at[i] + Length(new[i]) = at[j]
  <2>1. i < c /\ j > 1 /\ i \in Nat /\ j \in Nat /\ j # 1 /\ i # c
    BY <1>2, <1>9
  <2>2. at[i] + Length(new[i]) = t.next + One(syn) + i * M
    <3>1. at[i] + Length(new[i]) = t.next + One(syn) + i * M + 0
      <4>1. upto(i) = i * M
        BY <1>4, <2>1
      <4>2. One(fin /\ i = c) = 0
        BY <2>1 DEF One
      <4> QED
        BY <1>7, <4>1, <4>2
    <3>2. i * M \in Int
      BY <1>1, <2>1
    <3> QED
      BY <1>1, <1>3, <3>1, <3>2
  <2>3. at[j] = t.next + (j - 1) * M + One(syn)
    BY <2>1
  <2>4. i * M <= (j - 1) * M /\ (j = i + 1 => i * M = (j - 1) * M)
    BY <1>1, <1>9, <2>1
  <2>5. i * M \in Int /\ (j - 1) * M \in Int
    BY <1>1, <2>1
  <2> HIDE DEF at
  <2> QED
    BY <1>1, <1>3, <2>2, <2>3, <2>4, <2>5, SMTT(40)
<1>10. at[c] + Length(new[c]) = t.next + One(syn) + size + One(fin)
  <2>1. c \in 1 .. c
    BY <1>2
  <2>2. upto(c) = size
    BY <1>4, <2>1
  <2>3. One(fin /\ c = c) = One(fin)
    BY DEF One
  <2> QED
    BY <1>7, <2>1, <2>2, <2>3
<1>11. at[1] = t.next
  <2>1. 1 \in 1 .. c /\ (1 - 1) * M = 0
    BY <1>1, <1>2
  <2> QED
    BY <1>1, <2>1
<1>12. at \in [1 .. c -> Nat]
  BY <1>6
<1> HIDE DEF new, at
<1>13. new \in Seq(Segment)
  <2>1. new \in [1 .. c -> Segment]
    BY <1>5, <1>6
  <2> QED
    BY <1>2, <2>1, SeqDef
<1>14. Chain(new, t.isn, t.next + One(syn) + size + One(fin), at)
  <2>1. \A i, j \in 1 .. c : j = i + 1 => i < j
    BY <1>2
  <2>2. \A i, j \in 1 .. c : j = i + 1 => at[i] + Length(new[i]) = at[j]
    BY <1>9, <2>1
  <2>3. \A i, j \in 1 .. c : i < j => at[i] + Length(new[i]) <= at[j]
    BY <1>9
  <2>4. Len(new) = c
    BY <1>5
  <2> QED
    BY <1>6, <1>8, <1>10, <1>12, <1>13, <2>2, <2>3, <2>4 DEF Chain, M
<1>15. Len(new) > 0 /\ \A i \in 1 .. Len(new) : new[i].fin => fin
  BY <1>2, <1>5, <1>6
<1> QED
  BY <1>11, <1>14, <1>15 DEF new

-----------------------------------------------------------------------------
\* What holds of a sender between the calls that its operations are made of: the
\* buffer is within its capacity and holds the stream from the first byte that is not
\* read, sequence numbers are accounted for, and the outstanding segments are the
\* flight, with a FIN only if one was sent.
Core(t) ==
  /\ t \in Senders(Byte, Window)
  /\ Len(t.stream.buffer) <= t.stream.capacity
  /\ OfStream(t.stream)
  /\ t.next = One(t.next > 0) + t.stream.read + One(t.fin_sent)
  /\ t.fin_sent => t.stream.ended /\ t.stream.buffer = <<>>
  /\ \A i \in 1 .. Len(t.outstanding) : t.outstanding[i].fin => t.fin_sent
  /\ \E pos : Flight(t.outstanding, t.isn, t.last_ack, t.next, pos)

\* The types of a sender's fields.
LEMMA SenderFields ==
  ASSUME NEW t \in Senders(Byte, Window)
  PROVE  /\ t.isn \in WrappingInt32 /\ t.stream \in ByteStreams(Byte)
         /\ t.next \in Nat /\ t.last_ack \in Nat /\ t.fin_sent \in BOOLEAN /\ t.window \in Window
         /\ t.segments_out \in Seq(Segment) /\ t.outstanding \in Seq(Segment)
         /\ t.timer_running \in BOOLEAN /\ t.elapsed \in Nat /\ t.rto \in Nat
         /\ t.retransmissions \in Nat
BY DEF Senders, Segment

\* The types of a stream's fields.
LEMMA StreamFields ==
  ASSUME NEW b \in ByteStreams(Byte)
  PROVE  /\ b.capacity \in Nat /\ b.buffer \in Seq(Byte) /\ b.written \in Nat /\ b.read \in Nat
         /\ b.error \in BOOLEAN /\ b.ended \in BOOLEAN
         /\ Len(b.buffer) \in Nat
BY DEF ByteStreams

\* The window in force and what it leaves room for.
LEMMA WindowRoom ==
  ASSUME NEW t, Core(t)
  PROVE  /\ t.next \in Nat /\ t.last_ack \in Nat /\ t.last_ack <= t.next
         /\ current_window(t) \in 1 .. MaxWindow
         /\ window_remain(t) \in Nat
         /\ window_remain(t) > 0 => window_remain(t) + (t.next - t.last_ack) = current_window(t)
<1>1. t.next \in Nat /\ t.last_ack \in Nat /\ t.window \in 0 .. MaxWindow
  BY DEF Core, Senders, Window
<1>2. t.last_ack <= t.next
  BY FlightOrdered DEF Core
<1>3. current_window(t) \in 1 .. MaxWindow
  BY <1>1, SendingAssumption DEF current_window
<1>4. MaxWindow \in Nat
  BY SendingAssumption
<1>5. window_remain(t) = IF current_window(t) > t.next - t.last_ack
                         THEN current_window(t) - (t.next - t.last_ack) ELSE 0
  BY DEF window_remain, bytes_in_flight
<1> QED
  BY <1>1, <1>2, <1>3, <1>4, <1>5

\* What fill_window() takes from the stream fits the window.
LEMMA PayloadFits ==
  ASSUME NEW t, Core(t), NEW syn \in BOOLEAN, window_remain(t) > 0
  PROVE  LET size == payload_size(t, syn)
             fin  == sends_fin(t, syn, size)
         IN  /\ size \in 0 .. Len(t.stream.buffer)
             /\ fin \in BOOLEAN
             /\ One(syn) + size + One(fin) <= window_remain(t)
             /\ fin => t.stream.ended /\ size = Len(t.stream.buffer)
             /\ peekable(t.stream, size) = size
<1> DEFINE size == payload_size(t, syn)
           fin  == sends_fin(t, syn, size)
           n    == Len(t.stream.buffer)
           w    == window_remain(t)
<1>1. n \in Nat /\ w \in Nat /\ w > 0 /\ t.stream.ended \in BOOLEAN
  BY WindowRoom, SenderFields, StreamFields DEF Core
<1>2. One(syn) \in 0 .. 1
  BY DEF One
<1>3. size = IF t.stream.error THEN 0 ELSE IF w - One(syn) <= n THEN w - One(syn) ELSE n
  BY DEF payload_size, peekable, Smaller
<1>4. fin = (t.stream.ended /\ size = n /\ One(syn) + size < w)
  BY DEF sends_fin
<1>5. peekable(t.stream, size) = IF t.stream.error THEN 0 ELSE IF size <= n THEN size ELSE n
  BY DEF peekable, Smaller
<1> HIDE DEF size, fin, w
<1>6. size \in 0 .. n /\ One(syn) + size <= w
  BY <1>1, <1>2, <1>3
<1>7. fin \in BOOLEAN /\ (fin => t.stream.ended /\ size = n)
  BY <1>4
<1>8. One(syn) + size + One(fin) <= w
  <2>1. CASE fin
    <3>1. One(fin) = 1 /\ One(syn) + size < w
      BY <1>4, <2>1 DEF One
    <3> QED
      BY <1>1, <1>2, <1>6, <3>1
  <2>2. CASE ~fin
    <3>1. One(fin) = 0
      BY <2>2 DEF One
    <3> QED
      BY <1>1, <1>2, <1>6, <3>1
  <2> QED
    BY <2>1, <2>2
<1>9. peekable(t.stream, size) = size
  BY <1>1, <1>3, <1>5, <1>6
<1> QED
  BY <1>6, <1>7, <1>8, <1>9 DEF size, fin, w

\* What fits into the room that is left of a window does not exceed it.
LEMMA RoomIsKept ==
  ASSUME NEW next \in Nat, NEW last_ack \in Nat, NEW remain \in Nat, NEW used \in Nat, used <= remain
  PROVE  /\ next + used \in Nat
         /\ next + used >= next
         /\ next + used - last_ack <= remain + (next - last_ack)
OBVIOUS

\* fill_window() keeps Core; it changes nothing, or segments are outstanding after it,
\* the timer runs, and the window in force is not exceeded.
LEMMA FillWindow ==
  ASSUME NEW t, Core(t)
  PROVE  LET u == fill_window(t)
         IN  /\ Core(u)
             /\ u.last_ack = t.last_ack /\ u.window = t.window /\ u.next >= t.next
             /\ \/ u = t
                \/ /\ u.timer_running = TRUE /\ u.outstanding # <<>>
                   /\ bytes_in_flight(u) <= current_window(u)
<1> DEFINE u    == fill_window(t)
           syn  == t.next = 0
           size == payload_size(t, syn)
           fin  == sends_fin(t, syn, size)
           segs == new_segments(t, size, syn, fin)
           buf  == SubSeq(t.stream.buffer, size + 1, Len(t.stream.buffer))
           b    == pop_output(t.stream, size)
           next == t.next + One(syn) + size + One(fin)
           out  == t.outstanding \o segs
<1>0. t \in Senders(Byte, Window) /\ t.stream \in ByteStreams(Byte)
  BY SenderFields DEF Core
<1>1. CASE t.fin_sent \/ window_remain(t) = 0 \/ segs = <<>>
  <2>1. u = t
    BY <1>1 DEF fill_window
  <2>2. t.next >= t.next
    BY SenderFields, <1>0
  <2> QED
    BY <2>1, <2>2
<1>2. CASE ~t.fin_sent /\ window_remain(t) # 0 /\ segs # <<>>
  <2>1. u = [t EXCEPT !.stream        = b,
                      !.next          = next,
                      !.fin_sent      = fin,
                      !.segments_out  = @ \o segs,
                      !.outstanding   = out,
                      !.elapsed       = IF t.timer_running THEN @ ELSE 0,
                      !.timer_running = TRUE]
    BY <1>2 DEF fill_window
  <2>2. window_remain(t) > 0 /\ syn \in BOOLEAN
    BY <1>2, WindowRoom
  <2> HIDE DEF u, syn
  <2>3. /\ size \in 0 .. Len(t.stream.buffer)
        /\ fin \in BOOLEAN
        /\ One(syn) + size + One(fin) <= window_remain(t)
        /\ fin => t.stream.ended /\ size = Len(t.stream.buffer)
        /\ peekable(t.stream, size) = size
    BY <2>2, PayloadFits
  <2>4. One(syn) \in 0 .. 1 /\ One(fin) \in 0 .. 1
    BY DEF One
  <2> HIDE DEF size, fin
  <2>5. size \in Nat /\ size <= Len(t.stream.buffer) /\ Len(t.stream.buffer) \in Nat
    BY <1>0, <2>3, StreamFields
  <2>6. segment_count(size, syn, fin) > 0
    <3>1. segment_count(size, syn, fin) \in Nat
      BY <2>2, <2>3, <2>5, SegmentCount
    <3>2. segment_count(size, syn, fin) = 0 => segs = <<>>
      BY DEF new_segments
    <3> QED
      BY <1>2, <3>1, <3>2
  <2>7. /\ Len(segs) > 0
        /\ \A i \in 1 .. Len(segs) : segs[i].fin => fin
        /\ \E at : Chain(segs, t.isn, next, at) /\ at[1] = t.next
    <3>1. t.next + One(syn) = 1 + t.stream.read
      <4>1. t.next = One(t.next > 0) + t.stream.read + 0 /\ t.stream.read \in Nat /\ t.next \in Nat
        BY <1>0, <1>2, SenderFields, StreamFields DEF Core, One
      <4>2. One(t.next > 0) + One(syn) = 1 /\ One(t.next > 0) \in 0 .. 1
        BY <4>1 DEF One, syn
      <4> QED
        BY <2>4, <4>1, <4>2
    <3>2. Numbered(t, syn)
      BY <3>1, Zenon DEF Numbered, syn
    <3>3. OfStream(t.stream)
      BY DEF Core
    <3> QED
      BY <1>0, <2>2, <2>3, <2>6, <3>2, <3>3, SenderFields, StreamFields, NewSegmentsChain
  <2>8. segs \in Seq(Segment)
    BY <2>7 DEF Chain
  <2>9. next \in Nat /\ next >= t.next /\ next - t.last_ack <= current_window(t)
    <3>1. /\ t.next \in Nat /\ t.last_ack \in Nat /\ current_window(t) \in Int
          /\ window_remain(t) + (t.next - t.last_ack) = current_window(t)
      BY <2>2, WindowRoom
    <3>2. One(syn) \in Nat /\ One(fin) \in Nat /\ window_remain(t) \in Nat
      BY <2>4, WindowRoom
    <3>3. One(syn) + size + One(fin) <= window_remain(t)
      BY <2>3
    <3>4. next = t.next + (One(syn) + size + One(fin)) /\ One(syn) + size + One(fin) \in Nat
      BY <2>5, <3>1, <3>2, SMTT(40)
    <3> QED
      BY <3>1, <3>2, <3>3, <3>4, RoomIsKept
  <2> HIDE DEF segs, next
  <2>10. \E pos : Flight(out, t.isn, t.last_ack, next, pos)
    <3>1. PICK pos : Flight(t.outstanding, t.isn, t.last_ack, t.next, pos)
      BY DEF Core
    <3>2. PICK at : Chain(segs, t.isn, next, at) /\ at[1] = t.next
      BY <2>7
    <3>3. next - t.last_ack <= MaxWindow
      BY <2>9, WindowRoom, SendingAssumption
    <3>4. t.isn \in WrappingInt32
      BY <1>0, SenderFields
    <3>5. \A i \in 1 .. Len(t.outstanding) : ~t.outstanding[i].fin
      BY <1>2 DEF Core
    <3> QED
      BY <2>7, <2>9, <3>5, <3>1, <3>2, <3>3, <3>4, FlightGrows
  <2>11. b = [t.stream EXCEPT !.buffer = buf, !.read = @ + size]
    BY <2>3 DEF pop_output
  <2>12. buf \in Seq(Byte) /\ Len(buf) = Len(t.stream.buffer) - size
    <3>1. t.stream.buffer \in Seq(Byte)
      BY <1>0, StreamFields
    <3>2. \A j \in size + 1 .. Len(t.stream.buffer) : t.stream.buffer[j] \in Byte
      BY <2>5, <3>1, ElementOfSeq
    <3>3. /\ buf \in Seq(Byte)
          /\ Len(buf) = IF size + 1 <= Len(t.stream.buffer)
                        THEN Len(t.stream.buffer) - (size + 1) + 1 ELSE 0
      BY <2>5, <3>2, SubSeqProperties
    <3> QED
      BY <2>5, <3>3
  <2> HIDE DEF buf, b
  <2>13. /\ b \in ByteStreams(Byte) /\ b.buffer = buf /\ b.read = t.stream.read + size
         /\ b.capacity = t.stream.capacity /\ b.ended = t.stream.ended
         /\ b.written = t.stream.written
    <3>1. t.stream.read + size \in Nat
      BY <1>0, <2>5, StreamFields
    <3>2. b = [capacity |-> t.stream.capacity, buffer |-> buf, written |-> t.stream.written,
               read |-> t.stream.read + size, error |-> t.stream.error, ended |-> t.stream.ended]
      BY <1>0, <2>11 DEF ByteStreams
    <3> QED
      BY <1>0, <2>12, <3>1, <3>2, StreamFields DEF ByteStreams
  <2> HIDE DEF b
  <2>22. OfStream(b)
    <3>1. t.stream.written = t.stream.read + Len(t.stream.buffer) /\ Part(t.stream.read, t.stream.buffer)
      BY DEF Core, OfStream
    <3>2. t.stream.read \in Nat
      BY <1>0, StreamFields
    <3>3. Part(t.stream.read + size, buf)
      BY <2>5, <3>1, <3>2, PartOfPart DEF buf
    <3>4. b.written = b.read + Len(b.buffer)
      BY <2>5, <2>12, <2>13, <3>1, <3>2
    <3> QED
      BY <2>13, <3>3, <3>4 DEF OfStream
  <2>23. ASSUME NEW i \in 1 .. Len(out), out[i].fin
         PROVE  fin
    <3>1. t.outstanding \in Seq(Segment)
      BY <1>0, SenderFields
    <3>2. CASE i \in 1 .. Len(t.outstanding)
      <4>1. out[i] = t.outstanding[i]
        BY <2>8, <3>1, <3>2, ConcatProperties DEF out
      <4> QED
        BY <1>2, <2>23, <3>2, <4>1 DEF Core
    <3>3. CASE i \notin 1 .. Len(t.outstanding)
      <4>1. i - Len(t.outstanding) \in 1 .. Len(segs) /\ out[i] = segs[i - Len(t.outstanding)]
        BY <2>8, <3>1, <3>3, ConcatProperties DEF out
      <4> QED
        BY <2>7, <2>23, <4>1
    <3> QED
      BY <3>2, <3>3
  <2>14. out \in Seq(Segment) /\ t.segments_out \o segs \in Seq(Segment) /\ out # <<>>
    <3>1. t.outstanding \in Seq(Segment) /\ t.segments_out \in Seq(Segment)
      BY <1>0, SenderFields
    <3>2. Len(out) = Len(t.outstanding) + Len(segs)
      BY <2>8, <3>1
    <3>3. Len(out) > 0
      BY <2>7, <2>8, <3>1, <3>2
    <3>4. out \in Seq(Segment) /\ t.segments_out \o segs \in Seq(Segment)
      BY <2>8, <3>1, ConcatProperties
    <3> QED
      BY <3>3, <3>4
  <2> HIDE DEF out
  <2>15. /\ u.isn = t.isn /\ u.stream = b /\ u.next = next /\ u.last_ack = t.last_ack
         /\ u.fin_sent = fin /\ u.window = t.window /\ u.outstanding = out /\ u.timer_running = TRUE
    BY <1>0, <2>1 DEF Senders
  <2>16. u \in Senders(Byte, Window)
    <3>1. (IF t.timer_running THEN t.elapsed ELSE 0) \in Nat
      BY <1>0, SenderFields
    <3> QED
      BY <1>0, <2>1, <2>3, <2>9, <2>13, <2>14, <3>1 DEF Senders, Segment
  <2>17. Len(u.stream.buffer) <= u.stream.capacity
    <3>1. Len(t.stream.buffer) <= t.stream.capacity /\ t.stream.capacity \in Nat
      BY <1>0, StreamFields DEF Core
    <3> QED
      BY <2>5, <2>12, <2>13, <2>15, <3>1
  <2>18. next = One(next > 0) + b.read + One(fin)
    <3>1. t.next = One(t.next > 0) + t.stream.read + 0 /\ t.stream.read \in Nat /\ t.next \in Nat
      BY <1>0, <1>2, SenderFields, StreamFields DEF Core, One
    <3>2. b.read = t.stream.read + size
      BY <2>13
    <3>3. next = t.next + One(syn) + size + One(fin)
      BY DEF next
    <3>4. One(t.next > 0) + One(syn) = 1
      BY <3>1 DEF One, syn
    <3>5. One(t.next > 0) \in 0 .. 1
      BY DEF One
    <3>6. next = 1 + b.read + One(fin)
      BY <2>4, <2>5, <3>1, <3>2, <3>3, <3>4, <3>5
    <3>7. One(next > 0) = 1
      BY <2>4, <2>5, <3>1, <3>2, <3>6 DEF One
    <3> QED
      BY <3>6, <3>7
  <2>19. fin => b.ended /\ b.buffer = <<>>
    BY <2>3, <2>12, <2>13
  <2>20. Core(u)
    BY <2>10, <2>15, <2>16, <2>17, <2>18, <2>19, <2>22, <2>23 DEF Core
  <2>21. bytes_in_flight(u) <= current_window(u)
    BY <2>9, <2>15 DEF bytes_in_flight, current_window
  <2> QED
    BY <2>9, <2>14, <2>15, <2>20, <2>21 DEF u
<1> QED
  BY <1>1, <1>2

-----------------------------------------------------------------------------
\* The inductive invariant: Core, and the timer runs just while segments are
\* outstanding.
Inv(t) == Core(t) /\ (t.timer_running <=> t.outstanding # <<>>)

\* What a step may do to the numbers of a sender.
Advances(t, u) ==
  /\ u.next >= t.next
  /\ u.last_ack >= t.last_ack
  /\ u.next > t.next => bytes_in_flight(u) <= current_window(u)

\* A sender that does not change advances nothing.
LEMMA AdvancesNothing ==
  ASSUME NEW t, Core(t)
  PROVE  Advances(t, t)
BY SenderFields DEF Core, Advances

\* Core says nothing about the window, the timer and the queue to the connection.
LEMMA CoreDependsOn ==
  ASSUME NEW t, Core(t), NEW u \in Senders(Byte, Window),
         u.isn = t.isn, u.stream = t.stream, u.next = t.next, u.last_ack = t.last_ack,
         u.fin_sent = t.fin_sent, u.outstanding = t.outstanding
  PROVE  Core(u)
BY DEF Core

\* Emptying the queue to the connection changes nothing else.
LEMMA DrainedKeeps ==
  ASSUME NEW t, Core(t)
  PROVE  /\ Core(drained(t))
         /\ drained(t).timer_running = t.timer_running /\ drained(t).outstanding = t.outstanding
         /\ drained(t).next = t.next /\ drained(t).last_ack = t.last_ack
         /\ drained(t).window = t.window
<1>1. t \in Senders(Byte, Window)
  BY DEF Core
<1>2. /\ drained(t) \in Senders(Byte, Window)
      /\ drained(t).isn = t.isn /\ drained(t).stream = t.stream /\ drained(t).next = t.next
      /\ drained(t).last_ack = t.last_ack /\ drained(t).fin_sent = t.fin_sent
      /\ drained(t).window = t.window /\ drained(t).outstanding = t.outstanding
      /\ drained(t).timer_running = t.timer_running
  <2> DEFINE q == <<>>
  <2>1. drained(t) = [t EXCEPT !.segments_out = q]
    BY DEF drained
  <2>2. q \in Seq(Segments(Byte, WrappingInt32, Window))
    OBVIOUS
  <2> HIDE DEF q
  <2> QED
    BY <1>1, <2>1, <2>2 DEF Senders
<1> QED
  BY <1>2, CoreDependsOn

\* Dropping acknowledged segments, with the new window and oldest number, keeps Core.
LEMMA PopKeepsCore ==
  ASSUME NEW t, Core(t), NEW ack \in Nat, ack <= t.next, NEW win \in Window,
         NEW u, u \in Senders(Byte, Window),
         u.isn = t.isn, u.stream = t.stream, u.next = t.next, u.fin_sent = t.fin_sent,
         u.outstanding = t.outstanding, u.last_ack = Larger(t.last_ack, ack)
  PROVE  LET v == pop_acked(u, ack)
         IN  /\ Core(v)
             /\ v.next = t.next /\ v.last_ack = u.last_ack /\ v.timer_running = u.timer_running
             /\ v.outstanding # <<>> => t.outstanding # <<>>
<1> DEFINE n   == Len(t.outstanding)
           end == [i \in 1 .. n |-> segment_end(u, t.outstanding[i])]
           U   == {i \in 1 .. n : segment_end(u, t.outstanding[i]) > ack} \cup {n + 1}
           k   == Min(U)
           out == SubSeq(t.outstanding, k, n)
           v   == pop_acked(u, ack)
<1>1. v = [u EXCEPT !.outstanding = out]
  BY DEF pop_acked
<1>2. PICK pos : Flight(t.outstanding, t.isn, t.last_ack, t.next, pos)
  BY DEF Core
<1>3. n \in Nat /\ t.isn \in WrappingInt32 /\ t.outstanding \in Seq(Segment)
  BY SenderFields DEF Core
<1>4. \A i \in 1 .. n : segment_end(u, t.outstanding[i]) = pos[i] + Length(t.outstanding[i])
  BY <1>2, <1>3, FlightUnwraps DEF segment_end, Length
<1>5. \A i \in 1 .. n : end[i] = pos[i] + Length(t.outstanding[i])
  BY <1>4
<1>6. \A i : i \in U <=> (i \in 1 .. n /\ end[i] > ack) \/ i = n + 1
  OBVIOUS
<1> HIDE DEF end, U, k
<1>7. /\ k \in 1 .. n + 1
      /\ \A i \in 1 .. n : i < k => ~(end[i] > ack)
      /\ k <= n => end[k] > ack
  <2> HIDE DEF n
  <2> QED
    BY <1>3, <1>6, FirstUnacked DEF k
<1>8. /\ \A i \in 1 .. n : i < k => ~(pos[i] + Length(t.outstanding[i]) > ack)
      /\ k <= n => pos[k] + Length(t.outstanding[k]) > ack
  <2>1. k <= n => k \in 1 .. n
    BY <1>3, <1>7
  <2> QED
    BY <1>5, <1>7, <2>1
<1>9. PICK p : Flight(out, t.isn, Larger(t.last_ack, ack), t.next, p)
  BY <1>2, <1>3, <1>7, <1>8, FlightShrinks
<1>10. out \in Seq(Segment)
  BY <1>9 DEF Flight, Chain
<1>14. ASSUME NEW i \in 1 .. Len(out), out[i].fin
       PROVE  t.fin_sent
  <2>1. \A j \in k .. n : t.outstanding[j] \in Segment
    <3>1. \A j \in k .. n : j \in 1 .. n
      BY <1>3, <1>7
    <3> QED
      BY <1>3, <3>1, ElementOfSeq
  <2>2. i \in 1 .. n - k + 1 /\ out[i] = t.outstanding[k + i - 1]
    <3>1. k \in Int /\ n \in Int
      BY <1>3, <1>7
    <3>2. /\ Len(out) = IF k <= n THEN n - k + 1 ELSE 0
          /\ \A j \in 1 .. n - k + 1 : out[j] = t.outstanding[k + j - 1]
      BY <2>1, <3>1, SubSeqProperties
    <3> HIDE DEF out, n
    <3> QED
      BY <3>1, <3>2
  <2>3. k + i - 1 \in 1 .. n
    BY <1>3, <1>7, <2>2
  <2> QED
    BY <1>14, <2>2, <2>3 DEF Core
<1>11. out # <<>> => t.outstanding # <<>>
  <2>1. SUFFICES ASSUME t.outstanding = <<>> PROVE out = <<>>
    OBVIOUS
  <2>2. n = 0 /\ k = 1
    BY <1>3, <1>7, <2>1
  <2> QED
    BY <2>2, SubSeqEmpty
<1> HIDE DEF out
<1>12. /\ v \in Senders(Byte, Window) /\ v.isn = t.isn /\ v.stream = t.stream /\ v.next = t.next
       /\ v.last_ack = u.last_ack /\ v.fin_sent = t.fin_sent /\ v.outstanding = out
       /\ v.timer_running = u.timer_running
  BY <1>1, <1>10 DEF Senders, Segment
<1>13. Core(v)
  BY <1>9, <1>12, <1>14 DEF Core
<1> QED
  BY <1>11, <1>12, <1>13

\* stop_idle_timer() makes the timer agree with what is outstanding.
LEMMA StopIdleTimer ==
  ASSUME NEW t, Core(t), NEW is_new \in BOOLEAN,
         t.outstanding # <<>> => t.timer_running \/ is_new
  PROVE  LET u == stop_idle_timer(t, is_new)
         IN  Inv(u) /\ u.next = t.next /\ u.last_ack = t.last_ack /\ u.window = t.window
<1> DEFINE u == stop_idle_timer(t, is_new)
<1>1. t \in Senders(Byte, Window) /\ t.timer_running \in BOOLEAN
  BY SenderFields DEF Core
<1>2. /\ u \in Senders(Byte, Window)
      /\ u.isn = t.isn /\ u.stream = t.stream /\ u.next = t.next
      /\ u.last_ack = t.last_ack /\ u.fin_sent = t.fin_sent
      /\ u.window = t.window /\ u.outstanding = t.outstanding
      /\ u.timer_running = IF t.outstanding = <<>> THEN FALSE ELSE t.timer_running \/ is_new
  <2>1. CASE t.outstanding = <<>>
    <3>1. u = [t EXCEPT !.timer_running = FALSE, !.elapsed = 0]
      BY <2>1 DEF stop_idle_timer
    <3> HIDE DEF u
    <3>2. /\ u \in Senders(Byte, Window)
          /\ u.isn = t.isn /\ u.stream = t.stream /\ u.next = t.next
          /\ u.last_ack = t.last_ack /\ u.fin_sent = t.fin_sent
          /\ u.window = t.window /\ u.outstanding = t.outstanding
          /\ u.timer_running = FALSE
      BY <1>1, <3>1 DEF Senders
    <3> QED
      BY <2>1, <3>2
  <2>2. CASE t.outstanding # <<>>
    <3> DEFINE run == t.timer_running \/ is_new
    <3>1. u = [t EXCEPT !.timer_running = run]
      BY <2>2 DEF stop_idle_timer
    <3>2. run \in BOOLEAN
      OBVIOUS
    <3> HIDE DEF run
    <3>3. /\ u \in Senders(Byte, Window)
          /\ u.isn = t.isn /\ u.stream = t.stream /\ u.next = t.next
          /\ u.last_ack = t.last_ack /\ u.fin_sent = t.fin_sent
          /\ u.window = t.window /\ u.outstanding = t.outstanding
          /\ u.timer_running = run
      BY <1>1, <3>1, <3>2 DEF Senders
    <3> QED
      BY <2>2, <3>3 DEF run
  <2> QED
    BY <2>1, <2>2
<1>3. Core(u)
  BY <1>2, CoreDependsOn
<1>4. u.timer_running <=> u.outstanding # <<>>
  BY <1>2
<1> QED
  BY <1>2, <1>3, <1>4 DEF Inv

\* ack_received() keeps the invariant and the window, whatever the acknowledgment.
LEMMA AckReceived ==
  ASSUME NEW t, Inv(t), NEW ackno \in WrappingInt32, NEW win \in Window
  PROVE  Inv(ack_received(t, ackno, win)) /\ Advances(t, ack_received(t, ackno, win))
<1> DEFINE ack == unwrap(ackno, t.isn, t.next)
           new == ack > t.last_ack
           t1  == take_window(t, win)
           t2  == IF new THEN restart_timer(t1, ack) ELSE t1
           t3  == pop_acked(t2, ack)
           t4  == fill_window(t3)
           u   == stop_idle_timer(t4, new)
<1>1. Core(t) /\ t \in Senders(Byte, Window) /\ t.next \in Nat /\ t.last_ack \in Nat /\ t.isn \in WrappingInt32
  BY SenderFields DEF Inv, Core
<1>2. ack \in Nat /\ new \in BOOLEAN
  BY <1>1, WrapOfUnwrap
<1>3. CASE ack > t.next
  <2>1. ack_received(t, ackno, win) = t
    BY <1>3 DEF ack_received
  <2> QED
    BY <1>1, <2>1, AdvancesNothing
<1>4. CASE ~(ack > t.next)
  <2>1. ack_received(t, ackno, win) = u
    BY <1>4 DEF ack_received
  <2>2. ack <= t.next
    BY <1>1, <1>2, <1>4
  <2> HIDE DEF ack
  <2>3. /\ t2 \in Senders(Byte, Window)
        /\ t2.isn = t.isn /\ t2.stream = t.stream /\ t2.next = t.next /\ t2.fin_sent = t.fin_sent
        /\ t2.outstanding = t.outstanding /\ t2.timer_running = t.timer_running
        /\ t2.last_ack = Larger(t.last_ack, ack)
    <3>1. /\ t1 \in Senders(Byte, Window)
          /\ t1.isn = t.isn /\ t1.stream = t.stream /\ t1.next = t.next /\ t1.fin_sent = t.fin_sent
          /\ t1.outstanding = t.outstanding /\ t1.timer_running = t.timer_running
          /\ t1.last_ack = t.last_ack
      BY <1>1 DEF take_window, Senders
    <3> HIDE DEF t1
    <3>2. CASE new
      <4>1. t2 = [t1 EXCEPT !.last_ack = ack, !.rto = RtTimeout, !.retransmissions = 0, !.elapsed = 0]
        BY <3>2 DEF restart_timer
      <4>2. RtTimeout \in Nat
        BY SenderAssumption
      <4>3. Larger(t.last_ack, ack) = ack
        BY <1>1, <1>2, <3>2 DEF Larger
      <4> HIDE DEF t2
      <4>4. /\ t2 \in Senders(Byte, Window)
            /\ t2.isn = t1.isn /\ t2.stream = t1.stream /\ t2.next = t1.next /\ t2.fin_sent = t1.fin_sent
            /\ t2.outstanding = t1.outstanding /\ t2.timer_running = t1.timer_running
            /\ t2.last_ack = ack
        BY <1>2, <3>1, <4>1, <4>2 DEF Senders
      <4> QED
        BY <3>1, <4>3, <4>4
    <3>3. CASE ~new
      <4>1. t2 = t1
        BY <3>3
      <4>2. Larger(t.last_ack, ack) = t.last_ack
        BY <1>1, <1>2, <3>3 DEF Larger
      <4> QED
        BY <3>1, <4>1, <4>2
    <3> QED
      BY <3>2, <3>3
  <2> HIDE DEF t2
  <2>4. /\ Core(t3) /\ t3.next = t.next /\ t3.last_ack = Larger(t.last_ack, ack)
        /\ t3.timer_running = t.timer_running
        /\ t3.outstanding # <<>> => t.outstanding # <<>>
    BY <1>1, <1>2, <2>2, <2>3, PopKeepsCore
  <2> HIDE DEF t3
  <2>5. /\ Core(t4)
        /\ t4.last_ack = t3.last_ack /\ t4.next >= t3.next
        /\ \/ t4 = t3
           \/ t4.timer_running = TRUE /\ t4.outstanding # <<>> /\ bytes_in_flight(t4) <= current_window(t4)
    BY <2>4, FillWindow
  <2> HIDE DEF t4
  <2>6. t4.outstanding # <<>> => t4.timer_running \/ new
    BY <2>4, <2>5 DEF Inv
  <2>7. Inv(u) /\ u.next = t4.next /\ u.last_ack = t4.last_ack /\ u.window = t4.window
    BY <1>2, <2>5, <2>6, StopIdleTimer
  <2> HIDE DEF u
  <2>8. u.next >= t.next
    BY <2>4, <2>5, <2>7
  <2>9. u.last_ack >= t.last_ack
    BY <1>1, <1>2, <2>4, <2>5, <2>7 DEF Larger
  <2>10. u.next > t.next => bytes_in_flight(u) <= current_window(u)
    <3>1. SUFFICES ASSUME u.next > t.next PROVE bytes_in_flight(u) <= current_window(u)
      OBVIOUS
    <3>2. t4 # t3
      BY <1>1, <2>4, <2>7, <3>1
    <3>3. bytes_in_flight(t4) <= current_window(t4)
      BY <2>5, <3>2
    <3> QED
      BY <2>7, <3>3 DEF bytes_in_flight, current_window
  <2> QED
    BY <2>1, <2>7, <2>8, <2>9, <2>10 DEF Advances
<1> QED
  BY <1>3, <1>4

\* fill_window() and the emptying of the queue keep the invariant and the window.
LEMMA FillDrained ==
  ASSUME NEW t, Inv(t)
  PROVE  Inv(drained(fill_window(t))) /\ Advances(t, drained(fill_window(t)))
<1> DEFINE u == fill_window(t)
           d == drained(u)
<1>1. /\ Core(u)
      /\ u.last_ack = t.last_ack /\ u.next >= t.next
      /\ \/ u = t
         \/ u.timer_running = TRUE /\ u.outstanding # <<>> /\ bytes_in_flight(u) <= current_window(u)
  BY FillWindow DEF Inv
<1> HIDE DEF u
<1>2. /\ Core(d) /\ d.timer_running = u.timer_running /\ d.outstanding = u.outstanding
      /\ d.next = u.next /\ d.last_ack = u.last_ack /\ d.window = u.window
  BY <1>1, DrainedKeeps
<1> HIDE DEF d
<1>3. Inv(d)
  BY <1>1, <1>2 DEF Inv
<1>4. t.next \in Nat /\ t.last_ack \in Nat
  BY SenderFields DEF Inv, Core
<1>5. d.next > t.next => bytes_in_flight(d) <= current_window(d)
  <2>1. SUFFICES ASSUME d.next > t.next PROVE bytes_in_flight(d) <= current_window(d)
    OBVIOUS
  <2>2. u # t
    BY <1>2, <1>4, <2>1
  <2> QED
    BY <1>1, <1>2, <2>2 DEF bytes_in_flight, current_window
<1>6. d.next >= t.next /\ d.last_ack >= t.last_ack
  BY <1>1, <1>2, <1>4
<1> QED
  BY <1>3, <1>5, <1>6 DEF Advances, d, u

\* The application may change the stream's input side and its error flag.
LEMMA NewStream ==
  ASSUME NEW t, Inv(t), NEW b \in ByteStreams(Byte),
         Len(b.buffer) <= b.capacity, b.read = t.stream.read, OfStream(b),
         t.fin_sent => b.ended /\ b.buffer = <<>>
  PROVE  LET u == [t EXCEPT !.stream = b]
         IN  Inv(u) /\ u.next = t.next /\ u.last_ack = t.last_ack
<1> DEFINE u == [t EXCEPT !.stream = b]
<1>1. t \in Senders(Byte, Window) /\ Core(t)
  BY DEF Inv, Core
<1>2. /\ u \in Senders(Byte, Window)
      /\ u.isn = t.isn /\ u.stream = b /\ u.next = t.next
      /\ u.last_ack = t.last_ack /\ u.fin_sent = t.fin_sent
      /\ u.outstanding = t.outstanding /\ u.timer_running = t.timer_running
  BY <1>1 DEF Senders
<1> HIDE DEF u
<1>3. Core(u)
  BY <1>1, <1>2 DEF Core
<1> QED
  BY <1>2, <1>3 DEF Inv, u

\* write() keeps the buffer within the capacity and takes nothing after the end.
LEMMA WriteStream ==
  ASSUME NEW b \in ByteStreams(Byte), Len(b.buffer) <= b.capacity, OfStream(b),
         NEW data, Part(b.written, data)
  PROVE  LET w == write(b, data)
         IN  /\ w \in ByteStreams(Byte) /\ Len(w.buffer) <= w.capacity /\ OfStream(w)
             /\ w.read = b.read /\ w.ended = b.ended
             /\ b.ended /\ b.buffer = <<>> => w.buffer = <<>>
<1> DEFINE n == accepts(b, Len(data))
           part == SubSeq(data, 1, n)
           buf == b.buffer \o part
           w == write(b, data)
<1>1. /\ b.capacity \in Nat /\ b.buffer \in Seq(Byte) /\ b.written \in Nat
      /\ Len(b.buffer) \in Nat /\ data \in Seq(Byte) /\ Len(data) \in Nat /\ b.ended \in BOOLEAN
      /\ b.read \in Nat
  BY StreamFields DEF Part
<1>2. n = IF b.error \/ b.ended THEN 0
          ELSE IF b.capacity - Len(b.buffer) <= Len(data) THEN b.capacity - Len(b.buffer) ELSE Len(data)
  BY DEF accepts, Smaller, remaining_capacity
<1> HIDE DEF n
<1>3. n \in Nat /\ n <= Len(data) /\ Len(b.buffer) + n <= b.capacity /\ (b.ended => n = 0)
  BY <1>1, <1>2
<1>4. part \in Seq(Byte) /\ Len(part) = n
  <2>1. \A j \in 1 .. n : data[j] \in Byte
    BY <1>1, <1>3, ElementOfSeq
  <2>2. /\ part \in Seq(Byte)
        /\ Len(part) = IF 1 <= n THEN n - 1 + 1 ELSE 0
    BY <1>3, <2>1, SubSeqProperties
  <2> QED
    BY <1>3, <2>2
<1>11. Part(b.written, part)
  BY <1>1, <1>3, BeginningOfPart
<1> HIDE DEF part
<1>12. b.written = b.read + Len(b.buffer) /\ Part(b.read, buf)
  BY <1>1, <1>11, JoinParts DEF OfStream
<1>5. buf \in Seq(Byte) /\ Len(buf) = Len(b.buffer) + n
  BY <1>1, <1>4, ConcatProperties
<1>6. b.ended /\ b.buffer = <<>> => buf = <<>>
  BY <1>1, <1>3, <1>5
<1>7. w = [b EXCEPT !.buffer = buf, !.written = @ + n]
  BY DEF write, n, part
<1>8. b.written + n \in Nat
  BY <1>1, <1>3
<1> HIDE DEF buf, w
<1>9. w = [capacity |-> b.capacity, buffer |-> buf, written |-> b.written + n, read |-> b.read,
           error |-> b.error, ended |-> b.ended]
  BY <1>7 DEF ByteStreams
<1>10. w \in ByteStreams(Byte)
  BY <1>5, <1>8, <1>9, StreamFields DEF ByteStreams
<1>13. OfStream(w)
  <2>1. b.written + n = b.read + Len(buf)
    BY <1>1, <1>3, <1>5, <1>12
  <2> QED
    BY <1>9, <1>12, <2>1 DEF OfStream
<1> QED
  BY <1>1, <1>3, <1>5, <1>6, <1>9, <1>10, <1>13 DEF w

\* tick() leaves the numbers and the outstanding segments alone.
LEMMA SenderTick ==
  ASSUME NEW t, Inv(t), NEW ms \in Nat
  PROVE  LET u == sender_tick(t, ms)
         IN  Inv(u) /\ u.next = t.next /\ u.last_ack = t.last_ack
<1> DEFINE u  == sender_tick(t, ms)
           t1 == [t EXCEPT !.elapsed = @ + ms]
<1>1. /\ t \in Senders(Byte, Window) /\ Core(t) /\ t.elapsed + ms \in Nat
      /\ t.outstanding \in Seq(Segment)
  BY SenderFields DEF Inv, Core
<1>2. /\ t1 \in Senders(Byte, Window)
      /\ t1.isn = t.isn /\ t1.stream = t.stream /\ t1.next = t.next
      /\ t1.last_ack = t.last_ack /\ t1.fin_sent = t.fin_sent
      /\ t1.outstanding = t.outstanding /\ t1.timer_running = t.timer_running
  BY <1>1 DEF Senders
<1>3. CASE u = t
  BY <1>3
<1>4. CASE u = t1
  BY <1>1, <1>2, <1>4, CoreDependsOn DEF Inv
<1>5. CASE u = retransmit(t1) /\ t.outstanding # <<>>
  <2> DEFINE q == Append(t1.segments_out, Head(t1.outstanding))
             r == IF t1.window > 0 THEN 2 * t1.rto ELSE t1.rto
  <2> HIDE DEF t1
  <2>1. /\ q \in Seq(Segment) /\ r \in Nat /\ t1.retransmissions + 1 \in Nat
    <3>1. /\ t1.segments_out \in Seq(Segment) /\ t1.outstanding \in Seq(Segment)
          /\ t1.rto \in Nat /\ t1.retransmissions \in Nat
      BY <1>2, SenderFields
    <3>2. Head(t1.outstanding) \in Segment
      BY <1>2, <1>5, <3>1, HeadTailProperties
    <3>3. q \in Seq(Segment)
      BY <3>1, <3>2, AppendProperties
    <3> QED
      BY <3>1, <3>3
  <2>2. u = [t1 EXCEPT !.segments_out = q, !.rto = r, !.retransmissions = @ + 1, !.elapsed = 0]
    BY <1>5 DEF retransmit
  <2> HIDE DEF u, q, r
  <2>3. /\ u \in Senders(Byte, Window)
        /\ u.isn = t1.isn /\ u.stream = t1.stream /\ u.next = t1.next
        /\ u.last_ack = t1.last_ack /\ u.fin_sent = t1.fin_sent
        /\ u.outstanding = t1.outstanding /\ u.timer_running = t1.timer_running
    BY <1>2, <2>1, <2>2 DEF Senders, Segment
  <2>4. Core(u)
    BY <1>1, <1>2, <2>3, CoreDependsOn
  <2> QED
    BY <1>2, <2>3, <2>4 DEF Inv, u
<1> QED
  BY <1>3, <1>4, <1>5 DEF sender_tick

-----------------------------------------------------------------------------
\* A new sender satisfies the invariant: nothing is in flight.
LEMMA InitInv == Init => Inv(s)
<1> SUFFICES ASSUME Init PROVE Inv(s)
  OBVIOUS
<1> DEFINE b == NewByteStream(SendCapacity)
           e == <<>>
<1>1. b \in ByteStreams(Byte) /\ Len(b.buffer) = 0 /\ b.capacity \in Nat /\ b.read = 0
  BY SendingAssumption DEF NewByteStream, ByteStreams
<1>2. e \in Seq(Segment) /\ Len(e) = 0 /\ e = <<>>
  OBVIOUS
<1>3. 1 \in Window /\ RtTimeout \in Nat /\ SenderIsn \in WrappingInt32
  BY SendingAssumption, SenderAssumption DEF Window
<1> HIDE DEF b, e
<1>4. s = [isn |-> SenderIsn, stream |-> b, next |-> 0, last_ack |-> 0,
           fin_sent |-> FALSE, window |-> 1, segments_out |-> e, outstanding |-> e,
           timer_running |-> FALSE, elapsed |-> 0, rto |-> RtTimeout, retransmissions |-> 0]
  BY <1>2 DEF Init, NewSender, b
<1>5. s \in Senders(Byte, Window)
  BY <1>1, <1>2, <1>3, <1>4 DEF Senders, Segment
<1>6. Flight(e, SenderIsn, 0, 0, [i \in 1 .. 0 |-> 0])
  BY <1>2, SendingAssumption DEF Flight, Chain
<1>8. OfStream(b)
  <2>1. b.buffer = <<>> /\ b.read = 0 /\ b.written = 0
    BY DEF b, NewByteStream
  <2> QED
    BY <2>1, SendingAssumption DEF OfStream, Part
<1>7. Core(s)
  BY <1>1, <1>2, <1>4, <1>5, <1>6, <1>8 DEF Core, One
<1> QED
  BY <1>2, <1>4, <1>7 DEF Inv

\* Every step of the sender keeps the invariant and the window.
LEMMA NextInv ==
  ASSUME Inv(s), [Next]_s
  PROVE  Inv(s') /\ Advances(s, s')
<1>1. Core(s) /\ s \in Senders(Byte, Window) /\ s.stream \in ByteStreams(Byte)
  BY SenderFields DEF Inv, Core
<1>2. Len(s.stream.buffer) <= s.stream.capacity /\ OfStream(s.stream) /\ (s.fin_sent => s.stream.ended /\ s.stream.buffer = <<>>)
  BY DEF Inv, Core
<1>3. s.next \in Nat /\ s.last_ack \in Nat
  BY <1>1, SenderFields
<1>4. CASE Open
  BY <1>4, FillDrained DEF Open
<1>5. ASSUME NEW b \in ByteStreams(Byte), Len(b.buffer) <= b.capacity, b.read = s.stream.read,
             OfStream(b), s.fin_sent => b.ended /\ b.buffer = <<>>
      PROVE  LET u == [s EXCEPT !.stream = b]
             IN  /\ Inv(u) /\ Advances(s, u)
                 /\ Inv(drained(fill_window(u))) /\ Advances(s, drained(fill_window(u)))
  <2> DEFINE u == [s EXCEPT !.stream = b]
  <2>1. Inv(u) /\ u.next = s.next /\ u.last_ack = s.last_ack
    BY <1>5, NewStream
  <2> HIDE DEF u
  <2>2. Inv(drained(fill_window(u))) /\ Advances(u, drained(fill_window(u)))
    BY <2>1, FillDrained
  <2>3. Advances(s, u) /\ Advances(s, drained(fill_window(u)))
    BY <1>3, <2>1, <2>2 DEF Advances
  <2> QED
    BY <2>1, <2>2, <2>3 DEF u
<1>6. ASSUME NEW n \in 1 .. Len(Stream), Write(n)
      PROVE  Inv(s') /\ Advances(s, s')
  <2> DEFINE data == SubSeq(Stream, s.stream.written + 1, s.stream.written + n)
             b    == write(s.stream, data)
  <2>1. s' = drained(fill_window([s EXCEPT !.stream = b])) /\ s.stream.written + n <= Len(Stream)
    BY <1>6 DEF Write
  <2>2. Part(s.stream.written, data)
    <3>1. s.stream.written \in Nat /\ Stream \in Seq(Byte) /\ n \in Nat
      BY <1>1, StreamFields, SendingAssumption
    <3>2. s.stream.written + n \in Nat /\ s.stream.written <= s.stream.written + n
      BY <3>1
    <3> QED
      BY <2>1, <3>1, <3>2, PartOfStream
  <2> HIDE DEF data
  <2>3. /\ b \in ByteStreams(Byte) /\ Len(b.buffer) <= b.capacity /\ OfStream(b)
        /\ b.read = s.stream.read /\ b.ended = s.stream.ended
        /\ s.stream.ended /\ s.stream.buffer = <<>> => b.buffer = <<>>
    BY <1>1, <1>2, <2>2, WriteStream
  <2> HIDE DEF b
  <2> QED
    BY <1>2, <1>5, <2>1, <2>3
<1>7. CASE End
  <2> DEFINE b == end_input(s.stream)
  <2>1. /\ b \in ByteStreams(Byte) /\ b.buffer = s.stream.buffer /\ b.capacity = s.stream.capacity
        /\ b.read = s.stream.read /\ b.written = s.stream.written /\ b.ended = TRUE
    BY <1>1 DEF end_input, ByteStreams
  <2>3. OfStream(b)
    BY <1>2, <2>1 DEF OfStream
  <2>2. s' = drained(fill_window([s EXCEPT !.stream = b]))
    BY <1>7 DEF End
  <2> HIDE DEF b
  <2> QED
    BY <1>2, <1>5, <2>1, <2>2, <2>3
<1>8. ASSUME NEW ackno \in WrappingInt32, NEW win \in Window, Ack(ackno, win)
      PROVE  Inv(s') /\ Advances(s, s')
  <2> DEFINE u == ack_received(s, ackno, win)
  <2>1. Inv(u) /\ Advances(s, u)
    BY AckReceived
  <2> HIDE DEF u
  <2>2. /\ Core(drained(u)) /\ drained(u).timer_running = u.timer_running
        /\ drained(u).outstanding = u.outstanding
        /\ drained(u).next = u.next /\ drained(u).last_ack = u.last_ack
        /\ drained(u).window = u.window
    BY <2>1, DrainedKeeps DEF Inv
  <2>3. s' = drained(u)
    BY <1>8 DEF Ack, u
  <2> QED
    BY <2>1, <2>2, <2>3 DEF Inv, Advances, bytes_in_flight, current_window
<1>9. ASSUME NEW ms \in 1 .. RtTimeout, Tick(ms)
      PROVE  Inv(s') /\ Advances(s, s')
  <2> DEFINE u == sender_tick(s, ms)
  <2>1. Inv(u) /\ u.next = s.next /\ u.last_ack = s.last_ack
    <3>1. ms \in Nat
      OBVIOUS
    <3> QED
      BY <3>1, SenderTick
  <2> HIDE DEF u
  <2>2. /\ Core(drained(u)) /\ drained(u).timer_running = u.timer_running
        /\ drained(u).outstanding = u.outstanding
        /\ drained(u).next = u.next /\ drained(u).last_ack = u.last_ack
    BY <2>1, DrainedKeeps DEF Inv
  <2>3. s' = drained(u)
    BY <1>9 DEF Tick, u
  <2> QED
    BY <1>3, <2>1, <2>2, <2>3 DEF Inv, Advances
<1>10. CASE Fail
  <2> DEFINE b == set_error(s.stream)
  <2>1. /\ b \in ByteStreams(Byte) /\ b.buffer = s.stream.buffer /\ b.capacity = s.stream.capacity
        /\ b.read = s.stream.read /\ b.written = s.stream.written /\ b.ended = s.stream.ended
    BY <1>1 DEF set_error, ByteStreams
  <2>3. OfStream(b)
    BY <1>2, <2>1 DEF OfStream
  <2>2. s' = [s EXCEPT !.stream = b]
    BY <1>10 DEF Fail
  <2> HIDE DEF b
  <2> QED
    BY <1>2, <1>5, <2>1, <2>2, <2>3
<1>11. CASE s' = s
  BY <1>1, <1>11, AdvancesNothing
<1> QED
  BY <1>4, <1>6, <1>7, <1>8, <1>9, <1>10, <1>11 DEF Next

\* The invariant holds throughout.
LEMMA SpecInv == Spec => []Inv(s)
<1>1. Inv(s) /\ [Next]_s => Inv(s)'
  BY NextInv
<1> QED
  BY <1>1, InitInv, PTL DEF Spec

-----------------------------------------------------------------------------
\* The fields of TCPSender keep their types: in particular no absolute number falls
\* below zero and every number in a header fits 32 bits.
THEOREM SenderTyped == Spec => []TypeOK
<1>1. Inv(s) => TypeOK
  BY DEF Inv, Core, TypeOK
<1> QED
  BY <1>1, SpecInv, PTL

\* The retransmission timer of TCPSender runs just while segments are outstanding.
THEOREM SenderTimerRuns == Spec => []TimerRunsWhileOutstanding
<1>1. Inv(s) => TimerRunsWhileOutstanding
  BY DEF Inv, TimerRunsWhileOutstanding
<1> QED
  BY <1>1, SpecInv, PTL

\* next_seqno accounts for the SYN, the bytes read from the stream and the FIN.
THEOREM SenderAccounts == Spec => []SequenceSpaceAccounted
<1>1. Inv(s) => SequenceSpaceAccounted
  BY DEF Inv, Core, SequenceSpaceAccounted
<1> QED
  BY <1>1, SpecInv, PTL

\* The outstanding segments of TCPSender are exactly what is in flight, for every
\* modulus, window and payload size and whatever acknowledgments arrive.
THEOREM SenderKeepsFlight == Spec => []OutstandingIsInFlight
<1>1. Inv(s) => OutstandingIsInFlight
  <2> SUFFICES ASSUME Inv(s) PROVE OutstandingIsInFlight
    OBVIOUS
  <2> DEFINE n == Len(s.outstanding)
  <2>1. PICK pos : Flight(s.outstanding, s.isn, s.last_ack, s.next, pos)
    BY DEF Inv, Core
  <2>2. n \in Nat /\ s.isn \in WrappingInt32
    BY SenderFields DEF Inv, Core
  <2>3. \A i \in 1 .. n : seg_start(i) = pos[i]
    BY <2>1, <2>2, FlightUnwraps DEF seg_start
  <2>4. \A i \in 1 .. n : seg_end(i) = pos[i] + Length(s.outstanding[i])
    BY <2>3 DEF seg_end, segment_end, seg_start, Length
  <2>5. n > 0 => 1 \in 1 .. n /\ n \in 1 .. n
    BY <2>2
  <2>6. ASSUME NEW i \in 1 .. n - 1
        PROVE  seg_end(i) = seg_start(i + 1)
    <3>1. i \in 1 .. n /\ i + 1 \in 1 .. n
      BY <2>2
    <3>2. pos[i] + Length(s.outstanding[i]) = pos[i + 1]
      BY <2>1, <3>1 DEF Flight, Chain
    <3> QED
      BY <2>3, <2>4, <3>1, <3>2
  <2>7. n = 0 => s.last_ack = s.next
    BY <2>1 DEF Flight
  <2>8. n > 0 => /\ seg_start(1) <= s.last_ack
                 /\ s.last_ack < seg_end(1)
                 /\ seg_end(n) = s.next
    BY <2>1, <2>3, <2>4, <2>5 DEF Flight, Chain
  <2> QED
    BY <2>6, <2>7, <2>8 DEF OutstandingIsInFlight
<1> QED
  BY <1>1, SpecInv, PTL

\* A segment that TCPSender sends again has the bytes, the SYN and the FIN that belong at
\* its number, whatever was written, acknowledged and cut off the stream since.
THEOREM SegmentsKeepStream == Spec => []SegmentsCarryStream
<1>1. Inv(s) => SegmentsCarryStream
  <2> SUFFICES ASSUME Inv(s), NEW i \in 1 .. Len(s.outstanding)
               PROVE  LET seg == s.outstanding[i]
                          pos == seg_start(i) - One(~seg.syn)
                      IN  /\ seg.payload = SubSeq(Stream, pos + 1, pos + Len(seg.payload))
                          /\ seg.syn <=> seg_start(i) = 0
                          /\ seg.fin => seg_end(i) = s.stream.written + 2
    BY DEF SegmentsCarryStream
  <2> DEFINE seg == s.outstanding[i]
             at  == seg_start(i)
             pos == at - One(~seg.syn)
  <2>1. PICK p : Flight(s.outstanding, s.isn, s.last_ack, s.next, p)
    BY DEF Inv, Core
  <2>2. s.isn \in WrappingInt32 /\ s.stream \in ByteStreams(Byte) /\ s.next \in Nat
    BY SenderFields DEF Inv, Core
  <2>3. at = p[i] /\ p[i] \in Nat /\ Carries(seg, p[i])
    <3>1. at = p[i]
      BY <2>1, <2>2, FlightUnwraps DEF seg_start
    <3>2. p[i] \in Nat
      BY <2>1, ChainTypes DEF Flight
    <3>3. Carries(seg, p[i])
      BY <2>1 DEF Flight, Chain
    <3> QED
      BY <3>1, <3>2, <3>3
  <2>4. seg_end(i) = p[i] + Length(seg)
    BY <2>3 DEF seg_end, segment_end, seg_start, Length
  <2>5. ASSUME seg.fin
        PROVE  seg_end(i) = s.stream.written + 2
    <3>1. seg_end(i) = s.next
      BY <2>1, <2>4, <2>5 DEF Flight, Chain
    <3>2. s.fin_sent /\ s.stream.buffer = <<>>
      BY <2>5 DEF Inv, Core
    <3>3. s.stream.written = s.stream.read + 0 /\ s.stream.read \in Nat
      BY <2>2, <3>2, StreamFields DEF Inv, Core, OfStream
    <3>4. s.next = One(s.next > 0) + s.stream.read + 1
      BY <3>2 DEF Inv, Core, One
    <3>5. s.next = 1 + s.stream.read + 1
      BY <2>2, <3>3, <3>4 DEF One
    <3> QED
      BY <3>1, <3>3, <3>5
  <2>6. pos \in Nat
    BY <2>3 DEF Carries, One
  <2> HIDE DEF at, pos
  <2>7. seg.payload = SubSeq(Stream, pos + 1, pos + Len(seg.payload))
    <3>1. Part(pos, seg.payload)
      BY <2>3, Zenon DEF Carries, pos
    <3> QED
      BY <2>6, <3>1, PartIsSubSeq
  <2>8. seg.syn <=> at = 0
    BY <2>3 DEF Carries
  <2> QED
    BY <2>5, <2>7, <2>8, Zenon DEF at, pos
<1> QED
  BY <1>1, SpecInv, PTL

\* TCPSender uses new numbers only within the window in force and takes nothing back.
THEOREM SenderStaysInWindow == Spec => StaysInWindow
<1>1. Inv(s) /\ [Next]_s =>
        [/\ s'.next >= s.next
         /\ s'.last_ack >= s.last_ack
         /\ s'.next > s.next => bytes_in_flight(s') <= current_window(s')]_s
  BY NextInv DEF Advances
<1> QED
  BY <1>1, SpecInv, PTL DEF Spec, StaysInWindow
=============================================================================
