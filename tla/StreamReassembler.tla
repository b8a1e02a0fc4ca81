-------------------------- MODULE StreamReassembler --------------------------
(***************************************************************************)
(* libsponge/stream_reassembler.{hh,cc}: substrings of a byte stream       *)
(* arrive in any order, overlapping and repeated; the contiguous ones are  *)
(* written to an output ByteStream and the others wait in the ordered map  *)
(* _unassemble_strs, here a function from the first index of an entry to   *)
(* its bytes.  A reassembler is a record with one field per data member;   *)
(* its _capacity is that of its output stream.                             *)
(*                                                                         *)
(* The loops over the map are given by the set of entries they act on.     *)
(* MCReassembler compares that with a literal rendering of the loops.      *)
(***************************************************************************)
EXTENDS ByteStream, FiniteSetsExt

CONSTANT NoEof   \* _eof_idx before any substring ended the stream: (size_t) -1

NewReassembler(capacity) ==
  [strs |-> <<>>, next |-> 0, unassembled |-> 0, eof_idx |-> NoEof,
   output |-> NewByteStream(capacity)]

EntryEnd(r, k) == k + Len(r.strs[k])

\* The bytes waiting in the map.
stored_bytes(r) == LET Size(k) == Len(r.strs[k]) IN MapThenSumSet(Size, DOMAIN r.strs)

Keep(f, S) == [k \in S |-> f[k]]

\* Where the part of a substring starts that neither the entry at or before it
\* nor, if there is none, the assembled stream already holds.
new_idx(r, index) ==
  LET before == {k \in DOMAIN r.strs : k <= index}
  IN  IF before # {} THEN Larger(index, EntryEnd(r, Max(before)))
                     ELSE Larger(index, r.next)

\* Mutation: an entry that ends with the substring is not seen as contained.
swallowed_strictly(r, from, end) ==
  {k \in DOMAIN r.strs : /\ from <= k
                         /\ \A j \in DOMAIN r.strs : from <= j /\ j <= k => EntryEnd(r, j) < end}

\* Mutation: entries that the substring only overlaps are discarded too.
swallowed_overlapping(r, from, end) == {k \in DOMAIN r.strs : from <= k /\ k < end}

\* The entries that a substring over from..end-1 contains: the loop stops at the
\* first one that it does not.
swallowed(r, from, end) ==
  {k \in DOMAIN r.strs : /\ from <= k
                         /\ \A j \in DOMAIN r.strs : from <= j /\ j <= k => EntryEnd(r, j) <= end}

discard_swallowed(r, from, end) ==
  LET gone == swallowed(r, from, end)
      Size(k) == Len(r.strs[k])
  IN  [r EXCEPT !.strs = Keep(@, DOMAIN @ \ gone),
                !.unassembled = @ - MapThenSumSet(Size, gone)]

\* Mutation: the substring is cut one byte early.
clipped_end_early(r, from, end) == Min({end} \cup {k - 1 : k \in {j \in DOMAIN r.strs : from <= j}})

\* Where a substring over from..end-1 must stop: at the next entry, if that overlaps it.
clipped_end(r, from, end) == Min({end} \cup {k \in DOMAIN r.strs : from <= k})

first_unacceptable_idx(r) == r.next + r.output.capacity - Len(r.output.buffer)

store(r, idx, data) ==
  [r EXCEPT !.strs = [k \in DOMAIN @ \cup {idx} |-> IF k = idx THEN data ELSE @[k]],
            !.unassembled = @ + Len(data)]

\* New bytes: written at once when they are the next ones, stored otherwise, as
\* is what the output does not take.
deposit(r, idx, data) ==
  LET n == accepts(r.output, Len(data))
      direct == [r EXCEPT !.output = write(@, data), !.next = @ + n]
  IN  CASE data = <<>>                        -> r
        [] data # <<>> /\ idx # r.next        -> store(r, idx, data)
        [] data # <<>> /\ idx = r.next /\ n = Len(data) -> direct
        [] data # <<>> /\ idx = r.next /\ n < Len(data) ->
             store(direct, direct.next, SubSeq(data, n + 1, Len(data)))

covers(r, k, i) == k <= i /\ i < EntryEnd(r, k)

\* The entries that continue the assembled stream without a gap.
assembling(r) ==
  {k \in DOMAIN r.strs : r.next <= k /\ \A i \in r.next .. k - 1 : \E j \in DOMAIN r.strs : covers(r, j, i)}

stored_byte(r, i) ==
  LET k == CHOOSE k \in DOMAIN r.strs : covers(r, k, i) IN r.strs[k][i - k + 1]

\* The assembling loop.  Entries are written until the output is full.  The rest
\* of an entry that is written in part moves to its new index.  An entry of which
\* nothing is written is lost: insert() finds its key taken and erase() then
\* removes it, while _unassembled_bytes_num still counts it.
assemble(r) ==
  LET run  == assembling(r)
      end  == Max({r.next} \cup {EntryEnd(r, k) : k \in run})
      n    == accepts(r.output, end - r.next)
      next == r.next + n
      split == {k \in run : k < next /\ next < EntryEnd(r, k)}
      kept  == (DOMAIN r.strs \ {k \in run : k <= next}) \cup (IF split = {} THEN {} ELSE {next})
      rest(k) == SubSeq(r.strs[k], next - k + 1, Len(r.strs[k]))
  IN  [r EXCEPT !.strs = [k \in kept |-> IF k = next THEN rest(CHOOSE s \in split : TRUE) ELSE @[k]],
                !.next = next,
                !.unassembled = @ - n,
                !.output = write(@, [i \in 1 .. n |-> stored_byte(r, r.next + i - 1)])]

\* Mutation: the output ends when the last substring arrives, not when it is assembled.
mark_eof_eager(r, end, is_last) ==
  [r EXCEPT !.eof_idx = IF is_last THEN end ELSE @,
            !.output = IF is_last THEN end_input(@) ELSE @]

mark_eof(r, end, is_last) ==
  LET e == IF is_last THEN end ELSE r.eof_idx
  IN  [r EXCEPT !.eof_idx = e,
                !.output = IF e # NoEof /\ e <= r.next THEN end_input(@) ELSE @]

\* A substring that starts past the window is ignored, its eof mark included,
\* but only after the entries that it contains are discarded.
push_substring(r, data, index, is_last) ==
  LET from == new_idx(r, index)
      r1   == discard_swallowed(r, from, index + Len(data))
      end  == clipped_end(r1, from, index + Len(data))
      new  == SubSeq(data, from - index + 1, end - index)
  IN  IF first_unacceptable_idx(r1) <= from
      THEN r1
      ELSE mark_eof(assemble(deposit(r1, from, new)), index + Len(data), is_last)

\* StreamReassembler::empty and unassembled_bytes
empty(r) == r.unassembled = 0

\* The reader's side of the output stream.
pop_assembled(r, len) == [r EXCEPT !.output = pop_output(@, len)]
=============================================================================
