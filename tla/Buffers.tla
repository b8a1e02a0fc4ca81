-------------------------------- MODULE Buffers --------------------------------
(***************************************************************************)
(* util/buffer.{hh,cc}: packets are made and taken apart without copying.  *)
(* A Buffer is a shared string and an offset into it, a BufferList a queue *)
(* of Buffers, and a BufferViewList a queue of views for writev(2).  Where *)
(* the code throws, the condition for not throwing is an operator.         *)
(***************************************************************************)
EXTENDS Naturals, SequencesExt

\* A Buffer.  The storage that was let go is <<>>.
NewBuffer(string) == [storage |-> string, offset |-> 0]

str(b) == IF b.storage = <<>> THEN <<>> ELSE SubSeq(b.storage, b.offset + 1, Len(b.storage))

holds(b, n) == n <= Len(str(b))

\* When the last byte is gone, so is the reference to the storage; the offset stays.
remove_prefix(b, n) ==
  LET offset == b.offset + n
  IN  [storage |-> IF offset = Len(b.storage) THEN <<>> ELSE b.storage, offset |-> offset]

-----------------------------------------------------------------------------
(* BufferList *)

append(list, other) == list \o other

views(list) == [i \in DOMAIN list |-> str(list[i])]

joined(strings) == FoldLeft(\o, <<>>, strings)
size_of(strings) == FoldLeft(LAMBDA size, s : size + Len(s), 0, strings)

concatenate(list) == joined(views(list))
list_size(list)   == size_of(views(list))

\* operator Buffer: only of a list that is contiguous.
contiguous(list) == Len(list) <= 1
as_buffer(list)  == IF list = <<>> THEN NewBuffer(<<>>) ELSE list[1]

list_holds(strings, n) == n <= size_of(strings)

\* How many entries the loop of remove_prefix pops: it stops when nothing is left to remove,
\* even if there is an empty entry next, or when the next entry is longer than that.
popped(strings, n) ==
  CHOOSE k \in 0 .. Len(strings) :
    LET size(j) == size_of(SubSeq(strings, 1, j))
    IN  /\ size(k) = n \/ (size(k) < n /\ n < size(k + 1))
        /\ \A j \in 0 .. k - 1 : size(j) < n

\* What the loop removes of the entry at which it stops.
removed_within(strings, n) == n - size_of(SubSeq(strings, 1, popped(strings, n)))

list_remove_prefix(list, n) ==
  LET rest   == SubSeq(list, popped(views(list), n) + 1, Len(list))
      within == removed_within(views(list), n)
  IN  IF within = 0 THEN rest ELSE [rest EXCEPT ![1] = remove_prefix(@, within)]

-----------------------------------------------------------------------------
(* BufferViewList, and the loop of FileDescriptor::write over it. *)

drop(view, n) == SubSeq(view, n + 1, Len(view))

views_remove_prefix(strings, n) ==
  LET rest   == SubSeq(strings, popped(strings, n) + 1, Len(strings))
      within == removed_within(strings, n)
  IN  IF within = 0 THEN rest ELSE [rest EXCEPT ![1] = drop(@, within)]

as_iovecs(strings) == [i \in DOMAIN strings |-> [base |-> strings[i], len |-> Len(strings[i])]]

\* What writev() of iovecs writes when it takes n bytes.
writev(iovecs, n) == SubSeq(joined([i \in DOMAIN iovecs |-> SubSeq(iovecs[i].base, 1, iovecs[i].len)]), 1, n)
=============================================================================
