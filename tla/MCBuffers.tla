------------------------------- MODULE MCBuffers -------------------------------
(***************************************************************************)
(* The loops of buffer.cc and of FileDescriptor::write, one iteration at a *)
(* time, to which Buffers is compared for all lists of up to three strings *)
(* of up to two bytes.                                                     *)
(***************************************************************************)
EXTENDS Buffers

Strings == SeqOf({1, 2}, 2)

\* Of the first buffer some bytes may have been removed before.
BufferLists ==
  {[i \in DOMAIN l |-> IF i = 1 /\ l[1] # <<>> THEN remove_prefix(NewBuffer(l[1]), n) ELSE NewBuffer(l[i])] :
     l \in SeqOf(Strings, 3), n \in 0 .. 1}

\* BufferList::remove_prefix.
RECURSIVE RemoveLoop(_, _)
RemoveLoop(list, n) ==
  IF n = 0 THEN list
  ELSE IF n < Len(str(Head(list))) THEN <<remove_prefix(Head(list), n)>> \o Tail(list)
  ELSE RemoveLoop(Tail(list), n - Len(str(Head(list))))

\* FileDescriptor::write with write_all: all that may have been written in the end, when
\* every call of writev() may take any part of what is left.
RECURSIVE WriteLoop(_)
WriteLoop(strings) ==
  IF size_of(strings) = 0 THEN {<<>>}
  ELSE UNION {{writev(as_iovecs(strings), n) \o more : more \in WriteLoop(views_remove_prefix(strings, n))} :
                n \in 1 .. size_of(strings)}

\* Removing a prefix is what the loop does, and leaves the rest of the bytes, also of a view.
ASSUME PrefixesRemoved ==
  \A list \in BufferLists : \A n \in 0 .. list_size(list) :
    LET removed == list_remove_prefix(list, n)
    IN  /\ removed = RemoveLoop(list, n)
        /\ concatenate(removed) = drop(concatenate(list), n)
        /\ views(removed) = views_remove_prefix(views(list), n)

\* However a write is split, the bytes of the list arrive, in order and once.
ASSUME WritesEverything ==
  \A list \in BufferLists : WriteLoop(views(list)) = {concatenate(list)}

\* A packet made of lists, and a list that is one Buffer.
ASSUME ListsJoin ==
  \A list, other \in {l \in BufferLists : Len(l) <= 2} :
    /\ concatenate(append(list, other)) = concatenate(list) \o concatenate(other)
    /\ list_size(append(list, other)) = list_size(list) + list_size(other)
    /\ contiguous(list) => str(as_buffer(list)) = concatenate(list)
=============================================================================
