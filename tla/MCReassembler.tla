---------------------------- MODULE MCReassembler ----------------------------
(***************************************************************************)
(* Reassembly for TLC, and the loops of push_substring() rendered one      *)
(* iteration at a time, to which the closed forms of StreamReassembler are *)
(* compared in every reachable state.                                      *)
(***************************************************************************)
EXTENDS Reassembly

CONSTANT StreamLength

Bytes == 1 .. StreamLength
Numbered == [i \in 1 .. StreamLength |-> i]   \* all bytes differ

\* The while loop over the entries at or after the new substring.
RECURSIVE TrimLoop(_, _, _)
TrimLoop(s, from, size) ==
  LET ahead == {k \in DOMAIN s.strs : from <= k}
      k == Min(ahead)
      len == Len(s.strs[k])
  IN  IF ahead = {} \/ from + size <= k THEN [s |-> s, size |-> size]
      ELSE IF from + size < k + len     THEN [s |-> s, size |-> k - from]
      ELSE TrimLoop([s EXCEPT !.strs = Keep(@, DOMAIN @ \ {k}), !.unassembled = @ - len], from, size)

\* The for loop that writes entries to the output.
RECURSIVE AssembleLoop(_)
AssembleLoop(s) ==
  LET k    == Min(DOMAIN s.strs)
      data == s.strs[k]
      n    == accepts(s.output, Len(data))
      w    == [s EXCEPT !.output = write(@, data), !.next = @ + n]
      put  == IF n = 0 THEN w.strs
              ELSE [j \in DOMAIN w.strs \cup {w.next} |->
                      IF j = w.next THEN SubSeq(data, n + 1, Len(data)) ELSE w.strs[j]]
  IN  IF DOMAIN s.strs = {} \/ k # s.next THEN s
      ELSE IF n < Len(data)
           THEN [w EXCEPT !.strs = Keep(put, DOMAIN put \ {k}),
                          !.unassembled = @ + (Len(data) - n) - Len(data)]
           ELSE AssembleLoop([w EXCEPT !.strs = Keep(@, DOMAIN @ \ {k}), !.unassembled = @ - Len(data)])

LoopPush(s, data, index, is_last) ==
  LET from == new_idx(s, index)
      t    == TrimLoop(s, from, Len(data) - (from - index))
      new  == SubSeq(data, from - index + 1, from - index + t.size)
  IN  IF first_unacceptable_idx(t.s) <= from THEN t.s
      ELSE mark_eof(AssembleLoop(deposit(t.s, from, new)), index + Len(data), is_last)

\* The set-valued definitions of push_substring() compute what its loops compute.
ClosedFormMatchesLoops ==
  \A i \in 0 .. Len(Stream), n \in 0 .. Len(Stream), l \in BOOLEAN :
    i + n <= Len(Stream) =>
      LET data == SubSeq(Stream, i + 1, i + n)
      IN  push_substring(r, data, i, l) = LoopPush(r, data, i, l)
=============================================================================
