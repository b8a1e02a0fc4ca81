------------------------------ MODULE Reassembly ------------------------------
(***************************************************************************)
(* A StreamReassembler at work: any substrings of one stream are pushed in *)
(* any order, as often as the network likes, while the application pops    *)
(* the output at its own pace.  Bytes popped are remembered in `popped`.   *)
(***************************************************************************)
EXTENDS StreamReassembler

CONSTANTS Byte,            \* the values a byte can have
          Stream,          \* the bytes the peer sends
          Capacity,        \* the reassembler's capacity
          MaxMiscount      \* bound: how far _unassembled_bytes_num may run ahead of the map

ASSUME ReassemblyAssumption ==
  /\ Capacity \in Nat \ {0}
  /\ MaxMiscount \in Nat
  /\ Stream \in Seq(Byte)
  /\ NoEof \notin Nat

VARIABLES r, popped

vars == <<r, popped>>

Init == r = NewReassembler(Capacity) /\ popped = <<>>

\* A substring of the stream arrives; the flag says whether the stream ends with it.
Push(index, len, is_last) ==
  /\ index + len <= Len(Stream)
  /\ is_last => index + len = Len(Stream)
  /\ r' = push_substring(r, SubSeq(Stream, index + 1, index + len), index, is_last)
  /\ r'.unassembled - stored_bytes(r') <= MaxMiscount
  /\ UNCHANGED popped

\* The application reads len bytes of the output.
Pop(len) ==
  /\ len > 0 /\ r.output.buffer # <<>>
  /\ popped' = popped \o peek_output(r.output, len)
  /\ r' = pop_assembled(r, len)

PushAny == \E i \in 0 .. Len(Stream), n \in 0 .. Len(Stream), l \in BOOLEAN : Push(i, n, l)
PopAny  == \E n \in 1 .. Capacity : Pop(n)

Next == PushAny \/ PopAny

Spec == Init /\ [][Next]_vars

-----------------------------------------------------------------------------
Indices == 0 .. Len(Stream) - 1

Held(i) == i < r.next \/ \E k \in DOMAIN r.strs : covers(r, k, i)

\* The application reads the peer's bytes, in order, none missing, none repeated,
\* whatever overlaps and duplicates push_substring was handed; the stream ends after the
\* last byte and not before.
InOrderDelivery ==
  /\ popped \o r.output.buffer = SubSeq(Stream, 1, r.next)
  /\ r.output.written = r.next
  /\ r.output.ended => r.next = Len(Stream)
  /\ StreamConsistent(r.output)

\* A byte that falls within the window, once held, is never given up: later
\* substrings that overlap it in any way leave it assembled or waiting.
NeverForgetsWindow ==
  [][\A i \in Indices : Held(i) /\ i < first_unacceptable_idx(r) => Held(i)']_vars

\* Every byte that arrives within the window is kept, however the substring that
\* brings it overlaps what is waiting and even if it runs past the window.
WindowAccepted ==
  [][\A index \in Indices, len \in 1 .. Len(Stream), l \in BOOLEAN :
       Push(index, len, l) =>
         \A i \in index .. index + len - 1 : i < first_unacceptable_idx(r) => Held(i)']_vars
=============================================================================
