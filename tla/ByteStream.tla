------------------------------ MODULE ByteStream ------------------------------
(***************************************************************************)
(* The flow-controlled in-order byte stream of                             *)
(* libsponge/byte_stream.{hh,cc}: a bounded FIFO with an input side        *)
(* (write, end_input) and an output side (peek_output, pop_output, read).  *)
(* A stream is a record with one field per data member of the C++ class;   *)
(* every method is an operator from a stream to its new value or result.   *)
(***************************************************************************)
EXTENDS Naturals, Sequences

Smaller(a, b) == IF a <= b THEN a ELSE b
Larger(a, b)  == IF a >= b THEN a ELSE b

\* ByteStream::ByteStream
NewByteStream(capacity) ==
  [capacity |-> capacity, buffer |-> <<>>, written |-> 0, read |-> 0,
   error |-> FALSE, ended |-> FALSE]

remaining_capacity(s) == s.capacity - Len(s.buffer)

eof(s) == s.ended /\ s.buffer = <<>>

\* The number of bytes of an n-byte string that write() would accept.
accepts(s, n) == IF s.error \/ s.ended THEN 0 ELSE Smaller(remaining_capacity(s), n)

\* Mutation: the end of the data is kept instead of its beginning.
write_tail(s, data) ==
  LET n == accepts(s, Len(data))
  IN  [s EXCEPT !.buffer = @ \o SubSeq(data, Len(data) - n + 1, Len(data)), !.written = @ + n]

write(s, data) ==
  LET n == accepts(s, Len(data))
  IN  [s EXCEPT !.buffer = @ \o SubSeq(data, 1, n), !.written = @ + n]

\* The number of bytes that peek_output(len) returns.
peekable(s, len) == IF s.error THEN 0 ELSE Smaller(len, Len(s.buffer))

peek_output(s, len) == SubSeq(s.buffer, 1, peekable(s, len))

\* pop_output() is a no-op on a stream in error, exactly like peek_output().
pop_output(s, len) ==
  LET n == peekable(s, len)
  IN  [s EXCEPT !.buffer = SubSeq(@, n + 1, Len(@)), !.read = @ + n]

end_input(s) == [s EXCEPT !.ended = TRUE]

set_error(s) == [s EXCEPT !.error = TRUE]

\* The streams that the program can build, for a set of possible bytes.
ByteStreams(Byte) ==
  [capacity : Nat, buffer : Seq(Byte), written : Nat, read : Nat,
   error : BOOLEAN, ended : BOOLEAN]

\* What every stream satisfies: the counters account for the buffer.
StreamConsistent(s) ==
  /\ Len(s.buffer) <= s.capacity
  /\ s.written = s.read + Len(s.buffer)
=============================================================================
