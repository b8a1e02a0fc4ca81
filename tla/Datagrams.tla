------------------------------- MODULE Datagrams -------------------------------
(***************************************************************************)
(* What is on the wire: tcp_helpers/{ipv4_header,ipv4_datagram,tcp_header, *)
(* tcp_segment}.cc, with the checksum of util.cc and the NetParser of      *)
(* util/parser.cc.  A datagram is a sequence of words.  Each header field  *)
(* that matters here is one word, so that IPv4Header::LENGTH is 8 words    *)
(* and TCPHeader::LENGTH is 5, and hlen, len and doff count these words.   *)
(* The word "flags" stands for the sequence numbers and the window too.    *)
(***************************************************************************)
EXTENDS Integers, Sequences, Functions

CONSTANT WordMod    \* 2^16

IpLength  == 8
TcpLength == 5
PROTO_TCP == 6
SYN == 1
RST == 2

ASSUME WordAssumption == WordMod \in Nat /\ WordMod > IpLength + TcpLength

Word == 0 .. WordMod - 1

SumOf(words) == FoldFunction(+, 0, words)

\* InternetChecksum::value() of a sum: folded to one word with the carries added, and inverted.
checksum(sum) == WordMod - 1 - (IF sum = 0 THEN 0 ELSE 1 + ((sum - 1) % (WordMod - 1)))

-----------------------------------------------------------------------------
(* IPv4 *)

DefaultHeader == [ver |-> 4, hlen |-> IpLength, len |-> 0, ttl |-> 1, proto |-> PROTO_TCP,
                  cksum |-> 0, src |-> 0, dst |-> 0]

header_words(h) == <<h.ver, h.hlen, h.len, h.ttl, h.proto, h.cksum, h.src, h.dst>>

payload_length(h) == (h.len - h.hlen) % WordMod

pseudo_cksum(h) == h.src + h.dst + h.proto + payload_length(h)

\* A header that is not all there stays as it was constructed.
header_of(d) ==
  IF Len(d) < IpLength THEN DefaultHeader
  ELSE [ver |-> d[1], hlen |-> d[2], len |-> d[3], ttl |-> d[4], proto |-> d[5],
        cksum |-> d[6], src |-> d[7], dst |-> d[8]]

\* What IPv4Header::parse returns: the first error.
header_result(d) ==
  LET h == header_of(d)
  IN  IF Len(d) < IpLength \/ Len(d) < h.hlen THEN "PacketTooShort"
      ELSE IF h.ver # 4 THEN "WrongIPVersion"
      ELSE IF h.hlen < IpLength THEN "HeaderTooShort"
      ELSE IF Len(d) # h.len THEN "TruncatedPacket"
      ELSE IF checksum(SumOf(SubSeq(d, 1, h.hlen))) # 0 THEN "BadChecksum"
      ELSE "NoError"

\* What it has taken from the parser by then: the options only after the other checks.
header_taken(d) ==
  IF Len(d) < IpLength THEN 0
  ELSE IF header_result(d) \in {"NoError", "BadChecksum"} THEN header_of(d).hlen
  ELSE IpLength

payload_of(d) == SubSeq(d, header_taken(d) + 1, Len(d))

\* IPv4Datagram::parse: it does not look at the result of IPv4Header::parse.
datagram_parses(d) == Len(payload_of(d)) = payload_length(header_of(d))

\* IPv4Datagram::serialize; the options that hlen announces are zero.
serialize_datagram(h, payload) ==
  LET options == [i \in 1 .. h.hlen - IpLength |-> 0]
      zeroed  == [h EXCEPT !.cksum = 0]
  IN  header_words([h EXCEPT !.cksum = checksum(SumOf(header_words(zeroed)))]) \o options \o payload

-----------------------------------------------------------------------------
(* TCP *)

\* TCPSegment::parse, of which only the checksum and running out of data count: that doff
\* is too small is a result of TCPHeader::parse, which is not looked at.
segment_parses(words, pseudo) ==
  /\ checksum(pseudo + SumOf(words)) = 0
  /\ Len(words) >= TcpLength
  /\ Len(words) >= words[3]

segment_of(words) ==
  LET doff == IF words[3] < TcpLength THEN TcpLength ELSE words[3]
  IN  [sport |-> words[1], dport |-> words[2], flags |-> words[4],
       payload |-> SubSeq(words, doff + 1, Len(words))]

syn(seg) == seg.flags % 2 = 1
rst(seg) == (seg.flags \div 2) % 2 = 1

\* TCPHeader::serialize, without options.
tcp_header_words(seg, cksum) == <<seg.sport, seg.dport, TcpLength, seg.flags, cksum>>

serialize_segment(seg, pseudo) ==
  LET with(cksum) == tcp_header_words(seg, cksum) \o seg.payload
  IN  with(checksum(pseudo + SumOf(with(0))))
=============================================================================
