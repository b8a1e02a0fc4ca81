------------------------------ MODULE TapAdapter ------------------------------
(***************************************************************************)
(* TCPOverIPv4OverEthernetAdapter (tcp_helpers/tuntap_adapter.cc): the     *)
(* adapter over a TAP device, which carries Ethernet frames.  A network    *)
(* interface of its own finds out the address of the next hop, keeps       *)
(* datagrams until it is known, and answers requests.  The adapter writes  *)
(* what the interface has queued after every call of it.                   *)
(***************************************************************************)
EXTENDS Adapter, Frames, NetworkInterface, SequencesExt

CONSTANTS OurEth, OtherEth,    \* our Ethernet address, and any other
          HopEths,             \* the ones that the next hop may have
          NextHop,             \* its IP address
          TapMessages,         \* those of the messages that arrive in frames
          TickSizes,
          MaxWritten           \* bound on the segments written

ASSUME TapAssumption ==
  /\ {OurEth, OtherEth, Broadcast} \cup HopEths \subseteq Word \ {0}
  /\ OurEth \notin HopEths \cup {OtherEth, Broadcast}
  /\ NextHop \in Word
  /\ TapMessages # {} /\ TapMessages \subseteq Messages
  /\ TickSizes \subseteq Nat

VARIABLES nic,       \* _interface; Nothing with a TUN device
          written,   \* the datagrams that write() was to send, in order
          sent       \* the datagrams in the frames that were written to the device, in order

tapVars == <<nic, written, sent>>

-----------------------------------------------------------------------------
(* The interface's frames as they are on the device. *)

type_word(type) == IF type = "IPv4" THEN TYPE_IPv4 ELSE TYPE_ARP

\* The target's Ethernet address is left zero in a request; a reply goes to its target.
arp_words(f) ==
  serialize_arp(
    [opcode     |-> IF f.payload.opcode = Request THEN OPCODE_REQUEST ELSE OPCODE_REPLY,
     sender_eth |-> f.payload.sender_eth, sender_ip |-> f.payload.sender_ip,
     target_eth |-> IF f.payload.opcode = Request THEN 0 ELSE f.dst,
     target_ip  |-> f.payload.target_ip])

on_device(f) ==
  serialize_frame([dst |-> f.dst, src |-> f.src, type |-> type_word(f.type),
                   payload |-> IF f.type = "IPv4" THEN f.payload ELSE arp_words(f)])

\* recv_frame() ignores a payload that does not parse, as it does other types.
received(words) ==
  LET f == frame_of(words)
  IN  IF f.type = TYPE_IPv4 /\ datagram_parses(f.payload)
      THEN [dst |-> f.dst, src |-> f.src, type |-> "IPv4", payload |-> f.payload]
      ELSE IF f.type = TYPE_ARP /\ arp_parses(f.payload)
      THEN LET m == arp_of(f.payload)
           IN  [dst |-> f.dst, src |-> f.src, type |-> "ARP",
                payload |-> [opcode |-> IF m.opcode = OPCODE_REQUEST THEN Request ELSE Reply,
                             sender_eth |-> m.sender_eth, sender_ip |-> m.sender_ip,
                             target_ip |-> m.target_ip]]
      ELSE [dst |-> f.dst, src |-> f.src, type |-> "ignored", payload |-> f.payload]

\* The datagrams in frames.
datagrams_in(frames) ==
  LET ipv4 == SelectSeq(frames, LAMBDA words : frame_of(words).type = TYPE_IPv4)
  IN  [i \in DOMAIN ipv4 |-> frame_of(ipv4[i]).payload]

-----------------------------------------------------------------------------
\* FullStackSocket::connect to the sender of m: the interface has the address that the
\* segments come from.
FullStackSocket(m) ==
  /\ peer = [src |-> m.src, dst |-> m.dst]
  /\ nic = NewInterface(OurEth, adapter.source.ip)

\* A TUN device, or a TAP device.  (The dummy frame of its constructor is for nobody.)
TapInit ==
  /\ Init
  /\ written = <<>> /\ sent = <<>>
  /\ nic = Nothing \/ \E m \in TapMessages : FullStackSocket(m)

\* Mutation: one frame is sent.
send_pending_one(n) ==
  /\ sent' = sent \o datagrams_in([i \in 1 .. IF n.frames_out = <<>> THEN 0 ELSE 1 |-> on_device(n.frames_out[i])])
  /\ nic' = [n EXCEPT !.frames_out = IF @ = <<>> THEN @ ELSE Tail(@)]

\* All of frames_out is written to the device.
send_pending(n) ==
  /\ sent' = sent \o datagrams_in([i \in DOMAIN n.frames_out |-> on_device(n.frames_out[i])])
  /\ nic' = [n EXCEPT !.frames_out = <<>>]

\* The datagram of message m arrives in a frame.
TapRead(m, words) ==
  LET f      == received(words)
      dgrams == received_datagrams(nic, f)
  IN  /\ up = Nothing
      /\ dgrams # <<>> /\ unwraps(adapter, dgrams[1])
      /\ send_pending(recv_frame(nic, f))
      /\ up' = [sent |-> m, carried |-> dgrams[1], seg |-> segment_of(payload_of(dgrams[1]))]
      /\ adapter' = after_unwrap(adapter, dgrams[1])
      /\ out' = Nothing
      /\ UNCHANGED <<peer, written>>

\* A frame of which nothing is handed over.
TapReadNothing(words) ==
  LET f      == received(words)
      dgrams == received_datagrams(nic, f)
  IN  /\ up = Nothing
      /\ \A d \in Range(dgrams) : ~unwraps(adapter, d)
      /\ send_pending(recv_frame(nic, f))
      /\ out' = Nothing
      /\ UNCHANGED <<adapter, up, peer, written>>

\* The connection writes whenever it has something to send.
TapWrite(flags, payload) ==
  LET dgram == wrap_tcp_in_ip(adapter, flags, payload)
  IN  /\ Len(written) < MaxWritten
      /\ send_pending(send_datagram(nic, dgram, NextHop))
      /\ written' = Append(written, dgram)
      /\ out' = [flags |-> flags, payload |-> payload, dgram |-> dgram]
      /\ up' = Nothing
      /\ UNCHANGED <<adapter, peer>>

TapTick(ms) ==
  /\ \E order \in SetToSeqs(unanswered(run_timers(nic, ms))) : send_pending(interface_tick(nic, ms, order))
  /\ UNCHANGED <<vars, written>>

-----------------------------------------------------------------------------
\* Frames that others send, whole or cut short.
Cut(words) == {SubSeq(words, 1, n) : n \in 0 .. Len(words)}

IPv4Frame(m, dst) == serialize_frame([dst |-> dst, src |-> OtherEth, type |-> TYPE_IPv4, payload |-> Sent(m)])

DatagramFrames ==
  UNION {{[m |-> m, words |-> w] : w \in Cut(IPv4Frame(m, dst))} :
           m \in TapMessages, dst \in {OurEth, Broadcast, OtherEth}}

ArpFrame(m, dst) ==
  serialize_frame([dst |-> dst, src |-> m.sender_eth, type |-> TYPE_ARP, payload |-> serialize_arp(m)])

ArpMessages ==
  [opcode : {OPCODE_REQUEST, OPCODE_REPLY, 0}, sender_eth : HopEths, sender_ip : {NextHop},
   target_eth : {0}, target_ip : Here]

ArpFrames ==
  UNION {Cut(ArpFrame(m, dst)) : m \in ArpMessages, dst \in {OurEth, Broadcast, OtherEth}}

Tun == Next /\ UNCHANGED tapVars

Tap ==
  \/ \E f \in DatagramFrames : TapRead(f.m, f.words)
  \/ \E words \in {f.words : f \in DatagramFrames} \cup ArpFrames : TapReadNothing(words)
  \/ \E m \in TapMessages : TapWrite(m.flags, m.payload)
  \/ \E ms \in TickSizes : TapTick(ms)

TapSpec == TapInit /\ [][IF nic = Nothing THEN Tun ELSE Tap]_<<vars, tapVars>>

-----------------------------------------------------------------------------
\* Nothing that the connection writes is lost, repeated or reordered above the device: it has
\* left in frames, in order, except for the last datagrams, which wait until the next hop's
\* address is known.  No frame stays behind in the interface.
WrittenGoesOut ==
  nic # Nothing => written = sent \o waiting(nic, NextHop) /\ nic.frames_out = <<>>
=============================================================================
