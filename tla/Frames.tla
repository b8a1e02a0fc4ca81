-------------------------------- MODULE Frames --------------------------------
(***************************************************************************)
(* What is on an Ethernet: tcp_helpers/{ethernet_header,ethernet_frame,    *)
(* arp_message}.cc.  As in Datagrams a header field is one word: an        *)
(* EthernetHeader is 3 words and an ARPMessage is 9.                       *)
(***************************************************************************)
EXTENDS Datagrams

EthernetLength == 3
ArpLength      == 9
TYPE_IPv4      == 8
TYPE_ARP       == 6

\* EthernetHeader::parse takes nothing of a frame that is too short: the header stays zero.
ethernet_header_of(words) ==
  IF Len(words) < EthernetLength THEN <<0, 0, 0>> ELSE SubSeq(words, 1, EthernetLength)

\* EthernetFrame::parse drops its result: there is no error, and all of such a frame is payload.
frame_of(words) ==
  LET header == ethernet_header_of(words)
      taken  == IF Len(words) < EthernetLength THEN 0 ELSE EthernetLength
  IN  [dst |-> header[1], src |-> header[2], type |-> header[3],
       payload |-> SubSeq(words, taken + 1, Len(words))]

serialize_frame(f) == <<f.dst, f.src, f.type>> \o f.payload

-----------------------------------------------------------------------------
(* ARP *)

TYPE_ETHERNET  == 1
OPCODE_REQUEST == 1
OPCODE_REPLY   == 2
AddressSizes   == <<6, 4>>    \* of Ethernet and IPv4 addresses

\* ARPMessage::supported of the fields before the addresses.
supported(words) ==
  /\ words[1] = TYPE_ETHERNET /\ words[2] = TYPE_IPv4
  /\ SubSeq(words, 3, 4) = AddressSizes
  /\ words[5] \in {OPCODE_REQUEST, OPCODE_REPLY}

\* What follows a message is not looked at.
arp_parses(words) == Len(words) >= ArpLength /\ supported(words)

arp_of(words) ==
  [opcode |-> words[5], sender_eth |-> words[6], sender_ip |-> words[7],
   target_eth |-> words[8], target_ip |-> words[9]]

serialize_arp(m) ==
  <<TYPE_ETHERNET, TYPE_IPv4>> \o AddressSizes
    \o <<m.opcode, m.sender_eth, m.sender_ip, m.target_eth, m.target_ip>>
=============================================================================
