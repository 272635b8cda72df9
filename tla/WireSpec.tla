------------------------------ MODULE WireSpec ------------------------------
(***************************************************************************)
(* One packet from one host to another.  A TCP segment in a UDP datagram,  *)
(* in an IPv4 datagram on a TUN device or in an IPv4 datagram in an        *)
(* Ethernet frame on a TAP device, or an ARP message in a frame, is        *)
(* serialized and sent, perhaps damaged in one byte or cut short on the    *)
(* way, and parsed.                                                        *)
(***************************************************************************)
EXTENDS WireFormats, Adapters

CONSTANTS Segments,     \* the TCP segments: [ip, header, payload]
          Messages,     \* the ARP messages
          Sender,       \* the adapter of the sender
          Receivers     \* the adapters the receiver may have

VARIABLES sent,         \* what is sent: how, what, and who receives it
          wire,         \* the bytes on the way, none before it is sent
          hurt,         \* 0, Cut, or the number of the damaged byte
          read,         \* the receiver has read it
          got           \* what came up: none or one packet

vars == <<sent, wire, hurt, read, got>>

ETHERNET_BROADCAST == [i \in 1 .. 6 |-> 255]
ReceiverAddress == <<2, 0, 0, 0, 0, 255>>

EthernetHeader(dst, type) == [dst |-> dst, src |-> <<2, 0, 0, 0, 0, 1>>, type |-> type]

(* TCPOverIPv4Adapter::wrap_tcp_in_ip *)
wrap_tcp_in_ip(ad, s) ==
    LET header == ports(ad, s.header)
        ip == [addresses(ad, s.ip) EXCEPT !.len = 4 * s.ip.hlen + 4 * header.doff + Len(s.payload)]
    IN  datagram_serialize(ip, segment_serialize(header, s.payload, pseudo_cksum(ip)))

Serialized(m) ==
    CASE m.over = "udp" -> segment_serialize(ports(Sender, m.body.header), m.body.payload, 0)
      [] m.over = "tun" -> wrap_tcp_in_ip(Sender, m.body)
      [] m.over = "tap" -> frame_serialize(EthernetHeader(ReceiverAddress, TYPE_IPv4), wrap_tcp_in_ip(Sender, m.body))
      [] m.over = "arp" -> frame_serialize(EthernetHeader(IF m.body.opcode = 1 THEN ETHERNET_BROADCAST
                                                          ELSE ReceiverAddress, TYPE_ARP), arp_serialize(m.body))

Init ==
    /\ sent \in [over : {"udp", "tun", "tap"}, body : Segments, by : Receivers]
                \cup [over : {"arp"}, body : Messages, by : {Sender}]
    /\ wire = <<>> /\ hurt = 0 /\ read = FALSE /\ got = <<>>

(* A device takes a packet whole: the loop of FileDescriptor::write runs   *)
(* once for a TUN or TAP device, and sendmsg_helper has no loop.           *)
Send ==
    /\ wire = <<>> /\ hurt = 0
    /\ wire' = Serialized(sent)
    /\ UNCHANGED <<sent, hurt, read, got>>

UnderWay == (wire # <<>> \/ hurt # 0) /\ ~read

Cut == 1000

(* One bit of byte i changes, or all of them. *)
Flipped(b) == {255 - b} \cup {IF HasFlag(b, 2 ^ k) THEN b - 2 ^ k ELSE b + 2 ^ k : k \in 0 .. 7}

Damage(i) ==
    /\ UnderWay /\ hurt = 0 /\ i <= Len(wire)
    /\ \E b \in Flipped(wire[i]) : wire' = [wire EXCEPT ![i] = b]
    /\ hurt' = i
    /\ UNCHANGED <<sent, read, got>>

(* Only n bytes arrive.  (UDPSocket::recv throws when UDP does this.) *)
CutShort(n) ==
    /\ UnderWay /\ hurt = 0 /\ sent.over # "udp" /\ n < Len(wire)
    /\ wire' = SubSeq(wire, 1, n)
    /\ hurt' = Cut
    /\ UNCHANGED <<sent, read, got>>

(* A packet is what came up, and the IPv4 header that brought it. *)
Packets(result, ip) == [i \in DOMAIN result.up |-> [seg |-> result.up[i], ip |-> ip]]

FromDatagram(dgram) ==
    LET seg == segment_parse(dgram.payload, pseudo_cksum(dgram.header))
    IN  IF dgram.result # "NoError" THEN <<>>
        ELSE Packets(unwrap_tcp_in_ip(sent.by, dgram.header, seg), dgram.header)

(* NetworkInterface::recv_frame: a frame for another host is dropped, and  *)
(* two types are told apart.                                               *)
FromFrame(frame) ==
    IF frame.result # "NoError" \/ frame.header.dst \notin {ETHERNET_BROADCAST, ReceiverAddress} THEN <<>>
    ELSE IF frame.header.type = TYPE_IPv4 THEN FromDatagram(datagram_parse(frame.payload))
    ELSE IF frame.header.type = TYPE_ARP /\ arp_parse(frame.payload).result = "NoError"
         THEN <<[arp |-> arp_parse(frame.payload).header]>>
    ELSE <<>>

Receive ==
    /\ UnderWay
    /\ read' = TRUE
    /\ got' = CASE sent.over = "udp" ->
                      Packets(udp_read(sent.by, Sender.source, segment_parse(wire, 0)), sent.body.ip)
                [] sent.over = "tun" -> FromDatagram(datagram_parse(wire))
                [] sent.over \in {"tap", "arp"} -> FromFrame(frame_parse(wire))
    /\ UNCHANGED <<sent, wire, hurt>>

Next ==
    \/ Send
    \/ \E i \in DOMAIN wire : Damage(i) \/ CutShort(i - 1)
    \/ Receive

Spec == Init /\ [][Next]_vars
-----------------------------------------------------------------------------

Cleared(h) == [h EXCEPT !.cksum = 0]

(* The segment p brought is the one that was sent. *)
SameSegment(p) ==
    /\ "seg" \in DOMAIN p /\ sent.over # "arp"
    /\ Cleared(p.seg.header) = Cleared(ports(Sender, sent.body.header))
    /\ p.seg.payload = sent.body.payload

(* A packet that is not damaged arrives, with every field of its headers   *)
(* and without the padding of its options, unless it is not for this       *)
(* adapter: a listening one takes only a SYN.                              *)
ArrivesUnchanged ==
    read /\ hurt = 0 =>
        IF sent.over = "arp" THEN got # <<>> /\ \A f \in DOMAIN sent.body : got[1].arp[f] = sent.body[f]
        ELSE IF sent.by.listening /\ ~Opens(sent.body) THEN got = <<>>
        ELSE /\ got # <<>> /\ SameSegment(got[1])
             /\ [got[1].ip EXCEPT !.len = 0, !.cksum = 0]
                  = IF sent.over = "udp" THEN sent.body.ip ELSE addresses(Sender, sent.body.ip)

(* The byte with the version and the length of the IPv4 header *)
LengthByte == CASE sent.over = "tun" -> 1 [] sent.over = "tap" -> 15 [] OTHER -> 0

(* No damage makes another packet of a segment or an ARP message: what     *)
(* comes up is still the segment that was sent, and nothing comes up from  *)
(* a packet cut short.  The byte with the header's length is left out: the *)
(* checksum of the header protects it, but IPv4Datagram::parse does not    *)
(* look at what IPv4Header::parse returns, and whether the checksum of the *)
(* segment notices depends on the bytes it then starts with.               *)
DamageIsHarmless ==
    got # <<>> /\ hurt \notin {0, LengthByte} =>
        hurt # Cut /\ IF sent.over = "arp" THEN "arp" \in DOMAIN got[1] ELSE SameSegment(got[1])

(* IPv4Header::parse reports a damaged header, its options included        *)
(* (ipv4_header.cc:13-22).                                                 *)
HeaderDamageIsFound ==
    sent.over = "tun" /\ hurt \in 2 .. 4 * sent.body.ip.hlen => ipv4_parse(NetParser(wire)).result # "NoError"
=============================================================================
