----------------------------- MODULE WireFormats -----------------------------
(***************************************************************************)
(* How headers become bytes and bytes become headers: NetParser and        *)
(* NetUnparser (libsponge/util/parser.cc), InternetChecksum (util.cc) and  *)
(* the headers, frames, datagrams, segments and ARP messages of            *)
(* libsponge/tcp_helpers/.  A packet is the sequence of its bytes, which a *)
(* BufferList (buffer.{hh,cc}) keeps in pieces.                            *)
(* A header is a record of its fields.  A layout lists the fields as they  *)
(* are written, with their lengths in bytes.  A value of 4 bytes is a pair *)
(* of 16-bit halves, one of 6 bytes (EthernetAddress) a sequence of bytes. *)
(***************************************************************************)
EXTENDS Integers, Sequences, SequencesExt, TLC

Byte == 0 .. 255

(* NetUnparser::_unparse_int: the most significant byte first *)
unparse_int(len, val) ==
    CASE len \in {1, 2} -> [i \in 1 .. len |-> (val \div 256 ^ (len - i)) % 256]
      [] len = 4 -> [i \in 1 .. 4 |-> (val[(i + 1) \div 2] \div 256 ^ (i % 2)) % 256]
      [] len = 6 -> val

value_of(bytes) ==
    CASE Len(bytes) \in {1, 2} -> FoldLeft(LAMBDA ret, b : ret * 256 + b, 0, bytes)
      [] Len(bytes) = 4 -> <<bytes[1] * 256 + bytes[2], bytes[3] * 256 + bytes[4]>>
      [] Len(bytes) = 6 -> bytes

Zeros(n) == [i \in 1 .. n |-> 0]

(* Buffer::remove_prefix; n is at most the size. *)
buffer_remove_prefix(buf, n) == SubSeq(buf, n + 1, Len(buf))

(* class NetParser: the rest of the buffer, the error, and the fields so far *)
NetParser(buffer) == [buffer |-> buffer, error |-> "NoError", fields |-> [none |-> 0]]

check_size(p, size) ==
    IF size > Len(p.buffer) THEN [p EXCEPT !.error = "PacketTooShort"] ELSE p

(* NetParser::_parse_int, for one entry of a layout *)
parse_int(p, entry) ==
    LET len == entry[2]
        q == check_size(p, len)
        ok == q.error = "NoError"
        val == value_of(IF ok THEN SubSeq(q.buffer, 1, len) ELSE Zeros(len))
    IN  [q EXCEPT !.buffer = IF ok THEN buffer_remove_prefix(@, len) ELSE @,
                  !.fields = @ @@ (entry[1] :> val)]

parse_fields(p, layout) == FoldLeft(parse_int, p, layout)

(* NetParser::remove_prefix *)
parser_remove_prefix(p, n) ==
    LET q == check_size(p, n)
    IN  IF q.error # "NoError" THEN q ELSE [q EXCEPT !.buffer = buffer_remove_prefix(@, n)]

unparse_fields(h, layout) ==
    FlattenSeq([i \in DOMAIN layout |-> unparse_int(layout[i][2], h[layout[i][1]])])

(* std::string::resize, to at least the size of the string *)
resized(bytes, n) == bytes \o Zeros(n - Len(bytes))

Flag(b, weight) == IF b THEN weight ELSE 0
HasFlag(n, weight) == (n \div weight) % 2 = 1
-----------------------------------------------------------------------------
(* class InternetChecksum: the sum and the parity of the bytes so far *)
checksum(initial) == [sum |-> initial, parity |-> FALSE]

checksum_add(check, data) ==
    FoldLeft(LAMBDA c, b : [sum |-> c.sum + (IF c.parity THEN b ELSE 256 * b), parity |-> ~c.parity],
             check, data)

(* Two rounds of the loop are enough for any 32-bit sum. *)
checksum_value(check) ==
    LET round(s) == (s \div 65536) + (s % 65536)
    IN  65535 - round(round(check.sum))
-----------------------------------------------------------------------------
TYPE_IPv4 == 2048
TYPE_ARP == 2054
PROTO_TCP == 6

EthernetLayout == <<<<"dst", 6>>, <<"src", 6>>, <<"type", 2>>>>

(* EthernetFrame::serialize and parse.  A buffer that is too short leaves  *)
(* the header as it was made, and nothing reports it.                      *)
frame_serialize(h, payload) == unparse_fields(h, EthernetLayout) \o payload

frame_parse(buffer) ==
    LET p == parse_fields(NetParser(buffer), EthernetLayout)
    IN  IF Len(buffer) < 14
        THEN [header |-> [dst |-> Zeros(6), src |-> Zeros(6), type |-> 0],
              payload |-> buffer, result |-> "NoError"]
        ELSE [header |-> p.fields, payload |-> p.buffer, result |-> p.error]
-----------------------------------------------------------------------------
ARPLayout ==
    <<<<"hardware_type", 2>>, <<"protocol_type", 2>>, <<"hardware_address_size", 1>>,
      <<"protocol_address_size", 1>>, <<"opcode", 2>>, <<"sender_ethernet_address", 6>>,
      <<"sender_ip_address", 4>>, <<"target_ethernet_address", 6>>, <<"target_ip_address", 4>>>>

supported(h) ==
    /\ h.hardware_type = 1 /\ h.protocol_type = TYPE_IPv4
    /\ h.hardware_address_size = 6 /\ h.protocol_address_size = 4
    /\ h.opcode \in {1, 2}

arp_serialize(h) == unparse_fields(h, ARPLayout)

arp_parse(buffer) ==
    LET p == parse_fields(NetParser(buffer), ARPLayout)
    IN  [header |-> p.fields,
         result |-> IF Len(buffer) < 28 THEN "PacketTooShort"
                    ELSE IF ~supported(p.fields) THEN "Unsupported" ELSE p.error]
-----------------------------------------------------------------------------
IPv4Layout ==
    <<<<"ver_hlen", 1>>, <<"tos", 1>>, <<"len", 2>>, <<"id", 2>>, <<"fo", 2>>,
      <<"ttl", 1>>, <<"proto", 1>>, <<"cksum", 2>>, <<"src", 4>>, <<"dst", 4>>>>

NewIPv4Header ==
    [ver |-> 4, hlen |-> 5, tos |-> 0, len |-> 0, id |-> 0, df |-> TRUE, mf |-> FALSE, offset |-> 0,
     ttl |-> 128, proto |-> PROTO_TCP, cksum |-> 0, src |-> <<0, 0>>, dst |-> <<0, 0>>]

(* IPv4Header::serialize *)
ipv4_serialize(h) ==
    resized(unparse_fields(h @@ [ver_hlen |-> h.ver * 16 + h.hlen,
                                 fo |-> Flag(h.df, 16384) + Flag(h.mf, 8192) + h.offset], IPv4Layout),
            4 * h.hlen)

(* Lines 31-47 of IPv4Header::parse *)
ipv4_fields(raw) ==
    [ver |-> raw.ver_hlen \div 16, hlen |-> raw.ver_hlen % 16, tos |-> raw.tos, len |-> raw.len,
     id |-> raw.id, df |-> HasFlag(raw.fo, 16384), mf |-> HasFlag(raw.fo, 8192),
     offset |-> raw.fo % 8192, ttl |-> raw.ttl, proto |-> raw.proto, cksum |-> raw.cksum,
     src |-> raw.src, dst |-> raw.dst]

(* Mutated form: the options are not part of it. *)
checked_part_Fixed(buffer, h) == SubSeq(buffer, 1, 20)

(* Line 69: what the checksum is taken over *)
checked_part(buffer, h) == SubSeq(buffer, 1, 4 * h.hlen)

(* IPv4Header::parse: the header, the parser afterwards and the result *)
ipv4_parse(p) ==
    LET data_size == Len(p.buffer)
        q == parse_fields(p, IPv4Layout)
        h == ipv4_fields(q.fields)
        r == parser_remove_prefix(q, 4 * h.hlen - 20)
        check == checksum_add(checksum(0), checked_part(p.buffer, h))
        returns(header, parser, result) == [header |-> header, p |-> parser, result |-> result]
    IN  IF data_size < 20 THEN returns(NewIPv4Header, p, "PacketTooShort")
        ELSE IF data_size < 4 * h.hlen THEN returns(h, q, "PacketTooShort")
        ELSE IF h.ver # 4 THEN returns(h, q, "WrongIPVersion")
        ELSE IF h.hlen < 5 THEN returns(h, q, "HeaderTooShort")
        ELSE IF data_size # h.len THEN returns(h, q, "TruncatedPacket")
        ELSE IF r.error # "NoError" THEN returns(h, r, r.error)
        ELSE returns(h, r, IF checksum_value(check) # 0 THEN "BadChecksum" ELSE "NoError")

(* Both are uint16_t and wrap. *)
payload_length(h) == (h.len - 4 * h.hlen) % 65536

pseudo_cksum(h) == h.src[1] + h.src[2] + h.dst[1] + h.dst[2] + h.proto + payload_length(h)

(* IPv4Datagram::serialize *)
datagram_serialize(h, payload) ==
    LET zero == [h EXCEPT !.cksum = 0]
        sum == checksum_value(checksum_add(checksum(0), ipv4_serialize(zero)))
    IN  ipv4_serialize([h EXCEPT !.cksum = sum]) \o payload

(* Mutated form: the length of the payload is not compared. *)
datagram_parse_AnyLength(buffer) ==
    LET r == ipv4_parse(NetParser(buffer))
    IN  [header |-> r.header, payload |-> r.p.buffer, result |-> r.p.error]

(* IPv4Datagram::parse.  What the header's parse returns is not looked at. *)
datagram_parse(buffer) ==
    LET r == ipv4_parse(NetParser(buffer))
    IN  [header |-> r.header, payload |-> r.p.buffer,
         result |-> IF Len(r.p.buffer) # payload_length(r.header) THEN "PacketTooShort" ELSE r.p.error]
-----------------------------------------------------------------------------
TCPLayout ==
    <<<<"sport", 2>>, <<"dport", 2>>, <<"seqno", 4>>, <<"ackno", 4>>, <<"off", 1>>, <<"flags", 1>>,
      <<"win", 2>>, <<"cksum", 2>>, <<"uptr", 2>>>>

NewTCPHeader ==
    [sport |-> 0, dport |-> 0, seqno |-> <<0, 0>>, ackno |-> <<0, 0>>, doff |-> 5, urg |-> FALSE,
     ack |-> FALSE, psh |-> FALSE, rst |-> FALSE, syn |-> FALSE, fin |-> FALSE, win |-> 0,
     cksum |-> 0, uptr |-> 0]

TCPFlag == [urg |-> 32, ack |-> 16, psh |-> 8, rst |-> 4, syn |-> 2, fin |-> 1]

(* TCPHeader::serialize *)
tcp_serialize(h) ==
    LET flags == Flag(h.urg, 32) + Flag(h.ack, 16) + Flag(h.psh, 8)
                 + Flag(h.rst, 4) + Flag(h.syn, 2) + Flag(h.fin, 1)
    IN  resized(unparse_fields(h @@ [off |-> 16 * h.doff, flags |-> flags], TCPLayout), 4 * h.doff)

(* Mutated form: options stay in front of the payload. *)
tcp_parse_Options(p) ==
    LET q == parse_fields(p, TCPLayout)
        raw == q.fields
    IN  [header |-> [f \in DOMAIN NewTCPHeader |->
                        IF f = "doff" THEN raw.off \div 16
                        ELSE IF f \in DOMAIN TCPFlag THEN HasFlag(raw.flags, TCPFlag[f]) ELSE raw[f]],
         p |-> q]

(* TCPHeader::parse: the header and the parser afterwards *)
tcp_parse(p) ==
    LET q == parse_fields(p, TCPLayout)
        raw == q.fields
        doff == raw.off \div 16
    IN  [header |-> [f \in DOMAIN NewTCPHeader |->
                        IF f = "doff" THEN doff
                        ELSE IF f \in DOMAIN TCPFlag THEN HasFlag(raw.flags, TCPFlag[f]) ELSE raw[f]],
         p |-> IF doff < 5 THEN q ELSE parser_remove_prefix(q, 4 * doff - 20)]

(* TCPSegment::serialize *)
segment_serialize(h, payload, datagram_layer_checksum) ==
    LET check == checksum_add(checksum_add(checksum(datagram_layer_checksum),
                                           tcp_serialize([h EXCEPT !.cksum = 0])), payload)
    IN  tcp_serialize([h EXCEPT !.cksum = checksum_value(check)]) \o payload

(* TCPSegment::parse; here, too, only the parser's error counts. *)
segment_parse(buffer, datagram_layer_checksum) ==
    LET r == tcp_parse(NetParser(buffer))
    IN  IF checksum_value(checksum_add(checksum(datagram_layer_checksum), buffer)) # 0
        THEN [header |-> NewTCPHeader, payload |-> <<>>, result |-> "BadChecksum"]
        ELSE [header |-> r.header, payload |-> r.p.buffer, result |-> r.p.error]
=============================================================================
