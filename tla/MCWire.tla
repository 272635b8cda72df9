------------------------------- MODULE MCWire -------------------------------
(***************************************************************************)
(* Packets for WireSpec: with and without options, with payloads of odd    *)
(* and even length and of zeros, with fields at their limits.              *)
(***************************************************************************)
EXTENDS WireSpec

MCSender == NewAdapter([ip |-> <<49320, 50>>, port |-> 4660], [ip |-> <<44048, 100>>, port |-> 1234], FALSE)

MCReceivers ==
    {NewAdapter([ip |-> <<44048, 100>>, port |-> 1234], MCSender.source, FALSE),
     NewAdapter([ip |-> <<0, 0>>, port |-> 1234], NoAddress, TRUE)}

MCSegments ==
    {[ip |-> [NewIPv4Header EXCEPT !.hlen = 6, !.id = 65535, !.tos = 255],
      header |-> [NewTCPHeader EXCEPT !.syn = TRUE, !.doff = 6, !.seqno = <<65535, 65535>>], payload |-> <<>>],
     [ip |-> [NewIPv4Header EXCEPT !.offset = 8191, !.mf = TRUE, !.df = FALSE],
      header |-> [NewTCPHeader EXCEPT !.syn = TRUE, !.ack = TRUE, !.ackno = <<0, 1>>, !.win = 65535],
      payload |-> <<7, 0>>],
     [ip |-> NewIPv4Header,
      header |-> [NewTCPHeader EXCEPT !.ack = TRUE, !.fin = TRUE, !.psh = TRUE, !.win = 258], payload |-> <<0>>],
     [ip |-> NewIPv4Header,
      header |-> [NewTCPHeader EXCEPT !.rst = TRUE, !.urg = TRUE, !.uptr = 513], payload |-> <<255, 255, 1>>]}

MCMessages ==
    {[hardware_type |-> 1, protocol_type |-> TYPE_IPv4, hardware_address_size |-> 6,
      protocol_address_size |-> 4, opcode |-> op, sender_ethernet_address |-> <<2, 0, 0, 0, 0, 1>>,
      sender_ip_address |-> <<2560, 1>>, target_ethernet_address |-> <<255, 255, 255, 255, 255, 255>>,
      target_ip_address |-> <<2560, 65535>>] : op \in {1, 2}}
=============================================================================
