------------------------------ MODULE Adapters ------------------------------
(***************************************************************************)
(* What the datagram adapters do with a segment (libsponge/tcp_helpers/    *)
(* fd_adapter.{hh,cc} and tcp_over_ip.cc).  An adapter is a record with    *)
(* the addresses of its FdAdapterConfig and the flag listening; an address *)
(* has an ip and a port.  Reading gives the adapter afterwards and the     *)
(* segments it passes up, none or one.                                     *)
(***************************************************************************)
EXTENDS Naturals, Sequences

NoAddress == [ip |-> <<0, 0>>, port |-> 0]

NewAdapter(source, destination, listening) ==
    [source |-> source, destination |-> destination, listening |-> listening]

(* Only a SYN that is no RST binds a listening adapter. *)
Opens(seg) == seg.header.syn /\ ~seg.header.rst

(* Mutated form: any segment for the port is taken. *)
unwrap_tcp_in_ip_AnySource(ad, ip, seg) ==
    LET bound == [source |-> [ip |-> ip.dst, port |-> ad.source.port],
                  destination |-> [ip |-> ip.src, port |-> seg.header.sport], listening |-> FALSE]
        now == IF ad.listening THEN bound ELSE ad
    IN  IF ip.proto = 6 /\ seg.result = "NoError" /\ seg.header.dport = ad.source.port
        THEN [ad |-> now, up |-> <<seg>>] ELSE [ad |-> ad, up |-> <<>>]

(* Mutated form: a segment for any port is taken. *)
unwrap_tcp_in_ip_AnyPort(ad, ip, seg) ==
    LET bound == [source |-> [ip |-> ip.dst, port |-> ad.source.port],
                  destination |-> [ip |-> ip.src, port |-> seg.header.sport], listening |-> FALSE]
        now == IF ad.listening THEN bound ELSE ad
    IN  IF ip.proto = 6 /\ seg.result = "NoError" /\ (ad.listening => Opens(seg))
        THEN [ad |-> now, up |-> IF seg.header.sport = now.destination.port THEN <<seg>> ELSE <<>>]
        ELSE [ad |-> ad, up |-> <<>>]

(* TCPOverIPv4Adapter::unwrap_tcp_in_ip; ip is the header of the datagram, *)
(* seg what parsing its payload gave.                                      *)
unwrap_tcp_in_ip(ad, ip, seg) ==
    LET bound == [source |-> [ip |-> ip.dst, port |-> ad.source.port],
                  destination |-> [ip |-> ip.src, port |-> seg.header.sport], listening |-> FALSE]
        now == IF ad.listening THEN bound ELSE ad
    IN  IF /\ ad.listening \/ (ip.dst = ad.source.ip /\ ip.src = ad.destination.ip)
           /\ ip.proto = 6 /\ seg.result = "NoError"
           /\ seg.header.dport = ad.source.port
           /\ ad.listening => Opens(seg)
        THEN [ad |-> now, up |-> IF seg.header.sport = now.destination.port THEN <<seg>> ELSE <<>>]
        ELSE [ad |-> ad, up |-> <<>>]

(* TCPOverUDPSocketAdapter::read; source is where the datagram came from. *)
udp_read(ad, source, seg) ==
    IF /\ ad.listening \/ source = ad.destination
       /\ seg.result = "NoError"
       /\ ad.listening => Opens(seg)
    THEN [ad |-> IF ad.listening THEN [ad EXCEPT !.destination = source, !.listening = FALSE] ELSE ad,
          up |-> <<seg>>]
    ELSE [ad |-> ad, up |-> <<>>]

(* wrap_tcp_in_ip and TCPOverUDPSocketAdapter::write: the ports of a       *)
(* segment that goes out, and the addresses of its datagram                *)
ports(ad, header) == [header EXCEPT !.sport = ad.source.port, !.dport = ad.destination.port]
addresses(ad, ip) == [ip EXCEPT !.src = ad.source.ip, !.dst = ad.destination.ip]
=============================================================================
