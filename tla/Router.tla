------------------------------- MODULE Router -------------------------------
(***************************************************************************)
(* class Router and class AsyncNetworkInterface (libsponge/router.{hh,cc}):*)
(* longest-prefix-match routing between interfaces.  An address is a       *)
(* number of AddressBits bits (32 in the code); an optional next hop is a  *)
(* set with at most one element; interfaces are numbered from 1.           *)
(***************************************************************************)
EXTENDS NetworkInterface, Integers

CONSTANT AddressBits

(* The second fact is arithmetic, stated because the provers do not know   *)
(* about exponents.                                                        *)
ASSUME BitsAssumption ==
    /\ AddressBits \in Nat \ {0}
    /\ \A n \in 0 .. AddressBits : 2^n \in Nat \ {0}

(* AsyncNetworkInterface *)
AsyncInterface(eth, ip) == [base |-> NewInterface(eth, ip), datagrams_out |-> <<>>]

async_recv_frame(itf, frame) ==
    [base |-> recv_frame(itf.base, frame),
     datagrams_out |-> itf.datagrams_out \o received(itf.base, frame)]

(* Router::add_interface gives the sequence of interfaces. *)
NewRouter(interfaces) == [interfaces |-> interfaces, routing_table |-> <<>>]

add_route(r, route) == [r EXCEPT !.routing_table = Append(@, route)]
-----------------------------------------------------------------------------
(* Lines 50-63: dgram_dst_addr & mask *)
Masked(addr, prefix_length) ==
    IF prefix_length = 0 THEN 0
    ELSE addr - (addr % 2^(AddressBits - prefix_length))

Matches(route, addr) == Masked(addr, route.prefix_length) = route.route_prefix

(* Mutated form: the last of all matching routes. *)
longest_prefix_match_Last(table, addr) ==
    LET best[i \in 0 .. Len(table)] ==
            IF i = 0 THEN 0 ELSE IF Matches(table[i], addr) THEN i ELSE best[i - 1]
    IN  best[Len(table)]

(* Lines 46-73: the index of the route chosen, 0 if there is none. *)
longest_prefix_match(table, addr) ==
    LET Length(i) == IF i = 0 THEN -1 ELSE table[i].prefix_length
        best[i \in 0 .. Len(table)] ==
            IF i = 0 THEN 0
            ELSE IF Matches(table[i], addr) /\ Length(i) > Length(best[i - 1])
                 THEN i ELSE best[i - 1]
    IN  best[Len(table)]

(* Lines 80-88 *)
NextHop(route, addr) ==
    IF route.next_hop = {} THEN addr ELSE CHOOSE a \in route.next_hop : TRUE

(* Mutated forms: the time to live is kept, or the next hop of a route is  *)
(* not used.                                                               *)
route_one_datagram_Immortal(r, dgram) ==
    LET m == longest_prefix_match(r.routing_table, dgram.dst)
        route == r.routing_table[m]
    IN  IF dgram.ttl <= 1 \/ m = 0 THEN r
        ELSE [r EXCEPT !.interfaces[route.interface_num].base =
                 send_datagram(@, dgram, NextHop(route, dgram.dst))]

route_one_datagram_FirstPort(r, dgram) ==
    LET m == longest_prefix_match(r.routing_table, dgram.dst)
        route == r.routing_table[m]
    IN  IF dgram.ttl <= 1 \/ m = 0 THEN r
        ELSE [r EXCEPT !.interfaces[1].base =
                 send_datagram(@, [dgram EXCEPT !.ttl = @ - 1],
                               NextHop(route, dgram.dst))]

(* Router::route_one_datagram *)
route_one_datagram(r, dgram) ==
    LET m == longest_prefix_match(r.routing_table, dgram.dst)
        route == r.routing_table[m]
    IN  IF dgram.ttl <= 1 \/ m = 0 THEN r
        ELSE [r EXCEPT !.interfaces[route.interface_num].base =
                 send_datagram(@, [dgram EXCEPT !.ttl = @ - 1],
                               NextHop(route, dgram.dst))]

(* Every datagram received, interface by interface. *)
Received(r) ==
    LET upto[i \in 0 .. Len(r.interfaces)] ==
            IF i = 0 THEN <<>> ELSE upto[i - 1] \o r.interfaces[i].datagrams_out
    IN  upto[Len(r.interfaces)]

(* Mutated form: one datagram of each interface, and the queue is cleared. *)
route_FirstOnly(r) ==
    LET cleared == [r EXCEPT !.interfaces =
            [i \in 1 .. Len(@) |-> [@[i] EXCEPT !.datagrams_out = <<>>]]]
    IN  IF Received(r) = <<>> THEN r ELSE route_one_datagram(cleared, Head(Received(r)))

(* Router::route; lines 96-99: the queue of one interface *)
route_queue(r, queue) ==
    LET after[k \in 0 .. Len(queue)] ==
            IF k = 0 THEN r ELSE route_one_datagram(after[k - 1], queue[k])
    IN  after[Len(queue)]

route(r) ==
    LET Emptied(s, i) == [s EXCEPT !.interfaces[i].datagrams_out = <<>>]
        after[i \in 0 .. Len(r.interfaces)] ==
            IF i = 0 THEN r
            ELSE route_queue(Emptied(after[i - 1], i), r.interfaces[i].datagrams_out)
    IN  after[Len(r.interfaces)]
=============================================================================
