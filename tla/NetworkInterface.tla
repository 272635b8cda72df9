-------------------------- MODULE NetworkInterface --------------------------
(***************************************************************************)
(* class NetworkInterface (libsponge/network_interface.{hh,cc}): IP over   *)
(* Ethernet.  A datagram for a next hop whose Ethernet address is unknown  *)
(* waits in _ARP_queue while an ARP request is out; _mapping_cache holds   *)
(* the addresses learnt and, with the broadcast address in their place,    *)
(* those asked for.  One record is one object; the cache is a function on  *)
(* the IP addresses it has entries for.                                    *)
(***************************************************************************)
EXTENDS Naturals, Sequences

CONSTANTS ETHERNET_BROADCAST,
          ETHERNET_UNSET,   \* the Ethernet address {} of a new ARPMessage
          PENDING_TIME,     \* 5000 ms in the code
          MAPPING_TIME      \* 30000 ms in the code

(* That an address is kept at least as long as a request for it is awaited *)
(* spaces the requests: an entry learnt and expired would be asked for     *)
(* again before PENDING_TIME is over.                                      *)
ASSUME TimeAssumption ==
    /\ PENDING_TIME \in Nat \ {0} /\ MAPPING_TIME \in Nat \ {0}
    /\ PENDING_TIME <= MAPPING_TIME

(* NetworkInterface::NetworkInterface *)
NewInterface(eth, ip) ==
    [ethernet_address |-> eth, ip_address |-> ip, frames_out |-> <<>>,
     mapping_cache |-> <<>>, ARP_queue |-> <<>>]

Cached(ni, ip) == ip \in DOMAIN ni.mapping_cache
Pending(ni, ip) == Cached(ni, ip) /\ ni.mapping_cache[ip].first = ETHERNET_BROADCAST
Known(ni, ip) == Cached(ni, ip) /\ ~Pending(ni, ip)

(* _mapping_cache[ip] = {eth, 0} *)
Mapped(cache, ip, eth) ==
    [i \in DOMAIN cache \cup {ip} |->
        IF i = ip THEN [first |-> eth, second |-> 0] ELSE cache[i]]

Frame(ni, dst, type, payload) ==
    [src |-> ni.ethernet_address, dst |-> dst, type |-> type, payload |-> payload]

(* Pushed to _frames_out: a datagram (lines 45-51) and an ARP message      *)
(* (lines 56-68 and 99-112).                                               *)
push_datagram(ni, dgram, dst) ==
    [ni EXCEPT !.frames_out = Append(@, Frame(ni, dst, "IPv4", dgram))]

push_arp(ni, opcode, target_ip, target_eth, dst) ==
    LET arp == [opcode |-> opcode, sender_ip |-> ni.ip_address,
                sender_eth |-> ni.ethernet_address,
                target_ip |-> target_ip, target_eth |-> target_eth]
    IN  [ni EXCEPT !.frames_out = Append(@, Frame(ni, dst, "ARP", arp))]
-----------------------------------------------------------------------------
(* Lines 52-74: ask for the address and keep the datagram. *)
ask(ni, dgram, next_hop) ==
    [push_arp(ni, "request", next_hop, ETHERNET_UNSET, ETHERNET_BROADCAST) EXCEPT
        !.ARP_queue = Append(@, [dgram |-> dgram, next_hop |-> next_hop]),
        !.mapping_cache = Mapped(@, next_hop, ETHERNET_BROADCAST)]

(* Mutated form: asks again while an answer is awaited. *)
send_datagram_Impatient(ni, dgram, next_hop) ==
    IF Known(ni, next_hop) THEN push_datagram(ni, dgram, ni.mapping_cache[next_hop].first)
                           ELSE ask(ni, dgram, next_hop)

(* NetworkInterface::send_datagram *)
send_datagram(ni, dgram, next_hop) ==
    IF Pending(ni, next_hop) THEN ni
    ELSE IF Cached(ni, next_hop)
         THEN push_datagram(ni, dgram, ni.mapping_cache[next_hop].first)
         ELSE ask(ni, dgram, next_hop)
-----------------------------------------------------------------------------

(* Line 79 *)
Accepts(ni, frame) == frame.dst \in {ETHERNET_BROADCAST, ni.ethernet_address}

(* Mutated form: learns from the wrong half of the message. *)
learn_Target(ni, arp) == [ni EXCEPT !.mapping_cache = Mapped(@, arp.target_ip, arp.target_eth)]

(* Line 94 *)
learn(ni, arp) == [ni EXCEPT !.mapping_cache = Mapped(@, arp.sender_ip, arp.sender_eth)]

(* Lines 98-113 *)
answer(ni, arp) ==
    IF ni.ip_address = arp.target_ip
    THEN push_arp(ni, "reply", arp.sender_ip, arp.sender_eth, arp.sender_eth)
    ELSE ni

(* Lines 119-126: the first waiting datagram for ip is sent. *)
Waiting(ni, ip) == {i \in 1 .. Len(ni.ARP_queue) : ni.ARP_queue[i].next_hop = ip}

(* Mutated form: the datagram stays in the queue. *)
flush_first_Kept(ni, ip) ==
    IF Waiting(ni, ip) = {} THEN ni
    ELSE LET i == CHOOSE i \in Waiting(ni, ip) : \A j \in Waiting(ni, ip) : i <= j
         IN  send_datagram(ni, ni.ARP_queue[i].dgram, ip)

flush_first(ni, ip) ==
    IF Waiting(ni, ip) = {} THEN ni
    ELSE LET i == CHOOSE i \in Waiting(ni, ip) : \A j \in Waiting(ni, ip) : i <= j
             sent == send_datagram(ni, ni.ARP_queue[i].dgram, ip)
         IN  [sent EXCEPT !.ARP_queue = SubSeq(@, 1, i - 1) \o SubSeq(@, i + 1, Len(@))]

(* Mutated form: learning is all a reply is good for. *)
recv_frame_LearnOnly(ni, frame) ==
    IF ~Accepts(ni, frame) \/ frame.type # "ARP" THEN ni
    ELSE IF frame.payload.opcode = "request"
         THEN answer(learn(ni, frame.payload), frame.payload)
         ELSE learn(ni, frame.payload)

(* NetworkInterface::recv_frame: the object afterwards, and the datagram   *)
(* it returns, if any.                                                     *)
recv_frame(ni, frame) ==
    IF ~Accepts(ni, frame) \/ frame.type # "ARP" THEN ni
    ELSE LET arp == frame.payload
         IN  IF arp.opcode = "request" THEN answer(learn(ni, arp), arp)
             ELSE flush_first(learn(ni, arp), arp.sender_ip)

received(ni, frame) ==
    IF Accepts(ni, frame) /\ frame.type = "IPv4" THEN <<frame.payload>> ELSE <<>>
-----------------------------------------------------------------------------
(* NetworkInterface::tick *)
Lifetime(entry) ==
    IF entry.first = ETHERNET_BROADCAST THEN PENDING_TIME ELSE MAPPING_TIME

(* Mutated form: the time since a request is not counted. *)
interface_tick_Hopeful(ni, ms) ==
    LET older == [i \in DOMAIN ni.mapping_cache |->
                     [ni.mapping_cache[i] EXCEPT !.second = IF ni.mapping_cache[i].first = ETHERNET_BROADCAST
                                                            THEN @ ELSE @ + ms]]
        kept == {i \in DOMAIN older : older[i].second < Lifetime(older[i])}
    IN  [ni EXCEPT !.mapping_cache = [i \in kept |-> older[i]]]

interface_tick(ni, ms) ==
    LET older == [i \in DOMAIN ni.mapping_cache |->
                     [ni.mapping_cache[i] EXCEPT !.second = @ + ms]]
        kept == {i \in DOMAIN older : older[i].second < Lifetime(older[i])}
    IN  [ni EXCEPT !.mapping_cache = [i \in kept |-> older[i]]]
=============================================================================
