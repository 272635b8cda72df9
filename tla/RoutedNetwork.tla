---------------------------- MODULE RoutedNetwork ----------------------------
(***************************************************************************)
(* Hosts and routers joined by Ethernet links, as in the network simulator *)
(* (apps/network_simulator.cc).  An interface is named by its IP address.  *)
(* A host sends everything to its gateway; a frame reaches all other       *)
(* interfaces of its link; routers forward at any time and routes may be   *)
(* added while datagrams are on their way.  No time passes: caches do not  *)
(* expire (InterfaceSpec has the clocks).  In an orderly network datagrams *)
(* are sent as the simulator sends them: one at a time, with the host that *)
(* must get it told to expect it, and all hosts checked once it settled.   *)
(***************************************************************************)
EXTENDS Router, FiniteSets, Functions

CONSTANTS Gateway,          \* the next hop of each host
          Ports,            \* the addresses of the interfaces of each router
          Link,             \* the link of each interface
          FirstRoutes,      \* the routes each router starts with
          MoreRoutes,       \* routes that may be added to each router
          Senders,          \* the hosts that send datagrams
          Destinations,     \* where datagrams are sent to
          Ttls,             \* the times to live they are sent with
          Hops,             \* how many routers are between two hosts
          MaxDgrams         \* bound on the datagrams sent

Hosts == DOMAIN Gateway
Routers == DOMAIN Ports
Addresses == 0 .. 2^AddressBits - 1

ASSUME NetworkAssumption ==
    /\ MaxDgrams \in Nat /\ Ttls \subseteq Nat
    /\ Destinations \subseteq Addresses /\ DOMAIN Link \subseteq Addresses
    /\ Senders \subseteq Hosts /\ Hosts \subseteq DOMAIN Link
    /\ \A r \in Routers : Ports[r] \in Seq(DOMAIN Link \ Hosts)

VARIABLES host,             \* the interface of each host
          router,           \* the routers
          sent,             \* history: number of datagrams sent
          orderly,          \* datagrams are sent one at a time (chosen once)
          expecting,        \* the datagrams each host is to receive
          failed            \* Host::check has thrown

vars == <<host, router, sent, orderly, expecting, failed>>
checks == <<orderly, expecting, failed>>

(* The Ethernet address of an interface. *)
EthernetOf(ip) == <<ip>>

Init == /\ host = [h \in Hosts |-> AsyncInterface(EthernetOf(h), h)]
        /\ router = [r \in Routers |->
              [NewRouter([i \in 1 .. Len(Ports[r]) |->
                             AsyncInterface(EthernetOf(Ports[r][i]), Ports[r][i])])
                  EXCEPT !.routing_table = FirstRoutes[r]]]
        /\ sent = 0
        /\ orderly \in BOOLEAN
        /\ expecting = [h \in Hosts |-> {}]
        /\ failed = FALSE

(* Network::simulate has moved all there is to move. *)
Settled ==
    /\ \A h \in Hosts : host[h].base.frames_out = <<>>
    /\ \A r \in Routers : \A i \in 1 .. Len(Ports[r]) :
          /\ router[r].interfaces[i].base.frames_out = <<>>
          /\ router[r].interfaces[i].datagrams_out = <<>>

Checked == \A h \in Hosts : expecting[h] = {} /\ host[h].datagrams_out = <<>>

(* Host::send_to, and Host::expect at the destination, with the time to    *)
(* live that is left there (network_simulator, lines 281-340)              *)
SendTo(h, dst, ttl) ==
    LET dgram == [id |-> sent + 1, dst |-> dst, ttl |-> ttl]
        left == ttl - Hops[<<h, dst>>]
    IN  /\ sent < MaxDgrams
        /\ orderly => Settled /\ Checked
        /\ host' = [host EXCEPT ![h].base = send_datagram(@, dgram, Gateway[h])]
        /\ sent' = sent + 1
        /\ expecting' = IF orderly /\ dst \in Hosts /\ left > 0
                        THEN [expecting EXCEPT ![dst] = {[dgram EXCEPT !.ttl = left]}]
                        ELSE expecting
        /\ UNCHANGED <<router, orderly, failed>>

(* Host::check of all hosts: each datagram received is an expected one,    *)
(* whose expectation it uses up, and none is left.                         *)
Check ==
    /\ orderly /\ Settled /\ ~Checked
    /\ failed' = \E h \in Hosts :
          \/ Len(host[h].datagrams_out) # Cardinality(expecting[h])
          \/ expecting[h] # Range(host[h].datagrams_out)
    /\ host' = [h \in Hosts |-> [host[h] EXCEPT !.datagrams_out = <<>>]]
    /\ expecting' = [h \in Hosts |-> {}]
    /\ UNCHANGED <<router, sent, orderly>>

(* Network::exchange_frames, one frame at a time: the first frame of the   *)
(* interface from is delivered on its link.                                *)
Exchanged(itf, from, frame) ==
    LET ip == itf.base.ip_address
    IN  IF ip = from THEN [itf EXCEPT !.base.frames_out = Tail(@)]
        ELSE IF Link[ip] = Link[from] THEN async_recv_frame(itf, frame)
        ELSE itf

Exchange(itf) ==
    LET from == itf.base.ip_address
        frame == Head(itf.base.frames_out)
    IN  /\ itf.base.frames_out # <<>>
        /\ host' = [h \in Hosts |-> Exchanged(host[h], from, frame)]
        /\ router' = [r \in Routers |-> [router[r] EXCEPT !.interfaces =
                          [i \in 1 .. Len(@) |-> Exchanged(@[i], from, frame)]]]
        /\ UNCHANGED <<sent, checks>>

HostFrame(h) == Exchange(host[h])
RouterFrame(r, i) == Exchange(router[r].interfaces[i])

(* Router::route *)
Route(r) ==
    /\ Received(router[r]) # <<>>
    /\ router' = [router EXCEPT ![r] = route(@)]
    /\ UNCHANGED <<host, sent, checks>>

(* Router::add_route *)
AddRoute(r, x) ==
    /\ \A i \in 1 .. Len(router[r].routing_table) : router[r].routing_table[i] # x
    /\ router' = [router EXCEPT ![r] = add_route(@, x)]
    /\ UNCHANGED <<host, sent, checks>>

Next == \/ \E h \in Senders, d \in Destinations, ttl \in Ttls : SendTo(h, d, ttl)
        \/ Check
        \/ \E h \in Hosts : HostFrame(h)
        \/ \E r \in Routers : \E i \in 1 .. Len(Ports[r]) : RouterFrame(r, i)
        \/ \E r \in Routers : Route(r)
        \/ \E r \in Routers : \E x \in MoreRoutes[r] : AddRoute(r, x)

(* Network::simulate keeps exchanging frames and routing. *)
Fairness ==
    /\ \A h \in Hosts : WF_vars(HostFrame(h))
    /\ \A r \in Routers : WF_vars(Route(r)) /\ \A i \in 1 .. Len(Ports[r]) : WF_vars(RouterFrame(r, i))

Spec == Init /\ [][Next]_vars /\ Fairness
-----------------------------------------------------------------------------
(* The routes whose prefix agrees with addr in its first prefix_length     *)
(* bits, and the one to be used: the longest prefix, the first of several. *)
Agreeing(table, addr) ==
    {i \in 1 .. Len(table) :
        LET low == 2^(AddressBits - table[i].prefix_length)
        IN  addr \div low = table[i].route_prefix \div low}

IsLongest(table, addr, i) ==
    /\ i \in Agreeing(table, addr)
    /\ \A j \in Agreeing(table, addr) :
          \/ table[j].prefix_length < table[i].prefix_length
          \/ table[j].prefix_length = table[i].prefix_length /\ i <= j

(* router.cc:22, "how many high-order (most-significant) bits of the       *)
(* route_prefix will need to match the corresponding bits of the           *)
(* datagram's destination address": the loop over the table finds the      *)
(* longest agreeing route, whatever the order the routes were added in.    *)
LongestPrefixWins ==
    \A r \in Routers, addr \in Addresses :
        LET table == router[r].routing_table
            m == longest_prefix_match(table, addr)
        IN  IF Agreeing(table, addr) = {} THEN m = 0 ELSE IsLongest(table, addr, m)

(* The datagrams held by an interface. *)
Sendable(itf) == {itf.base.frames_out[i].payload :
                    i \in {j \in 1 .. Len(itf.base.frames_out) :
                             itf.base.frames_out[j].type = "IPv4"}}
Held(itf) == Sendable(itf)
             \cup {itf.base.ARP_queue[i].dgram : i \in 1 .. Len(itf.base.ARP_queue)}
             \cup {itf.datagrams_out[i] : i \in 1 .. Len(itf.datagrams_out)}
Interfaces == {host[h] : h \in Hosts}
              \cup UNION {{router[r].interfaces[i] : i \in 1 .. Len(Ports[r])} : r \in Routers}
Alive == {d.id : d \in UNION {Held(itf) : itf \in Interfaces}}

(* A datagram vanishes only in a router, and only because its time to live *)
(* is used up, no route agrees with its destination, or an answer about    *)
(* the next hop is still awaited (network_interface.cc:40): nothing is     *)
(* lost between recv_frame, the queue of received datagrams and            *)
(* send_datagram.                                                          *)
MayDrop(r, d) ==
    LET table == router[r].routing_table
    IN  \/ d.ttl <= 1
        \/ Agreeing(table, d.dst) = {}
        \/ \E i \in 1 .. Len(table) :
              /\ IsLongest(table, d.dst, i)
              /\ Pending(router'[r].interfaces[table[i].interface_num].base,
                         NextHop(table[i], d.dst))

Arrived == {d.id : d \in UNION {Range(host[h].datagrams_out) : h \in Hosts}}

DropsAreJustified ==
    [][\A id \in Alive \ (Alive' \cup Arrived) : \E r \in Routers :
          \E i \in 1 .. Len(Received(router[r])) :
              Received(router[r])[i].id = id /\ MayDrop(r, Received(router[r])[i])]_vars

(* The simulator's checks never fail, whatever routes are added meanwhile: *)
(* the host that must get a datagram gets it, once, and with a time to     *)
(* live that every router on its way has decremented, and no other host    *)
(* gets any (network_simulator.cc:130-147).                                *)
ChecksPass == ~failed

(* No datagram circulates for ever, even where the default routes of two   *)
(* routers point at each other (router.cc:39-42).                          *)
Moving == \/ \E itf \in Interfaces : Sendable(itf) # {}
          \/ \E r \in Routers : Received(router[r]) # <<>>

NothingCirculates == <>[]~Moving

(* The first datagram, sent to a host and with time enough, arrives there: *)
(* ARP on every link, the queues and the forwarding together.              *)
FirstArrives ==
    (\E itf \in Interfaces : \E d \in Held(itf) : d.id = 1 /\ d.dst \in Hosts /\ d.ttl >= 3)
        ~> (\E h \in Hosts : \E i \in 1 .. Len(host[h].datagrams_out) :
                host[h].datagrams_out[i].id = 1 /\ host[h].datagrams_out[i].dst = h)
=============================================================================
