---------------------------- MODULE InterfaceSpec ----------------------------
(***************************************************************************)
(* NetworkInterfaces on one Ethernet.  A host is named by its IP address.  *)
(* A frame waits in frames_out until it is transmitted; then every other   *)
(* interface receives it, except those for which it is lost.  Each host    *)
(* has a clock of its own.                                                 *)
(***************************************************************************)
EXTENDS NetworkInterface, FiniteSets

CONSTANTS Hosts,            \* IP addresses
          eth,              \* their Ethernet addresses
          Active,           \* the hosts that send datagrams, and whose time passes
          MaxDgrams,        \* bound on the datagrams sent
          MaxLost           \* bound on the frames lost

ASSUME HostAssumption ==
    /\ MaxDgrams \in Nat /\ MaxLost \in Nat
    /\ DOMAIN eth = Hosts /\ Active \subseteq Hosts
    /\ \A h \in Hosts : eth[h] # ETHERNET_BROADCAST
    /\ \A h, k \in Hosts : eth[h] = eth[k] => h = k

VARIABLES ni,               \* the interface of each host
          got,              \* history: the datagrams passed up at each host
          sent,             \* history: number of datagrams given to send_datagram
          lost,             \* history: number of frames that did not arrive
          asked,            \* history: time since h last asked for k
          heard             \* history: time since h last received ARP from k

vars == <<ni, got, sent, lost, asked, heard>>

Never == IF PENDING_TIME >= MAPPING_TIME THEN PENDING_TIME ELSE MAPPING_TIME

Init == /\ ni = [h \in Hosts |-> NewInterface(eth[h], h)]
        /\ got = [h \in Hosts |-> <<>>]
        /\ sent = 0 /\ lost = 0
        /\ asked = [h \in Hosts |-> [k \in Hosts |-> Never]]
        /\ heard = [h \in Hosts |-> [k \in Hosts |-> Never]]

(* The requests for k that wait to be transmitted. *)
Requests(o, k) ==
    Cardinality({i \in 1 .. Len(o.frames_out) :
        /\ o.frames_out[i].type = "ARP"
        /\ o.frames_out[i].payload.opcode = "request"
        /\ o.frames_out[i].payload.target_ip = k})

(* The owner of h sends a new datagram to k: send_datagram. *)
Send(h, k) ==
    /\ sent < MaxDgrams
    /\ LET after == send_datagram(ni[h], [id |-> sent + 1, src |-> h, dst |-> k], k)
       IN  /\ ni' = [ni EXCEPT ![h] = after]
           /\ asked' = IF Requests(after, k) > Requests(ni[h], k)
                        THEN [asked EXCEPT ![h][k] = 0] ELSE asked
    /\ sent' = sent + 1
    /\ UNCHANGED <<got, lost, heard>>

(* The first frame of h arrives at the hosts in R: recv_frame at each.     *)
Missed(h, R) == {k \in Hosts \ (R \cup {h}) : Accepts(ni[k], Head(ni[h].frames_out))}

Transmit(h, R) ==
    /\ ni[h].frames_out # <<>>
    /\ lost + Cardinality(Missed(h, R)) <= MaxLost
    /\ LET frame == Head(ni[h].frames_out)
       IN  /\ ni' = [k \in Hosts |->
                        IF k = h THEN [ni[h] EXCEPT !.frames_out = Tail(@)]
                        ELSE IF k \in R THEN recv_frame(ni[k], frame)
                        ELSE ni[k]]
           /\ got' = [k \in Hosts |->
                        IF k \in R THEN got[k] \o received(ni[k], frame) ELSE got[k]]
           /\ heard' = [k \in Hosts |->
                          IF k \in R /\ frame.type = "ARP" /\ Accepts(ni[k], frame)
                          THEN [heard[k] EXCEPT ![h] = 0] ELSE heard[k]]
    /\ lost' = lost + Cardinality(Missed(h, R))
    /\ UNCHANGED <<sent, asked>>

(* tick(1) at h *)
Aged(times) == [k \in Hosts |-> IF times[k] < Never THEN times[k] + 1 ELSE Never]

Tick(h) ==
    /\ ni' = [ni EXCEPT ![h] = interface_tick(@, 1)]
    /\ asked' = [asked EXCEPT ![h] = Aged(@)]
    /\ heard' = [heard EXCEPT ![h] = Aged(@)]
    /\ UNCHANGED <<got, sent, lost>>

Next == \/ \E h \in Active : \E k \in Hosts \ {h} : Send(h, k)
        \/ \E h \in Hosts : \E R \in SUBSET (Hosts \ {h}) : Transmit(h, R)
        \/ \E h \in Active : Tick(h)

(* The owner of an interface keeps taking frames from it. *)
Fairness == \A h \in Hosts : WF_vars(\E R \in SUBSET (Hosts \ {h}) : Transmit(h, R))

Spec == Init /\ [][Next]_vars /\ Fairness
-----------------------------------------------------------------------------
(* What is learnt is true and recent: an address in the cache is the one   *)
(* of the host, confirmed by the host itself within MAPPING_TIME, whether  *)
(* it was heard in a reply or in a request meant for somebody else         *)
(* (network_interface.cc:94, :144).                                        *)
CacheIsTrue ==
    \A h, k \in Hosts : Known(ni[h], k) =>
        ni[h].mapping_cache[k].first = eth[k] /\ heard[h][k] < MAPPING_TIME

(* "don't send a second ARP request": two requests of a host for the same  *)
(* address are at least PENDING_TIME apart, however replies, expiries and  *)
(* datagrams interleave (network_interface.cc:36).                         *)
RequestsAreSpaced ==
    [][\A h, k \in Hosts : Requests(ni'[h], k) > Requests(ni[h], k)
                              => asked[h][k] >= PENDING_TIME]_vars

Count(s, Test(_)) == Cardinality({i \in 1 .. Len(s) : Test(s[i])})

(* A datagram is never doubled, although recv_frame sends it again from    *)
(* the queue it is still in (network_interface.cc:121-122), and it is      *)
(* passed up only by the interface of its next hop.                        *)
Copies(id) ==
    LET InFrame(f) == f.type = "IPv4" /\ f.payload.id = id
        InQueue(w) == w.dgram.id = id
        Delivered(d) == d.id = id
        At(h) == Count(ni[h].frames_out, InFrame) + Count(ni[h].ARP_queue, InQueue)
                 + Count(got[h], Delivered)
    IN  {c \in Hosts \X {1, 2} : c[2] <= At(c[1])}

AtMostOnce ==
    /\ \A id \in 1 .. MaxDgrams : Cardinality(Copies(id)) <= 1
    /\ \A h \in Hosts : \A i \in 1 .. Len(got[h]) : got[h][i].dst = h

(* A datagram that waits for an address is delivered in the end unless a   *)
(* frame gets lost: every queued datagram has a request of its own on the  *)
(* way, and every reply sends one of them (network_interface.cc:123).      *)
Queued(id) == \E h \in Hosts : \E i \in 1 .. Len(ni[h].ARP_queue) :
                  ni[h].ARP_queue[i].dgram.id = id

QueuedArrives ==
    \A id \in 1 .. MaxDgrams :
        Queued(id) ~> (lost > 0 \/ \E h \in Hosts : \E i \in 1 .. Len(got[h]) : got[h][i].id = id)
=============================================================================
