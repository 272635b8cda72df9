-------------------------------- MODULE Lab7 --------------------------------
(***************************************************************************)
(* The program apps/lab7.cc run as a server and as one or two clients that *)
(* meet at the bouncer (apps/bouncer.cc).  Each program has a host, whose  *)
(* NetworkInterfaceAdapter carries TCP segments over Ethernet, and a       *)
(* router, whose network thread joins the host's link to the Internet: a   *)
(* UDP socket to one side of the bouncer, which passes the datagrams of    *)
(* either side to the address it last heard from on the other.             *)
(* TCP is reduced to what the adapters see of it: a client sends a SYN,    *)
(* again when nothing came back, and acknowledges the answer; the server   *)
(* answers every segment that comes up.  (TwoEndpoints has the rest.)      *)
(***************************************************************************)
EXTENDS Router, Adapters, Functions

CONSTANT Tick               \* the 50 ms of a turn, in the unit of PENDING_TIME

VARIABLES prog,             \* the programs
          bouncer,          \* its peers, and the datagrams in its two sockets
          rival             \* a second client takes part (chosen once)

lvars == <<prog, bouncer, rival>>

Clients == IF rival THEN {"client", "rival"} ELSE {"client"}
Programs == Clients \cup {"server"}
Side(p) == IF p = "server" THEN "y" ELSE "x"
OtherSide(s) == IF s = "x" THEN "y" ELSE "x"

(* Addresses of four bits, of which two name the network: 192.168.0.0/16,  *)
(* 10.0.0.0/8 and 172.16.0.0/12 of the code.                               *)
ClientNet == 0
Internet == 4
ServerNet == 8
HostIp(p) == IF p = "server" THEN ServerNet + 3 ELSE ClientNet + 3
HostSide(p) == IF p = "server" THEN ServerNet + 1 ELSE ClientNet + 1
InternetSide(p) == IF p = "server" THEN Internet + 2 ELSE Internet + 1

(* Random Ethernet addresses and ports differ. *)
Mac(p, ip) == <<p, ip>>
Port(p) == CASE p = "server" -> 1234 [] p = "client" -> 1 [] p = "rival" -> 2

Entry(prefix, hop, num) ==
    [route_prefix |-> prefix, prefix_length |-> 2, next_hop |-> hop, interface_num |-> num]

(* Lines 169-185; interface 1 is host_side, interface 2 internet_side. *)
NewLab7Router(p) ==
    LET home == IF p = "server" THEN ServerNet ELSE ClientNet
        away == IF p = "server" THEN ClientNet ELSE ServerNet
        peer == IF p = "server" THEN InternetSide("client") ELSE InternetSide("server")
        bare == NewRouter(<<AsyncInterface(Mac(p, HostSide(p)), HostSide(p)),
                            AsyncInterface(Mac(p, InternetSide(p)), InternetSide(p))>>)
    IN  add_route(add_route(add_route(bare, Entry(home, {}, 1)), Entry(Internet, {}, 2)),
                  Entry(away, {peer}, 2))

Unset == [ip |-> 0, port |-> 0]
ServerAddress == [ip |-> HostIp("server"), port |-> Port("server")]

(* TCPSocketLab7::connect, bind and listen_and_accept set the addresses. *)
NewProgram(p) ==
    [ad |-> NewAdapter([ip |-> HostIp(p), port |-> Port(p)],
                       IF p = "server" THEN Unset ELSE ServerAddress, p = "server"),
     interface |-> NewInterface(Mac(p, HostIp(p)), HostIp(p)),
     to_host |-> <<>>, to_router |-> <<>>,      \* frames between adapter and network thread
     router |-> NewLab7Router(p),
     inbox |-> <<>>,                            \* datagrams from the bouncer
     phase |-> "new",                           \* then "started", and "syn" once a client connects
     up |-> {}]                                 \* the segments that came up

Lab7Init ==
    /\ rival \in BOOLEAN
    /\ prog = [p \in Programs |-> NewProgram(p)]
    /\ bouncer = [peer |-> [s \in {"x", "y"} |-> "nobody"], queue |-> [s \in {"x", "y"} |-> <<>>]]

(* Lines 163-166: a program says hello three times, with empty datagrams.  *)
(* The server is started first.                                            *)
Start(p) ==
    LET hello == [from |-> p, payload |-> <<>>]
    IN  /\ prog[p].phase = "new"
        /\ p # "server" => prog["server"].phase = "started"
        /\ prog' = [prog EXCEPT ![p].phase = "started"]
        /\ bouncer' = [bouncer EXCEPT !.queue[Side(p)] = @ \o <<hello, hello, hello>>]
        /\ UNCHANGED rival
-----------------------------------------------------------------------------
(* NetworkInterfaceAdapter::send_pending *)
send_pending(g) ==
    [g EXCEPT !.to_router = @ \o g.interface.frames_out, !.interface.frames_out = <<>>]

(* NetworkInterfaceAdapter::write; the default time to live is shortened. *)
adapter_write(p, g, syn) ==
    LET seg == [header |-> [sport |-> g.ad.source.port, dport |-> g.ad.destination.port,
                            syn |-> syn, rst |-> FALSE], result |-> "NoError"]
        dgram == [src |-> g.ad.source.ip, dst |-> g.ad.destination.ip,
                  proto |-> 6, ttl |-> 3, seg |-> seg]
    IN  send_pending([g EXCEPT !.interface = send_datagram(@, dgram, HostSide(p))])

(* NetworkInterfaceAdapter::read, and the answer of TCP *)
adapter_read(p, g) ==
    LET frame == Head(g.to_host)
        next == send_pending([g EXCEPT !.to_host = Tail(@), !.interface = recv_frame(@, frame)])
        dgrams == received(g.interface, frame)
        got == unwrap_tcp_in_ip(g.ad, dgrams[1], dgrams[1].seg)
        taken == [next EXCEPT !.ad = got.ad, !.up = @ \cup Range(got.up)]
    IN  IF dgrams = <<>> THEN next
        ELSE IF got.up = <<>> THEN taken
        ELSE IF p = "server" THEN adapter_write(p, taken, got.up[1].header.syn)
        ELSE IF got.up[1].header.syn THEN adapter_write(p, taken, FALSE) ELSE taken

(* NetworkInterfaceAdapter::tick *)
adapter_tick(g) == send_pending([g EXCEPT !.interface = interface_tick(@, Tick)])

(* Nothing is on its way: frames travel faster than timers run out. *)
Quiet ==
    /\ \A s \in {"x", "y"} : bouncer.queue[s] = <<>>
    /\ \A p \in Programs :
          /\ prog[p].to_host = <<>> /\ prog[p].to_router = <<>> /\ prog[p].inbox = <<>>
          /\ \A i \in 1..2 : prog[p].router.interfaces[i].base.frames_out = <<>>

(* A client's SYN; TCP repeats it while it is not answered. *)
Connect(p) ==
    /\ p # "server" /\ prog[p].up = {}
    /\ prog[p].phase = "started" \/ (prog[p].phase = "syn" /\ Quiet)
    /\ prog' = [prog EXCEPT ![p] = [adapter_write(p, @, TRUE) EXCEPT !.phase = "syn"]]
    /\ UNCHANGED <<bouncer, rival>>

Read(p) ==
    /\ prog[p].to_host # <<>>
    /\ prog' = [prog EXCEPT ![p] = adapter_read(p, @)]
    /\ UNCHANGED <<bouncer, rival>>
-----------------------------------------------------------------------------
(* The network thread, lines 194-259.  g is the program, tx what it sends  *)
(* to the bouncer.                                                         *)
NetworkRules == {"host in", "host out", "internet out", "internet in"}

network_ready(g, r) ==
    CASE r = "host in" -> g.to_router # <<>>
      [] r = "host out" -> g.router.interfaces[1].base.frames_out # <<>>
      [] r = "internet out" -> g.router.interfaces[2].base.frames_out # <<>>
      [] r = "internet in" -> g.inbox # <<>>

network_callback(w, r) ==
    LET g == w.g
        frames(i) == g.router.interfaces[i].base.frames_out
        taken(i, frame) == route([g.router EXCEPT !.interfaces[i] = async_recv_frame(@, frame)])
    IN  CASE r = "host in" ->
                [w EXCEPT !.g.to_router = Tail(@), !.g.router = taken(1, Head(g.to_router))]
          [] r = "host out" ->
                [w EXCEPT !.g.to_host = Append(@, Head(frames(1))),
                          !.g.router.interfaces[1].base.frames_out = Tail(@)]
          [] r = "internet out" ->
                [w EXCEPT !.tx = Append(@, Head(frames(2))),
                          !.g.router.interfaces[2].base.frames_out = Tail(@)]
          [] r = "internet in" ->
                [w EXCEPT !.g.inbox = Tail(@), !.g.router = taken(2, Head(g.inbox))]

(* Rule r is served if it was ready for g, when the turn began. *)
network_serve(g, w, r) == IF network_ready(g, r) THEN network_callback(w, r) ELSE w

(* 50 ms for both interfaces, however long the turn took. *)
both_tick(router) ==
    LET ticked(itf) == [itf EXCEPT !.base = interface_tick(itf.base, Tick)]
    IN  [router EXCEPT !.interfaces = <<ticked(router.interfaces[1]),
                                        ticked(router.interfaces[2])>>]

(* A turn: the rules that are ready when it begins, in their order. *)
network_turn(g) ==
    LET host_in == network_serve(g, [g |-> g, tx |-> <<>>], "host in")
        host_out == network_serve(g, host_in, "host out")
        internet_out == network_serve(g, host_out, "internet out")
        w == network_serve(g, internet_out, "internet in")
    IN  [g |-> [w.g EXCEPT !.router = both_tick(@)], tx |-> w.tx]

NetworkCan(p) == \E r \in NetworkRules : network_ready(prog[p], r)

NetworkTurn(p) ==
    LET w == network_turn(prog[p])
    IN  /\ NetworkCan(p)
        /\ prog' = [prog EXCEPT ![p] = w.g]
        /\ bouncer' = [bouncer EXCEPT !.queue[Side(p)] =
                          @ \o [i \in DOMAIN w.tx |-> [from |-> p, payload |-> <<w.tx[i]>>]]]
        /\ UNCHANGED rival

(* All poll(2) calls time out: the network threads and the hosts' threads. *)
Timeout ==
    /\ Quiet
    /\ prog' = [p \in Programs |-> adapter_tick(network_turn(prog[p]).g)]
    /\ UNCHANGED <<bouncer, rival>>

(* bouncer.cc, lines 30-52 *)
Bounce(s) ==
    LET rec == Head(bouncer.queue[s])
        to == bouncer.peer[OtherSide(s)]
    IN  /\ bouncer.queue[s] # <<>>
        /\ bouncer' = [bouncer EXCEPT !.peer[s] = rec.from, !.queue[s] = Tail(@)]
        /\ prog' = IF to = "nobody" \/ rec.payload = <<>> THEN prog
                   ELSE [prog EXCEPT ![to].inbox = Append(@, rec.payload[1])]
        /\ UNCHANGED rival

Lab7Next == \/ \E p \in Programs : Start(p) \/ Connect(p) \/ Read(p) \/ NetworkTurn(p)
            \/ \E s \in {"x", "y"} : Bounce(s)
            \/ Timeout

(* Each thread and the bouncer handle what has come, and TCP repeats its   *)
(* SYN.  NetworkMoves and the two conditions on lengths say, more cheaply  *)
(* for TLC than WF does, that a step of the actor was taken.               *)
NetworkMoves(p) ==
    \/ prog'[p].router # prog[p].router
    \/ Len(prog'[p].to_router) < Len(prog[p].to_router)
    \/ Len(prog'[p].inbox) < Len(prog[p].inbox)

Lab7Fairness ==
    /\ WF_lvars(Timeout)
    /\ SF_lvars(Connect("client"))
    /\ \A s \in {"x", "y"} :
          \/ []<>(bouncer.queue[s] = <<>>)
          \/ []<><<Len(bouncer'.queue[s]) < Len(bouncer.queue[s])>>_lvars
    /\ \A p \in {"client", "server"} :
          /\ <>(prog[p].phase # "new")
          /\ \/ []<>(prog[p].to_host = <<>>)
             \/ []<><<Len(prog'[p].to_host) < Len(prog[p].to_host)>>_lvars
          /\ \/ []<>~NetworkCan(p)
             \/ []<><<NetworkMoves(p)>>_lvars

Lab7Spec == Lab7Init /\ [][Lab7Next]_lvars /\ Lab7Fairness
-----------------------------------------------------------------------------
(* The server's adapter is bound to the first client whose SYN came up and *)
(* stays bound to it, and passes up only what this client sent             *)
(* (tcp_over_ip.cc:55-68), although the clients have the same address and  *)
(* share the bouncer.                                                      *)
OnlyFromPeer ==
    LET s == prog["server"]
    IN  /\ s.ad.listening <=> s.up = {}
        /\ \A seg \in s.up : seg.header.sport = s.ad.destination.port

(* A client never takes an answer that is meant for the other one. *)
AnswersAreMine ==
    \A p \in Clients : \A seg \in prog[p].up :
        /\ seg.header.dport = Port(p)
        /\ prog["server"].ad.destination.port = Port(p)

(* A lone client is answered and its acknowledgment comes up at the        *)
(* server.                                                                 *)
Connects == ~rival => <>(\E seg \in prog["server"].up : prog["client"].up # {} /\ ~seg.header.syn)
=============================================================================
