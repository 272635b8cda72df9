---------------------------- MODULE TwoEndpoints ----------------------------
(***************************************************************************)
(* Two TCPConnections that talk to each other over a network.  Each is     *)
(* driven by the event loop of its TCPSpongeSocket (tcp_sponge_socket.cc): *)
(* rule 1 hands it a segment, rule 2 bytes of the application, rule 3      *)
(* takes reassembled bytes to the application, and _tcp_loop ticks it.     *)
(* Rule 4, which passes segments to the network, is part of the step that  *)
(* produced them: sending later looks like a slower network.               *)
(* The client connects, the server listens.                                *)
(***************************************************************************)
EXTENDS TCPState, TLC

CONSTANTS ClientLen, ServerLen,     \* bytes each application sends
          LossyServerLen,           \* ServerLen over a network that is not reliable
          ClientIsn, ServerIsn,
          Faults,                   \* what may go wrong: see EndpointConstants
          MaxFaults                 \* how often something may go wrong

ASSUME EndpointConstants ==
    /\ {ClientLen, ServerLen, LossyServerLen} \subseteq Nat
    /\ ClientIsn \in WrappingInt /\ ServerIsn \in WrappingInt
    /\ Faults \subseteq {"loss", "duplication", "overtaking", "early_timeout", "abort", "drop"}
    /\ MaxFaults \in Nat
    /\ \A n \in {ServerLen, LossyServerLen} : 2 * (2 * Capacity + ClientLen + n + 4) < Mod

VARIABLES conn,             \* conn[p]: the TCPConnection of p
          chan,             \* chan[p]: the segments on their way to p
          got,              \* history: the bytes p's application received
          reliable,         \* nothing goes wrong (chosen once)
          faults            \* how often something went wrong so far

vars == <<conn, chan, got, reliable, faults>>

Endpoint == {"client", "server"}
Peer(p) == IF p = "client" THEN "server" ELSE "client"
BytesFrom(p) == IF p = "client" THEN ClientLen
                ELSE IF reliable THEN ServerLen ELSE LossyServerLen
RtTimeout == 1

Written(p) == conn[p].sender.stream.num_written
Inbound(p) == conn[p].receiver.reassembler.output

(* The sequence s without its i-th element *)
Without(s, i) == SubSeq(s, 1, i - 1) \o SubSeq(s, i + 1, Len(s))

(* p calls a method of its connection that leaves it as c; rule 4 sends    *)
(* the segments.  The channel to p is left as rest.  Nobody reads what is  *)
(* sent to a connection that is not active any more.                       *)
Called(p, c, rest) ==
    /\ conn' = [conn EXCEPT ![p] = [c EXCEPT !.segments_out = <<>>]]
    /\ chan' = [chan EXCEPT ![p] = IF c.active THEN rest ELSE <<>>,
                            ![Peer(p)] = IF conn[Peer(p)].active THEN @ \o c.segments_out ELSE <<>>]

Init ==
    /\ LET client == connect(NewConnection(RtTimeout, ClientIsn))
       IN  /\ conn = [p \in Endpoint |->
                        IF p = "client" THEN [client EXCEPT !.segments_out = <<>>]
                        ELSE NewConnection(RtTimeout, ServerIsn)]
           /\ chan = [p \in Endpoint |-> IF p = "server" THEN client.segments_out ELSE <<>>]
    /\ got = [p \in Endpoint |-> <<>>]
    /\ reliable \in BOOLEAN
    /\ faults = 0

(* Something goes wrong in this step. *)
Fault(kind) ==
    ~reliable /\ kind \in Faults /\ faults < MaxFaults /\ faults' = faults + 1

(* Rule 1: the i-th segment in transit arrives. *)
CanReceive(p) == conn[p].active /\ chan[p] # <<>>

Receive(p, i) ==
    /\ CanReceive(p)
    /\ IF i = 1 THEN UNCHANGED faults ELSE Fault("overtaking")
    /\ Called(p, segment_received(conn[p], chan[p][i]), Without(chan[p], i))
    /\ UNCHANGED <<got, reliable>>

(* connect() and listen_and_accept() have returned to the application. *)
Open(p) == ~\E st \in {"LISTEN", "SYN_RCVD", "SYN_SENT"} : InState(conn[p], st)

(* Rule 2: n bytes of the application, or its shutdown. *)
CanWrite(p) ==
    /\ conn[p].active /\ ~conn[p].sender.stream.input_ended
    /\ remaining_capacity(conn[p].sender.stream) > 0
    /\ Open(p)

WriteApp(p, n) ==
    /\ CanWrite(p)
    /\ n <= remaining_capacity(conn[p].sender.stream)
    /\ Written(p) + n <= BytesFrom(p)
    /\ Called(p, write_data(conn[p], Substring(Written(p), n)), chan[p])
    /\ UNCHANGED <<got, reliable, faults>>

EndApp(p) ==
    /\ CanWrite(p)
    /\ Written(p) = BytesFrom(p)
    /\ Called(p, end_input_stream(conn[p]), chan[p])
    /\ UNCHANGED <<got, reliable, faults>>

(* Rule 3: n bytes go to the application. *)
CanRead(p) == Inbound(p).buffer # <<>>

ReadApp(p, n) ==
    /\ CanRead(p)
    /\ n <= Len(Inbound(p).buffer)
    /\ got' = [got EXCEPT ![p] = @ \o peek_output(Inbound(p), n)]
    /\ conn' = [conn EXCEPT ![p].receiver.reassembler.output = pop_output(@, n)]
    /\ UNCHANGED <<chan, reliable, faults>>

(* _tcp_loop, lines 33-38.  Unless it is early, a timeout is longer than   *)
(* the time a segment is under way.                                        *)
Quiet == \A q \in Endpoint : ~CanReceive(q)

Tick(p) ==
    /\ conn[p].active
    /\ IF Quiet THEN UNCHANGED faults ELSE Fault("early_timeout")
    /\ Called(p, connection_tick(conn[p], 1), chan[p])
    /\ UNCHANGED <<got, reliable>>

Lose(p, i) ==
    /\ Fault("loss")
    /\ chan' = [chan EXCEPT ![p] = Without(@, i)]
    /\ UNCHANGED <<conn, got, reliable>>

Duplicate(p, i) ==
    /\ Fault("duplication")
    /\ chan' = [chan EXCEPT ![p] = Append(@, @[i])]
    /\ UNCHANGED <<conn, got, reliable>>

(* The owner sets _abort: _tcp_main leaves the loop and destroys the       *)
(* connection.  Rule 4 does not run any more, so the RST the destructor    *)
(* makes goes the way of the object.                                       *)
Abort(p) ==
    /\ conn[p].active
    /\ Fault("abort")
    /\ conn' = [conn EXCEPT ![p] = [destroy(@) EXCEPT !.segments_out = <<>>]]
    /\ chan' = [chan EXCEPT ![p] = <<>>]
    /\ UNCHANGED <<got, reliable>>

Application(p) ==
    \/ \E n \in 1 .. Capacity : WriteApp(p, n) \/ ReadApp(p, n)
    \/ EndApp(p)

Next == \E p \in Endpoint :
            \/ \E i \in DOMAIN chan[p] : Receive(p, i) \/ Lose(p, i) \/ Duplicate(p, i)
            \/ Application(p)
            \/ Tick(p) \/ Abort(p)

Spec == Init /\ [][Next]_vars

(* The event loop polls every rule on every turn and returns at least      *)
(* every TCP_TICK_MS; the network delivers what it does not lose.          *)
(* This is weak fairness of all the steps; for those that run the loops of *)
(* a TCPConnection the condition under which they can be taken and change  *)
(* the state is spelt out, because TLC is too slow at finding it.          *)
CanTick(p) == Quiet /\ connection_tick(conn[p], 1) # conn[p] /\ conn[p].active

Fairness ==
    \A p \in Endpoint :
        /\ []<>~CanReceive(p) \/ []<><<Receive(p, 1)>>_vars
        /\ []<>~CanWrite(p) \/ []<><<EndApp(p) \/ \E n \in 1 .. Capacity : WriteApp(p, n)>>_vars
        /\ WF_vars(\E n \in 1 .. Capacity : ReadApp(p, n))
        /\ []<>~CanTick(p) \/ []<><<Tick(p)>>_vars

FairSpec == Spec /\ Fairness

-----------------------------------------------------------------------------

(* Each direction delivers a prefix of what the other side wrote, in       *)
(* order, whatever the network and the timers do.                          *)
DeliveredIsPrefix ==
    \A p \in Endpoint :
        /\ got[p] \o Inbound(p).buffer = Substring(0, Inbound(p).num_written)
        /\ Inbound(p).num_written <= Written(Peer(p))

(* What the receiver of q acknowledges was sent by p, and what it has not  *)
(* acknowledged p still holds for retransmission.                          *)
AckedWasSent ==
    \A p \in Endpoint :
        LET snd == conn[p].sender
            rcv == conn[Peer(p)].receiver
        IN  has_ackno(rcv) => /\ abs_ackno(rcv) <= snd.next_seqno
                              /\ snd.next_seqno - snd.bytes_in_flight <= abs_ackno(rcv)

(* The states of the TCP diagram, and the one between LAST_ACK and CLOSED: *)
(* the FIN is acknowledged, but only the next tick() closes.               *)
DiagramState == Official @@ [LAST_ACKED |-> <<"FIN_RECV", "FIN_ACKED", FALSE, TRUE>>]

Transitions ==
    {<<"LISTEN", "SYN_RCVD">>, <<"SYN_SENT", "ESTABLISHED">>, <<"SYN_RCVD", "ESTABLISHED">>,
     <<"ESTABLISHED", "FIN_WAIT_1">>, <<"ESTABLISHED", "CLOSE_WAIT">>,
     <<"FIN_WAIT_1", "FIN_WAIT_2">>, <<"FIN_WAIT_1", "CLOSING">>,
     <<"FIN_WAIT_2", "TIME_WAIT">>, <<"CLOSING", "TIME_WAIT">>, <<"TIME_WAIT", "CLOSED">>,
     <<"CLOSE_WAIT", "LAST_ACK">>, <<"LAST_ACK", "LAST_ACKED">>, <<"LAST_ACKED", "CLOSED">>}

(* A connection is always in one of these states and moves only along the  *)
(* transitions of TCP; a segment that brings an ACK and a FIN may cause    *)
(* two of them (tcp_state.cc:17-110).  On an unreliable network it may be  *)
(* elsewhere: an ACK that overtakes the SYN/ACK leaves SYN_SENT for a      *)
(* state without a name.                                                   *)
FollowsDiagram ==
    [][reliable => \A p \in Endpoint :
          \/ Summary(conn'[p]) = Summary(conn[p])
          \/ \E t, u \in Transitions :
                /\ t = u \/ t[2] = u[1]
                /\ Summary(conn[p]) = DiagramState[t[1]]
                /\ Summary(conn'[p]) = DiagramState[u[2]]]_vars

(* The connection of p is over, without an error, its stream at its end.   *)
EndedCleanly(p) == ~conn[p].active /\ ~Inbound(p).error /\ eof(Inbound(p))

(* Both applications get the whole stream of the other side and its end,   *)
(* and both connections end without an error (tcp_connection.hh:82-85).    *)
Closes ==
    <>(\A p \in Endpoint : EndedCleanly(p) /\ got[p] = Substring(0, BytesFrom(Peer(p))))

(* The stream to p has ended without its last byte.  The sender was told   *)
(* of a full window, which is when it sends a byte the receiver has no     *)
(* room for (tcp_sender.cc:69-71).  The receiver drops it, and a FIN sent  *)
(* behind it, once the window is open again, ends the stream.              *)
LastByteCut(p) ==
    /\ conn[Peer(p)].sender.is_window_size_0
    /\ Inbound(p).input_ended /\ Inbound(p).num_written = BytesFrom(Peer(p)) - 1

(* What p gets: all that its peer writes, but for the byte that was cut.   *)
Deliverable(p) == Substring(0, BytesFrom(Peer(p)) - IF LastByteCut(p) THEN 1 ELSE 0)

(* Over a reliable network both connections end, without an error, and     *)
(* both applications get the whole stream and its end, or all of it but    *)
(* the byte that a full receiver dropped.                                  *)
ClosesWhenReliable == reliable => <>(\A p \in Endpoint : EndedCleanly(p) /\ got[p] = Deliverable(p))

(* The two directions.  The end of a stream that was cut does not count.   *)
ToServer == INSTANCE InOrderDelivery
            WITH StreamLen <- ClientLen,
                 delivered <- IF reliable THEN got["server"] \o Inbound("server").buffer ELSE <<>>,
                 ended <- reliable /\ Inbound("server").input_ended /\ ~LastByteCut("server")
ToClient == INSTANCE InOrderDelivery
            WITH StreamLen <- ServerLen,
                 delivered <- IF reliable THEN got["client"] \o Inbound("client").buffer ELSE <<>>,
                 ended <- reliable /\ Inbound("client").input_ended /\ ~LastByteCut("client")

(* Over a reliable network both directions implement in-order delivery: no *)
(* byte is missing when the end is announced.  The one exception is a      *)
(* stream whose last byte a full receiver dropped: its end comes too early *)
(* (stream_reassembler.cc:82) and does not count.                          *)
InOrder == ToServer!Spec /\ ToClient!Spec

(* stream_reassembler.hh:35: with eof, "the last byte of `data` will be    *)
(* the last byte in the entire stream".                                    *)
EndIsComplete ==
    \A p \in Endpoint : Inbound(p).input_ended => Inbound(p).num_written = BytesFrom(Peer(p))
=============================================================================
