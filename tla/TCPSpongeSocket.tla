--------------------------- MODULE TCPSpongeSocket ---------------------------
(***************************************************************************)
(* class TCPSpongeSocket (libsponge/tcp_helpers/tcp_sponge_socket.cc): the *)
(* event loop that drives a TCPConnection.  What its rules work on is a    *)
(* record s with                                                           *)
(*   t     the socket: where _tcp_loop runs, its rules, the poll results   *)
(*         that are not served yet, and the flags of the class;            *)
(*   c     the TCPConnection;                                              *)
(*   pair  the local sockets; the thread uses the end "thread";            *)
(*   rx    the segments the datagram adapter can read, tx those written;   *)
(*   died  why the process was killed: a signal, or an exception that left *)
(*         the TCP thread.                                                 *)
(***************************************************************************)
EXTENDS TCPState, LocalSocketPair

(* The rules of _initialize_TCP, in order. *)
SocketRules == <<"segment in", "pipe in", "pipe out", "segment out">>

NewSocket ==
    [at |-> "connect", rules |-> {SocketRules[i] : i \in DOMAIN SocketRules}, todo |-> {},
     abort |-> FALSE, eof |-> FALSE, outbound_shutdown |-> FALSE, inbound_shutdown |-> FALSE]

inbound_stream(s) == s.c.receiver.reassembler.output

(* Mutated form: the stream is not ended. *)
end_outbound_FlagOnly(s) == [s EXCEPT !.t.outbound_shutdown = TRUE]

(* Lines 106-108 and 117-120 *)
end_outbound(s) ==
    [s EXCEPT !.c = end_input_stream(@), !.t.outbound_shutdown = TRUE]

(* Rule 2, lines 98-115: n bytes are read from the pipe. *)
pipe_in(s, n) ==
    LET data == ReadBytes(s.pair, "thread", n)
        read == [s EXCEPT !.c = write_data(@, data),
                          !.pair = AfterRead(@, "thread", n),
                          !.t.eof = @ \/ n = 0,
                          !.died = IF num_writable(s.c.sender.stream, data) = n THEN @
                                   ELSE "short write"]
    IN  IF read.t.eof THEN end_outbound(read) ELSE read

(* Mutated form: everything that was offered is popped. *)
popped_All(s, n) == pop_output(inbound_stream(s), Len(inbound_stream(s).buffer))

(* Line 134 *)
popped(s, n) == pop_output(inbound_stream(s), n)

(* Mutated form: bytes may be left. *)
InboundOver_Early(inbound) == inbound.input_ended \/ inbound.error

(* Line 136 *)
InboundOver(inbound) == eof(inbound) \/ inbound.error

(* Rule 3, lines 126-147: n bytes fit into the pipe. *)
pipe_out(s, n) ==
    LET written == [s EXCEPT !.pair = AfterWrite(@, "thread", inbound_stream(s).buffer, n),
                             !.c.receiver.reassembler.output = popped(s, n)]
    IN  IF InboundOver(popped(s, n))
        THEN [written EXCEPT !.pair = ShutWr(@, "thread"), !.t.inbound_shutdown = TRUE]
        ELSE written

socket_interest(s, r) ==
    CASE r = "segment in" -> s.c.active
      [] r = "pipe in" -> s.c.active /\ ~s.t.outbound_shutdown
                          /\ remaining_capacity(s.c.sender.stream) > 0
      [] r = "pipe out" ->
            \/ inbound_stream(s).buffer # <<>>
            \/ InboundOver(inbound_stream(s)) /\ ~s.t.inbound_shutdown
      [] r = "segment out" -> s.c.segments_out # <<>>

(* Every callback reads or writes its descriptor. *)
socket_callback(s, r) ==
    {[obj |-> after, served |-> TRUE] : after \in
        CASE r = "segment in" ->
                {[s EXCEPT !.c = segment_received(@, Head(s.rx)), !.rx = Tail(@)]}
          [] r = "pipe in" ->
                {pipe_in(s, n) : n \in ReadSizes(s.pair, "thread", remaining_capacity(s.c.sender.stream))}
          [] r = "pipe out" ->
                IF WriteFails(s.pair, "thread", inbound_stream(s).buffer)
                THEN {[s EXCEPT !.died = "SIGPIPE"]}
                ELSE {pipe_out(s, n) : n \in WriteSizes(s.pair, "thread", inbound_stream(s).buffer)}
          [] r = "segment out" ->
                {[s EXCEPT !.tx = s.c.segments_out, !.c.segments_out = <<>>]}}

socket_cancel(s, r) == IF r = "pipe in" THEN end_outbound(s) ELSE s

(* The descriptors of the rules *)
SocketDefunct(s, r) == r = "pipe in" /\ s.t.eof

SocketReady(s, r) ==
    CASE r = "segment in" -> s.rx # <<>>
      [] r = "pipe in" -> Readable(s.pair, "thread")
      [] r = "pipe out" -> Writable(s.pair, "thread")
      [] r = "segment out" -> TRUE

SocketHungUp(s, r) == r \in {"pipe in", "pipe out"} /\ HungUp(s.pair, "thread")

(* _eventloop *)
SocketLoop == INSTANCE EventLoop
              WITH Rules <- SocketRules, interest <- socket_interest, cancel <- socket_cancel,
                   callback <- socket_callback, Defunct <- SocketDefunct,
                   Ready <- SocketReady, HungUp <- SocketHungUp

(* The end of _tcp_main, lines 261-266.  Rule 4 does not run any more: the *)
(* RST the destructor of an active connection makes goes the way of the    *)
(* object.  The owner's end must not be closed.                            *)
socket_done(s) ==
    [s EXCEPT !.t.at = "done", !.t.todo = {}, !.pair = ShutRdWr(@),
              !.died = IF s.pair.closed THEN "EBADF" ELSE @,
              !.c = [destroy(@) EXCEPT !.segments_out = <<>>]]

(* The condition of the loop (lines 225, 227) and the start of the thread. *)
socket_advance(s) ==
    IF s.t.at = "connect" /\ ~InState(s.c, "SYN_SENT") THEN [s EXCEPT !.t.at = "main"] ELSE s

(* Mutated form: _abort is not looked at. *)
socket_pass_end_NoAbort(s, ms) ==
    socket_advance(IF s.c.active THEN [s EXCEPT !.c = connection_tick(@, ms)] ELSE s)

(* Lines 29-38: the end of a turn in which wait_next_event did not exit. *)
socket_pass_end(s, ms) ==
    IF s.t.abort THEN socket_done(s)
    ELSE socket_advance(IF s.c.active THEN [s EXCEPT !.c = connection_tick(@, ms)] ELSE s)

(* The start of a turn: wait_next_event up to poll(2).  When no rule is    *)
(* triggered, ms have passed: the wait timed out, or a hang-up that        *)
(* triggers nothing made the loop turn for so long.                        *)
socket_poll(s, ms) ==
    LET pre == SocketLoop!prepared(s, s.t.rules)
        results == SocketLoop!polled(pre.obj, pre.rules, pre.events)
        next == [pre.obj EXCEPT !.t.rules = pre.rules, !.t.todo = SocketLoop!triggered(results)]
    IN  IF pre.events = {} THEN socket_done(next)
        ELSE IF next.t.todo = {} THEN socket_pass_end(next, ms)
        ELSE next

(* The next result of a turn is served. *)
socket_serve(s) ==
    LET v == SocketLoop!first(s.t.todo)
        after(o) == [o.obj EXCEPT !.t.rules = o.rules, !.t.todo = @ \ {v},
                                  !.died = IF o.busy THEN "busy wait" ELSE @]
        turned(next) == IF next.t.todo = {} /\ next.died = "no" THEN socket_pass_end(next, 0)
                        ELSE next
    IN  {turned(after(o)) : o \in SocketLoop!served(s, s.t.rules, v)}
=============================================================================
