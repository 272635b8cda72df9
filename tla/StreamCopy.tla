----------------------------- MODULE StreamCopy -----------------------------
(***************************************************************************)
(* bidirectional_stream_copy (apps/bidirectional_stream_copy.cc), which    *)
(* copies standard input to a socket and the socket to standard output.    *)
(* What its rules work on is a record w with                               *)
(*   o     the function's variables, its event loop, and the standard      *)
(*         streams: read counts the bytes read, output holds those written;*)
(*   pair  the local sockets; the owner uses the end "owner";              *)
(*   died  as in TCPSpongeSocket.                                          *)
(***************************************************************************)
EXTENDS LocalSocketPair

CONSTANTS InputLen,         \* bytes on standard input
          CopyCapacity      \* buffer_size

ASSUME CopyAssumption == InputLen \in Nat /\ CopyCapacity \in Nat \ {0}

CopyRules == <<"input", "to socket", "from socket", "output">>

NewCopy ==
    [at |-> "connect", rules |-> {CopyRules[i] : i \in DOMAIN CopyRules}, todo |-> {},
     outbound |-> NewByteStream(CopyCapacity), inbound |-> NewByteStream(CopyCapacity),
     outbound_shutdown |-> FALSE, inbound_shutdown |-> FALSE,
     input_eof |-> FALSE, socket_eof |-> FALSE, output_closed |-> FALSE,
     read |-> 0, output |-> <<>>]

(* Nothing sets the error flag of the two streams. *)
copy_interest(w, r) ==
    CASE r = "input" -> remaining_capacity(w.o.outbound) > 0
      [] r = "to socket" -> \/ w.o.outbound.buffer # <<>>
                            \/ eof(w.o.outbound) /\ ~w.o.outbound_shutdown
      [] r = "from socket" -> remaining_capacity(w.o.inbound) > 0
      [] r = "output" -> \/ w.o.inbound.buffer # <<>>
                         \/ eof(w.o.inbound) /\ ~w.o.inbound_shutdown

EndIf(st, b) == IF b THEN end_input(st) ELSE st

(* Rule 1, lines 32-37 *)
copy_input(w, n) ==
    [w EXCEPT !.o.read = @ + n, !.o.input_eof = @ \/ n = 0,
              !.o.outbound = EndIf(write(@, Substring(w.o.read, n)), n = 0)]

(* Rule 2, lines 44-52 *)
copy_to_socket(w, n) ==
    LET outbound == pop_output(w.o.outbound, n)
        written == [w EXCEPT !.pair = AfterWrite(@, "owner", w.o.outbound.buffer, n),
                             !.o.outbound = outbound]
    IN  IF eof(outbound)
        THEN [written EXCEPT !.pair = ShutWr(@, "owner"), !.o.outbound_shutdown = TRUE]
        ELSE written

(* Rule 3, lines 59-65 *)
copy_from_socket(w, n) ==
    [w EXCEPT !.pair = AfterRead(@, "owner", n), !.o.socket_eof = @ \/ n = 0,
              !.o.inbound = EndIf(write(@, ReadBytes(w.pair, "owner", n)), n = 0)]

(* Rule 4, lines 72-81 *)
copy_output(w, n) ==
    LET inbound == pop_output(w.o.inbound, n)
        end == eof(inbound)
    IN  [w EXCEPT !.o.inbound = inbound, !.o.output = @ \o peek_output(w.o.inbound, n),
                  !.o.output_closed = @ \/ end, !.o.inbound_shutdown = @ \/ end]

(* Standard input and output take and give any number of bytes. *)
copy_callback(w, r) ==
    {[obj |-> after, served |-> TRUE] : after \in
        CASE r = "input" ->
                {copy_input(w, n) :
                    n \in IF w.o.read = InputLen THEN {0}
                          ELSE 1 .. Lesser(remaining_capacity(w.o.outbound), InputLen - w.o.read)}
          [] r = "to socket" ->
                IF WriteFails(w.pair, "owner", w.o.outbound.buffer)
                THEN {[w EXCEPT !.died = "SIGPIPE"]}
                ELSE {copy_to_socket(w, n) : n \in WriteSizes(w.pair, "owner", w.o.outbound.buffer)}
          [] r = "from socket" ->
                {copy_from_socket(w, n) : n \in ReadSizes(w.pair, "owner", remaining_capacity(w.o.inbound))}
          [] r = "output" ->
                {copy_output(w, n) : n \in IF w.o.inbound.buffer = <<>> THEN {0}
                                           ELSE 1 .. Len(w.o.inbound.buffer)}}

copy_cancel(w, r) ==
    IF r \in {"input", "to socket"} THEN [w EXCEPT !.o.outbound = end_input(@)]
                                    ELSE [w EXCEPT !.o.inbound = end_input(@)]

CopyDefunct(w, r) ==
    \/ r = "input" /\ w.o.input_eof
    \/ r = "from socket" /\ w.o.socket_eof
    \/ r = "output" /\ w.o.output_closed

CopyHungUp(w, r) == r \in {"to socket", "from socket"} /\ HungUp(w.pair, "owner")

(* poll(2): the standard streams are files. *)
CopyReady(w, r) ==
    CASE r \in {"input", "output"} -> TRUE
      [] r = "to socket" -> Writable(w.pair, "owner")
      [] r = "from socket" -> Readable(w.pair, "owner")

CopyLoop == INSTANCE EventLoop
            WITH Rules <- CopyRules, interest <- copy_interest, cancel <- copy_cancel, callback <- copy_callback,
                 Defunct <- CopyDefunct, Ready <- CopyReady, HungUp <- CopyHungUp

(* Lines 86-90: a turn begins, or no rule is interested and the copy ends. *)
copy_poll(w) ==
    LET pre == CopyLoop!prepared(w, w.o.rules)
        results == CopyLoop!polled(pre.obj, pre.rules, pre.events)
        next == [pre.obj EXCEPT !.o.rules = pre.rules, !.o.todo = CopyLoop!triggered(results)]
    IN  IF pre.events = {} THEN [next EXCEPT !.o.at = "copied", !.o.todo = {}] ELSE next

copy_serve(w) ==
    LET v == CopyLoop!first(w.o.todo)
    IN  {[o.obj EXCEPT !.o.rules = o.rules, !.o.todo = @ \ {v},
                       !.died = IF o.busy THEN "busy wait" ELSE @] :
            o \in CopyLoop!served(w, w.o.rules, v)}

(* No other thread takes part in what is done for the standard streams, so *)
(* such a result is served in one step with what comes before it.  No more *)
(* than two follow each other, the input's and the output's.               *)
with_standard(w) ==
    IF w.died = "no" /\ w.o.todo # {} /\ CopyLoop!first(w.o.todo).rule \in {"input", "output"}
    THEN copy_serve(w) ELSE {w}

with_standards(w) == UNION {with_standard(u) : u \in with_standard(w)}
=============================================================================
