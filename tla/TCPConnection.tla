---------------------------- MODULE TCPConnection ----------------------------
(***************************************************************************)
(* class TCPConnection (libsponge/tcp_connection.{hh,cc}): one endpoint, a *)
(* TCPSender and a TCPReceiver side by side.  One record is one object;    *)
(* the operators are its methods.  The loops of the TCPSender are run to   *)
(* their end here, because no other call can come in between.              *)
(***************************************************************************)
EXTENDS TCPSender, TCPReceiver

CONSTANTS Capacity,             \* TCPConfig::recv_capacity and ::send_capacity
          MAX_RETX_ATTEMPTS,    \* TCPConfig::MAX_RETX_ATTEMPTS (8)
          LingerFactor          \* the 10 of tcp_connection.cc:101

ASSUME ConnectionConstants ==
    Capacity \in Nat \ {0} /\ MAX_RETX_ATTEMPTS \in Nat /\ LingerFactor \in Nat

UINT16_MAX == 65535

(* TCPConnection::TCPConnection; the rest of TCPConfig are the arguments. *)
NewConnection(rt_timeout, isn) ==
    [receiver |-> NewReceiver(Capacity),
     sender |-> NewSender(Capacity, rt_timeout, isn),
     segments_out |-> <<>>, linger |-> TRUE, active |-> TRUE,
     time_since_last_segment |-> 0]

(* TCPSender::fill_window.  Every round sends the SYN, a byte or the FIN,  *)
(* so there are no more than that.                                         *)
FillRound(snd) == IF FillMore(snd) THEN FillOne(snd) ELSE snd

fill_window(snd) ==
    LET n == Len(snd.stream.buffer) + 2
        after[k \in 0 .. n] == IF k = 0 THEN snd ELSE FillRound(after[k - 1])
    IN  after[n]

(* TCPSender::ack_received.  Every round takes a segment from the queue. *)
AckRound(snd, abs) == IF AckMore(snd, abs) THEN AckOne(snd) ELSE snd

AckLoop(snd, abs) ==
    LET n == Len(snd.outstanding)
        after[k \in 0 .. n] == IF k = 0 THEN snd ELSE AckRound(after[k - 1], abs)
    IN  AckEnd(after[n], abs)

ack_received(snd, seqno, win) == AckLoop(AckWindow(snd, win), AbsAckno(snd, seqno))
-----------------------------------------------------------------------------
(* Lines 130-134: what the receiver contributes to an outgoing segment. *)
Stamped(c, seg, rst) ==
    [seqno |-> seg.seqno, syn |-> seg.syn, fin |-> seg.fin, payload |-> seg.payload,
     rst |-> rst, ack |-> has_ackno(c.receiver),
     ackno |-> IF has_ackno(c.receiver) THEN ackno(c.receiver) ELSE 0,
     win |-> IF has_ackno(c.receiver)
             THEN Lesser(window_size(c.receiver), UINT16_MAX) ELSE 0]

send_segments(c) ==
    LET ready == c.sender.segments_out
    IN  [c EXCEPT !.segments_out = @ \o [i \in 1 .. Len(ready) |-> Stamped(c, ready[i], FALSE)],
                  !.sender.segments_out = <<>>]

unclean_shutdown(c) ==
    [c EXCEPT !.sender.stream = set_error(@),
              !.receiver.reassembler.output = set_error(@),
              !.active = FALSE]

(* Lines 82-97 and 148-163: the segment at the front of the sender's queue *)
(* goes out as the RST; what is behind it stays in the queue.              *)
send_rst(c) ==
    LET down == [unclean_shutdown(c) EXCEPT !.sender = send_empty_segment(@)]
    IN  [down EXCEPT !.segments_out = Append(@, Stamped(c, Head(down.sender.segments_out), TRUE)),
                     !.sender.segments_out = Tail(@)]
-----------------------------------------------------------------------------
(* segment_received, in the order of its parts *)
note_rst(c, seg) == IF seg.rst THEN unclean_shutdown(c) ELSE c

note_ack(c, seg) ==
    LET snd == ack_received(c.sender, seg.ackno, seg.win)
    IN  IF ~seg.ack THEN c
        ELSE [c EXCEPT !.sender = IF snd.is_syn_set THEN fill_window(snd) ELSE snd]

reply(c, seg) ==
    IF length_in_sequence_space(seg) = 0 THEN c
    ELSE IF seg.syn /\ ~c.sender.is_syn_set
         THEN [c EXCEPT !.sender = fill_window(@)]
         ELSE [c EXCEPT !.sender = send_empty_segment(@)]

reply_keep_alive(c, seg) ==
    IF /\ has_ackno(c.receiver)
       /\ length_in_sequence_space(seg) = 0
       /\ seg.seqno = minus(ackno(c.receiver), 1)
    THEN [c EXCEPT !.sender = send_empty_segment(@)] ELSE c

(* Mutated form: the side that closed first does not linger either. *)
note_passive_close_Always(c) ==
    IF stream_out(c.receiver).input_ended THEN [c EXCEPT !.linger = FALSE] ELSE c

note_passive_close(c) ==
    IF ~c.sender.is_fin_set /\ stream_out(c.receiver).input_ended
    THEN [c EXCEPT !.linger = FALSE] ELSE c

segment_received(c, seg) ==
    LET received == [note_rst(c, seg) EXCEPT !.receiver = receive(@, seg)]
        replied == reply_keep_alive(reply(note_ack(received, seg), seg), seg)
    IN  send_segments([note_passive_close(replied) EXCEPT !.time_since_last_segment = 0])
-----------------------------------------------------------------------------
(* TCPConnection::write; an empty write returns at once. *)
write_data(c, data) ==
    IF data = <<>> THEN c
    ELSE LET snd == [c.sender EXCEPT !.stream = write(@, data)]
         IN  send_segments([c EXCEPT !.sender = fill_window(snd)])

end_input_stream(c) ==
    LET snd == [c.sender EXCEPT !.stream = end_input(@)]
    IN  send_segments([c EXCEPT !.sender = fill_window(snd)])

connect(c) ==
    IF ~c.active THEN c ELSE send_segments([c EXCEPT !.sender = fill_window(@)])

(* Lines 98-100: both streams are finished and everything is acknowledged. *)
StreamsFinished(c) ==
    /\ eof(c.sender.stream)
    /\ stream_out(c.receiver).input_ended
    /\ c.sender.bytes_in_flight = 0
    /\ c.receiver.reassembler.unassembled_bytes = 0
    /\ is_fin_acked(c.sender)
    /\ c.sender.next_seqno = c.sender.stream.num_written + 2

(* Line 101 *)
LingerTime(c) == LingerFactor * c.sender.initial_RTO
MayClose(c) == ~c.linger \/ c.time_since_last_segment >= LingerTime(c)

(* TCPConnection::tick.  The clock stops at the linger time, the only      *)
(* value it is compared with.                                              *)
connection_tick(c, ms) ==
    LET clock == Lesser(c.time_since_last_segment + ms, LingerTime(c))
        ticked == [c EXCEPT !.time_since_last_segment = clock, !.sender = tick(@, ms)]
    IN  IF ticked.sender.consecutive_retransmissions > MAX_RETX_ATTEMPTS
        THEN send_rst(ticked)
        ELSE send_segments([ticked EXCEPT !.active = @ /\ ~(StreamsFinished(ticked) /\ MayClose(ticked))])

(* TCPConnection::~TCPConnection *)
destroy(c) == IF c.active THEN send_rst(c) ELSE c
=============================================================================
