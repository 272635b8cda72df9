----------------------------- MODULE SenderSpec -----------------------------
(***************************************************************************)
(* A TCPSender between a writer and a peer that acknowledges.  The loops   *)
(* of fill_window and ack_received are steps of their own (pc tells which  *)
(* call is running); a call starts only when no other is running, and the  *)
(* owner takes the segments away between calls.  Byte i of the written     *)
(* stream is represented by i.                                             *)
(***************************************************************************)
EXTENDS TCPSender

CONSTANTS StreamLen,        \* bytes the writer has
          Capacity,         \* send capacity
          Isns,             \* initial sequence numbers tried
          RetxTimeout,      \* initial retransmission timeout, in ticks
          MaxWin,           \* largest window the peer advertises
          MaxStale,         \* how far behind the highest one a late ackno may be
          MaxRetx           \* bound on the consecutive retransmissions

ASSUME SenderConstants ==
    /\ StreamLen \in Nat /\ Capacity \in Nat \ {0}
    /\ Isns \subseteq WrappingInt
    /\ RetxTimeout \in Nat \ {0} /\ MaxRetx \in Nat
    /\ MaxWin \in Nat \ {0} /\ MaxStale \in Nat
    \* windows are far smaller than the sequence space (2^16 against 2^32)
    /\ 2 * (MaxStale + MaxWin + 2) < Mod

VARIABLES snd,              \* the TCPSender object
          pc,               \* "idle", "fill" or "ack": the call that is running
          abs_ackno,        \* local variable of ack_received
          starts,           \* history: absolute seqnos of the outstanding segments
          high,             \* history: highest acknowledgement that arrived
          edge              \* history: highest right window edge that arrived

vars == <<snd, pc, abs_ackno, starts, high, edge>>
history == <<starts, high, edge>>

Greater(a, b) == IF a >= b THEN a ELSE b
Init == /\ \E isn \in Isns : snd = NewSender(Capacity, RetxTimeout, isn)
        /\ pc = "idle" /\ abs_ackno = 0
        /\ starts = <<>> /\ high = 0 /\ edge = 1

Idle == pc = "idle" /\ snd.segments_out = <<>>

(* The writer: stream_in().write and stream_in().end_input *)
Write(n) ==
    /\ Idle
    /\ snd.stream.num_written + n <= StreamLen
    /\ snd' = [snd EXCEPT !.stream = write(@, Substring(@.num_written, n))]
    /\ UNCHANGED <<pc, abs_ackno, history>>

EndInput ==
    /\ Idle
    /\ snd' = [snd EXCEPT !.stream = end_input(@)]
    /\ UNCHANGED <<pc, abs_ackno, history>>

(* The owner takes the segments that are ready. *)
Collect ==
    /\ pc = "idle" /\ snd.segments_out # <<>>
    /\ snd' = [snd EXCEPT !.segments_out = <<>>]
    /\ UNCHANGED <<pc, abs_ackno, history>>

(* fill_window *)
FillCall ==
    /\ Idle
    /\ pc' = "fill"
    /\ UNCHANGED <<snd, abs_ackno, history>>

FillStep ==
    /\ pc = "fill" /\ FillMore(snd)
    /\ snd' = FillOne(snd)
    /\ starts' = Append(starts, snd.next_seqno)
    /\ UNCHANGED <<pc, abs_ackno, high, edge>>

FillReturn ==
    /\ pc = "fill" /\ ~FillMore(snd)
    /\ pc' = "idle"
    /\ UNCHANGED <<snd, abs_ackno, history>>

(* ack_received for the ackno a of a peer that acknowledges only what was  *)
(* sent to it.                                                             *)
AckCall(a, w) ==
    /\ Idle
    /\ a <= snd.next_seqno
    /\ a + MaxStale >= high
    /\ snd' = AckWindow(snd, w)
    /\ abs_ackno' = AbsAckno(snd, wrap(a, snd.isn))
    /\ pc' = "ack"
    /\ high' = Greater(high, a)
    /\ edge' = Greater(edge, a + Greater(w, 1))
    /\ UNCHANGED starts

AckStep ==
    /\ pc = "ack" /\ AckMore(snd, abs_ackno)
    /\ snd' = AckOne(snd)
    /\ starts' = Tail(starts)
    /\ UNCHANGED <<pc, abs_ackno, high, edge>>

AckReturn ==
    /\ pc = "ack" /\ ~AckMore(snd, abs_ackno)
    /\ snd' = AckEnd(snd, abs_ackno)
    /\ pc' = "idle" /\ abs_ackno' = 0
    /\ UNCHANGED history

Tick ==
    /\ Idle
    /\ snd.consecutive_retransmissions < MaxRetx
    /\ snd' = tick(snd, 1)
    /\ UNCHANGED <<pc, abs_ackno, history>>

SendEmpty ==
    /\ Idle
    /\ snd' = send_empty_segment(snd)
    /\ UNCHANGED <<pc, abs_ackno, history>>

Next == \/ \E n \in 1 .. Capacity : Write(n)
        \/ EndInput \/ Collect
        \/ FillCall \/ FillStep \/ FillReturn
        \/ \E a \in 1 .. StreamLen + 2, w \in 0 .. MaxWin : AckCall(a, w)
        \/ AckStep \/ AckReturn
        \/ Tick \/ SendEmpty

Spec == Init /\ [][Next]_vars

-----------------------------------------------------------------------------
Segments == [seqno : WrappingInt, syn : BOOLEAN, fin : BOOLEAN, payload : Seq(Nat)]

Senders ==
    [isn : Isns, stream : ByteStreams(Capacity, Nat), next_seqno : Nat,
     segments_out : Seq(Segments), outstanding : Seq(Segments),
     bytes_in_flight : Nat, is_syn_set : BOOLEAN, is_fin_set : BOOLEAN,
     recent_abs_ackno : Nat, window_size : Nat \ {0},
     is_window_size_0 : BOOLEAN, initial_RTO : {RetxTimeout}, RTO : Nat \ {0},
     consecutive_retransmissions : Nat,
     timer : [elapsed_time : Nat, if_run : BOOLEAN]]

(* The object has the shape its class declares. *)
TypeOK ==
    /\ snd \in Senders
    /\ pc \in {"idle", "fill", "ack"}
    /\ abs_ackno \in Nat
    /\ starts \in Seq(Nat)
    /\ high \in Nat /\ edge \in Nat

(* Between calls the timer runs exactly when something is outstanding, so  *)
(* that tick() always finds a segment to retransmit (tcp_sender.cc:109     *)
(* takes the front of the queue without looking).                          *)
TimerGuardsQueue == pc # "ack" => (snd.timer.if_run <=> snd.outstanding # <<>>)

(* Every number of the sequence space below next_seqno was used once: for  *)
(* the SYN, a byte taken from the stream, or the FIN, and the FIN is last. *)
SeqnosUsedOnce ==
    /\ snd.next_seqno = (IF snd.is_syn_set THEN 1 ELSE 0) + snd.stream.num_read
                        + (IF snd.is_fin_set THEN 1 ELSE 0)
    /\ snd.is_fin_set => snd.is_syn_set /\ eof(snd.stream)

(* seg carries what belongs at absolute seqno s of sender o. *)
CarriesSeqno(o, seg, s) ==
    /\ seg.seqno = wrap(s, o.isn)
    /\ seg.syn <=> s = 0
    /\ seg.payload = Substring(IF s = 0 THEN 0 ELSE s - 1, Len(seg.payload))
    /\ seg.fin => o.is_fin_set /\ s + length_in_sequence_space(seg) = o.next_seqno

(* The outstanding segments are consecutive, end at next_seqno and carry   *)
(* the right bytes; bytes_in_flight is their total length.                 *)
QueueIsContiguous ==
    /\ Len(starts) = Len(snd.outstanding)
    /\ \A i \in 1 .. Len(starts) :
          /\ CarriesSeqno(snd, snd.outstanding[i], starts[i])
          /\ length_in_sequence_space(snd.outstanding[i]) > 0
          /\ starts[i] + length_in_sequence_space(snd.outstanding[i])
               = IF i = Len(starts) THEN snd.next_seqno ELSE starts[i + 1]
    /\ snd.bytes_in_flight = IF starts = <<>> THEN 0 ELSE snd.next_seqno - starts[1]

(* Whatever the peer has not acknowledged is still kept for                *)
(* retransmission, although the queue knows only 32-bit seqnos and late    *)
(* acknos move _recent_abs_ackno back (tcp_sender.cc:79, :95).             *)
UnackedIsKept ==
    IF starts = <<>> THEN snd.next_seqno <= high ELSE starts[1] <= high

(* fill_window sends nothing beyond the right edge of the largest window   *)
(* that was advertised; only the SYN may take one byte along.              *)
WindowRespected == snd.next_seqno <= Greater(edge, 2)

(* Everything that is sent, retransmissions included, is a piece of the    *)
(* stream at its own place, or empty.                                      *)
IsGenuine(o, seg, s) ==
    \/ CarriesSeqno(o, seg, s)
    \/ length_in_sequence_space(seg) = 0 /\ seg.seqno = wrap(s, o.isn)

SentIsGenuine ==
    \A i \in 1 .. Len(snd.segments_out) :
        \E s \in 0 .. snd.next_seqno : IsGenuine(snd, snd.segments_out[i], s)

(* When the sender reports its FIN as acknowledged, all of the stream is:  *)
(* TCPConnection::tick closes the connection on this (tcp_connection.cc:99)*)
FinAckedIsAll ==
    pc = "idle" /\ is_fin_acked(snd) =>
        snd.outstanding = <<>> /\ high = snd.next_seqno
=============================================================================
