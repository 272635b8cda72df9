------------------------------ MODULE TCPSender ------------------------------
(***************************************************************************)
(* class TCPSender (libsponge/tcp_sender.{hh,cc}): cuts the outgoing       *)
(* ByteStream into segments, keeps the unacknowledged ones and retransmits *)
(* the oldest when the timer expires.  One record is one object.  The two  *)
(* loops (fill_window, ack_received) are given by the test for another     *)
(* round and the effect of one round.                                      *)
(***************************************************************************)
EXTENDS WrappingIntegers, ByteStream, TCPSegment

CONSTANT MAX_PAYLOAD_SIZE   \* TCPConfig::MAX_PAYLOAD_SIZE

ASSUME PayloadAssumption == MAX_PAYLOAD_SIZE \in Nat \ {0}

(* Timer::start and Timer::stop; both forget the elapsed time. *)
TimerStarted == [elapsed_time |-> 0, if_run |-> TRUE]
TimerStopped == [elapsed_time |-> 0, if_run |-> FALSE]

(* TCPSender::TCPSender *)
NewSender(cap, retx_timeout, isn) ==
    [isn |-> isn, stream |-> NewByteStream(cap), next_seqno |-> 0,
     segments_out |-> <<>>, outstanding |-> <<>>, bytes_in_flight |-> 0,
     is_syn_set |-> FALSE, is_fin_set |-> FALSE,
     recent_abs_ackno |-> 0, window_size |-> 1, is_window_size_0 |-> FALSE,
     initial_RTO |-> retx_timeout, RTO |-> retx_timeout,
     consecutive_retransmissions |-> 0, timer |-> TimerStopped]
-----------------------------------------------------------------------------
(* fill_window, line 37 *)
WindowOpen(snd) ==
    ~snd.is_syn_set \/ snd.next_seqno < snd.recent_abs_ackno + snd.window_size

(* Lines 38-50: the segment that is sent next. *)
Room(snd) == snd.recent_abs_ackno + snd.window_size - snd.next_seqno

(* Mutated form: the segment is numbered by its last sequence number. *)
Unfinished_Misnumbered(snd) ==
    [seqno |-> wrap(snd.next_seqno + 1, snd.isn), syn |-> snd.next_seqno = 0, fin |-> FALSE,
     payload |-> peek_output(snd.stream, Lesser(Room(snd), MAX_PAYLOAD_SIZE))]

Unfinished(snd) ==
    [seqno |-> wrap(snd.next_seqno, snd.isn), syn |-> snd.next_seqno = 0, fin |-> FALSE,
     payload |-> peek_output(snd.stream, Lesser(Room(snd), MAX_PAYLOAD_SIZE))]

(* Mutated form: the FIN goes into a window that is full. *)
TakesFin_FullWindow(snd, seg) ==
    /\ eof(pop_output(snd.stream, Len(seg.payload)))
    /\ ~snd.is_fin_set
    /\ Room(snd) >= length_in_sequence_space(seg)

TakesFin(snd, seg) ==
    /\ eof(pop_output(snd.stream, Len(seg.payload)))
    /\ ~snd.is_fin_set
    /\ Room(snd) > length_in_sequence_space(seg)

NextSegment(snd) == [Unfinished(snd) EXCEPT !.fin = TakesFin(snd, Unfinished(snd))]

(* Lines 37 and 52-53: the loop goes on while there is something to send. *)
FillMore(snd) == WindowOpen(snd) /\ length_in_sequence_space(NextSegment(snd)) > 0

(* Lines 41-61 *)
FillOne(snd) ==
    LET seg == NextSegment(snd)
        len == length_in_sequence_space(seg)
    IN  [snd EXCEPT !.stream = pop_output(@, Len(seg.payload)),
                    !.is_syn_set = @ \/ seg.syn,
                    !.is_fin_set = @ \/ seg.fin,
                    !.segments_out = Append(@, seg),
                    !.outstanding = Append(@, seg),
                    !.bytes_in_flight = @ + len,
                    !.next_seqno = @ + len,
                    !.timer = IF @.if_run THEN @ ELSE TimerStarted]
-----------------------------------------------------------------------------

(* ack_received, lines 69-73 *)
AckWindow(snd, win) ==
    IF win = 0 THEN [snd EXCEPT !.window_size = 1, !.is_window_size_0 = TRUE]
               ELSE [snd EXCEPT !.window_size = win]

(* Line 75 *)
AbsAckno(snd, ackno) == unwrap(ackno, snd.isn, snd.recent_abs_ackno)

(* Mutated form: a segment acknowledged in part is dropped. *)
AckMore_PartlyAcked(snd, abs_ackno) ==
    /\ snd.outstanding # <<>>
    /\ unwrap(Head(snd.outstanding).seqno, snd.isn, snd.recent_abs_ackno) <= abs_ackno
    /\ abs_ackno <= snd.next_seqno

(* Lines 77-82: the oldest outstanding segment is covered by the ackno. *)
AckMore(snd, abs_ackno) ==
    /\ snd.outstanding # <<>>
    /\ LET seg == Head(snd.outstanding)
       IN  unwrap(seg.seqno, snd.isn, snd.recent_abs_ackno)
             + length_in_sequence_space(seg) <= abs_ackno
    /\ abs_ackno <= snd.next_seqno

(* Mutated form: the acknowledged bytes stay in flight. *)
AckOne_StillInFlight(snd) ==
    [snd EXCEPT !.outstanding = Tail(@), !.RTO = snd.initial_RTO,
                !.consecutive_retransmissions = 0, !.timer = TimerStarted]

(* Lines 84-91 *)
AckOne(snd) ==
    [snd EXCEPT !.outstanding = Tail(@),
                !.bytes_in_flight = @ - length_in_sequence_space(Head(snd.outstanding)),
                !.RTO = snd.initial_RTO,
                !.consecutive_retransmissions = 0,
                !.timer = TimerStarted]

(* Mutated forms: the timer runs on, or the window stays where it is. *)
AckEnd_TimerRuns(snd, abs_ackno) == [snd EXCEPT !.recent_abs_ackno = abs_ackno]
AckEnd_AcknoKept(snd, abs_ackno) ==
    [snd EXCEPT !.timer = IF snd.outstanding = <<>> THEN TimerStopped ELSE @]

(* Lines 95-98 *)
AckEnd(snd, abs_ackno) ==
    [snd EXCEPT !.recent_abs_ackno = abs_ackno,
                !.timer = IF snd.outstanding = <<>> THEN TimerStopped ELSE @]
-----------------------------------------------------------------------------
(* Lines 108-118: the timer expired. *)
Retransmit(snd) ==
    LET counted == ~snd.is_window_size_0
    IN  [snd EXCEPT !.segments_out = Append(@, Head(snd.outstanding)),
                    !.consecutive_retransmissions = IF counted THEN @ + 1 ELSE @,
                    !.RTO = IF counted THEN 2 * @ ELSE @,
                    !.timer = TimerStarted]

(* TCPSender::tick *)
tick(snd, ms) ==
    LET elapsed == snd.timer.elapsed_time + ms
    IN  IF ~snd.timer.if_run THEN snd
        ELSE IF elapsed >= snd.RTO THEN Retransmit(snd)
        ELSE [snd EXCEPT !.timer.elapsed_time = elapsed]

send_empty_segment(snd) ==
    [snd EXCEPT !.segments_out =
        Append(@, [seqno |-> wrap(snd.next_seqno, snd.isn), syn |-> FALSE,
                   fin |-> FALSE, payload |-> <<>>])]

(* Mutated form: sent is taken for acknowledged. *)
is_fin_acked_Sent(snd) == snd.is_fin_set

is_fin_acked(snd) == snd.is_fin_set /\ snd.next_seqno = snd.recent_abs_ackno
=============================================================================
