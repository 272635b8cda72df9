---------------------------- MODULE SenderProofs ----------------------------
(***************************************************************************)
(* The safety properties of the TCPSender, for every stream length, window *)
(* size, payload size and size of the sequence space.                      *)
(***************************************************************************)
EXTENDS SenderSpec, TCPLemmas

-----------------------------------------------------------------------------
(* The inductive invariant, in parts. *)

(* The outgoing stream holds the bytes between num_read and num_written. *)
StreamInv == Genuine(snd.stream)

(* The timer runs while something is outstanding, also inside ack_received.*)
TimerInv ==
    /\ snd.outstanding # <<>> => snd.timer.if_run
    /\ pc # "ack" /\ snd.timer.if_run => snd.outstanding # <<>>

(* No segment is longer than a window (or the SYN with one byte), all of   *)
(* them end at or below next_seqno, and the first is not acknowledged.     *)
End(i) == starts[i] + length_in_sequence_space(snd.outstanding[i])

LengthInv ==
    \A i \in 1 .. Len(starts) :
        /\ length_in_sequence_space(snd.outstanding[i]) <= MaxWin + 1
        /\ End(i) <= snd.next_seqno

FirstInv == starts # <<>> => End(1) > snd.recent_abs_ackno

(* Acknos, window edges and next_seqno stay close to each other: closer    *)
(* than half of the sequence space.                                        *)
NearInv ==
    /\ snd.recent_abs_ackno <= snd.next_seqno
    /\ snd.next_seqno <= snd.recent_abs_ackno + MaxStale + MaxWin + 2
    /\ high <= snd.next_seqno
    /\ edge <= high + MaxWin
    /\ snd.window_size <= MaxWin
    /\ IF pc = "ack"
       THEN /\ abs_ackno <= high /\ high <= abs_ackno + MaxStale
            /\ abs_ackno + snd.window_size <= edge
       ELSE /\ snd.recent_abs_ackno <= high /\ high <= snd.recent_abs_ackno + MaxStale
            /\ snd.recent_abs_ackno + snd.window_size <= edge

(* Before the SYN the sender is as it was constructed. *)
SynInv ==
    /\ snd.is_syn_set <=> snd.next_seqno > 0
    /\ ~snd.is_syn_set => snd.recent_abs_ackno = 0 /\ snd.window_size = 1 /\ pc # "ack"

IInv ==
    /\ TypeOK /\ StreamInv /\ TimerInv /\ SynInv /\ SeqnosUsedOnce
    /\ QueueIsContiguous /\ LengthInv /\ FirstInv /\ UnackedIsKept
    /\ NearInv /\ WindowRespected /\ SentIsGenuine

-----------------------------------------------------------------------------
(* Initially the invariant holds. *)
LEMMA InitInv == Init => IInv
<1> SUFFICES ASSUME Init PROVE IInv
  OBVIOUS
<1> USE ModAssumption, SenderConstants
<1>1. PICK isn \in Isns : snd = NewSender(Capacity, RetxTimeout, isn)
  BY DEF Init
<1>2. /\ snd.stream = NewByteStream(Capacity) /\ snd.next_seqno = 0
      /\ snd.segments_out = <<>> /\ snd.outstanding = <<>> /\ snd.bytes_in_flight = 0
      /\ snd.is_syn_set = FALSE /\ snd.is_fin_set = FALSE /\ snd.recent_abs_ackno = 0
      /\ snd.window_size = 1 /\ snd.timer = TimerStopped
  BY <1>1 DEF NewSender
<1>3. TypeOK
  <2>1. snd \in Senders
    BY <1>1 DEF Senders, NewSender, NewByteStream, ByteStreams, TimerStopped
  <2> QED BY <2>1 DEF TypeOK, Init
<1>4. StreamInv
  <2>1. snd.stream.buffer = <<>> /\ snd.stream.num_read = 0 /\ snd.stream.num_written = 0
    BY <1>2 DEF NewByteStream
  <2>2. Substring(0, 0) = <<>>
    BY SubstringType, EmptySeq
  <2>3. snd.stream.capacity = Capacity
    BY <1>2 DEF NewByteStream
  <2> QED BY <2>1, <2>2, <2>3 DEF StreamInv, Genuine
<1>5. TimerInv /\ SynInv /\ FirstInv /\ LengthInv
  BY <1>2 DEF TimerInv, SynInv, FirstInv, LengthInv, TimerStopped, Init
<1>6. SeqnosUsedOnce
  BY <1>2 DEF SeqnosUsedOnce, NewByteStream
<1>7. QueueIsContiguous /\ UnackedIsKept /\ SentIsGenuine
  BY <1>2 DEF QueueIsContiguous, UnackedIsKept, SentIsGenuine, Init
<1>8. NearInv /\ WindowRespected
  BY <1>2 DEF NearInv, WindowRespected, Greater, Init
<1> QED BY <1>3, <1>4, <1>5, <1>6, <1>7, <1>8 DEF IInv
-----------------------------------------------------------------------------
(* A step that leaves the queue and the numbers it refers to alone. *)
QueueSame ==
    /\ starts' = starts
    /\ snd'.outstanding = snd.outstanding /\ snd'.isn = snd.isn
    /\ snd'.next_seqno = snd.next_seqno /\ snd'.is_fin_set = snd.is_fin_set
    /\ snd'.bytes_in_flight = snd.bytes_in_flight

(* What depends on the queue is kept by such a step. *)
LEMMA QueueFrame ==
  ASSUME QueueIsContiguous, LengthInv, QueueSame
  PROVE  QueueIsContiguous' /\ LengthInv'
<1>1. QueueIsContiguous'
  BY DEF QueueIsContiguous, CarriesSeqno, QueueSame
<1>2. LengthInv'
  BY DEF LengthInv, End, QueueSame
<1> QED BY <1>1, <1>2

(* What was sent stays genuine when nothing else is sent. *)
LEMMA SentFrame ==
  ASSUME SentIsGenuine, QueueSame, snd'.segments_out = snd.segments_out
  PROVE  SentIsGenuine'
  BY SMTT(60) DEF SentIsGenuine, IsGenuine, CarriesSeqno, QueueSame

(* A step that changes neither the acknos and the window, nor the call     *)
(* that is running.                                                        *)
AcksSame ==
    /\ UNCHANGED <<pc, abs_ackno, high, edge>>
    /\ snd'.recent_abs_ackno = snd.recent_abs_ackno /\ snd'.window_size = snd.window_size

(* Everything but the stream, the timer and what is sent is kept then. *)
LEMMA AcksFrame ==
  ASSUME IInv, QueueSame, AcksSame, snd'.is_syn_set = snd.is_syn_set
  PROVE  SynInv' /\ FirstInv' /\ UnackedIsKept' /\ NearInv' /\ WindowRespected'
<1>1. SynInv' /\ WindowRespected'
  BY DEF IInv, SynInv, WindowRespected, QueueSame, AcksSame
<1>2. FirstInv' /\ UnackedIsKept'
  BY DEF IInv, FirstInv, End, UnackedIsKept, QueueSame, AcksSame
<1>3. NearInv'
  BY DEF IInv, NearInv, QueueSame, AcksSame
<1> QED BY <1>1, <1>2, <1>3

(* A step of the writer: only the stream changes, and it keeps its reading *)
(* position and, once its end is sent, everything.                         *)
LEMMA WriterInv ==
  ASSUME IInv, UNCHANGED <<pc, abs_ackno, history>>,
         NEW w \in ByteStreams(Capacity, Nat), snd' = [snd EXCEPT !.stream = w],
         Genuine(w), w.num_read = snd.stream.num_read, eof(snd.stream) => eof(w)
  PROVE  IInv'
<1>1. TypeOK /\ snd \in Senders
  BY DEF IInv, TypeOK
<1>2. snd' \in Senders
  BY <1>1, SMTT(60) DEF Senders
<1>3. /\ snd'.stream = w /\ snd'.outstanding = snd.outstanding /\ snd'.isn = snd.isn
      /\ snd'.next_seqno = snd.next_seqno /\ snd'.is_fin_set = snd.is_fin_set
      /\ snd'.bytes_in_flight = snd.bytes_in_flight /\ snd'.is_syn_set = snd.is_syn_set
      /\ snd'.recent_abs_ackno = snd.recent_abs_ackno
      /\ snd'.window_size = snd.window_size /\ snd'.timer = snd.timer
      /\ snd'.segments_out = snd.segments_out
  BY <1>1 DEF Senders
<1>4. TypeOK'
  BY <1>1, <1>2 DEF TypeOK, history
<1>5. QueueSame /\ AcksSame
  BY <1>3 DEF QueueSame, AcksSame, history
<1>6. StreamInv' /\ TimerInv'
  BY <1>3 DEF IInv, StreamInv, TimerInv
<1>7. SeqnosUsedOnce'
  BY <1>3 DEF IInv, SeqnosUsedOnce
<1> QED BY <1>3, <1>4, <1>5, <1>6, <1>7, QueueFrame, SentFrame, AcksFrame DEF IInv

(* stream_in().write *)
LEMMA WriteInv ==
  ASSUME IInv, NEW n \in 1 .. Capacity, Write(n)
  PROVE  IInv'
<1> DEFINE w == write(snd.stream, Substring(snd.stream.num_written, n))
<1>1. snd.stream \in ByteStreams(Capacity, Nat) /\ Genuine(snd.stream)
  BY DEF IInv, StreamInv, TypeOK, Senders
<1>2. n \in Nat /\ Capacity \in Nat
  BY SenderConstants
<1>3. /\ w \in ByteStreams(Capacity, Nat) /\ Genuine(w)
      /\ w.num_read = snd.stream.num_read /\ w.input_ended = snd.stream.input_ended
      /\ snd.stream.input_ended => w = snd.stream
  <2> HIDE DEF w
  <2>1. w = write(snd.stream, Substring(snd.stream.num_written, n))
    BY DEF w
  <2> QED BY <1>1, <1>2, <2>1, WriteGenuine
<1>4. snd' = [snd EXCEPT !.stream = w] /\ UNCHANGED <<pc, abs_ackno, history>>
  BY DEF Write
<1> HIDE DEF w
<1>5. eof(snd.stream) => eof(w)
  BY <1>3 DEF eof
<1> QED BY <1>3, <1>4, <1>5, WriterInv

(* stream_in().end_input *)
LEMMA EndInputInv ==
  ASSUME IInv, EndInput
  PROVE  IInv'
<1> DEFINE w == end_input(snd.stream)
<1>1. snd.stream \in ByteStreams(Capacity, Nat) /\ Genuine(snd.stream)
  BY DEF IInv, StreamInv, TypeOK, Senders
<1>2. /\ w \in ByteStreams(Capacity, Nat) /\ w.num_read = snd.stream.num_read
      /\ w.buffer = snd.stream.buffer /\ w.capacity = snd.stream.capacity
      /\ w.num_written = snd.stream.num_written /\ w.input_ended
  BY <1>1, Zenon DEF end_input, ByteStreams
<1>3. snd' = [snd EXCEPT !.stream = w] /\ UNCHANGED <<pc, abs_ackno, history>>
  BY DEF EndInput
<1> HIDE DEF w
<1>4. Genuine(w) /\ (eof(snd.stream) => eof(w))
  BY <1>1, <1>2, Zenon DEF Genuine, eof
<1> QED BY <1>2, <1>3, <1>4, WriterInv
(* TCPConnection::send_segments takes the segments away. *)
LEMMA CollectInv ==
  ASSUME IInv, Collect
  PROVE  IInv'
<1>1. TypeOK /\ snd \in Senders /\ UNCHANGED <<pc, abs_ackno, history>>
  BY DEF IInv, TypeOK, Collect
<1> DEFINE none == <<>>
<1>2. snd' = [snd EXCEPT !.segments_out = none] /\ none \in Seq(Segments)
  BY DEF Collect
<1>3. /\ snd'.stream = snd.stream /\ snd'.outstanding = snd.outstanding /\ snd'.isn = snd.isn
      /\ snd'.next_seqno = snd.next_seqno /\ snd'.is_fin_set = snd.is_fin_set
      /\ snd'.bytes_in_flight = snd.bytes_in_flight /\ snd'.is_syn_set = snd.is_syn_set
      /\ snd'.recent_abs_ackno = snd.recent_abs_ackno
      /\ snd'.window_size = snd.window_size /\ snd'.timer = snd.timer
      /\ snd'.segments_out = <<>>
  BY <1>1, <1>2 DEF Senders
<1>4. TypeOK'
  <2> HIDE DEF none
  <2>1. snd' \in Senders
    BY <1>1, <1>2, Zenon DEF Senders
  <2> QED BY <1>1, <2>1 DEF TypeOK, history
<1>5. QueueSame /\ AcksSame
  BY <1>1, <1>3 DEF QueueSame, AcksSame, history
<1>6. StreamInv' /\ TimerInv' /\ SeqnosUsedOnce'
  BY <1>1, <1>3 DEF IInv, StreamInv, TimerInv, SeqnosUsedOnce
<1>7. SentIsGenuine'
  BY <1>3 DEF SentIsGenuine
<1> QED BY <1>3, <1>4, <1>5, <1>6, <1>7, QueueFrame, AcksFrame DEF IInv

(* fill_window is entered or left. *)
LEMMA FillCallInv ==
  ASSUME IInv, FillCall \/ FillReturn
  PROVE  IInv'
<1>1. /\ snd' = snd /\ abs_ackno' = abs_ackno /\ starts' = starts /\ high' = high
      /\ edge' = edge /\ pc # "ack" /\ pc' # "ack" /\ pc' \in {"idle", "fill"}
  BY DEF FillCall, FillReturn, Idle, history
<1>2. TypeOK' /\ StreamInv' /\ TimerInv' /\ SynInv' /\ SeqnosUsedOnce'
  BY <1>1 DEF IInv, TypeOK, StreamInv, TimerInv, SynInv, SeqnosUsedOnce
<1>3. QueueSame
  BY <1>1 DEF QueueSame
<1>4. FirstInv' /\ UnackedIsKept' /\ WindowRespected'
  BY <1>1 DEF IInv, FirstInv, End, UnackedIsKept, WindowRespected
<1>5. NearInv'
  BY <1>1 DEF IInv, NearInv
<1> QED BY <1>1, <1>2, <1>3, <1>4, <1>5, QueueFrame, SentFrame DEF IInv

(* One more segment is sent: it is genuine, and the FIN that was sent      *)
(* before it, if there is one, stays the last sequence number.             *)
LEMMA SentAppend ==
  ASSUME IInv, NEW seg \in Segments, NEW s \in 0 .. snd'.next_seqno,
         IsGenuine(snd', seg, s),
         snd'.segments_out = Append(snd.segments_out, seg),
         snd'.isn = snd.isn, snd'.next_seqno \in Nat, snd.next_seqno <= snd'.next_seqno,
         snd.is_fin_set => snd'.is_fin_set /\ snd'.next_seqno = snd.next_seqno
  PROVE  SentIsGenuine'
<1>1. snd.segments_out \in Seq(Segments) /\ snd.next_seqno \in Nat
  BY DEF IInv, TypeOK, Senders
<1> SUFFICES ASSUME NEW i \in 1 .. Len(snd'.segments_out)
             PROVE  \E t \in 0 .. snd'.next_seqno : IsGenuine(snd', snd'.segments_out[i], t)
  BY DEF SentIsGenuine
<1>2. Len(snd'.segments_out) = Len(snd.segments_out) + 1
  BY <1>1, AppendProperties
<1>3. CASE i = Len(snd.segments_out) + 1
  <2>1. snd'.segments_out[i] = seg
    BY <1>1, <1>3, AppendProperties
  <2> QED BY <2>1
<1>4. CASE i # Len(snd.segments_out) + 1
  <2>1. i \in 1 .. Len(snd.segments_out) /\ snd'.segments_out[i] = snd.segments_out[i]
    BY <1>1, <1>2, <1>4, AppendProperties
  <2>2. PICK t \in 0 .. snd.next_seqno : IsGenuine(snd, snd.segments_out[i], t)
    BY <2>1 DEF IInv, SentIsGenuine
  <2>3. IsGenuine(snd', snd.segments_out[i], t)
    BY <2>2 DEF IsGenuine, CarriesSeqno
  <2>4. t \in 0 .. snd'.next_seqno
    BY <1>1
  <2> QED BY <2>1, <2>3, <2>4
<1> QED BY <1>3, <1>4
(* A segment has a length. *)
LEMMA LengthType ==
  ASSUME NEW seg \in Segments
  PROVE  length_in_sequence_space(seg) \in Nat
<1>1. Len(seg.payload) \in Nat
  BY DEF Segments
<1> DEFINE l == Len(seg.payload)
           x == IF seg.syn THEN 1 ELSE 0
           y == IF seg.fin THEN 1 ELSE 0
<1>2. length_in_sequence_space(seg) = l + x + y
  BY DEF length_in_sequence_space
<1>3. l \in Nat /\ x \in {0, 1} /\ y \in {0, 1}
  BY <1>1, Zenon
<1> HIDE DEF l, x, y
<1> QED BY <1>2, <1>3

(* Facts about the queue that follow from the invariant: its elements are  *)
(* segments of positive length that start at natural numbers.              *)
LEMMA QueueFacts ==
  ASSUME IInv
  PROVE  /\ Len(starts) = Len(snd.outstanding) /\ Len(starts) \in Nat
         /\ starts = <<>> <=> snd.outstanding = <<>>
         /\ \A i \in 1 .. Len(starts) :
               /\ starts[i] \in Nat /\ snd.outstanding[i] \in Segments
               /\ length_in_sequence_space(snd.outstanding[i]) \in Nat \ {0}
<1>1. starts \in Seq(Nat) /\ snd.outstanding \in Seq(Segments)
  BY DEF IInv, TypeOK, Senders
<1>2. Len(starts) = Len(snd.outstanding) /\ Len(starts) \in Nat
  BY <1>1 DEF IInv, QueueIsContiguous
<1>3. starts = <<>> <=> snd.outstanding = <<>>
  BY <1>1, <1>2, EmptySeq
<1>4. ASSUME NEW i \in 1 .. Len(starts)
      PROVE  /\ starts[i] \in Nat /\ snd.outstanding[i] \in Segments
             /\ length_in_sequence_space(snd.outstanding[i]) \in Nat \ {0}
  <2>1. starts[i] \in Nat /\ snd.outstanding[i] \in Segments
    BY <1>1, <1>2, <1>4
  <2>2. length_in_sequence_space(snd.outstanding[i]) \in Nat
    BY <2>1, LengthType
  <2> QED BY <2>1, <2>2, <1>4 DEF IInv, QueueIsContiguous
<1> QED BY <1>2, <1>3, <1>4

(* tick: the timer is not running, has not expired, or the oldest segment  *)
(* is sent again.                                                          *)
LEMMA TickInv ==
  ASSUME IInv, Tick
  PROVE  IInv'
<1> DEFINE e == snd.timer.elapsed_time + 1
<1>1. /\ TypeOK /\ snd \in Senders /\ UNCHANGED <<pc, abs_ackno, history>>
      /\ pc = "idle" /\ snd.segments_out = <<>> /\ snd' = tick(snd, 1)
  BY DEF IInv, TypeOK, Tick, Idle
<1>2. e \in Nat /\ snd.RTO \in Nat \ {0} /\ snd.timer.if_run \in BOOLEAN
  BY <1>1 DEF Senders
<1>3. CASE ~snd.timer.if_run
  <2>1. snd' = snd
    BY <1>1, <1>3 DEF tick
  <2>3. QueueSame /\ AcksSame
    BY <1>1, <2>1 DEF QueueSame, AcksSame, history
  <2>4. TypeOK' /\ StreamInv' /\ TimerInv' /\ SeqnosUsedOnce'
    BY <1>1, <2>1 DEF IInv, TypeOK, StreamInv, TimerInv, SeqnosUsedOnce, history
  <2> QED BY <2>1, <2>3, <2>4, QueueFrame, SentFrame, AcksFrame DEF IInv
<1>4. CASE snd.timer.if_run /\ ~(e >= snd.RTO)
  <2>1. snd' = [snd EXCEPT !.timer.elapsed_time = e]
    BY <1>1, <1>4 DEF tick
  <2> HIDE DEF e
  <2>2. snd' \in Senders
    BY <1>1, <1>2, <2>1, SMTT(60) DEF Senders
  <2>3. /\ snd'.stream = snd.stream /\ snd'.outstanding = snd.outstanding /\ snd'.isn = snd.isn
        /\ snd'.next_seqno = snd.next_seqno /\ snd'.is_fin_set = snd.is_fin_set
        /\ snd'.bytes_in_flight = snd.bytes_in_flight /\ snd'.is_syn_set = snd.is_syn_set
        /\ snd'.recent_abs_ackno = snd.recent_abs_ackno
        /\ snd'.window_size = snd.window_size /\ snd'.timer.if_run = snd.timer.if_run
        /\ snd'.segments_out = snd.segments_out
    BY <1>1, <2>1 DEF Senders
  <2>4. QueueSame /\ AcksSame
    BY <1>1, <2>3 DEF QueueSame, AcksSame, history
  <2>5. TypeOK' /\ StreamInv' /\ TimerInv' /\ SeqnosUsedOnce'
    BY <1>1, <2>2, <2>3 DEF IInv, TypeOK, StreamInv, TimerInv, SeqnosUsedOnce, history
  <2> QED BY <2>3, <2>4, <2>5, QueueFrame, SentFrame, AcksFrame DEF IInv
<1>5. CASE snd.timer.if_run /\ e >= snd.RTO
  <2> DEFINE seg == Head(snd.outstanding)
             out == Append(snd.segments_out, seg)
             cr == IF ~snd.is_window_size_0 THEN snd.consecutive_retransmissions + 1
                   ELSE snd.consecutive_retransmissions
             rto == IF ~snd.is_window_size_0 THEN 2 * snd.RTO ELSE snd.RTO
  <2>1. snd' = [snd EXCEPT !.segments_out = out, !.consecutive_retransmissions = cr,
                           !.RTO = rto, !.timer = TimerStarted]
    BY <1>1, <1>5 DEF tick, Retransmit
  <2>2. snd.outstanding # <<>> /\ starts # <<>>
    BY <1>1, <1>5, QueueFacts DEF IInv, TimerInv
  <2>3. 1 \in 1 .. Len(starts) /\ seg = snd.outstanding[1]
    BY <1>1, <2>2, QueueFacts DEF TypeOK, Senders
  <2>4. seg \in Segments /\ starts[1] \in Nat
    BY <2>3, QueueFacts
  <2>5. out \in Seq(Segments) /\ cr \in Nat /\ rto \in Nat \ {0}
    <3>1. out \in Seq(Segments)
      BY <1>1, <2>4 DEF Senders
    <3>2. snd.consecutive_retransmissions \in Nat
      BY <1>1 DEF Senders
    <3> QED BY <1>2, <3>1, <3>2
  <2>6. out = Append(snd.segments_out, seg)
    OBVIOUS
  <2> HIDE DEF out, cr, rto
  <2>7. snd' \in Senders
    <3>1. TimerStarted \in [elapsed_time : Nat, if_run : BOOLEAN]
      BY DEF TimerStarted
    <3> QED BY <1>1, <2>1, <2>5, <3>1, ZenonT(60) DEF Senders
  <2>8. /\ snd'.stream = snd.stream /\ snd'.outstanding = snd.outstanding /\ snd'.isn = snd.isn
        /\ snd'.next_seqno = snd.next_seqno /\ snd'.is_fin_set = snd.is_fin_set
        /\ snd'.bytes_in_flight = snd.bytes_in_flight /\ snd'.is_syn_set = snd.is_syn_set
        /\ snd'.recent_abs_ackno = snd.recent_abs_ackno
        /\ snd'.window_size = snd.window_size /\ snd'.timer = TimerStarted
        /\ snd'.segments_out = out
    BY <1>1, <2>1, ZenonT(60) DEF Senders
  <2>9. QueueSame /\ AcksSame
    BY <1>1, <2>8 DEF QueueSame, AcksSame, history
  <2>10. TypeOK' /\ StreamInv' /\ SeqnosUsedOnce'
    BY <1>1, <2>7, <2>8 DEF IInv, TypeOK, StreamInv, SeqnosUsedOnce, history
  <2>11. TimerInv'
    BY <2>2, <2>8 DEF TimerInv, TimerStarted
  <2>12. SentIsGenuine'
    <3>1. CarriesSeqno(snd, seg, starts[1])
      BY <2>3 DEF IInv, QueueIsContiguous
    <3>2. IsGenuine(snd', seg, starts[1])
      BY <2>8, <3>1 DEF IsGenuine, CarriesSeqno
    <3>3. snd.next_seqno \in Nat
      BY <1>1 DEF Senders
    <3>4. starts[1] \in 0 .. snd'.next_seqno
      <4>1. length_in_sequence_space(snd.outstanding[1]) \in Nat
        BY <2>3, QueueFacts
      <4>2. starts[1] + length_in_sequence_space(snd.outstanding[1]) <= snd.next_seqno
        BY <2>3 DEF IInv, LengthInv, End
      <4> QED BY <2>4, <2>8, <3>3, <4>1, <4>2
    <3>5. snd'.next_seqno \in Nat /\ snd.next_seqno <= snd'.next_seqno
      BY <2>8, <3>3
    <3> QED BY <2>4, <2>6, <2>8, <3>2, <3>4, <3>5, SentAppend
  <2> QED BY <2>8, <2>9, <2>10, <2>11, <2>12, QueueFrame, AcksFrame DEF IInv
<1> QED BY <1>2, <1>3, <1>4, <1>5
(* wrap gives a sequence number. *)
LEMMA WrapType ==
  ASSUME NEW n \in Nat, NEW isn \in Isns
  PROVE  isn \in WrappingInt /\ wrap(n, isn) \in WrappingInt
<1>1. isn \in WrappingInt
  BY SenderConstants
<1>2. n % Mod \in Int /\ isn + (n % Mod) \in Int
  BY <1>1, ModRange, ModAssumption DEF WrappingInt
<1> QED BY <1>1, <1>2, ModRange DEF wrap, plus, WrappingInt

(* send_empty_segment *)
LEMMA SendEmptyInv ==
  ASSUME IInv, SendEmpty
  PROVE  IInv'
<1> DEFINE seg == [seqno |-> wrap(snd.next_seqno, snd.isn), syn |-> FALSE,
                   fin |-> FALSE, payload |-> <<>>]
           out == Append(snd.segments_out, seg)
<1>1. /\ TypeOK /\ snd \in Senders /\ UNCHANGED <<pc, abs_ackno, history>>
      /\ snd' = [snd EXCEPT !.segments_out = out]
  BY DEF IInv, TypeOK, SendEmpty, send_empty_segment
<1>2. snd.next_seqno \in Nat /\ snd.isn \in Isns /\ snd.segments_out \in Seq(Segments)
  BY <1>1 DEF Senders
<1>3. seg \in Segments /\ length_in_sequence_space(seg) = 0
      /\ seg.seqno = wrap(snd.next_seqno, snd.isn)
  BY <1>2, WrapType DEF Segments, length_in_sequence_space
<1> HIDE DEF seg
<1>4. out \in Seq(Segments) /\ out = Append(snd.segments_out, seg)
  BY <1>2, <1>3
<1> HIDE DEF out
<1>5. snd' \in Senders
  BY <1>1, <1>4, Zenon DEF Senders
<1>6. /\ snd'.stream = snd.stream /\ snd'.outstanding = snd.outstanding /\ snd'.isn = snd.isn
      /\ snd'.next_seqno = snd.next_seqno /\ snd'.is_fin_set = snd.is_fin_set
      /\ snd'.bytes_in_flight = snd.bytes_in_flight /\ snd'.is_syn_set = snd.is_syn_set
      /\ snd'.recent_abs_ackno = snd.recent_abs_ackno
      /\ snd'.window_size = snd.window_size /\ snd'.timer = snd.timer
      /\ snd'.segments_out = out
  BY <1>1 DEF Senders
<1>7. TypeOK'
  BY <1>1, <1>5 DEF TypeOK, history
<1>8. QueueSame /\ AcksSame
  BY <1>1, <1>6 DEF QueueSame, AcksSame, history
<1>9. StreamInv' /\ TimerInv' /\ SeqnosUsedOnce'
  BY <1>1, <1>6 DEF IInv, StreamInv, TimerInv, SeqnosUsedOnce
<1>10. SentIsGenuine'
  <2>1. IsGenuine(snd', seg, snd.next_seqno)
    BY <1>3, <1>6 DEF IsGenuine
  <2>2. /\ snd.next_seqno \in 0 .. snd'.next_seqno /\ snd'.next_seqno \in Nat
        /\ snd.next_seqno <= snd'.next_seqno
    BY <1>2, <1>6
  <2> QED BY <1>3, <1>4, <1>6, <2>1, <2>2, SentAppend
<1> QED BY <1>6, <1>7, <1>8, <1>9, <1>10, QueueFrame, AcksFrame DEF IInv
-----------------------------------------------------------------------------
(* Numbers as near to each other as acknos and window edges are can be     *)
(* told apart by their 32-bit forms.                                       *)
LEMMA NearIsClose ==
  ASSUME NEW x \in Nat, NEW y \in Nat,
         x <= y + MaxStale + MaxWin + 2, y <= x + MaxStale + MaxWin + 2
  PROVE  2 * Distance(x, y) < Mod
  BY SenderConstants, ModAssumption DEF Distance

(* An ackno of the peer is recovered from its 32-bit form: it is less than *)
(* half of the sequence space away from the last one.                      *)
LEMMA AcknoRecovered ==
  ASSUME IInv, pc = "idle", NEW a \in Nat, a <= snd.next_seqno, a + MaxStale >= high
  PROVE  AbsAckno(snd, wrap(a, snd.isn)) = a
<1> USE SenderConstants, ModAssumption
<1>1. /\ snd.recent_abs_ackno \in Nat /\ snd.next_seqno \in Nat /\ snd.isn \in Isns
      /\ high \in Nat
  BY DEF IInv, TypeOK, Senders
<1>2. snd.isn \in WrappingInt
  BY <1>1
<1>3. /\ snd.next_seqno <= snd.recent_abs_ackno + MaxStale + MaxWin + 2
      /\ snd.recent_abs_ackno <= high
  BY DEF IInv, NearInv
<1>4. 2 * Distance(a, snd.recent_abs_ackno) < Mod
  BY <1>1, <1>3 DEF Distance
<1> QED BY <1>1, <1>2, <1>4, UnwrapInvertsWrap DEF AbsAckno

(* The arithmetic of `edge`, the greatest right window edge the peer has offered:    *)
(* an acknowledgement of a with g sequence numbers of window moves the edge e, or    *)
(* leaves it, and it stays within m of the highest acknowledgement h.                *)
LEMMA EdgeMoves ==
  ASSUME NEW a \in Nat, NEW ws \in Nat, NEW g \in Nat, NEW m \in Nat, NEW e \in Nat,
         NEW h \in Nat, NEW h1 \in Nat, NEW e1,
         ws <= g, g <= m, e <= h + m, h1 >= h, h1 >= a,
         e1 = IF e >= a + g THEN e ELSE a + g
  PROVE  e1 \in Nat /\ e1 >= e /\ a + ws <= e1 /\ e1 <= h1 + m
BY SMT

(* ack_received is entered. *)
LEMMA AckCallInv ==
  ASSUME IInv, NEW a \in 1 .. StreamLen + 2, NEW w \in 0 .. MaxWin, AckCall(a, w)
  PROVE  IInv'
<1> USE SenderConstants
<1> DEFINE ws == IF w = 0 THEN 1 ELSE w
           z == IF w = 0 THEN TRUE ELSE snd.is_window_size_0
<1>1. /\ TypeOK /\ snd \in Senders /\ a \in Nat /\ a >= 1 /\ w \in Nat /\ w <= MaxWin
      /\ pc = "idle" /\ a <= snd.next_seqno /\ a + MaxStale >= high
      /\ snd' = AckWindow(snd, w) /\ abs_ackno' = AbsAckno(snd, wrap(a, snd.isn))
      /\ pc' = "ack" /\ high' = Greater(high, a) /\ edge' = Greater(edge, a + Greater(w, 1))
      /\ starts' = starts
  BY DEF IInv, TypeOK, AckCall, Idle
<1>2. abs_ackno' = a
  BY <1>1, AcknoRecovered
<1>3. snd.is_window_size_0 \in BOOLEAN /\ high \in Nat /\ edge \in Nat
      /\ snd.next_seqno \in Nat /\ starts \in Seq(Nat) /\ snd.recent_abs_ackno \in Nat
  BY <1>1 DEF Senders, TypeOK
<1>4. snd' = [snd EXCEPT !.window_size = ws, !.is_window_size_0 = z]
  BY <1>1, Zenon DEF AckWindow, Senders
<1>5. ws \in Nat \ {0} /\ ws <= MaxWin /\ ws <= Greater(w, 1) /\ Greater(w, 1) \in Nat
      /\ Greater(w, 1) <= MaxWin
  BY <1>1 DEF Greater
<1>6. z \in BOOLEAN
  BY <1>3, Zenon
<1> HIDE DEF ws, z
<1>7. snd' \in Senders
  BY <1>1, <1>4, <1>5, <1>6, ZenonT(60) DEF Senders
<1>8. /\ snd'.stream = snd.stream /\ snd'.outstanding = snd.outstanding /\ snd'.isn = snd.isn
      /\ snd'.next_seqno = snd.next_seqno /\ snd'.is_fin_set = snd.is_fin_set
      /\ snd'.bytes_in_flight = snd.bytes_in_flight /\ snd'.is_syn_set = snd.is_syn_set
      /\ snd'.recent_abs_ackno = snd.recent_abs_ackno
      /\ snd'.window_size = ws /\ snd'.timer = snd.timer
      /\ snd'.segments_out = snd.segments_out
  BY <1>1, <1>4 DEF Senders
<1>9. high' \in Nat /\ high' >= high /\ high' >= a /\ high' <= a + MaxStale
      /\ high' <= snd.next_seqno
  BY <1>1, <1>3, SMTT(60) DEF Greater, IInv, NearInv
<1>10. edge' \in Nat /\ edge' >= edge /\ a + ws <= edge' /\ edge' <= high' + MaxWin
  <2>1. edge <= high + MaxWin
    BY DEF IInv, NearInv
  <2>2. edge' = IF edge >= a + Greater(w, 1) THEN edge ELSE a + Greater(w, 1)
    BY <1>1 DEF Greater
  <2>3. /\ a \in Nat /\ ws \in Nat /\ Greater(w, 1) \in Nat /\ ws <= Greater(w, 1)
        /\ Greater(w, 1) <= MaxWin /\ MaxWin \in Nat /\ edge \in Nat /\ high \in Nat
        /\ high' \in Nat /\ high' >= high /\ high' >= a
    BY <1>1, <1>3, <1>5, <1>9
  <2> QED BY ONLY <2>1, <2>2, <2>3, EdgeMoves, SMTT(60)
<1>11. TypeOK'
  BY <1>1, <1>2, <1>3, <1>7, <1>9, <1>10 DEF TypeOK
<1>12. StreamInv' /\ TimerInv' /\ SeqnosUsedOnce'
  BY <1>1, <1>8 DEF IInv, StreamInv, TimerInv, SeqnosUsedOnce
<1>13. SynInv'
  BY <1>1, <1>3, <1>8 DEF IInv, SynInv
<1>14. QueueSame
  BY <1>1, <1>8 DEF QueueSame
<1>15. FirstInv'
  BY <1>1, <1>8 DEF IInv, FirstInv, End
<1>16. UnackedIsKept'
  <2>1. CASE starts = <<>>
    BY <1>1, <1>3, <1>8, <1>9, <2>1 DEF IInv, UnackedIsKept
  <2>2. CASE starts # <<>>
    <3>1. starts[1] \in Nat
      BY <1>3, <2>2, SMTT(60)
    <3> QED BY <1>1, <1>3, <1>9, <2>2, <3>1 DEF IInv, UnackedIsKept
  <2> QED BY <2>1, <2>2
<1>17. NearInv'
  BY <1>1, <1>2, <1>3, <1>5, <1>8, <1>9, <1>10, SMTT(60) DEF IInv, NearInv
<1>18. WindowRespected'
  BY <1>3, <1>8, <1>10, SMTT(60) DEF IInv, WindowRespected, Greater
<1> QED BY <1>8, <1>11, <1>12, <1>13, <1>14, <1>15, <1>16, <1>17, <1>18, QueueFrame, SentFrame, SMTT(60)
    DEF IInv
(* The seqno of the oldest outstanding segment is recovered likewise, so   *)
(* the loop of ack_received tests what it is meant to test.                *)
LEMMA HeadRecovered ==
  ASSUME IInv, pc = "ack", starts # <<>>
  PROVE  /\ 1 \in 1 .. Len(starts) /\ Head(snd.outstanding) = snd.outstanding[1]
         /\ End(1) \in Nat
         /\ AckMore(snd, abs_ackno) <=> End(1) <= abs_ackno
<1> USE SenderConstants, ModAssumption
<1> DEFINE seg == snd.outstanding[1]
           len == length_in_sequence_space(seg)
<1>1. /\ snd.recent_abs_ackno \in Nat /\ snd.next_seqno \in Nat /\ snd.isn \in Isns
      /\ high \in Nat /\ abs_ackno \in Nat /\ starts \in Seq(Nat)
      /\ snd.outstanding \in Seq(Segments)
  BY DEF IInv, TypeOK, Senders
<1>2. /\ 1 \in 1 .. Len(starts) /\ snd.outstanding # <<>>
      /\ Head(snd.outstanding) = snd.outstanding[1]
  BY <1>1, QueueFacts
<1>3. starts[1] \in Nat /\ len \in Nat \ {0} /\ End(1) = starts[1] + len
  BY <1>2, QueueFacts DEF End
<1>4. seg.seqno = wrap(starts[1], snd.isn) /\ len <= MaxWin + 1 /\ End(1) <= snd.next_seqno
      /\ End(1) > snd.recent_abs_ackno
  BY <1>2 DEF IInv, QueueIsContiguous, CarriesSeqno, LengthInv, FirstInv
<1>5. snd.next_seqno <= snd.recent_abs_ackno + MaxStale + MaxWin + 2
  BY DEF IInv, NearInv
<1> HIDE DEF len, seg
<1>6. 2 * Distance(starts[1], snd.recent_abs_ackno) < Mod
  <2>1. starts[1] <= snd.recent_abs_ackno + MaxStale + MaxWin + 2
    BY <1>1, <1>3, <1>4, <1>5, SMTT(60)
  <2>2. snd.recent_abs_ackno <= starts[1] + MaxStale + MaxWin + 2
    BY <1>1, <1>3, <1>4, SMTT(60)
  <2> QED BY <1>1, <1>3, <2>1, <2>2, NearIsClose, Zenon
<1>7. unwrap(seg.seqno, snd.isn, snd.recent_abs_ackno) = starts[1]
  BY <1>1, <1>3, <1>4, <1>6, UnwrapInvertsWrap
<1>8. abs_ackno <= snd.next_seqno
  BY <1>1 DEF IInv, NearInv
<1>9. AckMore(snd, abs_ackno) <=> starts[1] + len <= abs_ackno
  BY <1>2, <1>7, <1>8 DEF AckMore, len, seg
<1> QED BY <1>2, <1>3, <1>9

(* One round of the loop of ack_received. *)
LEMMA AckStepInv ==
  ASSUME IInv, AckStep
  PROVE  IInv'
<1> USE SenderConstants
<1> DEFINE len == length_in_sequence_space(Head(snd.outstanding))
           rest == Tail(snd.outstanding)
           bif == snd.bytes_in_flight - len
           n == Len(starts)
<1>1. /\ TypeOK /\ snd \in Senders /\ pc = "ack" /\ AckMore(snd, abs_ackno)
      /\ snd' = AckOne(snd) /\ starts' = Tail(starts)
      /\ UNCHANGED <<pc, abs_ackno, high, edge>>
  BY DEF IInv, TypeOK, AckStep
<1>2. /\ snd.recent_abs_ackno \in Nat /\ snd.next_seqno \in Nat /\ snd.isn \in Isns
      /\ high \in Nat /\ abs_ackno \in Nat /\ starts \in Seq(Nat)
      /\ snd.outstanding \in Seq(Segments) /\ snd.bytes_in_flight \in Nat
  BY <1>1 DEF TypeOK, Senders
<1>3. snd.outstanding # <<>> /\ starts # <<>> /\ n \in Nat /\ n = Len(snd.outstanding) /\ n >= 1
  BY <1>1, <1>2, QueueFacts DEF AckMore
<1>4. 1 \in 1 .. n /\ Head(snd.outstanding) = snd.outstanding[1] /\ End(1) \in Nat
      /\ End(1) <= abs_ackno
  BY <1>1, <1>3, HeadRecovered
<1>5. starts[1] \in Nat /\ len \in Nat \ {0} /\ End(1) = starts[1] + len
  BY <1>4, QueueFacts DEF End
<1>6. /\ rest \in Seq(Segments) /\ Len(rest) = n - 1
      /\ \A i \in 1 .. n - 1 : rest[i] = snd.outstanding[i + 1]
  BY <1>2, <1>3, HeadTailProperties
<1>7. /\ starts' \in Seq(Nat) /\ Len(starts') = n - 1
      /\ \A i \in 1 .. n - 1 : starts'[i] = starts[i + 1]
  BY <1>1, <1>2, <1>3, HeadTailProperties
<1>8. End(1) = IF n = 1 THEN snd.next_seqno ELSE starts[2]
  <2>1. End(1) = IF 1 = n THEN snd.next_seqno ELSE starts[1 + 1]
    BY <1>4, Zenon DEF IInv, QueueIsContiguous, End
  <2> QED BY <2>1
<1>9. starts' = <<>> <=> n = 1
  <2> HIDE DEF n
  <2>1. starts' = <<>> => Len(starts') = 0
    BY <1>7, EmptySeq
  <2>2. starts' # <<>> => Len(starts') # 0
    BY <1>7, EmptySeq
  <2> QED BY <1>3, <1>7, <2>1, <2>2
<1>10. ASSUME n # 1 PROVE starts'[1] = starts[2] /\ starts[2] \in Nat /\ 2 \in 1 .. n
  <2> HIDE DEF n
  <2>1. 1 \in 1 .. n - 1 /\ 2 \in 1 .. n
    <3>1. n \in Nat /\ n >= 1
      BY <1>3
    <3> QED BY <1>10, <3>1
  <2>2. starts'[1] = starts[1 + 1] /\ starts'[1] \in Nat
    BY <1>7, <2>1
  <2> QED BY <2>1, <2>2
<1>11. bif \in Nat /\ bif = IF starts' = <<>> THEN 0 ELSE snd.next_seqno - starts'[1]
  <2>1. snd.bytes_in_flight = snd.next_seqno - starts[1]
    BY <1>3 DEF IInv, QueueIsContiguous
  <2>2. End(1) <= snd.next_seqno
    BY <1>4 DEF IInv, LengthInv
  <2> HIDE DEF len, n
  <2>3. bif = snd.next_seqno - End(1) /\ bif \in Nat
    <3>1. snd.next_seqno \in Nat /\ starts[1] \in Nat /\ len \in Nat
      BY <1>2, <1>5
    <3>2. bif = snd.next_seqno - starts[1] - len
      BY <2>1
    <3> HIDE DEF bif
    <3> QED BY <1>5, <2>2, <3>1, <3>2
  <2> HIDE DEF bif
  <2>4. CASE n = 1
    BY <1>2, <1>8, <1>9, <2>3, <2>4
  <2>5. CASE n # 1
    BY <1>8, <1>9, <1>10, <2>3, <2>5
  <2> QED BY <2>4, <2>5
<1>12. snd' = [snd EXCEPT !.outstanding = rest, !.bytes_in_flight = bif,
                         !.RTO = snd.initial_RTO, !.consecutive_retransmissions = 0,
                         !.timer = TimerStarted]
  BY <1>1 DEF AckOne
<1> HIDE DEF rest, bif, len
<1>13. snd' \in Senders
  <2>1. TimerStarted \in [elapsed_time : Nat, if_run : BOOLEAN]
    BY DEF TimerStarted
  <2>2. snd.initial_RTO \in Nat \ {0} /\ 0 \in Nat
    BY <1>1 DEF Senders
  <2> QED BY <1>1, <1>6, <1>11, <1>12, <2>1, <2>2, ZenonT(60) DEF Senders
<1>14. /\ snd'.stream = snd.stream /\ snd'.outstanding = rest /\ snd'.isn = snd.isn
       /\ snd'.next_seqno = snd.next_seqno /\ snd'.is_fin_set = snd.is_fin_set
       /\ snd'.bytes_in_flight = bif /\ snd'.is_syn_set = snd.is_syn_set
       /\ snd'.recent_abs_ackno = snd.recent_abs_ackno
       /\ snd'.window_size = snd.window_size /\ snd'.timer = TimerStarted
       /\ snd'.segments_out = snd.segments_out
  BY <1>1, <1>12 DEF Senders
<1>15. TypeOK'
  BY <1>1, <1>2, <1>7, <1>13 DEF TypeOK
<1>16. StreamInv' /\ TimerInv' /\ SeqnosUsedOnce' /\ SynInv'
  BY <1>1, <1>14 DEF IInv, StreamInv, TimerInv, SeqnosUsedOnce, SynInv, TimerStarted
<1>17. QueueIsContiguous'
  <2>1. ASSUME NEW i \in 1 .. n - 1
        PROVE  /\ CarriesSeqno(snd', rest[i], starts'[i])
               /\ length_in_sequence_space(rest[i]) > 0
               /\ starts'[i] + length_in_sequence_space(rest[i])
                    = IF i = n - 1 THEN snd.next_seqno ELSE starts'[i + 1]
    <3>1. i + 1 \in 1 .. n /\ rest[i] = snd.outstanding[i + 1] /\ starts'[i] = starts[i + 1]
      BY <1>3, <1>6, <1>7, SMTT(60)
    <3>2. /\ CarriesSeqno(snd, rest[i], starts'[i])
          /\ length_in_sequence_space(rest[i]) > 0
          /\ starts'[i] + length_in_sequence_space(rest[i])
               = IF i + 1 = n THEN snd.next_seqno ELSE starts[i + 1 + 1]
      BY <3>1 DEF IInv, QueueIsContiguous
    <3>3. CarriesSeqno(snd', rest[i], starts'[i])
      BY <3>2, <1>14 DEF CarriesSeqno
    <3>4. ASSUME i # n - 1 PROVE starts'[i + 1] = starts[i + 1 + 1]
      <4> HIDE DEF n
      <4>1. i + 1 \in 1 .. n - 1
        BY <1>3, <3>4
      <4> QED BY <1>7, <4>1
    <3> QED BY <1>3, <3>2, <3>3, <3>4
  <2> QED BY <1>6, <1>7, <1>11, <1>14, <2>1, ZenonT(60) DEF QueueIsContiguous
<1>18. LengthInv'
  <2>1. ASSUME NEW i \in 1 .. n - 1
        PROVE  /\ length_in_sequence_space(rest[i]) <= MaxWin + 1
               /\ starts'[i] + length_in_sequence_space(rest[i]) <= snd.next_seqno
    <3>1. i + 1 \in 1 .. n /\ rest[i] = snd.outstanding[i + 1] /\ starts'[i] = starts[i + 1]
      BY <1>3, <1>6, <1>7, SMTT(60)
    <3> QED BY <3>1 DEF IInv, LengthInv, End
  <2> QED BY <1>7, <1>14, <2>1 DEF LengthInv, End
<1>19. FirstInv'
  <2> SUFFICES ASSUME starts' # <<>>
               PROVE  starts'[1] + length_in_sequence_space(rest[1]) > snd.recent_abs_ackno
    BY <1>14 DEF FirstInv, End
  <2>1. n # 1 /\ 2 \in 1 .. n /\ rest[1] = snd.outstanding[2]
    BY <1>3, <1>6, <1>9, <1>10
  <2>2. length_in_sequence_space(snd.outstanding[2]) \in Nat
    BY <2>1, QueueFacts
  <2>3. End(1) > snd.recent_abs_ackno
    BY <1>3 DEF IInv, FirstInv
  <2> QED BY <1>2, <1>8, <1>10, <2>1, <2>2, <2>3
<1>20. UnackedIsKept'
  <2>1. End(1) <= high
    BY <1>1, <1>2, <1>4 DEF IInv, NearInv
  <2> QED BY <1>1, <1>8, <1>9, <1>10, <1>14, <2>1 DEF UnackedIsKept
<1>21. NearInv' /\ WindowRespected'
  BY <1>1, <1>14, SMTT(60) DEF IInv, NearInv, WindowRespected
<1>22. SentIsGenuine'
  BY <1>14 DEF IInv, SentIsGenuine, IsGenuine, CarriesSeqno
<1> QED BY <1>15, <1>16, <1>17, <1>18, <1>19, <1>20, <1>21, <1>22 DEF IInv
(* ack_received returns. *)
LEMMA AckReturnInv ==
  ASSUME IInv, AckReturn
  PROVE  IInv'
<1> USE SenderConstants
<1> DEFINE t == IF snd.outstanding = <<>> THEN TimerStopped ELSE snd.timer
<1>1. /\ TypeOK /\ snd \in Senders /\ pc = "ack" /\ ~AckMore(snd, abs_ackno)
      /\ pc' = "idle" /\ abs_ackno' = 0 /\ UNCHANGED history
      /\ snd' = [snd EXCEPT !.recent_abs_ackno = abs_ackno, !.timer = t]
  BY DEF IInv, TypeOK, AckReturn, AckEnd
<1>2. /\ snd.next_seqno \in Nat /\ high \in Nat /\ abs_ackno \in Nat /\ edge \in Nat
      /\ snd.window_size \in Nat
  BY <1>1 DEF TypeOK, Senders
<1>3. t \in [elapsed_time : Nat, if_run : BOOLEAN]
  BY <1>1 DEF Senders, TimerStopped
<1>4. (snd.outstanding # <<>> => t.if_run) /\ (t.if_run => snd.outstanding # <<>>)
  <2>1. CASE snd.outstanding = <<>>
    BY <2>1 DEF TimerStopped
  <2>2. CASE snd.outstanding # <<>>
    BY <2>2 DEF IInv, TimerInv
  <2> QED BY <2>1, <2>2
<1> HIDE DEF t
<1>5. snd' \in Senders
  BY <1>1, <1>2, <1>3, ZenonT(60) DEF Senders
<1>6. /\ snd'.stream = snd.stream /\ snd'.outstanding = snd.outstanding /\ snd'.isn = snd.isn
      /\ snd'.next_seqno = snd.next_seqno /\ snd'.is_fin_set = snd.is_fin_set
      /\ snd'.bytes_in_flight = snd.bytes_in_flight /\ snd'.is_syn_set = snd.is_syn_set
      /\ snd'.recent_abs_ackno = abs_ackno
      /\ snd'.window_size = snd.window_size /\ snd'.timer = t
      /\ snd'.segments_out = snd.segments_out
  BY <1>1 DEF Senders
<1>7. TypeOK'
  BY <1>1, <1>5 DEF TypeOK, history
<1>8. StreamInv' /\ SeqnosUsedOnce'
  BY <1>6 DEF IInv, StreamInv, SeqnosUsedOnce
<1>9. TimerInv'
  BY <1>4, <1>6 DEF TimerInv
<1>10. SynInv'
  BY <1>1, <1>6 DEF IInv, SynInv
<1>11. QueueSame
  BY <1>1, <1>6 DEF QueueSame, history
<1>12. FirstInv'
  <2> SUFFICES ASSUME starts # <<>> PROVE End(1) > abs_ackno
    BY <1>1, <1>6 DEF FirstInv, End, history
  <2>1. End(1) \in Nat /\ ~(End(1) <= abs_ackno)
    BY <1>1, HeadRecovered
  <2> QED BY <1>2, <2>1
<1>13. UnackedIsKept' /\ WindowRespected'
  BY <1>1, <1>6 DEF IInv, UnackedIsKept, WindowRespected, history
<1>14. NearInv'
  <2>1. /\ high <= snd.next_seqno /\ edge <= high + MaxWin /\ snd.window_size <= MaxWin
        /\ abs_ackno <= high /\ high <= abs_ackno + MaxStale
        /\ abs_ackno + snd.window_size <= edge
    BY <1>1 DEF IInv, NearInv
  <2>2. snd.next_seqno <= edge \/ snd.next_seqno <= 2
    BY <1>2 DEF IInv, WindowRespected, Greater
  <2>3. snd.next_seqno <= abs_ackno + MaxStale + MaxWin + 2 /\ abs_ackno <= snd.next_seqno
    BY <1>2, <2>1, <2>2
  <2> QED BY <1>1, <1>6, <2>1, <2>3 DEF NearInv, history
<1> QED BY <1>6, <1>7, <1>8, <1>9, <1>10, <1>11, <1>12, <1>13, <1>14, QueueFrame, SentFrame
    DEF IInv
-----------------------------------------------------------------------------
(* The segment fill_window makes: where it starts, what it carries, and    *)
(* that it fits into the window.                                           *)
LEMMA NextSegmentFacts ==
  ASSUME IInv, pc # "ack", FillMore(snd),
         NEW seg, seg = NextSegment(snd), NEW w, w = pop_output(snd.stream, Len(seg.payload)),
         NEW len, len = length_in_sequence_space(seg)
  PROVE  /\ seg \in Segments /\ len \in Nat \ {0} /\ ~snd.is_fin_set
         /\ seg.seqno = wrap(snd.next_seqno, snd.isn) /\ (seg.syn <=> snd.next_seqno = 0)
         /\ seg.payload = Substring(snd.stream.num_read, Len(seg.payload))
         /\ len = Len(seg.payload) + (IF snd.next_seqno = 0 THEN 1 ELSE 0)
                   + (IF seg.fin THEN 1 ELSE 0)
         /\ len <= Room(snd) + (IF snd.next_seqno = 0 THEN 1 ELSE 0)
         /\ Room(snd) \in Nat
         /\ w \in ByteStreams(Capacity, Nat) /\ Genuine(w)
         /\ w.num_read = snd.stream.num_read + Len(seg.payload)
         /\ seg.fin => eof(w)
<1> USE SenderConstants
<1> DEFINE u == Unfinished(snd)
           k == Lesser(Room(snd), MAX_PAYLOAD_SIZE)
           pay == peek_output(snd.stream, k)
           l == Lesser(k, Len(snd.stream.buffer))
           f == TakesFin(snd, u)
           x == IF snd.next_seqno = 0 THEN 1 ELSE 0
           y == IF f THEN 1 ELSE 0
<1>1. /\ snd \in Senders /\ snd.stream \in ByteStreams(Capacity, Nat) /\ Genuine(snd.stream)
      /\ snd.next_seqno \in Nat /\ snd.recent_abs_ackno \in Nat
      /\ snd.window_size \in Nat \ {0} /\ snd.isn \in Isns
      /\ snd.is_syn_set \in BOOLEAN /\ snd.is_fin_set \in BOOLEAN
  BY DEF IInv, StreamInv, TypeOK, Senders
<1>2. snd.is_syn_set <=> snd.next_seqno > 0
  BY DEF IInv, SynInv
<1>3. Room(snd) \in Nat \ {0}
  <2>1. CASE ~snd.is_syn_set
    <3>1. snd.recent_abs_ackno = 0 /\ snd.window_size = 1 /\ snd.next_seqno = 0
      BY <1>1, <1>2, <2>1 DEF IInv, SynInv
    <3> QED BY <3>1 DEF Room
  <2>2. CASE snd.is_syn_set
    <3>1. snd.next_seqno < snd.recent_abs_ackno + snd.window_size
      BY <2>2 DEF FillMore, WindowOpen
    <3> QED BY <1>1, <3>1, SMTT(60) DEF Room
  <2> QED BY <2>1, <2>2
<1>4. k \in Nat /\ k <= Room(snd)
  BY <1>3, PayloadAssumption DEF Lesser
<1> HIDE DEF k
<1>5. /\ pay = Substring(snd.stream.num_read, l) /\ pay \in Seq(Nat)
      /\ Len(pay) = l /\ l \in Nat
  BY <1>1, <1>4, PeekGenuine, Zenon
<1>6. Len(snd.stream.buffer) \in Nat
  BY <1>1 DEF ByteStreams
<1>7. l <= Room(snd) /\ l <= Len(snd.stream.buffer) /\ l <= k
  <2>1. l <= k /\ l <= Len(snd.stream.buffer)
    BY <1>4, <1>6, SMTT(60) DEF Lesser
  <2> QED BY <1>3, <1>4, <1>5, <2>1
<1>8. u = [seqno |-> wrap(snd.next_seqno, snd.isn), syn |-> snd.next_seqno = 0, fin |-> FALSE,
           payload |-> pay]
  BY DEF Unfinished, k
<1> HIDE DEF pay, u
<1>9. u.payload = pay /\ u.fin = FALSE /\ u.seqno = wrap(snd.next_seqno, snd.isn)
      /\ u.syn = (snd.next_seqno = 0)
  BY <1>8
<1>10. f \in BOOLEAN /\ seg = [u EXCEPT !.fin = f]
  BY DEF NextSegment, TakesFin, u
<1>11. length_in_sequence_space(u) = l + x
  <2>1. length_in_sequence_space(u) = Len(pay) + x + 0
    BY <1>9, Zenon DEF length_in_sequence_space
  <2>2. x \in {0, 1}
    OBVIOUS
  <2> HIDE DEF l, x
  <2> QED BY <1>5, <2>1, <2>2
<1>12. f => eof(pop_output(snd.stream, l)) /\ ~snd.is_fin_set /\ Room(snd) > l + x
  BY <1>5, <1>9, <1>11 DEF TakesFin
<1> HIDE DEF f
<1>13. wrap(snd.next_seqno, snd.isn) \in WrappingInt
  BY <1>1, WrapType
<1>14. seg \in Segments
  BY <1>5, <1>8, <1>10, <1>13, Zenon DEF Segments
<1>15. seg.payload = pay /\ seg.fin = f /\ seg.seqno = wrap(snd.next_seqno, snd.isn)
       /\ seg.syn = (snd.next_seqno = 0)
  BY <1>8, <1>10
<1>16. Len(seg.payload) = l /\ len = l + x + y
  BY <1>5, <1>15, Zenon DEF length_in_sequence_space
<1>17. x \in {0, 1} /\ y \in {0, 1} /\ (f => y = 1) /\ (~f => y = 0)
  BY Zenon
<1> HIDE DEF l, x, y
<1>18. len \in Nat \ {0}
  <2>1. length_in_sequence_space(NextSegment(snd)) > 0
    BY DEF FillMore
  <2> QED BY <1>5, <1>16, <1>17, <2>1
<1>19. len <= Room(snd) + x
  <2>1. CASE f
    BY <2>1, <1>3, <1>5, <1>12, <1>16, <1>17
  <2>2. CASE ~f
    BY <2>2, <1>3, <1>5, <1>7, <1>16, <1>17, SMTT(60)
  <2> QED BY <2>1, <2>2
<1>20. /\ w \in ByteStreams(Capacity, Nat) /\ Genuine(w)
       /\ w.num_read = snd.stream.num_read + l /\ (f => eof(w))
  <2>1. w = pop_output(snd.stream, l)
    BY <1>16
  <2>2. Lesser(l, Len(snd.stream.buffer)) = l
    BY <1>7 DEF Lesser
  <2>3. /\ w \in ByteStreams(Capacity, Nat) /\ Genuine(w)
        /\ w.num_read = snd.stream.num_read + Lesser(l, Len(snd.stream.buffer))
    BY <1>1, <1>5, <2>1, PopGenuine
  <2> QED BY <1>12, <2>1, <2>2, <2>3
<1>21. ~snd.is_fin_set
  <2> SUFFICES ASSUME snd.is_fin_set PROVE FALSE
    OBVIOUS
  <2>1. snd.is_syn_set /\ snd.stream.buffer = <<>>
    BY DEF IInv, SeqnosUsedOnce, eof
  <2>2. snd.next_seqno # 0 /\ l = 0
    BY <1>1, <1>2, <1>5, <1>7, <2>1
  <2>3. x = 0 /\ y = 0
    BY <1>12, <1>17, <2>2 DEF x
  <2> QED BY <1>16, <1>18, <2>2, <2>3
<1> QED BY <1>3, <1>5, <1>14, <1>15, <1>16, <1>18, <1>19, <1>20, <1>21, Zenon DEF x, y
(* One round of fill_window. *)
LEMMA FillStepInv ==
  ASSUME IInv, FillStep
  PROVE  IInv'
<1> USE SenderConstants
<1> DEFINE seg == NextSegment(snd)
           len == length_in_sequence_space(seg)
           pl == Len(seg.payload)
           w == pop_output(snd.stream, pl)
           x == IF snd.next_seqno = 0 THEN 1 ELSE 0
           y == IF seg.fin THEN 1 ELSE 0
           sy == snd.is_syn_set \/ seg.syn
           fi == snd.is_fin_set \/ seg.fin
           out == Append(snd.segments_out, seg)
           q == Append(snd.outstanding, seg)
           b == snd.bytes_in_flight + len
           n == snd.next_seqno + len
           t == IF snd.timer.if_run THEN snd.timer ELSE TimerStarted
<1>1. /\ TypeOK /\ snd \in Senders /\ pc = "fill" /\ FillMore(snd)
      /\ starts' = Append(starts, snd.next_seqno)
      /\ UNCHANGED <<pc, abs_ackno, high, edge>>
      /\ snd' = FillOne(snd)
  BY DEF IInv, TypeOK, FillStep
<1>2. snd' = [snd EXCEPT !.stream = w, !.is_syn_set = sy, !.is_fin_set = fi,
                         !.segments_out = out, !.outstanding = q, !.bytes_in_flight = b,
                         !.next_seqno = n, !.timer = t]
  BY <1>1, SMTT(60) DEF FillOne
<1>3. /\ seg \in Segments /\ len \in Nat \ {0} /\ ~snd.is_fin_set
      /\ seg.seqno = wrap(snd.next_seqno, snd.isn) /\ (seg.syn <=> snd.next_seqno = 0)
      /\ seg.payload = Substring(snd.stream.num_read, pl)
      /\ len = pl + x + y /\ len <= Room(snd) + x /\ Room(snd) \in Nat
      /\ w \in ByteStreams(Capacity, Nat) /\ Genuine(w)
      /\ w.num_read = snd.stream.num_read + pl
      /\ (seg.fin => eof(w))
  BY <1>1, NextSegmentFacts, Zenon
<1>4. pl \in Nat /\ seg.fin \in BOOLEAN /\ seg.syn \in BOOLEAN
  BY <1>3 DEF Segments
<1>5. /\ x \in {0, 1} /\ y \in {0, 1} /\ (fi <=> seg.fin) /\ (seg.fin => y = 1)
      /\ (~seg.fin => y = 0) /\ (snd.next_seqno = 0 => x = 1) /\ (snd.next_seqno # 0 => x = 0)
  BY <1>3, Zenon
<1>6. /\ snd.next_seqno \in Nat /\ snd.recent_abs_ackno \in Nat /\ snd.window_size \in Nat
      /\ snd.bytes_in_flight \in Nat /\ snd.stream.num_read \in Nat
      /\ snd.is_syn_set \in BOOLEAN /\ snd.isn \in Isns
      /\ snd.outstanding \in Seq(Segments) /\ starts \in Seq(Nat)
      /\ high \in Nat /\ edge \in Nat
  BY <1>1, SMTT(60) DEF TypeOK, Senders, ByteStreams
<1>7. sy \in BOOLEAN /\ fi \in BOOLEAN /\ sy
  <2>1. snd.is_syn_set <=> snd.next_seqno > 0
    BY DEF IInv, SynInv
  <2>2. snd.next_seqno = 0 \/ snd.next_seqno > 0
    BY <1>6, SMTT(60)
  <2>3. sy
    BY <1>3, <2>1, <2>2, Zenon
  <2>4. fi \in BOOLEAN
    BY Zenon
  <2> QED BY <2>3, <2>4, Zenon
<1>8. t \in [elapsed_time : Nat, if_run : BOOLEAN] /\ t.if_run
  BY <1>1 DEF Senders, TimerStarted
<1>9. /\ q \in Seq(Segments) /\ out \in Seq(Segments) /\ Len(q) = Len(snd.outstanding) + 1
      /\ q[Len(snd.outstanding) + 1] = seg
      /\ \A i \in 1 .. Len(snd.outstanding) : q[i] = snd.outstanding[i]
  <2>1. /\ snd.segments_out \in Seq(Segments) /\ snd.outstanding \in Seq(Segments)
        /\ seg \in Segments
    BY <1>1, <1>3, <1>6 DEF Senders
  <2> HIDE DEF seg
  <2>2. /\ q \in Seq(Segments) /\ Len(q) = Len(snd.outstanding) + 1
        /\ q[Len(snd.outstanding) + 1] = seg
        /\ \A i \in 1 .. Len(snd.outstanding) : q[i] = snd.outstanding[i]
    BY ONLY <2>1, AppendProperties DEF q
  <2>3. out \in Seq(Segments)
    BY ONLY <2>1, AppendProperties, SMTT(60) DEF out
  <2> QED BY <2>2, <2>3
<1>10. /\ starts' \in Seq(Nat) /\ Len(starts') = Len(starts) + 1
       /\ starts'[Len(starts) + 1] = snd.next_seqno
       /\ \A i \in 1 .. Len(starts) : starts'[i] = starts[i]
  <2>1. starts \in Seq(Nat) /\ snd.next_seqno \in Nat /\ starts' = Append(starts, snd.next_seqno)
    BY <1>1, <1>6, Zenon
  <2> QED BY ONLY <2>1, AppendProperties, SMTT(60)
<1>11. /\ n \in Nat /\ n > snd.next_seqno /\ b \in Nat /\ n = snd.next_seqno + len
       /\ b = snd.bytes_in_flight + len
  <2>1. len \in Nat \ {0} /\ snd.next_seqno \in Nat /\ snd.bytes_in_flight \in Nat
    BY <1>3, <1>6, Zenon
  <2> HIDE DEF len
  <2> QED BY ONLY <2>1, SMTT(60) DEF n, b
<1>12. out = Append(snd.segments_out, seg) /\ len = length_in_sequence_space(seg)
  OBVIOUS
<1> HIDE DEF seg, len, pl, w, x, y, sy, fi, out, q, b, n, t
<1>13. snd' \in Senders
  <2>1. /\ snd \in Senders /\ w \in ByteStreams(Capacity, Nat) /\ sy \in BOOLEAN
        /\ fi \in BOOLEAN /\ out \in Seq(Segments) /\ q \in Seq(Segments)
        /\ b \in Nat /\ n \in Nat /\ t \in [elapsed_time : Nat, if_run : BOOLEAN]
    BY <1>1, <1>3, <1>7, <1>8, <1>9, <1>11
  <2> HIDE SenderConstants
  <2> QED BY <2>1, <1>2, ZenonT(60) DEF Senders
<1>14. /\ snd'.stream = w /\ snd'.is_syn_set = sy /\ snd'.is_fin_set = fi
       /\ snd'.segments_out = out /\ snd'.outstanding = q /\ snd'.bytes_in_flight = b
       /\ snd'.next_seqno = n /\ snd'.timer = t /\ snd'.isn = snd.isn
       /\ snd'.recent_abs_ackno = snd.recent_abs_ackno /\ snd'.window_size = snd.window_size
  BY <1>1, <1>2 DEF Senders
<1>15. TypeOK'
  BY <1>1, <1>10, <1>13, SMTT(60) DEF TypeOK
<1>16. StreamInv'
  BY <1>3, <1>14 DEF StreamInv
<1>17. Len(starts) = Len(snd.outstanding) /\ Len(starts) \in Nat
  BY QueueFacts
<1>18. TimerInv'
  <2>1. q # <<>>
    BY <1>9, <1>17
  <2> QED BY <2>1, <1>8, <1>14 DEF TimerInv
<1>19. SynInv'
  BY <1>6, <1>7, <1>11, <1>14 DEF SynInv
<1>20. snd.next_seqno = (1 - x) + snd.stream.num_read
  <2>1. snd.is_syn_set <=> snd.next_seqno > 0
    BY DEF IInv, SynInv
  <2>2. CASE snd.is_syn_set
    <3>1. snd.next_seqno = 1 + snd.stream.num_read + 0
      BY <1>3, <2>2, ZenonT(60) DEF IInv, SeqnosUsedOnce
    <3> QED BY <1>5, <1>6, <2>1, <2>2, <3>1
  <2>3. CASE ~snd.is_syn_set
    <3>1. snd.next_seqno = 0 + snd.stream.num_read + 0
      BY <1>3, <2>3, ZenonT(60) DEF IInv, SeqnosUsedOnce
    <3> QED BY <1>5, <1>6, <2>1, <2>3, <3>1
  <2> QED BY <1>6, <2>2, <2>3
<1>21. SeqnosUsedOnce'
  <2>1. n = 1 + w.num_read + y
    <3>1. /\ len = pl + x + y /\ w.num_read = snd.stream.num_read + pl
          /\ x \in {0, 1} /\ y \in {0, 1} /\ pl \in Nat /\ snd.stream.num_read \in Nat
          /\ n = snd.next_seqno + len /\ snd.next_seqno = (1 - x) + snd.stream.num_read
      BY <1>3, <1>4, <1>5, <1>6, <1>11, <1>20
    <3> QED BY ONLY <3>1, SMTT(60)
  <2>2. y = (IF fi THEN 1 ELSE 0) /\ (fi => sy /\ eof(w))
    BY <1>3, <1>5, <1>7, Zenon
  <2>3. 1 = (IF sy THEN 1 ELSE 0)
    BY <1>7, Zenon
  <2>4. n = (IF sy THEN 1 ELSE 0) + w.num_read + (IF fi THEN 1 ELSE 0)
    BY <2>1, <2>2, <2>3, Zenon
  <2> QED BY <2>2, <2>4, <1>14 DEF SeqnosUsedOnce
<1>22. CarriesSeqno(snd', seg, snd.next_seqno)
  <2>1. snd.stream.num_read = IF snd.next_seqno = 0 THEN 0 ELSE snd.next_seqno - 1
    BY <1>5, <1>6, <1>20, SMTT(60)
  <2>2. seg.payload = Substring(IF snd.next_seqno = 0 THEN 0 ELSE snd.next_seqno - 1,
                                Len(seg.payload))
    BY <1>3, <2>1, Zenon DEF pl
  <2>3. seg.fin => snd'.is_fin_set
                   /\ snd.next_seqno + length_in_sequence_space(seg) = snd'.next_seqno
    BY <1>5, <1>11, <1>12, <1>14
  <2> QED BY <1>3, <1>14, <2>2, <2>3, ZenonT(60) DEF CarriesSeqno
<1>23. /\ len <= MaxWin + 1 /\ n <= snd.recent_abs_ackno + snd.window_size + x
       /\ snd.recent_abs_ackno <= snd.next_seqno /\ snd.window_size <= MaxWin
       /\ n <= snd.recent_abs_ackno + MaxStale + MaxWin + 2
  <2>1. /\ len <= Room(snd) + x /\ x \in {0, 1} /\ n = snd.next_seqno + len
        /\ snd.recent_abs_ackno <= snd.next_seqno /\ snd.window_size <= MaxWin
        /\ snd.next_seqno \in Nat /\ snd.recent_abs_ackno \in Nat /\ snd.window_size \in Nat
        /\ len \in Nat
    BY <1>3, <1>5, <1>6, <1>11, SMTT(60) DEF IInv, NearInv
  <2> QED BY <2>1, SMTT(60) DEF Room
<1>31. /\ snd.next_seqno \in Nat /\ snd.recent_abs_ackno \in Nat /\ snd.window_size \in Nat
        /\ snd.bytes_in_flight \in Nat /\ high \in Nat /\ edge \in Nat /\ len \in Nat
        /\ len > 0 /\ n \in Nat /\ n = snd.next_seqno + len /\ b = snd.bytes_in_flight + len
        /\ snd.recent_abs_ackno <= snd.next_seqno /\ high <= snd.next_seqno
        /\ n <= snd.recent_abs_ackno + snd.window_size + x
  BY <1>3, <1>6, <1>11, <1>23, SMTT(60) DEF IInv, NearInv
<1>24. \A i \in 1 .. Len(starts') :
         /\ CarriesSeqno(snd', q[i], starts'[i])
         /\ length_in_sequence_space(q[i]) > 0
         /\ length_in_sequence_space(q[i]) <= MaxWin + 1
         /\ starts'[i] + length_in_sequence_space(q[i])
              = IF i = Len(starts') THEN n ELSE starts'[i + 1]
         /\ starts'[i] + length_in_sequence_space(q[i]) <= n
  <2> TAKE i \in 1 .. Len(starts')
  <2>1. CASE i = Len(starts) + 1
    <3>1. q[i] = seg /\ starts'[i] = snd.next_seqno /\ i = Len(starts')
      BY <2>1, <1>9, <1>10, <1>17, SMTT(60)
    <3>2. len > 0 /\ len <= MaxWin + 1 /\ n <= n
      BY <1>3, <1>11, <1>23, SMTT(60)
    <3> QED BY <3>1, <3>2, <1>11, <1>12, <1>22
  <2>2. CASE i # Len(starts) + 1
    <3>1. /\ i \in 1 .. Len(starts) /\ i # Len(starts')
          /\ q[i] = snd.outstanding[i] /\ starts'[i] = starts[i]
      BY <2>2, <1>9, <1>10, <1>17, SMTT(60)
    <3>2. /\ CarriesSeqno(snd, q[i], starts[i])
          /\ length_in_sequence_space(q[i]) > 0
          /\ starts[i] + length_in_sequence_space(q[i])
               = IF i = Len(starts) THEN snd.next_seqno ELSE starts[i + 1]
      BY <3>1 DEF IInv, QueueIsContiguous
    <3>3. /\ length_in_sequence_space(q[i]) <= MaxWin + 1
          /\ starts[i] + length_in_sequence_space(q[i]) <= snd.next_seqno
      BY <3>1 DEF IInv, LengthInv, End
    <3>4. starts[i] + length_in_sequence_space(q[i]) = starts'[i + 1]
      <4>1. CASE i = Len(starts)
        BY <3>2, <4>1, <1>10
      <4>2. CASE i # Len(starts)
        <5>1. i + 1 \in 1 .. Len(starts)
          BY <3>1, <4>2, <1>17
        <5> QED BY <3>2, <4>2, <5>1, <1>10
      <4> QED BY <4>1, <4>2
    <3>5. starts[i] + length_in_sequence_space(q[i]) <= n
      <4>1. starts[i] \in Nat /\ length_in_sequence_space(q[i]) \in Nat
        BY <3>1, QueueFacts
      <4> QED BY ONLY <4>1, <3>3, <1>31, SMTT(60)
    <3>6. CarriesSeqno(snd', q[i], starts[i])
      BY <3>2, <1>3, <1>14 DEF CarriesSeqno
    <3> QED BY <3>1, <3>2, <3>3, <3>4, <3>5, <3>6, SMTT(60)
  <2> QED BY <2>1, <2>2
<1>25. b = n - starts'[1] /\ starts'[1] <= high /\ starts' # <<>>
       /\ starts'[1] + length_in_sequence_space(q[1]) > snd.recent_abs_ackno
  <2>1. CASE starts = <<>>
    <3>1. starts'[1] = snd.next_seqno /\ q[1] = seg
      BY <2>1, <1>9, <1>10, <1>17
    <3>2. snd.bytes_in_flight = 0 /\ snd.next_seqno <= high
      BY <2>1 DEF IInv, QueueIsContiguous, UnackedIsKept
    <3>3. /\ b = n - snd.next_seqno
          /\ snd.next_seqno + len > snd.recent_abs_ackno
      BY ONLY <3>2, <1>31
    <3>4. starts' # <<>>
      BY <1>10, <1>17
    <3> QED BY <3>1, <3>2, <3>3, <3>4, <1>12
  <2>2. CASE starts # <<>>
    <3>1. 1 \in 1 .. Len(starts)
      BY <2>2, <1>6, <1>17
    <3>2. starts'[1] = starts[1] /\ q[1] = snd.outstanding[1] /\ starts[1] \in Nat
      BY <3>1, <1>9, <1>10, <1>17, QueueFacts, SMTT(60)
    <3>3. snd.bytes_in_flight = snd.next_seqno - starts[1] /\ starts[1] <= high
          /\ starts[1] + length_in_sequence_space(q[1]) > snd.recent_abs_ackno
      BY <2>2, <3>2 DEF IInv, QueueIsContiguous, UnackedIsKept, FirstInv, End
    <3>4. b = n - starts[1]
      BY ONLY <3>2, <3>3, <1>31, SMTT(60)
    <3> QED BY <3>2, <3>3, <3>4, <1>10, <1>17
  <2> QED BY <2>1, <2>2
<1>26. QueueIsContiguous'
  BY <1>9, <1>10, <1>14, <1>17, <1>24, <1>25, SMTT(60) DEF QueueIsContiguous
<1>27. LengthInv' /\ FirstInv' /\ UnackedIsKept'
  BY <1>1, <1>14, <1>24, <1>25, SMTT(60) DEF LengthInv, FirstInv, UnackedIsKept, End
<1>28. NearInv'
  <2>1. snd.recent_abs_ackno <= n /\ high <= n
    BY ONLY <1>31
  <2> QED BY <2>1, <1>1, <1>14, <1>23 DEF IInv, NearInv
<1>29. WindowRespected'
  <2>1. snd.recent_abs_ackno + snd.window_size <= edge
    BY <1>1, SMTT(60) DEF IInv, NearInv
  <2>2. CASE snd.next_seqno = 0
    <3>1. snd.recent_abs_ackno = 0 /\ snd.window_size = 1
      BY <2>2 DEF IInv, SynInv
    <3>2. n <= 2
      BY <2>2, <3>1, <1>5, <1>11, <1>23, SMTT(60)
    <3> QED BY <3>2, <1>1, <1>6, <1>11, <1>14, SMTT(60) DEF WindowRespected, Greater
  <2>3. CASE snd.next_seqno # 0
    <3>1. n <= edge
      <4>1. x = 0
        BY <2>3, <1>5, SMTT(60)
      <4> QED BY ONLY <2>1, <4>1, <1>31
    <3> QED BY <3>1, <1>1, <1>6, <1>11, <1>14 DEF WindowRespected, Greater
  <2> QED BY <2>2, <2>3
<1>30. SentIsGenuine'
  <2>1. snd.next_seqno \in 0 .. snd'.next_seqno /\ snd'.next_seqno \in Nat
        /\ snd.next_seqno <= snd'.next_seqno
    BY <1>6, <1>11, <1>14
  <2>2. IsGenuine(snd', seg, snd.next_seqno)
    BY <1>22 DEF IsGenuine
  <2> QED BY <1>3, <1>12, <1>14, <2>1, <2>2, SentAppend, ZenonT(60)
<1> QED BY <1>15, <1>16, <1>18, <1>19, <1>21, <1>26, <1>27, <1>28, <1>29, <1>30 DEF IInv
-----------------------------------------------------------------------------
(* Every step keeps the invariant. *)
LEMMA NextInv == IInv /\ [Next]_vars => IInv'
<1> SUFFICES ASSUME IInv, [Next]_vars PROVE IInv'
  OBVIOUS
<1>1. ASSUME NEW n \in 1 .. Capacity, Write(n) PROVE IInv'
  BY <1>1, WriteInv
<1>2. CASE EndInput
  BY <1>2, EndInputInv
<1>3. CASE Collect
  BY <1>3, CollectInv
<1>4. CASE FillCall \/ FillReturn
  BY <1>4, FillCallInv
<1>5. CASE FillStep
  BY <1>5, FillStepInv
<1>6. ASSUME NEW a \in 1 .. StreamLen + 2, NEW w \in 0 .. MaxWin, AckCall(a, w) PROVE IInv'
  BY <1>6, AckCallInv
<1>7. CASE AckStep
  BY <1>7, AckStepInv
<1>8. CASE AckReturn
  BY <1>8, AckReturnInv
<1>9. CASE Tick
  BY <1>9, TickInv
<1>10. CASE SendEmpty
  BY <1>10, SendEmptyInv
<1>11. CASE UNCHANGED vars
  <2>1. /\ snd' = snd /\ pc' = pc /\ abs_ackno' = abs_ackno /\ starts' = starts
        /\ high' = high /\ edge' = edge
    BY <1>11 DEF vars
  <2>2. QueueSame /\ AcksSame
    BY <2>1, SMTT(60) DEF QueueSame, AcksSame
  <2>3. TypeOK' /\ StreamInv' /\ TimerInv' /\ SeqnosUsedOnce'
    BY <2>1 DEF IInv, TypeOK, StreamInv, TimerInv, SeqnosUsedOnce
  <2> QED BY <2>1, <2>2, <2>3, QueueFrame, SentFrame, AcksFrame DEF IInv
<1> QED BY <1>1, <1>2, <1>3, <1>4, <1>5, <1>6, <1>7, <1>8, <1>9, <1>10, <1>11 DEF Next

(* The invariant implies that a FIN reported as acknowledged means that    *)
(* nothing is outstanding and the peer has acknowledged everything.        *)
LEMMA FinAckedFromInv == IInv => FinAckedIsAll
<1> SUFFICES ASSUME IInv, pc = "idle", is_fin_acked(snd)
             PROVE  snd.outstanding = <<>> /\ high = snd.next_seqno
  BY DEF FinAckedIsAll
<1>1. snd.next_seqno = snd.recent_abs_ackno
  BY DEF is_fin_acked
<1>2. snd.next_seqno \in Nat /\ high \in Nat
  BY DEF IInv, TypeOK, Senders
<1>3. high = snd.next_seqno
  BY <1>1, <1>2 DEF IInv, NearInv
<1>4. starts = <<>>
  <2> SUFFICES ASSUME starts # <<>> PROVE FALSE
    OBVIOUS
  <2>1. 1 \in 1 .. Len(starts)
    <3>1. starts \in Seq(Nat)
      BY DEF IInv, TypeOK
    <3> QED BY <3>1
  <2>2. End(1) > snd.recent_abs_ackno /\ End(1) <= snd.next_seqno
    BY <2>1 DEF IInv, FirstInv, LengthInv
  <2>3. End(1) \in Nat
    <3>1. starts[1] \in Nat /\ length_in_sequence_space(snd.outstanding[1]) \in Nat
      BY <2>1, QueueFacts
    <3> QED BY ONLY <3>1 DEF End
  <2> QED BY <1>1, <1>2, <2>2, <2>3
<1> QED BY <1>3, <1>4, QueueFacts

(* The invariant holds throughout: for every stream, capacity, payload and *)
(* window size, as long as windows and late acknos stay within half of the *)
(* sequence space, the sender keeps all of what the properties below say.  *)
THEOREM SenderInvariant == Spec => []IInv
<1>1. Init => IInv
  BY InitInv
<1>2. IInv /\ [Next]_vars => IInv'
  BY NextInv
<1> QED BY <1>1, <1>2, PTL DEF Spec

(* The members of TCPSender keep their types; the counters never go below  *)
(* zero (bytes_in_flight is decremented by tcp_sender.cc:84).              *)
THEOREM SenderTypes == Spec => []TypeOK
<1>1. IInv => TypeOK
  BY DEF IInv
<1> QED BY <1>1, SenderInvariant, PTL

(* tick() never takes the front of an empty queue, and no unacknowledged   *)
(* segment is left without a running timer.                                *)
THEOREM SenderTimer == Spec => []TimerGuardsQueue
<1>1. IInv => TimerGuardsQueue
  BY DEF IInv, TimerInv, TimerGuardsQueue, TypeOK, Senders
<1> QED BY <1>1, SenderInvariant, PTL

(* fill_window gives every number of the sequence space out exactly once   *)
(* and nothing after the FIN.                                              *)
THEOREM SenderNumbers == Spec => []SeqnosUsedOnce
<1>1. IInv => SeqnosUsedOnce
  BY DEF IInv
<1> QED BY <1>1, SenderInvariant, PTL

(* The outstanding segments are consecutive, carry their own bytes and add *)
(* up to bytes_in_flight.                                                  *)
THEOREM SenderQueue == Spec => []QueueIsContiguous
<1>1. IInv => QueueIsContiguous
  BY DEF IInv
<1> QED BY <1>1, SenderInvariant, PTL

(* No segment that the peer lacks has been dropped from the queue, however *)
(* late the acknos came.                                                   *)
THEOREM SenderKeeps == Spec => []UnackedIsKept
<1>1. IInv => UnackedIsKept
  BY DEF IInv
<1> QED BY <1>1, SenderInvariant, PTL

(* fill_window stays within the largest window the peer has advertised.    *)
THEOREM SenderWindow == Spec => []WindowRespected
<1>1. IInv => WindowRespected
  BY DEF IInv
<1> QED BY <1>1, SenderInvariant, PTL

(* Whatever is put into segments_out, by fill_window, tick or              *)
(* send_empty_segment, is a piece of the stream at its own place.          *)
THEOREM SenderGenuine == Spec => []SentIsGenuine
<1>1. IInv => SentIsGenuine
  BY DEF IInv
<1> QED BY <1>1, SenderInvariant, PTL

(* is_fin_acked tells the connection the truth. *)
THEOREM SenderFin == Spec => []FinAckedIsAll
<1>1. IInv => FinAckedIsAll
  BY FinAckedFromInv
<1> QED BY <1>1, SenderInvariant, PTL
=============================================================================
