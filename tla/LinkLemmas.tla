----------------------------- MODULE LinkLemmas -----------------------------
(***************************************************************************)
(* What the methods of a TCPSender keep of the relation Link between the   *)
(* sender of an endpoint and the receiver of its peer, for every capacity  *)
(* and payload size and every size Mod of the sequence space, as long as   *)
(* the stream is shorter than half of it.                                  *)
(***************************************************************************)
EXTENDS TCPConnection, TCPLemmas

(* The values of the objects. *)
Segments == [seqno : WrappingInt, syn : BOOLEAN, fin : BOOLEAN, payload : Seq(Nat)]

Packets == [seqno : WrappingInt, syn : BOOLEAN, fin : BOOLEAN, payload : Seq(Nat),
            rst : BOOLEAN, ack : BOOLEAN, ackno : WrappingInt, win : Nat]

Senders ==
    [isn : WrappingInt, stream : ByteStreams(Capacity, Nat), next_seqno : Nat,
     segments_out : Seq(Segments), outstanding : Seq(Segments),
     bytes_in_flight : Nat, is_syn_set : BOOLEAN, is_fin_set : BOOLEAN,
     recent_abs_ackno : Nat, window_size : Nat \ {0},
     is_window_size_0 : BOOLEAN, initial_RTO : Nat, RTO : Nat,
     consecutive_retransmissions : Nat,
     timer : [elapsed_time : Nat, if_run : BOOLEAN]]

Receivers ==
    [reassembler : Reassemblers(Capacity), capacity : {Capacity}, isn : WrappingInt,
     if_syn_set : BOOLEAN, if_fin_set : BOOLEAN, abs_checkpoint : Nat, abs_seqno_fin : Nat]

Connections ==
    [receiver : Receivers, sender : Senders, segments_out : Seq(Packets),
     linger : BOOLEAN, active : BOOLEAN, time_since_last_segment : Nat]
-----------------------------------------------------------------------------
(* The index in the stream of the first byte of a segment with absolute    *)
(* seqno k.                                                                *)
Index(k) == IF k = 0 THEN 0 ELSE k - 1

(* seg is what sender s has at absolute seqno k. *)
Carries(s, seg, k) ==
    /\ seg.seqno = wrap(k, s.isn)
    /\ seg.syn <=> k = 0
    /\ seg.payload = Substring(Index(k), Len(seg.payload))
    /\ Index(k) + Len(seg.payload) <= s.stream.num_read
    /\ k + length_in_sequence_space(seg) <= s.next_seqno
    /\ seg.fin => s.is_fin_set /\ k + length_in_sequence_space(seg) = s.next_seqno

(* seg was made by sender s, now or earlier. *)
IsFrom(s, seg) ==
    length_in_sequence_space(seg) = 0 \/ \E k \in 0 .. s.next_seqno : Carries(s, seg, k)

(* The numbers a sender has used: one for the SYN, one for each byte taken *)
(* from the stream, one for the FIN.  The whole stream fits into less than *)
(* half of the sequence space.                                             *)
Numbered(s) ==
    /\ Genuine(s.stream) /\ 2 * (s.stream.num_written + 2) < Mod
    /\ s.is_syn_set <=> s.next_seqno > 0
    /\ s.next_seqno = s.stream.num_read + (IF s.is_syn_set THEN 1 ELSE 0)
                      + (IF s.is_fin_set THEN 1 ELSE 0)
    /\ s.is_fin_set => s.is_syn_set /\ eof(s.stream)
    /\ s.recent_abs_ackno <= s.next_seqno

(* The outstanding segments follow one another up to next_seqno.           *)
Contiguous(s, st) ==
    /\ st[1] = s.next_seqno - s.bytes_in_flight
    /\ st[Len(s.outstanding) + 1] = s.next_seqno
    /\ \A i \in 1 .. Len(s.outstanding) :
          /\ Carries(s, s.outstanding[i], st[i])
          /\ st[i + 1] = st[i] + length_in_sequence_space(s.outstanding[i])

Queued(s) ==
    \E st \in [1 .. Len(s.outstanding) + 1 -> 0 .. s.next_seqno] : Contiguous(s, st)

Outbox(s) == \A i \in 1 .. Len(s.segments_out) : IsFrom(s, s.segments_out[i])

(* What sender s may have heard from its peer's receiver r: nothing before *)
(* r has the SYN, and no ackno beyond that of r.                           *)
Heard(s, r) ==
    IF r.if_syn_set THEN s.next_seqno - s.bytes_in_flight <= abs_ackno(r)
    ELSE /\ s.recent_abs_ackno = 0 /\ s.window_size = 1
         /\ s.bytes_in_flight = s.next_seqno /\ ~s.is_fin_set

(* Receiver r has nothing but what sender s has sent. *)
Tracks(r, s) ==
    /\ Sound(r.reassembler, Capacity)
    /\ r.if_syn_set => s.is_syn_set /\ r.isn = s.isn
    /\ r.if_fin_set => r.if_syn_set /\ s.is_fin_set
    /\ r.abs_seqno_fin = IF r.if_fin_set THEN s.next_seqno - 1 ELSE 0
    /\ r.abs_checkpoint <= s.next_seqno
    /\ r.reassembler.next_index <= s.stream.num_read
    /\ \A k \in DOMAIN r.reassembler.unassembled : k < s.stream.num_read

(* One direction: sender s and the receiver r at the other end. *)
Link(s, r) ==
    /\ s \in Senders /\ r \in Receivers
    /\ Numbered(s) /\ Queued(s) /\ Outbox(s) /\ Heard(s, r) /\ Tracks(r, s)

(* Between calls the timer runs only while something is outstanding. *)
TimerOk(s) == s.timer.if_run => s.outstanding # <<>>

(* Segment seg was sent by an endpoint with sender s and receiver r. *)
InTransit(seg, s, r) ==
    /\ seg \in Packets /\ IsFrom(s, seg)
    /\ seg.ack => r.if_syn_set /\ \E a \in 0 .. abs_ackno(r) : seg.ackno = wrap(a, r.isn)

(* Connection c and its peer d. *)
Paired(c, d) ==
    /\ c \in Connections
    /\ Link(c.sender, d.receiver) /\ TimerOk(c.sender)
    /\ \A i \in 1 .. Len(c.segments_out) : InTransit(c.segments_out[i], c.sender, c.receiver)

-----------------------------------------------------------------------------
(* The numbers, and what was sent, are only ever added to. *)
Grows(s, t) ==
    /\ t.isn = s.isn /\ s.next_seqno <= t.next_seqno
    /\ s.stream.num_read <= t.stream.num_read
    /\ s.is_fin_set => t.is_fin_set /\ t.next_seqno = s.next_seqno

Progresses(r, q) ==
    r.if_syn_set => q.if_syn_set /\ q.isn = r.isn /\ abs_ackno(r) <= abs_ackno(q)

(* wrap gives a sequence number. *)
LEMMA WrapType ==
  ASSUME NEW n \in Nat, NEW isn \in WrappingInt
  PROVE  wrap(n, isn) \in WrappingInt
<1>1. n % Mod \in Int /\ isn + (n % Mod) \in Int
  BY ModRange, ModAssumption DEF WrappingInt
<1> QED BY <1>1, ModRange DEF wrap, plus, WrappingInt

(* The length of a segment, taken apart. *)
LEMMA LengthFacts ==
  ASSUME NEW seg, seg.payload \in Seq(Nat), seg.syn \in BOOLEAN, seg.fin \in BOOLEAN
  PROVE  /\ length_in_sequence_space(seg) \in Nat /\ Len(seg.payload) \in Nat
         /\ Len(seg.payload) <= length_in_sequence_space(seg)
         /\ seg.syn => length_in_sequence_space(seg) >= Len(seg.payload) + 1
         /\ seg.fin => length_in_sequence_space(seg) >= Len(seg.payload) + 1
         /\ seg.syn /\ seg.fin => length_in_sequence_space(seg) = Len(seg.payload) + 2
         /\ ~seg.syn /\ seg.fin => length_in_sequence_space(seg) = Len(seg.payload) + 1
         /\ seg.syn /\ ~seg.fin => length_in_sequence_space(seg) = Len(seg.payload) + 1
         /\ ~seg.syn /\ ~seg.fin => length_in_sequence_space(seg) = Len(seg.payload)
<1>1. Len(seg.payload) \in Nat
  OBVIOUS
<1>2. CASE seg.syn /\ seg.fin
  BY <1>1, <1>2 DEF length_in_sequence_space
<1>3. CASE ~seg.syn /\ seg.fin
  BY <1>1, <1>3 DEF length_in_sequence_space
<1>4. CASE seg.syn /\ ~seg.fin
  BY <1>1, <1>4 DEF length_in_sequence_space
<1>5. CASE ~seg.syn /\ ~seg.fin
  BY <1>1, <1>5 DEF length_in_sequence_space
<1> QED BY <1>2, <1>3, <1>4, <1>5

(* A sender that does nothing has grown by nothing. *)
LEMMA GrowsSelf ==
  ASSUME NEW s \in Senders
  PROVE  Grows(s, s)
BY DEF Grows, Senders, ByteStreams

(* Growth is transitive. *)
LEMMA GrowsOn ==
  ASSUME NEW s \in Senders, NEW t \in Senders, NEW u \in Senders, Grows(s, t), Grows(t, u)
  PROVE  Grows(s, u)
<1>1. /\ s.next_seqno \in Nat /\ t.next_seqno \in Nat /\ u.next_seqno \in Nat
      /\ s.stream.num_read \in Nat /\ t.stream.num_read \in Nat /\ u.stream.num_read \in Nat
  BY Zenon DEF Senders, ByteStreams
<1> QED BY <1>1 DEF Grows

(* The types of a sender's members. *)
LEMMA SenderTypes ==
  ASSUME NEW s \in Senders
  PROVE  /\ s.isn \in WrappingInt /\ s.stream \in ByteStreams(Capacity, Nat)
         /\ s.next_seqno \in Nat /\ s.bytes_in_flight \in Nat
         /\ s.segments_out \in Seq(Segments) /\ s.outstanding \in Seq(Segments)
         /\ s.is_syn_set \in BOOLEAN /\ s.is_fin_set \in BOOLEAN
         /\ s.recent_abs_ackno \in Nat /\ s.window_size \in Nat \ {0}
         /\ s.timer \in [elapsed_time : Nat, if_run : BOOLEAN]
         /\ s.stream.num_read \in Nat /\ s.stream.num_written \in Nat
         /\ s.stream.buffer \in Seq(Nat) /\ Len(s.stream.buffer) \in Nat
         /\ Len(s.segments_out) \in Nat /\ Len(s.outstanding) \in Nat
<1>1. /\ s.isn \in WrappingInt /\ s.stream \in ByteStreams(Capacity, Nat)
      /\ s.next_seqno \in Nat /\ s.bytes_in_flight \in Nat
      /\ s.segments_out \in Seq(Segments) /\ s.outstanding \in Seq(Segments)
      /\ s.is_syn_set \in BOOLEAN /\ s.is_fin_set \in BOOLEAN
      /\ s.recent_abs_ackno \in Nat /\ s.window_size \in Nat \ {0}
      /\ s.timer \in [elapsed_time : Nat, if_run : BOOLEAN]
  BY DEF Senders
<1>2. /\ s.stream.num_read \in Nat /\ s.stream.num_written \in Nat
      /\ s.stream.buffer \in Seq(Nat)
  BY <1>1 DEF ByteStreams
<1> QED BY <1>1, <1>2

(* The ackno of a receiver, taken apart. *)
LEMMA AcknoFacts ==
  ASSUME NEW r \in Receivers
  PROVE  /\ abs_ackno(r) \in Nat /\ r.reassembler.next_index \in Nat
         /\ r.abs_seqno_fin \in Nat
         /\ abs_ackno(r) = r.reassembler.next_index + 1 \/ abs_ackno(r) = r.reassembler.next_index + 2
         /\ abs_ackno(r) = r.reassembler.next_index + 2
              <=> r.abs_seqno_fin = r.reassembler.next_index + 1
<1>1. r.reassembler.next_index \in Nat /\ r.abs_seqno_fin \in Nat
  BY DEF Receivers, Reassemblers
<1>2. CASE r.reassembler.next_index + 1 = r.abs_seqno_fin
  BY <1>1, <1>2 DEF abs_ackno
<1>3. CASE r.reassembler.next_index + 1 # r.abs_seqno_fin
  BY <1>1, <1>3 DEF abs_ackno
<1> QED BY <1>1, <1>2, <1>3

(* A receiver that does nothing has lost nothing. *)
LEMMA ProgressesSelf ==
  ASSUME NEW r \in Receivers
  PROVE  Progresses(r, r)
BY AcknoFacts DEF Progresses

(* The progress of a receiver is transitive. *)
LEMMA ProgressesOn ==
  ASSUME NEW r \in Receivers, NEW q \in Receivers, NEW u \in Receivers,
         Progresses(r, q), Progresses(q, u)
  PROVE  Progresses(r, u)
<1>1. abs_ackno(r) \in Nat /\ abs_ackno(q) \in Nat /\ abs_ackno(u) \in Nat
  BY AcknoFacts
<1> QED BY <1>1 DEF Progresses

(* What a sender has sent stays its own. *)
LEMMA CarriesOn ==
  ASSUME NEW s \in Senders, NEW t \in Senders, Grows(s, t), NEW k \in 0 .. s.next_seqno,
         NEW seg, seg.payload \in Seq(Nat), seg.syn \in BOOLEAN, seg.fin \in BOOLEAN,
         Carries(s, seg, k)
  PROVE  k \in 0 .. t.next_seqno /\ Carries(t, seg, k)
<1>1. /\ s.next_seqno \in Nat /\ t.next_seqno \in Nat /\ s.stream.num_read \in Nat
      /\ t.stream.num_read \in Nat /\ k \in Nat /\ Index(k) \in Nat
      /\ length_in_sequence_space(seg) \in Nat /\ Len(seg.payload) \in Nat
  <2>1. length_in_sequence_space(seg) \in Nat /\ Len(seg.payload) \in Nat
    BY LengthFacts
  <2>2. /\ s.next_seqno \in Nat /\ t.next_seqno \in Nat /\ s.stream.num_read \in Nat
        /\ t.stream.num_read \in Nat
    BY DEF Senders, ByteStreams
  <2> QED BY <2>1, <2>2 DEF Index
<1>2. k \in 0 .. t.next_seqno
  BY <1>1 DEF Grows
<1>3. /\ Index(k) + Len(seg.payload) <= t.stream.num_read
      /\ k + length_in_sequence_space(seg) <= t.next_seqno
  BY <1>1 DEF Grows, Carries
<1>4. seg.fin => t.is_fin_set /\ k + length_in_sequence_space(seg) = t.next_seqno
  BY DEF Grows, Carries
<1> QED BY <1>2, <1>3, <1>4 DEF Carries, Grows

(* A segment of a sender stays one when the sender has sent more. *)
LEMMA IsFromOn ==
  ASSUME NEW s \in Senders, NEW t \in Senders, Grows(s, t),
         NEW seg, seg.payload \in Seq(Nat), seg.syn \in BOOLEAN, seg.fin \in BOOLEAN,
         IsFrom(s, seg)
  PROVE  IsFrom(t, seg)
BY CarriesOn DEF IsFrom

(* A segment on its way stays one its endpoint has sent. *)
LEMMA InTransitOn ==
  ASSUME NEW s \in Senders, NEW t \in Senders, Grows(s, t),
         NEW r \in Receivers, NEW q \in Receivers, Progresses(r, q),
         NEW seg, InTransit(seg, s, r)
  PROVE  InTransit(seg, t, q)
<1>1. seg \in Packets /\ IsFrom(s, seg)
  BY DEF InTransit
<1>2. IsFrom(t, seg)
  BY <1>1, IsFromOn DEF Packets
<1>3. ASSUME seg.ack
      PROVE  q.if_syn_set /\ \E a \in 0 .. abs_ackno(q) : seg.ackno = wrap(a, q.isn)
  <2>1. r.if_syn_set
    BY <1>3 DEF InTransit
  <2>2. PICK a \in 0 .. abs_ackno(r) : seg.ackno = wrap(a, r.isn)
    BY <1>3 DEF InTransit
  <2>3. q.if_syn_set /\ q.isn = r.isn /\ abs_ackno(r) <= abs_ackno(q)
    BY <2>1 DEF Progresses
  <2>4. abs_ackno(r) \in Nat /\ abs_ackno(q) \in Nat
    BY AcknoFacts
  <2>5. a \in 0 .. abs_ackno(q)
    BY <2>3, <2>4
  <2> QED BY <2>2, <2>3, <2>5
<1> QED BY <1>1, <1>2, <1>3 DEF InTransit
-----------------------------------------------------------------------------
(* The fields of a queued segment. *)
LEMMA QueueTypes ==
  ASSUME NEW q \in Seq(Segments), NEW i \in 1 .. Len(q)
  PROVE  /\ q[i] \in Segments /\ q[i].payload \in Seq(Nat) /\ q[i].syn \in BOOLEAN
         /\ q[i].fin \in BOOLEAN
<1>1. q[i] \in Segments
  OBVIOUS
<1> QED BY <1>1 DEF Segments

(* A change of a sender that leaves its numbers and its queue alone keeps  *)
(* the link; the stream may have been written, ended or marked as failed.  *)
LEMMA LinkFrame ==
  ASSUME NEW s, NEW r, Link(s, r), NEW t \in Senders,
         t.isn = s.isn, t.next_seqno = s.next_seqno, t.outstanding = s.outstanding,
         t.bytes_in_flight = s.bytes_in_flight, t.is_syn_set = s.is_syn_set,
         t.is_fin_set = s.is_fin_set, t.recent_abs_ackno = s.recent_abs_ackno,
         t.window_size = s.window_size \/ r.if_syn_set,
         t.stream.num_read = s.stream.num_read, Genuine(t.stream),
         2 * (t.stream.num_written + 2) < Mod, eof(s.stream) => eof(t.stream),
         \A i \in 1 .. Len(t.segments_out) : IsFrom(s, t.segments_out[i])
  PROVE  Link(t, r) /\ Grows(s, t)
<1>1. s \in Senders /\ r \in Receivers
  BY DEF Link
<1>2. Grows(s, t)
  BY <1>1, SenderTypes DEF Grows
<1>3. Numbered(t)
  BY DEF Link, Numbered
<1>4. Queued(t)
  <2>1. PICK st \in [1 .. Len(s.outstanding) + 1 -> 0 .. s.next_seqno] : Contiguous(s, st)
    BY DEF Link, Queued
  <2>2. ASSUME NEW i \in 1 .. Len(s.outstanding)
        PROVE  Carries(t, s.outstanding[i], st[i])
    <3>1. Carries(s, s.outstanding[i], st[i])
      BY <2>1 DEF Contiguous
    <3> QED BY <3>1, Zenon DEF Carries
  <2>3. Contiguous(t, st)
    BY <2>1, <2>2, Zenon DEF Contiguous
  <2> QED BY <2>1, <2>3 DEF Queued
<1>5. Outbox(t)
  <2> SUFFICES ASSUME NEW i \in 1 .. Len(t.segments_out) PROVE IsFrom(t, t.segments_out[i])
    BY DEF Outbox
  <2>1. t.segments_out \in Seq(Segments)
    BY SenderTypes
  <2>2. IsFrom(s, t.segments_out[i])
    OBVIOUS
  <2> QED BY <1>1, <1>2, <2>1, <2>2, QueueTypes, IsFromOn
<1>6. Heard(t, r)
  BY DEF Link, Heard
<1>7. Tracks(r, t)
  BY DEF Link, Tracks
<1> QED BY <1>1, <1>2, <1>3, <1>4, <1>5, <1>6, <1>7 DEF Link

(* What every call of a TCPSender but a write does: it keeps the link to   *)
(* receiver r and the timer in order.                                      *)
Keeps(s, t, r) ==
    /\ Link(t, r) /\ Grows(s, t) /\ t.stream.num_written = s.stream.num_written
    /\ t.stream.input_ended = s.stream.input_ended
    /\ TimerOk(s) => TimerOk(t)

(* A call that changes nothing keeps the link. *)
LEMMA KeepsSelf ==
  ASSUME NEW s, NEW r, Link(s, r)
  PROVE  Keeps(s, s, r)
BY GrowsSelf DEF Keeps, Link

(* Two calls that keep the link keep it one after the other. *)
LEMMA KeepsOn ==
  ASSUME NEW s, NEW r, Link(s, r), NEW t, NEW u, Keeps(s, t, r), Keeps(t, u, r)
  PROVE  Keeps(s, u, r)
BY GrowsOn DEF Keeps, Link

(* Lines 69-73 of tcp_sender.cc: the window is taken over; this happens    *)
(* only after the peer has the SYN.                                        *)
LEMMA AckWindowKeeps ==
  ASSUME NEW s, NEW r, Link(s, r), r.if_syn_set, NEW win \in Nat
  PROVE  /\ Keeps(s, AckWindow(s, win), r)
         /\ AckWindow(s, win).recent_abs_ackno = s.recent_abs_ackno
         /\ AckWindow(s, win).isn = s.isn
<1> DEFINE t == AckWindow(s, win)
           ws == IF win = 0 THEN 1 ELSE win
           z == IF win = 0 THEN TRUE ELSE s.is_window_size_0
<1>1. s \in Senders /\ s.is_window_size_0 \in BOOLEAN
  BY DEF Link, Senders
<1>2. t = [s EXCEPT !.window_size = ws, !.is_window_size_0 = z]
  BY <1>1, Zenon DEF AckWindow, Senders
<1>3. ws \in Nat \ {0}
  OBVIOUS
<1>4. z \in BOOLEAN
  BY <1>1, Zenon
<1> HIDE DEF ws, z, t
<1>5. t \in Senders
  BY <1>1, <1>2, <1>3, <1>4, ZenonT(60) DEF Senders
<1>6. /\ t.isn = s.isn /\ t.next_seqno = s.next_seqno /\ t.outstanding = s.outstanding
      /\ t.bytes_in_flight = s.bytes_in_flight /\ t.is_syn_set = s.is_syn_set
      /\ t.is_fin_set = s.is_fin_set /\ t.recent_abs_ackno = s.recent_abs_ackno
      /\ t.stream = s.stream /\ t.segments_out = s.segments_out /\ t.timer = s.timer
  BY <1>1, <1>2 DEF Senders
<1>7. Link(t, r) /\ Grows(s, t)
  <2>1. Genuine(t.stream) /\ 2 * (t.stream.num_written + 2) < Mod
    BY <1>6 DEF Link, Numbered
  <2>2. \A i \in 1 .. Len(t.segments_out) : IsFrom(s, t.segments_out[i])
    BY <1>6 DEF Link, Outbox
  <2> QED BY <1>5, <1>6, <2>1, <2>2, LinkFrame, ZenonT(60)
<1> QED BY <1>6, <1>7 DEF Keeps, TimerOk, t

(* Segments are added to the sender's queue or taken from it; the timer    *)
(* and the counters of retransmissions may change.                         *)
SameNumbers(s, t) ==
    /\ t.isn = s.isn /\ t.stream = s.stream /\ t.next_seqno = s.next_seqno
    /\ t.outstanding = s.outstanding /\ t.bytes_in_flight = s.bytes_in_flight
    /\ t.is_syn_set = s.is_syn_set /\ t.is_fin_set = s.is_fin_set
    /\ t.recent_abs_ackno = s.recent_abs_ackno /\ t.window_size = s.window_size

(* A change of the outbox, the timer or the counters keeps the link. *)
LEMMA OutboxKeeps ==
  ASSUME NEW s, NEW r, Link(s, r), NEW t \in Senders, SameNumbers(s, t),
         \A i \in 1 .. Len(t.segments_out) : IsFrom(s, t.segments_out[i]),
         t.timer.if_run => s.timer.if_run
  PROVE  Keeps(s, t, r)
<1>1. Genuine(t.stream) /\ 2 * (t.stream.num_written + 2) < Mod
  BY DEF Link, Numbered, SameNumbers
<1>2. Link(t, r) /\ Grows(s, t)
  BY <1>1, LinkFrame, ZenonT(60) DEF SameNumbers
<1> QED BY <1>2 DEF Keeps, TimerOk, SameNumbers

(* The same when only the queue changes. *)
LEMMA QueueKeeps ==
  ASSUME NEW s, NEW r, Link(s, r), NEW out \in Seq(Segments),
         \A i \in 1 .. Len(out) : IsFrom(s, out[i]),
         NEW t, t = [s EXCEPT !.segments_out = out]
  PROVE  Keeps(s, t, r) /\ SameNumbers(s, t) /\ t.segments_out = out
<1>1. s \in Senders
  BY DEF Link
<1>2. t \in Senders
  BY <1>1, ZenonT(60) DEF Senders
<1>3. SameNumbers(s, t) /\ t.segments_out = out /\ t.timer = s.timer
  BY <1>1, ZenonT(60) DEF Senders, SameNumbers
<1> QED BY <1>2, <1>3, OutboxKeeps, Zenon

(* One more segment in a queue. *)
LEMMA AppendIsFrom ==
  ASSUME NEW s, NEW q \in Seq(Segments), \A i \in 1 .. Len(q) : IsFrom(s, q[i]),
         NEW seg \in Segments, IsFrom(s, seg)
  PROVE  /\ Append(q, seg) \in Seq(Segments)
         /\ \A i \in 1 .. Len(Append(q, seg)) : IsFrom(s, Append(q, seg)[i])
<1> DEFINE u == Append(q, seg)
<1>1. /\ u \in Seq(Segments) /\ Len(u) = Len(q) + 1 /\ u[Len(q) + 1] = seg
      /\ \A i \in 1 .. Len(q) : u[i] = q[i]
  BY AppendProperties
<1>2. Len(q) \in Nat
  OBVIOUS
<1> HIDE DEF u
<1>3. ASSUME NEW i \in 1 .. Len(u) PROVE IsFrom(s, u[i])
  <2>1. i \in 1 .. Len(q) \/ i = Len(q) + 1
    BY <1>1, <1>2
  <2> QED BY <1>1, <2>1
<1> QED BY <1>1, <1>3 DEF u

(* TCPSender::send_empty_segment *)
LEMMA SendEmptyKeeps ==
  ASSUME NEW s, NEW r, Link(s, r), NEW t, t = send_empty_segment(s)
  PROVE  Keeps(s, t, r) /\ SameNumbers(s, t) /\ t.segments_out # <<>>
<1> DEFINE seg == [seqno |-> wrap(s.next_seqno, s.isn), syn |-> FALSE,
                   fin |-> FALSE, payload |-> <<>>]
           out == Append(s.segments_out, seg)
<1>1. s \in Senders
  BY DEF Link
<1>2. seg \in Segments
  BY <1>1, SenderTypes, WrapType DEF Segments
<1>3. length_in_sequence_space(seg) = 0
  BY DEF length_in_sequence_space
<1>4. IsFrom(s, seg)
  BY <1>3 DEF IsFrom
<1>5. t = [s EXCEPT !.segments_out = out]
  BY DEF send_empty_segment
<1> HIDE DEF seg
<1>6. s.segments_out \in Seq(Segments) /\ \A i \in 1 .. Len(s.segments_out) : IsFrom(s, s.segments_out[i])
  BY <1>1, SenderTypes DEF Link, Outbox
<1>7. out \in Seq(Segments) /\ \A i \in 1 .. Len(out) : IsFrom(s, out[i])
  BY <1>2, <1>4, <1>6, AppendIsFrom
<1>8. out # <<>>
  BY <1>2, <1>6
<1> HIDE DEF out
<1>9. Keeps(s, t, r) /\ SameNumbers(s, t) /\ t.segments_out = out
  BY <1>5, <1>7, QueueKeeps
<1> QED BY <1>8, <1>9

(* TCPSender::tick: nothing, the time, or the oldest segment once more.    *)
LEMMA TickKeeps ==
  ASSUME NEW s, NEW r, Link(s, r), TimerOk(s), NEW ms \in Nat, NEW t, t = tick(s, ms)
  PROVE  Keeps(s, t, r)
<1> DEFINE e == s.timer.elapsed_time + ms
<1>1. /\ s \in Senders /\ s.timer \in [elapsed_time : Nat, if_run : BOOLEAN]
      /\ s.consecutive_retransmissions \in Nat /\ s.RTO \in Nat
      /\ s.is_window_size_0 \in BOOLEAN
      /\ s.segments_out \in Seq(Segments) /\ s.outstanding \in Seq(Segments)
      /\ \A i \in 1 .. Len(s.segments_out) : IsFrom(s, s.segments_out[i])
  BY DEF Link, Senders, Outbox
<1>2. e \in Nat
  BY <1>1
<1>3. CASE ~s.timer.if_run
  BY <1>3, KeepsSelf DEF tick
<1>4. CASE s.timer.if_run /\ ~(e >= s.RTO)
  <2>1. t = [s EXCEPT !.timer.elapsed_time = e]
    BY <1>4 DEF tick
  <2> HIDE DEF e
  <2>2. t \in Senders
    BY <1>1, <1>2, <2>1, SMTT(60) DEF Senders
  <2>3. SameNumbers(s, t) /\ t.segments_out = s.segments_out
    BY <1>1, <2>1, SMTT(60) DEF Senders, SameNumbers
  <2> QED BY <1>1, <1>4, <2>2, <2>3, OutboxKeeps
<1>5. CASE s.timer.if_run /\ e >= s.RTO
  <2> DEFINE seg == Head(s.outstanding)
             out == Append(s.segments_out, seg)
             cr == IF ~s.is_window_size_0 THEN s.consecutive_retransmissions + 1
                   ELSE s.consecutive_retransmissions
             rto == IF ~s.is_window_size_0 THEN 2 * s.RTO ELSE s.RTO
  <2>1. t = [s EXCEPT !.segments_out = out, !.consecutive_retransmissions = cr,
                      !.RTO = rto, !.timer = TimerStarted]
    BY <1>5 DEF tick, Retransmit
  <2>2. 1 \in 1 .. Len(s.outstanding) /\ seg = s.outstanding[1] /\ seg \in Segments
    BY <1>1, <1>5 DEF TimerOk
  <2>3. IsFrom(s, seg)
    <3>1. PICK st \in [1 .. Len(s.outstanding) + 1 -> 0 .. s.next_seqno] : Contiguous(s, st)
      BY DEF Link, Queued
    <3>2. Len(s.outstanding) \in Nat
      BY <1>1
    <3>3. st[1] \in 0 .. s.next_seqno
      BY <3>1, <3>2
    <3>4. Carries(s, seg, st[1])
      BY <2>2, <3>1 DEF Contiguous
    <3> QED BY <3>3, <3>4 DEF IsFrom
  <2> HIDE DEF seg
  <2>4. out \in Seq(Segments) /\ \A i \in 1 .. Len(out) : IsFrom(s, out[i])
    BY <1>1, <2>2, <2>3, AppendIsFrom
  <2>5. cr \in Nat /\ rto \in Nat
    BY <1>1
  <2>6. TimerStarted \in [elapsed_time : Nat, if_run : BOOLEAN]
    BY DEF TimerStarted
  <2> HIDE DEF out, cr, rto
  <2>7. t \in Senders
    BY <1>1, <2>1, <2>4, <2>5, <2>6, ZenonT(60) DEF Senders
  <2>8. SameNumbers(s, t) /\ t.segments_out = out
    BY <1>1, <2>1, ZenonT(60) DEF Senders, SameNumbers
  <2> QED BY <1>5, <2>4, <2>7, <2>8, OutboxKeeps
<1> QED BY <1>2, <1>3, <1>4, <1>5, <1>1

(* A change of the stream by its writer, or its error flag. *)
LEMMA StreamKeeps ==
  ASSUME NEW s, NEW r, Link(s, r), NEW w \in ByteStreams(Capacity, Nat), Genuine(w),
         w.num_read = s.stream.num_read, 2 * (w.num_written + 2) < Mod,
         eof(s.stream) => eof(w), NEW t, t = [s EXCEPT !.stream = w]
  PROVE  /\ Link(t, r) /\ Grows(s, t) /\ (TimerOk(s) => TimerOk(t)) /\ t.stream = w
         /\ t.segments_out = s.segments_out
<1>1. s \in Senders
  BY DEF Link
<1>2. t \in Senders
  BY <1>1, ZenonT(60) DEF Senders
<1>3. /\ t.isn = s.isn /\ t.next_seqno = s.next_seqno /\ t.outstanding = s.outstanding
      /\ t.bytes_in_flight = s.bytes_in_flight /\ t.is_syn_set = s.is_syn_set
      /\ t.is_fin_set = s.is_fin_set /\ t.recent_abs_ackno = s.recent_abs_ackno
      /\ t.stream = w /\ t.segments_out = s.segments_out /\ t.timer = s.timer
      /\ t.window_size = s.window_size
  BY <1>1, ZenonT(60) DEF Senders
<1>4. \A i \in 1 .. Len(t.segments_out) : IsFrom(s, t.segments_out[i])
  BY <1>3 DEF Link, Outbox
<1>5. Link(t, r) /\ Grows(s, t)
  BY <1>2, <1>3, <1>4, LinkFrame, ZenonT(60)
<1> QED BY <1>3, <1>5 DEF TimerOk
-----------------------------------------------------------------------------
(* All numbers of the connection are less than half of the sequence space, *)
(* so unwrap finds them whatever the checkpoint is.                        *)
LEMMA NumbersFit ==
  ASSUME NEW s \in Senders, Numbered(s)
  PROVE  /\ 2 * s.next_seqno < Mod /\ s.next_seqno <= s.stream.num_written + 2
         /\ s.stream.num_read <= s.stream.num_written
         /\ s.stream.num_read <= s.next_seqno
         /\ s.is_syn_set => s.stream.num_read + 1 <= s.next_seqno
         /\ s.is_fin_set => s.stream.num_read + 2 = s.next_seqno
         /\ ~s.is_fin_set => s.next_seqno <= s.stream.num_read + 1
<1>1. /\ s.next_seqno \in Nat /\ s.stream.num_read \in Nat /\ s.stream.num_written \in Nat
      /\ Len(s.stream.buffer) \in Nat /\ Mod \in Nat
      /\ s.is_syn_set \in BOOLEAN /\ s.is_fin_set \in BOOLEAN
  BY SenderTypes, ModAssumption
<1>2. s.stream.num_written = s.stream.num_read + Len(s.stream.buffer)
  BY DEF Numbered, Genuine
<1>3. 2 * (s.stream.num_written + 2) < Mod /\ (s.is_fin_set => s.is_syn_set)
  BY DEF Numbered
<1>4. s.next_seqno = s.stream.num_read + (IF s.is_syn_set THEN 1 ELSE 0)
                      + (IF s.is_fin_set THEN 1 ELSE 0)
  BY DEF Numbered
<1> DEFINE nr == s.stream.num_read
           nw == s.stream.num_written
           l == Len(s.stream.buffer)
           n == s.next_seqno
<1>5. /\ nr \in Nat /\ nw \in Nat /\ l \in Nat /\ n \in Nat /\ Mod \in Nat
      /\ nw = nr + l /\ 2 * (nw + 2) < Mod
      /\ n = nr + (IF s.is_syn_set THEN 1 ELSE 0) + (IF s.is_fin_set THEN 1 ELSE 0)
      /\ s.is_fin_set => s.is_syn_set
  BY <1>1, <1>2, <1>3, <1>4
<1> HIDE DEF nr, nw, l, n
<1>6. /\ 2 * n < Mod /\ n <= nw + 2 /\ nr <= nw /\ nr <= n
      /\ s.is_syn_set => nr + 1 <= n
      /\ s.is_fin_set => nr + 2 = n
      /\ ~s.is_fin_set => n <= nr + 1
  <2>1. CASE s.is_fin_set
    <3>1. n = nr + 1 + 1 /\ s.is_syn_set
      BY <1>5, <2>1
    <3> QED BY <1>5, <2>1, <3>1
  <2>2. CASE ~s.is_fin_set /\ s.is_syn_set
    <3>1. n = nr + 1 + 0
      BY <1>5, <2>2
    <3> QED BY <1>5, <2>2, <3>1
  <2>3. CASE ~s.is_fin_set /\ ~s.is_syn_set
    <3>1. n = nr + 0 + 0
      BY <1>5, <2>3
    <3> QED BY <1>5, <2>3, <3>1
  <2> QED BY <2>1, <2>2, <2>3
<1> QED BY <1>6 DEF nr, nw, n

(* A number below half of the sequence space is found again. *)
LEMMA NumberFound ==
  ASSUME NEW m \in Nat, 2 * m < Mod, NEW a \in 0 .. m, NEW c \in 0 .. m, NEW isn \in WrappingInt
  PROVE  unwrap(wrap(a, isn), isn, c) = a
<1>1. 2 * Distance(a, c) < Mod
  BY ModAssumption DEF Distance
<1> QED BY <1>1, UnwrapInvertsWrap

(* What a receiver acknowledges, its peer has sent. *)
LEMMA AcknoSent ==
  ASSUME NEW s, NEW r, Link(s, r), r.if_syn_set
  PROVE  abs_ackno(r) \in Nat /\ abs_ackno(r) <= s.next_seqno
<1>1. /\ s \in Senders /\ r \in Receivers /\ Numbered(s) /\ s.is_syn_set
      /\ r.reassembler.next_index <= s.stream.num_read
      /\ r.abs_seqno_fin = IF r.if_fin_set THEN s.next_seqno - 1 ELSE 0
  BY DEF Link, Tracks
<1>2. s.next_seqno \in Nat /\ s.stream.num_read \in Nat
  BY <1>1, SenderTypes
<1>3. s.stream.num_read + 1 <= s.next_seqno
  BY <1>1, NumbersFit
<1>4. CASE abs_ackno(r) = r.reassembler.next_index + 1
  BY <1>1, <1>2, <1>3, <1>4, AcknoFacts
<1>5. CASE abs_ackno(r) = r.reassembler.next_index + 2
  <2>1. r.abs_seqno_fin = r.reassembler.next_index + 1 /\ r.reassembler.next_index \in Nat
    BY <1>1, <1>5, AcknoFacts
  <2>2. r.abs_seqno_fin = s.next_seqno - 1
    BY <1>1, <2>1
  <2> QED BY <1>2, <1>5, <2>1, <2>2
<1> QED BY <1>1, <1>4, <1>5, AcknoFacts

(* One round of the loop takes the oldest segment from the queue, which    *)
(* the peer has acknowledged as a whole.                                   *)
LEMMA AckOneKeeps ==
  ASSUME NEW s, NEW r, Link(s, r), r.if_syn_set, NEW a \in Nat, a <= abs_ackno(r),
         AckMore(s, a), NEW t, t = AckOne(s)
  PROVE  /\ Link(t, r) /\ Grows(s, t) /\ t.stream = s.stream
         /\ Len(t.outstanding) = Len(s.outstanding) - 1
<1> DEFINE n == Len(s.outstanding)
           seg == Head(s.outstanding)
           len == length_in_sequence_space(seg)
           rest == Tail(s.outstanding)
           bif == s.bytes_in_flight - len
<1>1. /\ s \in Senders /\ r \in Receivers /\ Numbered(s) /\ s.next_seqno \in Nat
      /\ s.outstanding \in Seq(Segments) /\ s.bytes_in_flight \in Nat /\ s.isn \in WrappingInt
      /\ s.recent_abs_ackno \in Nat
  BY SenderTypes DEF Link
<1>2. s.outstanding # <<>> /\ n \in Nat /\ n >= 1
  BY <1>1 DEF AckMore
<1>3. seg = s.outstanding[1] /\ seg \in Segments
  BY <1>1, <1>2
<1>4. len \in Nat
  BY <1>3, LengthFacts DEF Segments
<1>5. PICK st \in [1 .. n + 1 -> 0 .. s.next_seqno] : Contiguous(s, st)
  BY DEF Link, Queued
<1>6. /\ Carries(s, seg, st[1]) /\ st[2] = st[1] + len
      /\ st[1] = s.next_seqno - s.bytes_in_flight /\ st[n + 1] = s.next_seqno
  <2>1. 1 \in 1 .. n
    BY <1>2
  <2> QED BY <1>3, <1>5, <2>1 DEF Contiguous
<1>7. st[1] \in 0 .. s.next_seqno /\ st[2] \in 0 .. s.next_seqno
  BY <1>2, <1>5
<1>8. unwrap(seg.seqno, s.isn, s.recent_abs_ackno) = st[1]
  <2>1. 2 * s.next_seqno < Mod /\ s.recent_abs_ackno \in 0 .. s.next_seqno
    <3>1. s.recent_abs_ackno <= s.next_seqno
      BY <1>1 DEF Numbered
    <3> QED BY <1>1, <3>1, NumbersFit
  <2>2. seg.seqno = wrap(st[1], s.isn)
    BY <1>6 DEF Carries
  <2> QED BY <1>1, <1>7, <2>1, <2>2, NumberFound
<1>9. st[1] + len <= a
  BY <1>8 DEF AckMore
<1>10. /\ rest \in Seq(Segments) /\ Len(rest) = n - 1
       /\ \A i \in 1 .. n - 1 : rest[i] = s.outstanding[i + 1]
  BY <1>1, <1>2, HeadTailProperties
<1>11. bif \in Nat /\ s.next_seqno - bif = st[2]
  <2> HIDE DEF len
  <2> QED BY <1>1, <1>4, <1>6, <1>7
<1>12. t = [s EXCEPT !.outstanding = rest, !.bytes_in_flight = bif, !.RTO = s.initial_RTO,
                     !.consecutive_retransmissions = 0, !.timer = TimerStarted]
  BY DEF AckOne
<1> HIDE DEF rest, bif, len, seg
<1>13. t \in Senders
  <2>1. TimerStarted \in [elapsed_time : Nat, if_run : BOOLEAN]
    BY DEF TimerStarted
  <2>2. s.initial_RTO \in Nat /\ 0 \in Nat
    BY <1>1 DEF Senders
  <2> QED BY <1>1, <1>10, <1>11, <1>12, <2>1, <2>2, ZenonT(60) DEF Senders
<1>14. /\ t.isn = s.isn /\ t.stream = s.stream /\ t.next_seqno = s.next_seqno
       /\ t.segments_out = s.segments_out /\ t.outstanding = rest /\ t.bytes_in_flight = bif
       /\ t.is_syn_set = s.is_syn_set /\ t.is_fin_set = s.is_fin_set
       /\ t.recent_abs_ackno = s.recent_abs_ackno /\ t.window_size = s.window_size
  BY <1>1, <1>12, ZenonT(60) DEF Senders
<1>15. Grows(s, t)
  BY <1>1, <1>14, SenderTypes DEF Grows
<1>16. Numbered(t)
  BY <1>1, <1>14 DEF Numbered
<1>17. Queued(t)
  <2> DEFINE u == [i \in 1 .. n |-> st[i + 1]]
  <2>1. u \in [1 .. Len(t.outstanding) + 1 -> 0 .. t.next_seqno]
    BY <1>2, <1>5, <1>10, <1>14
  <2>2. u[1] = t.next_seqno - t.bytes_in_flight /\ u[n] = t.next_seqno
    BY <1>2, <1>6, <1>11, <1>14
  <2>3. ASSUME NEW i \in 1 .. n - 1
        PROVE  /\ Carries(t, rest[i], u[i])
               /\ u[i + 1] = u[i] + length_in_sequence_space(rest[i])
    <3>1. i + 1 \in 1 .. n /\ i \in 1 .. n /\ rest[i] = s.outstanding[i + 1]
      BY <1>2, <1>10
    <3>2. Carries(s, rest[i], st[i + 1])
          /\ st[i + 1 + 1] = st[i + 1] + length_in_sequence_space(rest[i])
      BY <1>5, <3>1 DEF Contiguous
    <3>3. u[i] = st[i + 1] /\ u[i + 1] = st[i + 1 + 1]
      BY <3>1
    <3> HIDE DEF u
    <3> QED BY <1>14, <3>2, <3>3 DEF Carries
  <2>4. Len(t.outstanding) = n - 1 /\ Len(t.outstanding) + 1 = n
    BY <1>2, <1>10, <1>14
  <2> HIDE DEF u, n
  <2>5. Contiguous(t, u)
    BY <1>14, <2>2, <2>3, <2>4 DEF Contiguous
  <2> QED BY <2>1, <2>5 DEF Queued
<1>18. Outbox(t)
  BY <1>1, <1>14, <1>13, <1>15, SenderTypes, QueueTypes, IsFromOn, Zenon DEF Outbox, Link
<1>19. Heard(t, r)
  <2>1. t.next_seqno - t.bytes_in_flight = st[1] + len
    BY <1>6, <1>11, <1>14
  <2>2. abs_ackno(r) \in Nat
    BY AcknoSent
  <2>3. st[1] + len <= abs_ackno(r)
    BY <1>4, <1>7, <1>9, <2>2
  <2> QED BY <2>1, <2>3 DEF Heard
<1>20. Tracks(r, t)
  BY <1>14 DEF Link, Tracks
<1> QED BY <1>1, <1>10, <1>13, <1>14, <1>15, <1>16, <1>17, <1>18, <1>19, <1>20 DEF Link

(* The loop of ack_received, as a function of the number of rounds. *)
AckRounds(s, a, n, f) == f = [k \in 0 .. n |-> IF k = 0 THEN s ELSE AckRound(f[k - 1], a)]

(* The loop ends with such a function. *)
LEMMA AckLoopIs ==
  ASSUME NEW s, NEW a, Len(s.outstanding) \in Nat
  PROVE  \E f : /\ AckRounds(s, a, Len(s.outstanding), f)
                /\ AckLoop(s, a) = AckEnd(f[Len(s.outstanding)], a)
<1> DEFINE n == Len(s.outstanding)
           W == {k \in 0 .. n : \E f : AckRounds(s, a, k, f)}
<1>1. 0 \in W
  <2>1. AckRounds(s, a, 0, [k \in 0 .. 0 |-> s])
    BY DEF AckRounds
  <2> QED BY <2>1
<1>2. ASSUME NEW k \in 1 .. n, k - 1 \in W PROVE k \in W
  <2>1. PICK g : AckRounds(s, a, k - 1, g)
    BY <1>2
  <2> DEFINE f == [i \in 0 .. k |-> IF i = k THEN AckRound(g[k - 1], a) ELSE g[i]]
  <2>2. g = [i \in 0 .. k - 1 |-> IF i = 0 THEN s ELSE AckRound(g[i - 1], a)]
    BY <2>1, Zenon DEF AckRounds
  <2>3. \A i \in 0 .. k : f[i] = IF i = 0 THEN s ELSE AckRound(f[i - 1], a)
    BY <2>2
  <2>4. AckRounds(s, a, k, f)
    BY <2>3 DEF AckRounds
  <2> QED BY <2>4
<1> HIDE DEF W
<1>3. n \in W
  <2>1. \A k \in 0 .. n : k \in W
    BY <1>1, <1>2, UpTo, ZenonT(60)
  <2> QED BY <2>1
<1>4. \E f : AckRounds(s, a, n, f)
  BY <1>3 DEF W
<1> DEFINE F == CHOOSE f : AckRounds(s, a, n, f)
<1>5. AckRounds(s, a, n, F)
  BY <1>4, Zenon
<1>6. AckLoop(s, a) = AckEnd(F[n], a)
  BY Zenon DEF AckLoop, AckRounds
<1> QED BY <1>5, <1>6, ZenonT(60)

(* Lines 95-98: the ackno is noted and the timer stops with an empty queue.*)
LEMMA AckEndKeeps ==
  ASSUME NEW s, NEW r, Link(s, r), r.if_syn_set, NEW a \in Nat, a <= abs_ackno(r),
         NEW t, t = AckEnd(s, a)
  PROVE  Link(t, r) /\ Grows(s, t) /\ t.stream = s.stream /\ TimerOk(t)
<1> DEFINE tm == IF s.outstanding = <<>> THEN TimerStopped ELSE s.timer
<1>1. /\ s \in Senders /\ r \in Receivers /\ Numbered(s) /\ s.next_seqno \in Nat
      /\ s.timer \in [elapsed_time : Nat, if_run : BOOLEAN]
  BY SenderTypes DEF Link
<1>2. t = [s EXCEPT !.recent_abs_ackno = a, !.timer = tm]
  BY DEF AckEnd
<1>3. tm \in [elapsed_time : Nat, if_run : BOOLEAN] /\ (tm.if_run => s.outstanding # <<>>)
  BY <1>1 DEF TimerStopped
<1> HIDE DEF tm
<1>4. t \in Senders
  BY <1>1, <1>2, <1>3, ZenonT(60) DEF Senders
<1>5. /\ t.isn = s.isn /\ t.stream = s.stream /\ t.next_seqno = s.next_seqno
      /\ t.segments_out = s.segments_out /\ t.outstanding = s.outstanding
      /\ t.bytes_in_flight = s.bytes_in_flight /\ t.timer = tm
      /\ t.is_syn_set = s.is_syn_set /\ t.is_fin_set = s.is_fin_set
      /\ t.recent_abs_ackno = a /\ t.window_size = s.window_size
  BY <1>1, <1>2, ZenonT(60) DEF Senders
<1>6. Grows(s, t)
  BY <1>1, <1>5, SenderTypes DEF Grows
<1>7. Numbered(t)
  <2>1. a <= s.next_seqno
    BY <1>1, AcknoSent
  <2> QED BY <1>1, <1>5, <2>1 DEF Numbered
<1>8. Queued(t)
  <2>1. PICK st \in [1 .. Len(s.outstanding) + 1 -> 0 .. s.next_seqno] : Contiguous(s, st)
    BY DEF Link, Queued
  <2>2. ASSUME NEW i \in 1 .. Len(s.outstanding)
        PROVE  Carries(t, s.outstanding[i], st[i])
    <3>1. Carries(s, s.outstanding[i], st[i])
      BY <2>1 DEF Contiguous
    <3> QED BY <1>5, <3>1, Zenon DEF Carries
  <2>3. Contiguous(t, st)
    BY <1>5, <2>1, <2>2, Zenon DEF Contiguous
  <2> QED BY <1>5, <2>1, <2>3 DEF Queued
<1>9. Outbox(t)
  BY <1>1, <1>4, <1>5, <1>6, SenderTypes, QueueTypes, IsFromOn DEF Outbox, Link
<1>10. Heard(t, r) /\ Tracks(r, t)
  BY <1>5 DEF Link, Heard, Tracks
<1> QED BY <1>1, <1>3, <1>4, <1>5, <1>6, <1>7, <1>8, <1>9, <1>10 DEF Link, TimerOk

(* The loop ends with the first segment that is not acknowledged, and what *)
(* it leaves is in order.                                                  *)
LEMMA AckLoopKeeps ==
  ASSUME NEW s, NEW r, Link(s, r), r.if_syn_set, NEW a \in Nat, a <= abs_ackno(r),
         NEW t, t = AckLoop(s, a)
  PROVE  /\ Link(t, r) /\ Grows(s, t) /\ t.stream = s.stream /\ TimerOk(t)
         /\ \E u : Link(u, r) /\ ~AckMore(u, a) /\ t = AckEnd(u, a)
<1> DEFINE n == Len(s.outstanding)
<1>1. s \in Senders /\ n \in Nat
  BY SenderTypes DEF Link
<1>2. PICK f : AckRounds(s, a, n, f) /\ AckLoop(s, a) = AckEnd(f[n], a)
  BY <1>1, AckLoopIs
<1>3. \A k \in 0 .. n : f[k] = IF k = 0 THEN s ELSE AckRound(f[k - 1], a)
  BY <1>2 DEF AckRounds
<1> DEFINE P(x, k) == /\ Link(x, r) /\ Grows(s, x) /\ x.stream = s.stream
                      /\ AckMore(x, a) => Len(x.outstanding) + k <= n
           W == {k \in 0 .. n : P(f[k], k)}
<1>4. 0 \in W
  <2>1. f[0] = s
    BY <1>1, <1>3
  <2>2. Grows(s, s) /\ Len(s.outstanding) + 0 <= n /\ 0 \in 0 .. n
    BY <1>1, GrowsSelf
  <2> QED BY <2>1, <2>2
<1>5. ASSUME NEW k \in 1 .. n, k - 1 \in W PROVE k \in W
  <2>1. f[k] = AckRound(f[k - 1], a) /\ P(f[k - 1], k - 1) /\ k \in 0 .. n
    BY <1>1, <1>3, <1>5, SMTT(60)
  <2>2. CASE AckMore(f[k - 1], a)
    <3>1. f[k] = AckOne(f[k - 1])
      BY <2>1, <2>2 DEF AckRound
    <3>2. Link(f[k], r) /\ Grows(f[k - 1], f[k]) /\ f[k].stream = f[k - 1].stream
          /\ Len(f[k].outstanding) = Len(f[k - 1].outstanding) - 1
      BY <2>1, <2>2, <3>1, AckOneKeeps, Zenon
    <3>3. f[k - 1] \in Senders /\ f[k] \in Senders
      BY <2>1, <3>2 DEF Link
    <3>4. Grows(s, f[k])
      BY <1>1, <2>1, <3>2, <3>3, GrowsOn
    <3>5. Len(f[k].outstanding) + k <= n
      <4>1. Len(f[k - 1].outstanding) + (k - 1) <= n
        BY <2>1, <2>2
      <4>2. Len(f[k - 1].outstanding) \in Nat
        BY <3>3, SenderTypes
      <4> QED BY <1>1, <3>2, <4>1, <4>2
    <3> QED BY <2>1, <3>2, <3>4, <3>5, Zenon
  <2>3. CASE ~AckMore(f[k - 1], a)
    <3>1. f[k] = f[k - 1]
      BY <2>1, <2>3 DEF AckRound
    <3> QED BY <2>1, <2>3, <3>1
  <2> QED BY <2>2, <2>3
<1> HIDE DEF W
<1>6. \A k \in 0 .. n : k \in W
  BY <1>1, <1>4, <1>5, UpTo, ZenonT(60)
<1> HIDE DEF n
<1>7. P(f[n], n)
  BY <1>1, <1>6 DEF W
<1>8. Link(t, r) /\ Grows(f[n], t) /\ t.stream = f[n].stream /\ TimerOk(t)
  BY <1>2, <1>7, AckEndKeeps
<1>9. f[n] \in Senders /\ t \in Senders
  BY <1>7, <1>8 DEF Link
<1>10. ~AckMore(f[n], a)
  <2> SUFFICES ASSUME AckMore(f[n], a) PROVE FALSE
    OBVIOUS
  <2>1. f[n].outstanding # <<>> /\ Len(f[n].outstanding) + n <= n
    BY <1>7 DEF AckMore
  <2>2. f[n].outstanding \in Seq(Segments) /\ Len(f[n].outstanding) \in Nat
    BY <1>9, SenderTypes
  <2>3. Len(f[n].outstanding) > 0
    BY <2>1, <2>2
  <2> QED BY ONLY <1>1, <2>1, <2>2, <2>3
<1> QED BY <1>1, <1>2, <1>7, <1>8, <1>9, <1>10, GrowsOn

(* TCPSender::ack_received of an ackno that the peer has sent. *)
LEMMA AckReceivedKeeps ==
  ASSUME NEW s, NEW r, Link(s, r), r.if_syn_set, NEW a \in 0 .. abs_ackno(r),
         NEW win \in Nat, NEW t, t = ack_received(s, wrap(a, s.isn), win)
  PROVE  Keeps(s, t, r)
<1> DEFINE u == AckWindow(s, win)
<1>1. /\ s \in Senders /\ Numbered(s) /\ s.next_seqno \in Nat /\ s.isn \in WrappingInt
      /\ s.recent_abs_ackno \in Nat /\ s.recent_abs_ackno <= s.next_seqno
  BY SenderTypes DEF Link, Numbered
<1>2. abs_ackno(r) \in Nat /\ abs_ackno(r) <= s.next_seqno
  BY AcknoSent
<1>3. a \in Nat /\ a <= abs_ackno(r) /\ a \in 0 .. s.next_seqno
  BY <1>1, <1>2
<1>4. AbsAckno(s, wrap(a, s.isn)) = a
  <2>1. 2 * s.next_seqno < Mod /\ s.recent_abs_ackno \in 0 .. s.next_seqno
    BY <1>1, NumbersFit
  <2> QED BY <1>1, <1>3, <2>1, NumberFound DEF AbsAckno
<1>5. t = AckLoop(u, a)
  BY <1>4 DEF ack_received
<1>6. Keeps(s, u, r)
  BY AckWindowKeeps
<1> HIDE DEF u
<1>7. Link(u, r)
  BY <1>6 DEF Keeps
<1>8. Link(t, r) /\ Grows(u, t) /\ t.stream = u.stream /\ TimerOk(t)
  BY <1>3, <1>5, <1>7, AckLoopKeeps
<1>9. Keeps(u, t, r)
  BY <1>8 DEF Keeps
<1> QED BY <1>6, <1>9, KeepsOn
-----------------------------------------------------------------------------
(* Lines 38-50 of tcp_sender.cc: the segment that fill_window sends next.  *)
(* Before the peer has the SYN there is no room for a FIN.                 *)
LEMMA NextSegmentFacts ==
  ASSUME NEW s, NEW r, Link(s, r), FillMore(s), NEW seg, seg = NextSegment(s),
         NEW w, w = pop_output(s.stream, Len(seg.payload)),
         NEW len, len = length_in_sequence_space(seg)
  PROVE  /\ seg \in Segments /\ len \in Nat \ {0} /\ ~s.is_fin_set
         /\ seg.seqno = wrap(s.next_seqno, s.isn) /\ (seg.syn <=> s.next_seqno = 0)
         /\ seg.payload = Substring(s.stream.num_read, Len(seg.payload))
         /\ w \in ByteStreams(Capacity, Nat) /\ Genuine(w)
         /\ w.num_read = s.stream.num_read + Len(seg.payload)
         /\ Len(w.buffer) = Len(s.stream.buffer) - Len(seg.payload)
         /\ w.num_written = s.stream.num_written
         /\ w.input_ended = s.stream.input_ended
         /\ seg.fin => eof(w) /\ r.if_syn_set
<1> DEFINE u == Unfinished(s)
           k == Lesser(Room(s), MAX_PAYLOAD_SIZE)
           pay == peek_output(s.stream, k)
           l == Lesser(k, Len(s.stream.buffer))
           f == TakesFin(s, u)
           x == IF s.next_seqno = 0 THEN 1 ELSE 0
           y == IF f THEN 1 ELSE 0
<1>1. /\ s \in Senders /\ s.stream \in ByteStreams(Capacity, Nat) /\ Genuine(s.stream)
      /\ s.next_seqno \in Nat /\ s.recent_abs_ackno \in Nat
      /\ s.window_size \in Nat \ {0} /\ s.isn \in WrappingInt
      /\ s.is_syn_set \in BOOLEAN /\ s.is_fin_set \in BOOLEAN
      /\ Len(s.stream.buffer) \in Nat
  BY SenderTypes DEF Link, Numbered
<1>2. /\ s.is_syn_set <=> s.next_seqno > 0
      /\ s.recent_abs_ackno <= s.next_seqno /\ Capacity \in Nat
  BY ConnectionConstants DEF Link, Numbered
<1>3. Room(s) \in Nat \ {0}
  <2>1. CASE ~s.is_syn_set
    BY <1>1, <1>2, <2>1 DEF Room
  <2>2. CASE s.is_syn_set
    <3>1. s.next_seqno < s.recent_abs_ackno + s.window_size
      BY <2>2 DEF FillMore, WindowOpen
    <3> QED BY <1>1, <3>1, SMTT(60) DEF Room
  <2> QED BY <2>1, <2>2
<1>4. k \in Nat /\ k <= Room(s)
  BY <1>3, PayloadAssumption DEF Lesser
<1> HIDE DEF k
<1>5. /\ pay = Substring(s.stream.num_read, l) /\ pay \in Seq(Nat)
      /\ Len(pay) = l /\ l \in Nat
  BY <1>1, <1>2, <1>4, PeekGenuine, Zenon
<1>6. l <= Len(s.stream.buffer) /\ l <= k
  BY <1>1, <1>4, SMTT(60) DEF Lesser
<1>7. u = [seqno |-> wrap(s.next_seqno, s.isn), syn |-> s.next_seqno = 0, fin |-> FALSE,
           payload |-> pay]
  BY DEF Unfinished, k
<1> HIDE DEF pay, u
<1>8. u.payload = pay /\ u.fin = FALSE /\ u.seqno = wrap(s.next_seqno, s.isn)
      /\ u.syn = (s.next_seqno = 0)
  BY <1>7
<1>9. f \in BOOLEAN /\ seg = [u EXCEPT !.fin = f]
  BY DEF NextSegment, TakesFin, u
<1>10. length_in_sequence_space(u) = l + x
  <2>1. length_in_sequence_space(u) = Len(pay) + x + 0
    BY <1>8, Zenon DEF length_in_sequence_space
  <2>2. x \in {0, 1}
    OBVIOUS
  <2> HIDE DEF l, x
  <2> QED BY <1>5, <2>1, <2>2
<1>11. f => eof(pop_output(s.stream, l)) /\ ~s.is_fin_set /\ Room(s) > l + x
  BY <1>5, <1>8, <1>10 DEF TakesFin
<1> HIDE DEF f
<1>12. wrap(s.next_seqno, s.isn) \in WrappingInt
  BY <1>1, WrapType
<1>13. seg \in Segments
  BY <1>5, <1>7, <1>9, <1>12, Zenon DEF Segments
<1>14. seg.payload = pay /\ seg.fin = f /\ seg.seqno = wrap(s.next_seqno, s.isn)
       /\ seg.syn = (s.next_seqno = 0)
  BY <1>7, <1>9
<1>15. Len(seg.payload) = l /\ len = l + x + y
  BY <1>5, <1>14, Zenon DEF length_in_sequence_space
<1>16. x \in {0, 1} /\ y \in {0, 1} /\ (f => y = 1) /\ (~f => y = 0)
  BY Zenon
<1> HIDE DEF l, x, y
<1>17. len \in Nat \ {0}
  <2>1. length_in_sequence_space(NextSegment(s)) > 0
    BY DEF FillMore
  <2> QED BY <1>5, <1>15, <1>16, <2>1
<1>18. /\ w \in ByteStreams(Capacity, Nat) /\ Genuine(w)
       /\ w.num_read = s.stream.num_read + l /\ (f => eof(w))
       /\ Len(w.buffer) = Len(s.stream.buffer) - l
       /\ w.num_written = s.stream.num_written
       /\ w.input_ended = s.stream.input_ended
  <2>1. w = pop_output(s.stream, l)
    BY <1>15
  <2>2. Lesser(l, Len(s.stream.buffer)) = l
    BY <1>6 DEF Lesser
  <2>3. /\ w \in ByteStreams(Capacity, Nat) /\ Genuine(w)
        /\ w.num_read = s.stream.num_read + Lesser(l, Len(s.stream.buffer))
        /\ Len(w.buffer) = Len(s.stream.buffer) - Lesser(l, Len(s.stream.buffer))
        /\ w.num_written = s.stream.num_written
        /\ w.input_ended = s.stream.input_ended
    BY <1>1, <1>2, <1>5, <2>1, PopGenuine
  <2> QED BY <1>11, <2>1, <2>2, <2>3
<1>19. ~s.is_fin_set
  <2> SUFFICES ASSUME s.is_fin_set PROVE FALSE
    OBVIOUS
  <2>1. s.is_syn_set /\ s.stream.buffer = <<>>
    BY DEF Link, Numbered, eof
  <2>2. s.next_seqno # 0 /\ l = 0
    BY <1>1, <1>2, <1>5, <1>6, <2>1
  <2>3. x = 0 /\ y = 0
    BY <1>11, <1>16, <2>2 DEF x
  <2> QED BY <1>15, <1>17, <2>2, <2>3
<1>20. f => r.if_syn_set
  <2> SUFFICES ASSUME f, ~r.if_syn_set PROVE FALSE
    OBVIOUS
  <2>1. s.recent_abs_ackno = 0 /\ s.window_size = 1
    BY DEF Link, Heard
  <2>2. Room(s) = 1 - s.next_seqno
    BY <1>1, <2>1 DEF Room
  <2>3. s.next_seqno = 0
    BY <1>1, <1>3, <2>2
  <2>4. x = 1
    BY <2>3 DEF x
  <2> QED BY <1>5, <1>11, <2>2, <2>3, <2>4
<1> QED BY <1>13, <1>14, <1>15, <1>17, <1>18, <1>19, <1>20, <1>5, Zenon

(* What is left to send: the SYN, the bytes in the stream and the FIN. *)
ToSend(s) == Len(s.stream.buffer) + (IF s.is_syn_set THEN 0 ELSE 1)
                                  + (IF s.is_fin_set THEN 0 ELSE 1)

(* One round of fill_window sends a segment, which takes the next numbers. *)
LEMMA FillOneKeeps ==
  ASSUME NEW s, NEW r, Link(s, r), FillMore(s), NEW t, t = FillOne(s)
  PROVE  /\ Keeps(s, t, r) /\ TimerOk(t)
         /\ ToSend(s) \in Nat /\ ToSend(t) \in Nat /\ ToSend(t) < ToSend(s)
<1> DEFINE seg == NextSegment(s)
           len == length_in_sequence_space(seg)
           pl == Len(seg.payload)
           w == pop_output(s.stream, pl)
           sy == s.is_syn_set \/ seg.syn
           fi == s.is_fin_set \/ seg.fin
           out == Append(s.segments_out, seg)
           q == Append(s.outstanding, seg)
           b == s.bytes_in_flight + len
           n == s.next_seqno + len
           tm == IF s.timer.if_run THEN s.timer ELSE TimerStarted
           m == Len(s.outstanding)
<1>1. /\ s \in Senders /\ r \in Receivers /\ Numbered(s)
      /\ s.isn \in WrappingInt /\ s.next_seqno \in Nat /\ s.bytes_in_flight \in Nat
      /\ s.segments_out \in Seq(Segments) /\ s.outstanding \in Seq(Segments)
      /\ s.is_syn_set \in BOOLEAN /\ s.is_fin_set \in BOOLEAN
      /\ s.recent_abs_ackno \in Nat /\ s.stream.num_read \in Nat
      /\ s.stream.num_written \in Nat /\ Len(s.stream.buffer) \in Nat /\ m \in Nat
      /\ s.timer \in [elapsed_time : Nat, if_run : BOOLEAN]
  BY SenderTypes DEF Link
<1>2. t = [s EXCEPT !.stream = w, !.is_syn_set = sy, !.is_fin_set = fi,
                    !.segments_out = out, !.outstanding = q, !.bytes_in_flight = b,
                    !.next_seqno = n, !.timer = tm]
  BY SMTT(60) DEF FillOne
<1>3. /\ seg \in Segments /\ len \in Nat \ {0} /\ ~s.is_fin_set
      /\ seg.seqno = wrap(s.next_seqno, s.isn) /\ (seg.syn <=> s.next_seqno = 0)
      /\ seg.payload = Substring(s.stream.num_read, pl)
      /\ w \in ByteStreams(Capacity, Nat) /\ Genuine(w)
      /\ w.num_read = s.stream.num_read + pl
      /\ Len(w.buffer) = Len(s.stream.buffer) - pl
      /\ w.num_written = s.stream.num_written
      /\ w.input_ended = s.stream.input_ended
      /\ (seg.fin => eof(w) /\ r.if_syn_set)
  BY NextSegmentFacts, Zenon
<1>4. pl \in Nat /\ seg.fin \in BOOLEAN /\ seg.syn \in BOOLEAN /\ seg.payload \in Seq(Nat)
  BY <1>3 DEF Segments
<1>5. /\ (s.is_syn_set <=> s.next_seqno > 0) /\ s.recent_abs_ackno <= s.next_seqno
      /\ 2 * (s.stream.num_written + 2) < Mod
  BY <1>1 DEF Numbered
<1>6. /\ (seg.syn \/ s.is_syn_set) /\ ~(seg.syn /\ s.is_syn_set)
      /\ sy /\ sy \in BOOLEAN /\ fi \in BOOLEAN /\ (fi <=> seg.fin)
  <2>1. s.next_seqno = 0 \/ s.next_seqno > 0
    BY <1>1
  <2>2. ~(s.next_seqno = 0 /\ s.next_seqno > 0)
    BY <1>1
  <2> QED BY <1>3, <1>4, <1>5, <2>1, <2>2, Zenon
<1>7. /\ seg.fin /\ seg.syn => len = pl + 2
      /\ seg.fin /\ ~seg.syn => len = pl + 1
      /\ ~seg.fin /\ seg.syn => len = pl + 1
      /\ ~seg.fin /\ ~seg.syn => len = pl
  BY <1>4, LengthFacts
<1>8. tm \in [elapsed_time : Nat, if_run : BOOLEAN]
  BY <1>1 DEF TimerStarted
<1>9. /\ q \in Seq(Segments) /\ Len(q) = m + 1 /\ q[m + 1] = seg /\ q # <<>>
      /\ \A i \in 1 .. m : q[i] = s.outstanding[i]
  <2> HIDE DEF seg
  <2>1. /\ q \in Seq(Segments) /\ Len(q) = m + 1 /\ q[m + 1] = seg
        /\ \A i \in 1 .. m : q[i] = s.outstanding[i]
    BY <1>1, <1>3, AppendProperties
  <2> QED BY <1>1, <2>1
<1>10. out \in Seq(Segments) /\ Len(out) = Len(s.segments_out) + 1
       /\ out[Len(s.segments_out) + 1] = seg
       /\ \A i \in 1 .. Len(s.segments_out) : out[i] = s.segments_out[i]
  <2> HIDE DEF seg
  <2> QED BY <1>1, <1>3, AppendProperties
<1>11. n \in Nat /\ b \in Nat /\ n = s.next_seqno + len /\ b = s.bytes_in_flight + len
  <2>1. s.next_seqno \in Nat /\ s.bytes_in_flight \in Nat /\ len \in Nat
    BY <1>1, <1>3, Zenon
  <2> HIDE DEF len
  <2> QED BY <2>1
<1>12. len = length_in_sequence_space(seg) /\ pl = Len(seg.payload)
  OBVIOUS
<1> HIDE DEF seg, len, pl, w, sy, fi, out, q, b, n, tm
<1>13. t \in Senders
  BY <1>1, <1>2, <1>3, <1>6, <1>8, <1>9, <1>10, <1>11, ZenonT(60) DEF Senders
<1>14. /\ t.stream = w /\ t.is_syn_set = sy /\ t.is_fin_set = fi
       /\ t.segments_out = out /\ t.outstanding = q /\ t.bytes_in_flight = b
       /\ t.next_seqno = n /\ t.timer = tm /\ t.isn = s.isn
       /\ t.recent_abs_ackno = s.recent_abs_ackno /\ t.window_size = s.window_size
  BY <1>1, <1>2 DEF Senders
<1>15. s.next_seqno = s.stream.num_read + (IF s.is_syn_set THEN 1 ELSE 0)
  <2>1. s.next_seqno = s.stream.num_read + (IF s.is_syn_set THEN 1 ELSE 0) + 0
    BY <1>1, <1>3 DEF Numbered
  <2> QED BY <1>1, <2>1
<1>num. /\ s.next_seqno \in Nat /\ s.bytes_in_flight \in Nat /\ s.stream.num_read \in Nat
       /\ len \in Nat /\ len >= 1 /\ pl \in Nat /\ n \in Nat /\ b \in Nat
       /\ n = s.next_seqno + len /\ b = s.bytes_in_flight + len
       /\ w.num_read = s.stream.num_read + pl
  BY <1>1, <1>3, <1>4, <1>11
<1>16. Grows(s, t)
  BY <1>1, <1>3, <1>4, <1>11, <1>14, SMTT(60) DEF Grows
<1>17. Numbered(t)
  <2>1. n = w.num_read + 1 + (IF fi THEN 1 ELSE 0)
    <3>1. CASE s.is_syn_set
      <4>1. s.next_seqno = s.stream.num_read + 1 /\ ~seg.syn
        BY <1>6, <1>15, <3>1
      <4>2. len = pl + (IF fi THEN 1 ELSE 0)
        BY <1>4, <1>6, <1>7, <4>1
      <4>3. (IF fi THEN 1 ELSE 0) \in {0, 1}
        OBVIOUS
      <4> QED BY ONLY <1>num, <4>1, <4>2, <4>3
    <3>2. CASE ~s.is_syn_set
      <4>1. s.next_seqno = s.stream.num_read /\ seg.syn
        BY <1>1, <1>6, <1>15, <3>2
      <4>2. len = pl + 1 + (IF fi THEN 1 ELSE 0)
        BY <1>4, <1>6, <1>7, <4>1
      <4>3. (IF fi THEN 1 ELSE 0) \in {0, 1}
        OBVIOUS
      <4> QED BY ONLY <1>num, <4>1, <4>2, <4>3
    <3> QED BY <1>1, <3>1, <3>2
  <2>2. n > 0 /\ s.recent_abs_ackno <= n
    <3>1. s.recent_abs_ackno \in Nat /\ s.recent_abs_ackno <= s.next_seqno
      BY <1>1, <1>5
    <3> QED BY ONLY <1>num, <3>1
  <2>3. n = w.num_read + (IF sy THEN 1 ELSE 0) + (IF fi THEN 1 ELSE 0)
    BY <1>6, <2>1, Zenon
  <2> QED BY <1>3, <1>5, <1>6, <1>14, <2>2, <2>3 DEF Numbered
<1>18. s.next_seqno \in 0 .. n /\ Carries(t, seg, s.next_seqno)
  <2>1. s.stream.num_read = Index(s.next_seqno)
    <3>1. CASE s.is_syn_set
      BY <1>1, <1>5, <1>15, <3>1 DEF Index
    <3>2. CASE ~s.is_syn_set
      BY <1>1, <1>5, <1>15, <3>2 DEF Index
    <3> QED BY <1>1, <3>1, <3>2
  <2>2. Index(s.next_seqno) + pl <= w.num_read /\ s.next_seqno + len <= n
    BY ONLY <1>num, <2>1
  <2>3. seg.fin => t.is_fin_set /\ s.next_seqno + len = n
    BY <1>6, <1>11, <1>14
  <2>4. s.next_seqno \in 0 .. n
    BY <1>1, <1>3, <1>11
  <2> QED BY <1>3, <1>12, <1>14, <2>1, <2>2, <2>3, <2>4 DEF Carries
<1>19. IsFrom(t, seg)
  BY <1>14, <1>18 DEF IsFrom
<1>20. Outbox(t)
  <2> SUFFICES ASSUME NEW i \in 1 .. Len(out) PROVE IsFrom(t, out[i])
    BY <1>14 DEF Outbox
  <2>1. Len(s.segments_out) \in Nat
    BY <1>1
  <2>2. i \in 1 .. Len(s.segments_out) \/ i = Len(s.segments_out) + 1
    BY <1>10, <2>1
  <2>3. CASE i = Len(s.segments_out) + 1
    BY <1>10, <1>19, <2>3
  <2>4. CASE i \in 1 .. Len(s.segments_out)
    <3>1. out[i] = s.segments_out[i] /\ IsFrom(s, s.segments_out[i])
      BY <1>10, <2>4 DEF Link, Outbox
    <3>2. /\ s.segments_out[i].payload \in Seq(Nat) /\ s.segments_out[i].syn \in BOOLEAN
          /\ s.segments_out[i].fin \in BOOLEAN
      BY <1>1, <2>4, QueueTypes
    <3> QED BY <1>1, <1>13, <1>16, <3>1, <3>2, IsFromOn
  <2> QED BY <2>2, <2>3, <2>4
<1>21. Queued(t)
  <2>1. PICK st \in [1 .. m + 1 -> 0 .. s.next_seqno] : Contiguous(s, st)
    BY DEF Link, Queued
  <2> DEFINE u == [i \in 1 .. m + 2 |-> IF i = m + 2 THEN n ELSE st[i]]
  <2>m. m \in Nat /\ s.next_seqno \in Nat
    BY <1>1
  <2> HIDE DEF m
  <2>2. \A i \in 1 .. m + 1 : st[i] \in 0 .. s.next_seqno /\ u[i] = st[i]
    BY ONLY <2>1, <2>m, SMTT(30)
  <2>3. u[m + 2] = n /\ u[1] = st[1] /\ u[m + 1] = st[m + 1]
    BY <1>1
  <2>4. u \in [1 .. m + 2 -> 0 .. n]
    <3>1. \A i \in 1 .. m + 2 : u[i] \in 0 .. n
      BY ONLY <1>num, <2>1, <2>m, SMTT(30)
    <3> QED BY <3>1
  <2> HIDE DEF u
  <2>5. st[1] = s.next_seqno - s.bytes_in_flight /\ st[m + 1] = s.next_seqno
    BY <2>1 DEF Contiguous, m
  <2>6. u[1] = n - b
    BY ONLY <1>num, <2>3, <2>5
  <2>7. ASSUME NEW i \in 1 .. m + 1
        PROVE  Carries(t, q[i], u[i]) /\ u[i + 1] = u[i] + length_in_sequence_space(q[i])
    <3>1. CASE i = m + 1
      <4>1. q[i] = seg /\ u[i] = s.next_seqno /\ u[i + 1] = n
        BY <1>1, <1>9, <2>3, <2>5, <3>1
      <4> QED BY <1>11, <1>12, <1>18, <4>1
    <3>2. CASE i # m + 1
      <4>1. i \in 1 .. m /\ i + 1 \in 1 .. m + 1
        BY <1>1, <3>2
      <4>2. /\ Carries(s, s.outstanding[i], st[i]) /\ st[i] \in 0 .. s.next_seqno
            /\ st[i + 1] = st[i] + length_in_sequence_space(s.outstanding[i])
        BY <2>1, <2>2, <4>1 DEF Contiguous, m
      <4>3. q[i] = s.outstanding[i] /\ u[i] = st[i] /\ u[i + 1] = st[i + 1]
        BY <1>9, <2>2, <4>1
      <4>4. /\ s.outstanding[i].payload \in Seq(Nat) /\ s.outstanding[i].syn \in BOOLEAN
            /\ s.outstanding[i].fin \in BOOLEAN
        BY <1>1, <4>1, QueueTypes, Zenon DEF m
      <4>5. Carries(t, s.outstanding[i], st[i])
        BY <1>1, <1>13, <1>16, <4>2, <4>4, CarriesOn, Zenon
      <4> QED BY <4>2, <4>3, <4>5
    <3> QED BY <3>1, <3>2
  <2>8. Len(q) + 1 = m + 2 /\ Len(q) = m + 1
    BY <1>1, <1>9
  <2>9. Contiguous(t, u)
    BY <1>14, <2>3, <2>6, <2>7, <2>8 DEF Contiguous
  <2> QED BY <1>14, <2>4, <2>8, <2>9 DEF Queued
<1>22. Heard(t, r)
  <2>1. n - b = s.next_seqno - s.bytes_in_flight
    BY <1>1, <1>3, <1>11
  <2>2. CASE r.if_syn_set
    BY <1>14, <2>1, <2>2 DEF Link, Heard
  <2>3. CASE ~r.if_syn_set
    <3>1. /\ s.recent_abs_ackno = 0 /\ s.window_size = 1 /\ s.bytes_in_flight = s.next_seqno
      BY <2>3 DEF Link, Heard
    <3>2. b = n /\ ~fi
      BY <1>3, <1>6, <1>11, <2>3, <3>1
    <3> QED BY <1>14, <2>3, <3>1, <3>2 DEF Heard
  <2> QED BY <2>2, <2>3
<1>23. Tracks(r, t)
  <2>1. Tracks(r, s)
    BY DEF Link
  <2>2. /\ r.reassembler.next_index \in Nat /\ r.abs_checkpoint \in Nat
        /\ \A k \in DOMAIN r.reassembler.unassembled : k \in Nat
    <3>1. r.reassembler \in Reassemblers(Capacity) /\ r.abs_checkpoint \in Nat
      BY <1>1 DEF Receivers
    <3>2. r.reassembler.unassembled \in Maps /\ r.reassembler.next_index \in Nat
      BY <3>1 DEF Reassemblers
    <3>3. DOMAIN r.reassembler.unassembled \subseteq Nat
      BY <3>2, MapFacts
    <3> QED BY <3>1, <3>2, <3>3
  <2>3. ~r.if_fin_set
    BY <1>3, <2>1 DEF Tracks
  <2>4. r.abs_seqno_fin = IF r.if_fin_set THEN t.next_seqno - 1 ELSE 0
    BY <2>1, <2>3 DEF Tracks
  <2>5. r.abs_checkpoint <= n /\ r.reassembler.next_index <= w.num_read
    <3>1. /\ r.abs_checkpoint <= s.next_seqno
          /\ r.reassembler.next_index <= s.stream.num_read
      BY <2>1 DEF Tracks
    <3> QED BY ONLY <1>num, <2>2, <3>1
  <2>6. \A k \in DOMAIN r.reassembler.unassembled : k < w.num_read
    BY <1>1, <1>3, <1>4, <2>1, <2>2 DEF Tracks
  <2> QED BY <1>6, <1>14, <2>1, <2>3, <2>4, <2>5, <2>6 DEF Tracks
<1>24. TimerOk(t)
  BY <1>9, <1>14 DEF TimerOk
<1>25. ToSend(s) \in Nat /\ ToSend(t) \in Nat /\ ToSend(t) < ToSend(s)
  <2> DEFINE l == Len(s.stream.buffer)
             y == IF seg.fin THEN 0 ELSE 1
  <2>1. Len(w.buffer) \in Nat
    BY <1>3 DEF ByteStreams
  <2>2. ToSend(t) = Len(w.buffer) + 0 + y
    BY <1>6, <1>14, Zenon DEF ToSend
  <2>3. ToSend(s) = l + (IF s.is_syn_set THEN 0 ELSE 1) + 1
    BY <1>3, Zenon DEF ToSend
  <2>4. Len(w.buffer) = l - pl /\ l \in Nat
    BY <1>1, <1>3
  <2>5. len >= 1
    BY <1>3
  <2> HIDE DEF l
  <2>6. CASE s.is_syn_set
    <3>1. ~seg.syn /\ ToSend(s) = l + 0 + 1
      BY <1>6, <2>3, <2>6
    <3>2. CASE seg.fin
      BY <1>4, <2>1, <2>2, <2>4, <3>1, <3>2
    <3>3. CASE ~seg.fin
      BY <1>4, <1>7, <2>1, <2>2, <2>4, <2>5, <3>1, <3>3
    <3> QED BY <3>2, <3>3
  <2>7. CASE ~s.is_syn_set
    <3>1. ToSend(s) = l + 1 + 1 /\ y \in {0, 1}
      BY <2>3, <2>7
    <3> HIDE DEF y
    <3> QED BY <1>4, <2>1, <2>2, <2>4, <3>1
  <2> QED BY <2>6, <2>7
<1> QED BY <1>1, <1>3, <1>13, <1>14, <1>16, <1>17, <1>20, <1>21, <1>22, <1>23, <1>24, <1>25
         DEF Link, Keeps

(* The loop of fill_window, as a function of the number of rounds. *)
FillRounds(s, n, f) == f = [k \in 0 .. n |-> IF k = 0 THEN s ELSE FillRound(f[k - 1])]

(* fill_window ends with such a function. *)
LEMMA FillWindowIs ==
  ASSUME NEW s, NEW n \in Nat, n = Len(s.stream.buffer) + 2
  PROVE  \E f : FillRounds(s, n, f) /\ fill_window(s) = f[n]
<1> DEFINE W == {k \in 0 .. n : \E f : FillRounds(s, k, f)}
<1>1. 0 \in W
  <2>1. FillRounds(s, 0, [k \in 0 .. 0 |-> s])
    BY DEF FillRounds
  <2> QED BY <2>1
<1>2. ASSUME NEW k \in 1 .. n, k - 1 \in W PROVE k \in W
  <2>1. PICK g : FillRounds(s, k - 1, g)
    BY <1>2
  <2> DEFINE f == [i \in 0 .. k |-> IF i = k THEN FillRound(g[k - 1]) ELSE g[i]]
  <2>2. g = [i \in 0 .. k - 1 |-> IF i = 0 THEN s ELSE FillRound(g[i - 1])]
    BY <2>1, Zenon DEF FillRounds
  <2>3. \A i \in 0 .. k : f[i] = IF i = 0 THEN s ELSE FillRound(f[i - 1])
    BY <2>2
  <2>4. FillRounds(s, k, f)
    BY <2>3 DEF FillRounds
  <2> QED BY <2>4
<1> HIDE DEF W
<1>3. n \in W
  <2>1. \A k \in 0 .. n : k \in W
    BY <1>1, <1>2, UpTo, ZenonT(60)
  <2> QED BY <2>1
<1>4. \E f : FillRounds(s, n, f)
  BY <1>3 DEF W
<1> DEFINE F == CHOOSE f : FillRounds(s, n, f)
<1>5. FillRounds(s, n, F)
  BY <1>4, Zenon
<1>6. fill_window(s) = F[n]
  BY Zenon DEF fill_window, FillRounds
<1> QED BY <1>5, <1>6, ZenonT(60)

(* TCPSender::fill_window keeps the link, and the rounds of the model are  *)
(* enough: nothing is left that the window has room for.                   *)
LEMMA FillWindowKeeps ==
  ASSUME NEW s, NEW r, Link(s, r), NEW t, t = fill_window(s)
  PROVE  Keeps(s, t, r) /\ ~FillMore(t)
<1> DEFINE n == Len(s.stream.buffer) + 2
<1>1. /\ s \in Senders /\ n \in Nat /\ s.is_syn_set \in BOOLEAN /\ s.is_fin_set \in BOOLEAN
      /\ Len(s.stream.buffer) \in Nat
  BY SenderTypes DEF Link
<1>2. ToSend(s) \in Nat /\ ToSend(s) <= n
  <2> DEFINE x == IF s.is_syn_set THEN 0 ELSE 1
             y == IF s.is_fin_set THEN 0 ELSE 1
  <2>1. x \in {0, 1} /\ y \in {0, 1} /\ ToSend(s) = Len(s.stream.buffer) + x + y
    BY DEF ToSend
  <2> HIDE DEF x, y
  <2> QED BY <1>1, <2>1
<1>3. PICK f : FillRounds(s, n, f) /\ fill_window(s) = f[n]
  BY <1>1, FillWindowIs
<1> HIDE DEF n
<1>4. \A k \in 0 .. n : f[k] = IF k = 0 THEN s ELSE FillRound(f[k - 1])
  BY <1>3, Zenon DEF FillRounds
<1> DEFINE P(x, k) == Keeps(s, x, r) /\ (FillMore(x) => ToSend(x) + k <= ToSend(s))
           W == {k \in 0 .. n : P(f[k], k)}
<1>5. 0 \in W
  <2>1. f[0] = s /\ 0 \in 0 .. n
    BY <1>1, <1>4
  <2>2. Keeps(s, s, r)
    BY KeepsSelf
  <2>3. ToSend(s) + 0 <= ToSend(s)
    BY <1>2
  <2> QED BY <2>1, <2>2, <2>3
<1>6. ASSUME NEW k \in 1 .. n, k - 1 \in W PROVE k \in W
  <2>1. f[k] = FillRound(f[k - 1]) /\ P(f[k - 1], k - 1) /\ k \in 0 .. n
    BY <1>1, <1>4, <1>6, SMTT(60)
  <2>2. Link(f[k - 1], r)
    BY <2>1 DEF Keeps
  <2>3. CASE FillMore(f[k - 1])
    <3>1. f[k] = FillOne(f[k - 1])
      BY <2>1, <2>3 DEF FillRound
    <3>2. /\ Keeps(f[k - 1], f[k], r) /\ ToSend(f[k - 1]) \in Nat /\ ToSend(f[k]) \in Nat
          /\ ToSend(f[k]) < ToSend(f[k - 1])
      BY <2>2, <2>3, <3>1, FillOneKeeps
    <3>3. Keeps(s, f[k], r)
      BY <2>1, <3>2, KeepsOn
    <3>4. ToSend(f[k - 1]) + (k - 1) <= ToSend(s)
      BY <2>1, <2>3
    <3>5. ToSend(f[k]) + k <= ToSend(s)
      BY <1>1, <1>2, <3>2, <3>4
    <3> QED BY <2>1, <3>3, <3>5
  <2>4. CASE ~FillMore(f[k - 1])
    <3>1. f[k] = f[k - 1]
      BY <2>1, <2>4 DEF FillRound
    <3> QED BY <2>1, <2>4, <3>1
  <2> QED BY <2>3, <2>4
<1> HIDE DEF W
<1>7. \A k \in 0 .. n : k \in W
  BY <1>1, <1>5, <1>6, UpTo, ZenonT(60)
<1>8. P(f[n], n)
  BY <1>1, <1>7 DEF W
<1>9. ~FillMore(t)
  <2> SUFFICES ASSUME FillMore(t) PROVE FALSE
    OBVIOUS
  <2>1. Link(t, r) /\ ToSend(t) + n <= ToSend(s)
    BY <1>3, <1>8 DEF Keeps
  <2>2. /\ ToSend(t) \in Nat /\ ToSend(FillOne(t)) \in Nat
        /\ ToSend(FillOne(t)) < ToSend(t)
    BY <2>1, FillOneKeeps
  <2> QED BY <1>1, <1>2, <2>1, <2>2
<1> QED BY <1>3, <1>8, <1>9
=============================================================================
