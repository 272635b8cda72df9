-------------------------- MODULE ConnectionLemmas --------------------------
(***************************************************************************)
(* What the methods of a TCPReceiver and of a TCPConnection keep of the    *)
(* relation between an endpoint and its peer (Link, Paired), under the     *)
(* same assumptions as in LinkLemmas.                                      *)
(***************************************************************************)
EXTENDS LinkLemmas

(* The receiver after it took in what sender s has at absolute seqno k.    *)
Received(r, s, seg, k) ==
    [reassembler |-> push_substring(r.reassembler, seg.payload, Index(k), seg.fin),
     capacity |-> Capacity, isn |-> s.isn, if_syn_set |-> TRUE,
     if_fin_set |-> r.if_fin_set \/ seg.fin, abs_checkpoint |-> k,
     abs_seqno_fin |-> IF r.if_fin_set \/ seg.fin THEN s.next_seqno - 1 ELSE 0]

(* The index in the stream, computed modulo 2^64. *)
LEMMA StreamIndex ==
  ASSUME NEW k \in Nat, k < Mod, NEW syn \in BOOLEAN, syn <=> k = 0
  PROVE  (IF syn THEN k ELSE (k - 1) % (Mod * Mod)) = Index(k)
<1>1. CASE k = 0
  BY <1>1 DEF Index
<1>2. CASE k > 0
  <2>1. k - 1 \in Nat /\ k - 1 < Mod * Mod /\ Mod * Mod \in Nat
    BY <1>2, ModAssumption
  <2> DEFINE m == Mod * Mod
  <2> HIDE DEF m
  <2>2. (k - 1) % m = k - 1
    BY <2>1, SMTT(30) DEF m
  <2> QED BY <1>2, <2>2, Zenon DEF Index, m
<1> QED BY <1>1, <1>2

(* segment_received of a segment of the peer: nothing, or the numbers are  *)
(* recovered and the payload goes to its place in the stream.              *)
LEMMA ReceiveIs ==
  ASSUME NEW s, NEW r, Link(s, r), NEW seg \in Packets, IsFrom(s, seg),
         NEW q, q = receive(r, seg)
  PROVE  \/ q = r
         \/ \E k \in 0 .. s.next_seqno :
               /\ Carries(s, seg, k) /\ length_in_sequence_space(seg) > 0
               /\ r.if_syn_set \/ seg.syn
               /\ q = Received(r, s, seg, k)
<1> DEFINE len == length_in_sequence_space(seg)
<1>1. /\ s \in Senders /\ r \in Receivers /\ Numbered(s) /\ s.next_seqno \in Nat
      /\ s.isn \in WrappingInt
  BY SenderTypes DEF Link
<1>2. /\ seg.payload \in Seq(Nat) /\ seg.syn \in BOOLEAN /\ seg.fin \in BOOLEAN
      /\ r.if_syn_set \in BOOLEAN /\ r.if_fin_set \in BOOLEAN
  BY <1>1 DEF Packets, Receivers
<1>3. len \in Nat /\ (seg.syn => len > 0) /\ (seg.fin => len > 0)
  <2>1. /\ len \in Nat /\ Len(seg.payload) \in Nat
        /\ seg.syn => len >= Len(seg.payload) + 1
        /\ seg.fin => len >= Len(seg.payload) + 1
    BY <1>2, LengthFacts
  <2> HIDE DEF len
  <2> QED BY <1>2, <2>1
<1>4. CASE len = 0
  <2>1. ~seg.syn /\ ~seg.fin
    BY <1>3, <1>4
  <2>2. note_fin(note_syn(r, seg), seg) = r
    BY <2>1 DEF note_fin, note_syn
  <2> QED BY <1>4, <2>2 DEF receive
<1>5. ASSUME len # 0, NEW k \in 0 .. s.next_seqno, Carries(s, seg, k)
      PROVE  q = r \/ ((r.if_syn_set \/ seg.syn) /\ q = Received(r, s, seg, k))
  <2>1. /\ seg.seqno = wrap(k, s.isn) /\ (seg.syn <=> k = 0)
        /\ (seg.fin => s.is_fin_set /\ k + len = s.next_seqno)
    BY <1>5 DEF Carries
  <2>2. /\ r.if_syn_set => s.is_syn_set /\ r.isn = s.isn
        /\ r.if_fin_set => r.if_syn_set /\ s.is_fin_set
        /\ r.abs_seqno_fin = IF r.if_fin_set THEN s.next_seqno - 1 ELSE 0
        /\ r.abs_checkpoint \in Nat /\ r.abs_checkpoint <= s.next_seqno
        /\ ~r.if_syn_set => ~s.is_fin_set
    BY <1>1 DEF Link, Tracks, Heard, Receivers
  <2>3. CASE ~r.if_syn_set /\ ~seg.syn
    <3>1. ~seg.fin
      BY <2>1, <2>2, <2>3
    <3>2. note_fin(note_syn(r, seg), seg) = r
      BY <2>3, <3>1 DEF note_fin, note_syn
    <3> QED BY <2>3, <3>2 DEF receive
  <2>4. CASE r.if_syn_set \/ seg.syn
    <3> DEFINE c == r.abs_checkpoint
               f == r.if_fin_set \/ seg.fin
               a == IF r.if_fin_set \/ seg.fin THEN s.next_seqno - 1 ELSE 0
               r1 == [reassembler |-> r.reassembler, capacity |-> Capacity, isn |-> s.isn,
                      if_syn_set |-> TRUE, if_fin_set |-> r.if_fin_set,
                      abs_checkpoint |-> c, abs_seqno_fin |-> r.abs_seqno_fin]
               r2 == [reassembler |-> r.reassembler, capacity |-> Capacity, isn |-> s.isn,
                      if_syn_set |-> TRUE, if_fin_set |-> f,
                      abs_checkpoint |-> c, abs_seqno_fin |-> a]
               pushed == push_substring(r.reassembler, seg.payload, Index(k), seg.fin)
    <3>1. 2 * s.next_seqno < Mod /\ k \in Nat /\ k < Mod /\ c \in 0 .. s.next_seqno
      <4>1. 2 * s.next_seqno < Mod
        BY <1>1, NumbersFit
      <4> QED BY <1>1, <2>2, <4>1, ModAssumption
    <3>2. unwrap(wrap(k, s.isn), s.isn, c) = k
      BY <1>1, <3>1, NumberFound
    <3>3. ASSUME seg.fin
          PROVE  unwrap(minus(plus(wrap(k, s.isn), len), 1), s.isn, c) = s.next_seqno - 1
      <4>1. k + len >= 1 /\ k + len - 1 = s.next_seqno - 1 /\ s.next_seqno - 1 \in 0 .. s.next_seqno
        <5>1. len > 0 /\ k + len = s.next_seqno
          BY <1>3, <2>1, <3>3
        <5> HIDE DEF len
        <5> QED BY <1>1, <1>3, <3>1, <5>1
      <4>2. minus(plus(wrap(k, s.isn), len), 1) = wrap(s.next_seqno - 1, s.isn)
        <5> HIDE DEF len
        <5>1. minus(plus(wrap(k, s.isn), len), 1) = wrap(k + len - 1, s.isn)
          BY <1>1, <1>3, <3>1, <4>1, WrapShift
        <5> QED BY <4>1, <5>1
      <4> QED BY <1>1, <3>1, <4>1, <4>2, NumberFound
    <3>4. note_syn(r, seg) = [r EXCEPT !.isn = s.isn, !.if_syn_set = TRUE]
      <4>1. CASE r.if_syn_set
        BY <1>1, <2>2, <4>1, Zenon DEF note_syn, Receivers
      <4>2. CASE ~r.if_syn_set
        <5>1. seg.syn /\ k = 0 /\ wrap(0, s.isn) = s.isn
          BY <1>1, <2>1, <2>4, <4>2, WrapZero
        <5> QED BY <2>1, <4>2, <5>1, Zenon DEF note_syn
      <4> QED BY <4>1, <4>2
    <3>5. note_syn(r, seg) = r1
      BY <1>1, <3>4, Zenon DEF Receivers
    <3>6. note_fin(r1, seg) = r2
      <4>1. CASE ~r.if_fin_set /\ seg.fin
        BY <2>1, <3>3, <4>1, Zenon DEF note_fin
      <4>2. CASE r.if_fin_set \/ ~seg.fin
        BY <1>2, <2>2, <4>2, Zenon DEF note_fin
      <4> QED BY <1>2, <4>1, <4>2
    <3>7. receive(r, seg) = push_payload(r2, seg)
      BY <1>5, <3>5, <3>6 DEF receive
    <3>8. (IF seg.syn THEN k ELSE (k - 1) % (Mod * Mod)) = Index(k)
      BY <1>2, <2>1, <3>1, StreamIndex
    <3>9. unwrap(seg.seqno, r2.isn, r2.abs_checkpoint) = k
      BY <2>1, <3>2
    <3>10. push_payload(r2, seg) = [r2 EXCEPT !.reassembler = pushed, !.abs_checkpoint = k]
      BY <3>8, <3>9, Zenon DEF push_payload
    <3> HIDE DEF pushed, f, a, c
    <3>11. push_payload(r2, seg)
             = [reassembler |-> pushed, capacity |-> Capacity, isn |-> s.isn,
                if_syn_set |-> TRUE, if_fin_set |-> f, abs_checkpoint |-> k,
                abs_seqno_fin |-> a]
      BY <3>10, ZenonT(60)
    <3>12. push_payload(r2, seg) = Received(r, s, seg, k)
      BY <3>11, Zenon DEF Received, pushed, f, a
    <3> QED BY <2>4, <3>7, <3>12
  <2> QED BY <1>2, <2>3, <2>4
<1>6. CASE len # 0
  <2>1. PICK k \in 0 .. s.next_seqno : Carries(s, seg, k)
    BY <1>6 DEF IsFrom
  <2>2. len > 0
    <3> HIDE DEF len
    <3> QED BY <1>3, <1>6
  <2> QED BY <1>5, <1>6, <2>1, <2>2
<1> QED BY <1>4, <1>6

(* segment_received of a segment of the peer keeps the link from the peer, *)
(* and the ackno never goes back.                                          *)
LEMMA ReceiveKeeps ==
  ASSUME NEW s, NEW r, Link(s, r), NEW seg \in Packets, IsFrom(s, seg),
         NEW q, q = receive(r, seg)
  PROVE  /\ Link(s, q) /\ Progresses(r, q)
         /\ q.reassembler.output.num_read = r.reassembler.output.num_read
<1>1. s \in Senders /\ r \in Receivers /\ Numbered(s) /\ Capacity \in Nat
  BY ConnectionConstants DEF Link
<1>2. CASE q = r
  BY <1>1, <1>2, ProgressesSelf
<1>3. ASSUME NEW k \in 0 .. s.next_seqno, Carries(s, seg, k), length_in_sequence_space(seg) > 0,
             r.if_syn_set \/ seg.syn, q = Received(r, s, seg, k)
      PROVE  /\ Link(s, q) /\ Progresses(r, q)
             /\ q.reassembler.output.num_read = r.reassembler.output.num_read
  <2> DEFINE x == r.reassembler
             y == push_substring(x, seg.payload, Index(k), seg.fin)
             n == Len(seg.payload)
             fin == s.next_seqno - 1
             a == IF r.if_fin_set \/ seg.fin THEN s.next_seqno - 1 ELSE 0
  <2>1. /\ q.reassembler = y /\ q.capacity = Capacity /\ q.isn = s.isn
        /\ q.if_syn_set = TRUE /\ q.if_fin_set = (r.if_fin_set \/ seg.fin)
        /\ q.abs_checkpoint = k /\ q.abs_seqno_fin = a
        /\ q = [reassembler |-> y, capacity |-> Capacity, isn |-> s.isn, if_syn_set |-> TRUE,
                if_fin_set |-> r.if_fin_set \/ seg.fin, abs_checkpoint |-> k,
                abs_seqno_fin |-> a]
    BY <1>3 DEF Received
  <2>2. /\ s.next_seqno \in Nat /\ s.isn \in WrappingInt /\ s.stream.num_read \in Nat
        /\ s.bytes_in_flight \in Nat
    BY <1>1, SenderTypes
  <2>3. /\ seg.payload \in Seq(Nat) /\ seg.syn \in BOOLEAN /\ seg.fin \in BOOLEAN
        /\ r.if_syn_set \in BOOLEAN /\ r.if_fin_set \in BOOLEAN /\ n \in Nat
    BY <1>1 DEF Packets, Receivers
  <2>4. k \in Nat /\ Index(k) \in Nat
    BY <2>2 DEF Index
  <2>5. /\ seg.payload = Substring(Index(k), n) /\ Index(k) + n <= s.stream.num_read
        /\ k + length_in_sequence_space(seg) <= s.next_seqno
        /\ seg.fin => s.is_fin_set
    BY <1>3 DEF Carries
  <2>6. length_in_sequence_space(seg) \in Nat
    BY <2>3, LengthFacts
  <2>7. s.next_seqno > 0
    BY <1>3, <2>2, <2>4, <2>5, <2>6
  <2>8. s.is_syn_set
    BY <1>1, <2>7 DEF Numbered
  <2>9. /\ Sound(x, Capacity)
        /\ (r.if_syn_set => r.isn = s.isn) /\ (r.if_fin_set => s.is_fin_set)
        /\ r.abs_seqno_fin = (IF r.if_fin_set THEN s.next_seqno - 1 ELSE 0)
        /\ x.next_index <= s.stream.num_read
        /\ \A j \in DOMAIN x.unassembled : j < s.stream.num_read
    BY DEF Link, Tracks
  <2> HIDE DEF n
  <2>10. PushEffect(x, y, Capacity, Index(k), n, seg.fin)
    BY <1>1, <2>3, <2>4, <2>5, <2>9, PushFacts
  <2> HIDE DEF y
  <2>11. /\ Sound(y, Capacity) /\ y \in Reassemblers(Capacity) /\ x.next_index \in Nat
         /\ y.next_index \in Nat /\ y.next_index >= x.next_index
         /\ DOMAIN y.unassembled \subseteq DOMAIN x.unassembled \cup Index(k) .. Index(k) + n - 1
         /\ \A j \in x.next_index .. y.next_index - 1 :
               j \in DOMAIN x.unassembled \cup Index(k) .. Index(k) + n - 1
    BY <2>9, <2>10, Zenon DEF PushEffect, Sound, Reassemblers
  <2>12. \A j \in DOMAIN x.unassembled \cup Index(k) .. Index(k) + n - 1 :
            j < s.stream.num_read
    BY ONLY <2>2, <2>3, <2>4, <2>5, <2>9
  <2>13. y.next_index <= s.stream.num_read
    <3>1. CASE y.next_index = x.next_index
      BY <2>9, <3>1
    <3>2. CASE y.next_index # x.next_index
      <4>1. y.next_index - 1 \in x.next_index .. y.next_index - 1
        BY ONLY <2>11, <3>2
      <4>2. y.next_index - 1 < s.stream.num_read
        BY <2>11, <2>12, <4>1
      <4> QED BY ONLY <2>2, <2>11, <4>2
    <3> QED BY <3>1, <3>2
  <2>14. a \in Nat
    BY ONLY <2>2, <2>7
  <2>15. q \in Receivers
    <3> HIDE DEF a
    <3>1. (r.if_fin_set \/ seg.fin) \in BOOLEAN
      OBVIOUS
    <3> QED BY <2>1, <2>2, <2>4, <2>11, <2>14, <3>1, ZenonT(60) DEF Receivers
  <2>16. Progresses(r, q)
    <3> SUFFICES ASSUME r.if_syn_set PROVE abs_ackno(r) <= abs_ackno(q)
      BY <2>1, <2>9 DEF Progresses
    <3>1. /\ abs_ackno(r) \in Nat
          /\ abs_ackno(r) = x.next_index + 1 \/ abs_ackno(r) = x.next_index + 2
          /\ abs_ackno(r) = x.next_index + 2 <=> r.abs_seqno_fin = x.next_index + 1
      BY <1>1, AcknoFacts
    <3>2. /\ abs_ackno(q) \in Nat
          /\ abs_ackno(q) = y.next_index + 1 \/ abs_ackno(q) = y.next_index + 2
          /\ abs_ackno(q) = y.next_index + 2 <=> a = y.next_index + 1
      BY <2>1, <2>15, AcknoFacts
    <3>3. CASE abs_ackno(r) = x.next_index + 1
      BY ONLY <2>11, <3>1, <3>2, <3>3
    <3>4. CASE abs_ackno(r) = x.next_index + 2
      <4>1. r.abs_seqno_fin = x.next_index + 1
        BY <3>1, <3>4
      <4>2. r.if_fin_set
        BY <2>9, <2>11, <4>1
      <4>3. a = x.next_index + 1 /\ s.next_seqno - 1 = x.next_index + 1
        BY <2>9, <4>1, <4>2
      <4>4. s.stream.num_read + 2 = s.next_seqno
        BY <1>1, <2>9, <4>2, NumbersFit
      <4>5. y.next_index = x.next_index
        BY ONLY <2>2, <2>11, <2>13, <4>3, <4>4
      <4> QED BY ONLY <3>2, <3>4, <4>3, <4>5, <2>11
    <3> QED BY <3>1, <3>3, <3>4
  <2>17. Heard(s, q)
    <3>1. abs_ackno(q) \in Nat
      BY <2>15, AcknoFacts
    <3>2. CASE r.if_syn_set
      <4>1. s.next_seqno - s.bytes_in_flight <= abs_ackno(r) /\ abs_ackno(r) <= abs_ackno(q)
        BY <2>16, <3>2 DEF Link, Heard, Progresses
      <4>2. abs_ackno(r) \in Nat
        BY <1>1, AcknoFacts
      <4>3. s.next_seqno - s.bytes_in_flight <= abs_ackno(q)
        BY ONLY <2>2, <3>1, <4>1, <4>2
      <4> QED BY <2>1, <4>3 DEF Heard
    <3>3. CASE ~r.if_syn_set
      <4>1. s.bytes_in_flight = s.next_seqno
        BY <3>3 DEF Link, Heard
      <4>2. s.next_seqno - s.bytes_in_flight <= abs_ackno(q)
        BY ONLY <2>2, <3>1, <4>1
      <4> QED BY <2>1, <4>2 DEF Heard
    <3> QED BY <2>3, <3>2, <3>3
  <2>18. Tracks(q, s)
    <3>1. q.if_fin_set => s.is_fin_set
      BY <2>1, <2>5, <2>9, ZenonT(60)
    <3>2. q.abs_seqno_fin = IF q.if_fin_set THEN s.next_seqno - 1 ELSE 0
      BY <2>1, ZenonT(60)
    <3>3. \A j \in DOMAIN y.unassembled : j < s.stream.num_read
      BY <2>11, <2>12
    <3>4. k <= s.next_seqno
      BY <2>2
    <3> HIDE DEF a
    <3> QED BY <2>1, <2>8, <2>11, <2>13, <3>1, <3>2, <3>3, <3>4, Zenon DEF Tracks
  <2>19. q.reassembler.output.num_read = r.reassembler.output.num_read
    BY <2>1, <2>10, Zenon DEF PushEffect
  <2> QED BY <1>1, <2>15, <2>16, <2>17, <2>18, <2>19 DEF Link
<1> QED BY <1>2, <1>3, ReceiveIs

(* A change of the output of the receiver's reassembler that leaves the    *)
(* indices alone: the reader takes bytes, or the error flag is set.        *)
LEMMA OutputKeeps ==
  ASSUME NEW s, NEW r, Link(s, r), NEW y, Sound(y, Capacity),
         y.next_index = r.reassembler.next_index,
         y.unassembled = r.reassembler.unassembled,
         NEW q, q = [r EXCEPT !.reassembler = y]
  PROVE  Link(s, q) /\ Progresses(r, q) /\ q.reassembler = y /\ q.if_syn_set = r.if_syn_set
<1>1. s \in Senders /\ r \in Receivers
  BY DEF Link
<1>2. y \in Reassemblers(Capacity)
  BY DEF Sound
<1>3. q \in Receivers
  BY <1>1, <1>2, ZenonT(60) DEF Receivers
<1>4. /\ q.reassembler = y /\ q.isn = r.isn /\ q.if_syn_set = r.if_syn_set
      /\ q.if_fin_set = r.if_fin_set /\ q.abs_checkpoint = r.abs_checkpoint
      /\ q.abs_seqno_fin = r.abs_seqno_fin
  BY <1>1, ZenonT(60) DEF Receivers
<1>5. abs_ackno(q) = abs_ackno(r)
  BY <1>4 DEF abs_ackno
<1>6. Progresses(r, q)
  BY <1>1, <1>4, <1>5, AcknoFacts DEF Progresses
<1>7. Heard(s, q)
  BY <1>4, <1>5 DEF Link, Heard
<1>8. Tracks(q, s)
  BY <1>4 DEF Link, Tracks
<1> QED BY <1>1, <1>3, <1>4, <1>6, <1>7, <1>8 DEF Link

(* ByteStream::set_error changes nothing else. *)
LEMMA ErrorGenuine ==
  ASSUME NEW st \in ByteStreams(Capacity, Nat), Genuine(st), NEW w, w = set_error(st)
  PROVE  /\ w \in ByteStreams(Capacity, Nat) /\ Genuine(w)
         /\ w.num_read = st.num_read /\ w.num_written = st.num_written
         /\ w.buffer = st.buffer /\ w.input_ended = st.input_ended
         /\ eof(st) => eof(w)
<1>1. w = [st EXCEPT !.error = TRUE]
  BY DEF set_error
<1>2. w \in ByteStreams(Capacity, Nat)
  BY <1>1, Zenon DEF ByteStreams
<1>3. /\ w.num_read = st.num_read /\ w.num_written = st.num_written
      /\ w.buffer = st.buffer /\ w.input_ended = st.input_ended /\ w.capacity = st.capacity
  BY <1>1 DEF ByteStreams
<1> QED BY <1>2, <1>3 DEF Genuine, eof

(* The error flag of a receiver's output. *)
LEMMA OutputError ==
  ASSUME NEW x, Sound(x, Capacity), NEW y, y = [x EXCEPT !.output = set_error(x.output)]
  PROVE  /\ Sound(y, Capacity) /\ y.next_index = x.next_index
         /\ y.unassembled = x.unassembled /\ y.output.num_read = x.output.num_read
<1> DEFINE w == set_error(x.output)
<1>1. x \in Reassemblers(Capacity) /\ x.output \in ByteStreams(Capacity, Nat) /\ Genuine(x.output)
  BY DEF Sound, Reassemblers
<1>2. /\ w \in ByteStreams(Capacity, Nat) /\ Genuine(w)
      /\ w.num_read = x.output.num_read /\ w.num_written = x.output.num_written
      /\ w.input_ended = x.output.input_ended
  BY <1>1, ErrorGenuine
<1>3. y = [x EXCEPT !.output = w]
  OBVIOUS
<1> HIDE DEF w
<1>4. y \in Reassemblers(Capacity)
  BY <1>1, <1>2, <1>3, ZenonT(60) DEF Reassemblers
<1>5. /\ y.output = w /\ y.next_index = x.next_index /\ y.unassembled = x.unassembled
      /\ y.unassembled_bytes = x.unassembled_bytes
  BY <1>1, <1>3, ZenonT(60) DEF Reassemblers
<1> QED BY <1>2, <1>4, <1>5 DEF Sound

-----------------------------------------------------------------------------
(* Connection c and its peer e, both directions as far as c is concerned.  *)
Talks(c, e) == Paired(c, e) /\ Link(e.sender, c.receiver)

(* What a method that neither writes nor reads does: c becomes d.          *)
Advances(c, d, e) ==
    /\ Talks(d, e) /\ Grows(c.sender, d.sender) /\ Progresses(c.receiver, d.receiver)
    /\ d.sender.stream.num_written = c.sender.stream.num_written
    /\ d.sender.stream.input_ended = c.sender.stream.input_ended
    /\ d.receiver.reassembler.output.num_read = c.receiver.reassembler.output.num_read

(* The types of a connection's members. *)
LEMMA TalkTypes ==
  ASSUME NEW c, NEW e, Talks(c, e)
  PROVE  /\ c \in Connections /\ c.sender \in Senders /\ c.receiver \in Receivers
         /\ c.segments_out \in Seq(Packets) /\ c.linger \in BOOLEAN /\ c.active \in BOOLEAN
         /\ c.time_since_last_segment \in Nat
         /\ e.sender \in Senders /\ e.receiver \in Receivers
         /\ Link(c.sender, e.receiver) /\ Link(e.sender, c.receiver)
         /\ TimerOk(c.sender) /\ Sound(c.receiver.reassembler, Capacity)
<1>1. c \in Connections /\ Link(c.sender, e.receiver) /\ Link(e.sender, c.receiver)
      /\ TimerOk(c.sender)
  BY DEF Talks, Paired
<1>2. c.segments_out \in Seq(Packets) /\ c.linger \in BOOLEAN /\ c.active \in BOOLEAN
      /\ c.time_since_last_segment \in Nat
  BY <1>1 DEF Connections
<1>3. Sound(c.receiver.reassembler, Capacity)
  BY <1>1, ZenonT(60) DEF Link, Tracks
<1> QED BY <1>1, <1>2, <1>3 DEF Link

(* Doing nothing is one. *)
LEMMA AdvancesSelf ==
  ASSUME NEW c, NEW e, Talks(c, e)
  PROVE  Advances(c, c, e)
BY TalkTypes, GrowsSelf, ProgressesSelf DEF Advances

(* Two of them, one after the other, are one. *)
LEMMA AdvancesOn ==
  ASSUME NEW c, NEW e, Talks(c, e), NEW d, Advances(c, d, e), NEW f, Advances(d, f, e)
  PROVE  Advances(c, f, e)
<1>1. Talks(d, e) /\ Talks(f, e)
  BY DEF Advances
<1>2. /\ c.sender \in Senders /\ d.sender \in Senders /\ f.sender \in Senders
      /\ c.receiver \in Receivers /\ d.receiver \in Receivers /\ f.receiver \in Receivers
  BY <1>1, TalkTypes
<1>3. Grows(c.sender, f.sender)
  BY <1>2, GrowsOn DEF Advances
<1>4. Progresses(c.receiver, f.receiver)
  BY <1>2, ProgressesOn DEF Advances
<1> QED BY <1>1, <1>3, <1>4 DEF Advances

(* Whatever is in the connection's queue stays in order when the sender    *)
(* and the receiver move on.                                               *)
LEMMA TalksFrame ==
  ASSUME NEW c, NEW e, Talks(c, e), NEW d \in Connections, d.segments_out = c.segments_out,
         Link(d.sender, e.receiver), Link(e.sender, d.receiver), TimerOk(d.sender),
         Grows(c.sender, d.sender), Progresses(c.receiver, d.receiver)
  PROVE  Talks(d, e)
<1>1. /\ c.sender \in Senders /\ c.receiver \in Receivers /\ d.sender \in Senders
      /\ d.receiver \in Receivers
  BY TalkTypes, ZenonT(60) DEF Link
<1>2. ASSUME NEW i \in 1 .. Len(c.segments_out)
      PROVE  InTransit(c.segments_out[i], d.sender, d.receiver)
  <2>1. InTransit(c.segments_out[i], c.sender, c.receiver)
    BY DEF Talks, Paired
  <2> QED BY <1>1, <2>1, InTransitOn
<1> QED BY <1>2 DEF Talks, Paired

(* A call of the sender. *)
LEMMA SenderAdvances ==
  ASSUME NEW c, NEW e, Talks(c, e), NEW t, Keeps(c.sender, t, e.receiver),
         NEW d, d = [c EXCEPT !.sender = t]
  PROVE  Advances(c, d, e) /\ d.sender = t /\ d.receiver = c.receiver
<1>1. /\ c \in Connections /\ c.receiver \in Receivers /\ TimerOk(c.sender)
      /\ Link(e.sender, c.receiver)
  BY TalkTypes
<1>2. t \in Senders /\ Link(t, e.receiver) /\ Grows(c.sender, t) /\ TimerOk(t)
      /\ t.stream.num_written = c.sender.stream.num_written
      /\ t.stream.input_ended = c.sender.stream.input_ended
  BY <1>1 DEF Keeps, Link
<1>3. d \in Connections /\ d.sender = t /\ d.receiver = c.receiver
      /\ d.segments_out = c.segments_out
  BY <1>1, <1>2 DEF Connections
<1>4. Progresses(c.receiver, c.receiver)
  BY <1>1, ProgressesSelf
<1>5. Talks(d, e)
  BY <1>1, <1>2, <1>3, <1>4, TalksFrame, Zenon
<1> QED BY <1>2, <1>3, <1>4, <1>5 DEF Advances

(* A change of the connection's own flags and clock. *)
LEMMA FlagsAdvance ==
  ASSUME NEW c, NEW e, Talks(c, e), NEW d \in Connections, d.sender = c.sender,
         d.receiver = c.receiver, d.segments_out = c.segments_out
  PROVE  Advances(c, d, e)
<1>1. /\ c.sender \in Senders /\ c.receiver \in Receivers /\ TimerOk(c.sender)
      /\ Link(c.sender, e.receiver) /\ Link(e.sender, c.receiver)
  BY TalkTypes
<1>2. Grows(c.sender, d.sender) /\ Progresses(c.receiver, d.receiver)
  BY <1>1, GrowsSelf, ProgressesSelf
<1>3. Talks(d, e)
  BY <1>1, <1>2, TalksFrame
<1> QED BY <1>2, <1>3 DEF Advances

(* An outgoing segment carries what the sender made and the ackno of the   *)
(* receiver beside it (lines 130-134 of tcp_connection.cc).                *)
LEMMA StampedInTransit ==
  ASSUME NEW c, c.receiver \in Receivers, Sound(c.receiver.reassembler, Capacity),
         NEW s \in Senders, NEW seg \in Segments, IsFrom(s, seg), NEW rst \in BOOLEAN
  PROVE  InTransit(Stamped(c, seg, rst), s, c.receiver)
<1> DEFINE r == c.receiver
           ack == has_ackno(r)
           no == IF has_ackno(r) THEN ackno(r) ELSE 0
           win == IF has_ackno(r) THEN Lesser(window_size(r), UINT16_MAX) ELSE 0
           p == Stamped(c, seg, rst)
<1>1. p = [seqno |-> seg.seqno, syn |-> seg.syn, fin |-> seg.fin, payload |-> seg.payload,
           rst |-> rst, ack |-> ack, ackno |-> no, win |-> win]
  BY DEF Stamped
<1>2. /\ abs_ackno(r) \in Nat /\ r.isn \in WrappingInt /\ r.capacity = Capacity
      /\ r.if_syn_set \in BOOLEAN
  BY AcknoFacts DEF Receivers
<1>3. ack \in BOOLEAN /\ (ack <=> r.if_syn_set)
  BY <1>2 DEF has_ackno
<1>4. no \in WrappingInt /\ (ack => no = wrap(abs_ackno(r), r.isn))
  <2>1. wrap(abs_ackno(r), r.isn) \in WrappingInt
    BY <1>2, WrapType
  <2>2. 0 \in WrappingInt
    BY ModAssumption DEF WrappingInt
  <2> QED BY <2>1, <2>2 DEF ackno
<1>5. win \in Nat
  <2>1. /\ remaining_capacity(r.reassembler.output) \in Nat
        /\ remaining_capacity(r.reassembler.output) = Capacity - Len(r.reassembler.output.buffer)
    BY ConnectionConstants, RoomType, Zenon
  <2>2. window_size(r) \in Nat
    BY <1>2, <2>1 DEF window_size
  <2> QED BY <2>2 DEF Lesser, UINT16_MAX
<1> HIDE DEF p, ack, no, win
<1>6. /\ p.seqno = seg.seqno /\ p.syn = seg.syn /\ p.fin = seg.fin /\ p.payload = seg.payload
      /\ p.ack = ack /\ p.ackno = no
  BY <1>1
<1>7. p \in Packets
  BY <1>1, <1>3, <1>4, <1>5, ZenonT(60) DEF Packets, Segments
<1>8. length_in_sequence_space(p) = length_in_sequence_space(seg)
  BY <1>6 DEF length_in_sequence_space
<1>9. IsFrom(s, p)
  <2>1. \A k : Carries(s, seg, k) => Carries(s, p, k)
    BY <1>6, <1>8, Zenon DEF Carries
  <2> QED BY <1>8, <2>1, Zenon DEF IsFrom
<1>10. abs_ackno(r) \in 0 .. abs_ackno(r)
  BY <1>2
<1> QED BY <1>3, <1>4, <1>6, <1>7, <1>9, <1>10 DEF InTransit, p

(* send_segments: the sender's queue goes out. *)
LEMMA SendSegmentsAdvances ==
  ASSUME NEW c, NEW e, Talks(c, e), NEW d, d = send_segments(c)
  PROVE  Advances(c, d, e)
<1> DEFINE ready == c.sender.segments_out
           new == [i \in 1 .. Len(ready) |-> Stamped(c, ready[i], FALSE)]
           out == c.segments_out \o new
           t == [c.sender EXCEPT !.segments_out = <<>>]
<1>1. /\ c \in Connections /\ c.sender \in Senders /\ c.receiver \in Receivers
      /\ c.segments_out \in Seq(Packets) /\ TimerOk(c.sender)
      /\ Link(c.sender, e.receiver) /\ Link(e.sender, c.receiver)
      /\ Sound(c.receiver.reassembler, Capacity)
  BY TalkTypes
<1>2. d = [c EXCEPT !.segments_out = out, !.sender = t]
  BY <1>1 DEF send_segments, Connections
<1>3. /\ Keeps(c.sender, t, e.receiver)
  <2>1. <<>> \in Seq(Segments) /\ \A i \in 1 .. Len(<<>>) : IsFrom(c.sender, <<>>[i])
    OBVIOUS
  <2> QED BY <1>1, <2>1, QueueKeeps, ZenonT(60)
<1>4. /\ t \in Senders /\ Link(t, e.receiver) /\ Grows(c.sender, t) /\ TimerOk(t)
      /\ t.stream.num_written = c.sender.stream.num_written
      /\ t.stream.input_ended = c.sender.stream.input_ended
  BY <1>1, <1>3 DEF Keeps, Link
<1>5. ready \in Seq(Segments) /\ Len(ready) \in Nat
  BY <1>1, SenderTypes
<1>6. ASSUME NEW i \in 1 .. Len(ready)
      PROVE  InTransit(Stamped(c, ready[i], FALSE), c.sender, c.receiver)
  <2>1. ready[i] \in Segments /\ IsFrom(c.sender, ready[i])
    BY <1>1, <1>5 DEF Link, Outbox
  <2> QED BY <1>1, <2>1, StampedInTransit, Zenon
<1> HIDE DEF ready, t
<1>7. new \in Seq(Packets) /\ Len(new) = Len(ready)
  <2>1. new \in [1 .. Len(ready) -> Packets]
    BY <1>6, Zenon DEF InTransit
  <2>2. DOMAIN new = 1 .. Len(ready)
    OBVIOUS
  <2> HIDE DEF new
  <2>3. new \in Seq(Packets)
    BY <1>5, <2>1, SMT
  <2> QED BY <1>5, <2>2, <2>3, LenProperties
<1>8. \A i \in 1 .. Len(new) : InTransit(new[i], c.sender, c.receiver)
  BY <1>6, <1>7, Zenon
<1> HIDE DEF new
<1>10. Len(c.segments_out) \in Nat /\ Len(new) \in Nat
  BY <1>1, <1>7
<1>9. /\ out \in Seq(Packets) /\ Len(out) = Len(c.segments_out) + Len(new)
      /\ \A i \in 1 .. Len(c.segments_out) : out[i] = c.segments_out[i]
      /\ \A i \in Len(c.segments_out) + 1 .. Len(out) : out[i] = new[i - Len(c.segments_out)]
  BY ONLY <1>1, <1>7, <1>10, SMTT(30) DEF out
<1>11. ASSUME NEW i \in 1 .. Len(out) PROVE InTransit(out[i], c.sender, c.receiver)
  <2>1. CASE i \in 1 .. Len(c.segments_out)
    BY <1>9, <2>1 DEF Talks, Paired
  <2>2. CASE i \in Len(c.segments_out) + 1 .. Len(out)
    <3>1. i - Len(c.segments_out) \in 1 .. Len(new)
      BY <1>9, <1>10, <2>2
    <3> QED BY <1>8, <1>9, <2>2, <3>1
  <2>3. Len(out) = Len(c.segments_out) + Len(new)
    BY <1>9, Zenon
  <2>4. i \in 1 .. Len(c.segments_out) \/ i \in Len(c.segments_out) + 1 .. Len(out)
    BY <1>10, <2>3
  <2> QED BY <2>1, <2>2, <2>4, Zenon
<1> HIDE DEF out
<1>12. /\ d \in Connections /\ d.sender = t /\ d.receiver = c.receiver /\ d.segments_out = out
  BY <1>1, <1>2, <1>4, <1>9, ZenonT(60) DEF Connections
<1>13. Progresses(c.receiver, c.receiver)
  BY <1>1, ProgressesSelf
<1>14. \A i \in 1 .. Len(out) : InTransit(out[i], t, c.receiver)
  BY <1>1, <1>4, <1>11, <1>13, InTransitOn, Zenon
<1>15. Talks(d, e)
  BY <1>1, <1>4, <1>12, <1>14 DEF Talks, Paired
<1> QED BY <1>4, <1>12, <1>13, <1>15 DEF Advances

(* unclean_shutdown: both streams are marked, nothing else changes. *)
LEMMA UncleanAdvances ==
  ASSUME NEW c, NEW e, Talks(c, e), NEW d, d = unclean_shutdown(c)
  PROVE  Advances(c, d, e) /\ d.sender.segments_out = c.sender.segments_out
<1> DEFINE w == set_error(c.sender.stream)
           t == [c.sender EXCEPT !.stream = w]
           x == c.receiver.reassembler
           y == [x EXCEPT !.output = set_error(x.output)]
           q == [c.receiver EXCEPT !.reassembler = y]
<1>1. /\ c \in Connections /\ c.sender \in Senders /\ c.receiver \in Receivers
      /\ TimerOk(c.sender) /\ Link(c.sender, e.receiver) /\ Link(e.sender, c.receiver)
      /\ Sound(x, Capacity)
  BY TalkTypes
<1>2. d = [c EXCEPT !.sender = t, !.receiver = q, !.active = FALSE]
  BY <1>1 DEF unclean_shutdown, Connections, Receivers, Reassemblers
<1>3. /\ w \in ByteStreams(Capacity, Nat) /\ Genuine(w)
      /\ w.num_read = c.sender.stream.num_read /\ w.num_written = c.sender.stream.num_written
      /\ w.input_ended = c.sender.stream.input_ended
      /\ (eof(c.sender.stream) => eof(w))
  <2>1. c.sender.stream \in ByteStreams(Capacity, Nat) /\ Genuine(c.sender.stream)
    BY <1>1, SenderTypes, ZenonT(60) DEF Link, Numbered
  <2> QED BY <2>1, ErrorGenuine
<1> HIDE DEF w
<1>4. 2 * (w.num_written + 2) < Mod
  BY <1>1, <1>3, Zenon DEF Link, Numbered
<1>5. /\ Link(t, e.receiver) /\ Grows(c.sender, t) /\ TimerOk(t) /\ t.stream = w
      /\ t.segments_out = c.sender.segments_out
  BY <1>1, <1>3, <1>4, StreamKeeps
<1>6. /\ Sound(y, Capacity) /\ y.next_index = x.next_index
      /\ y.unassembled = x.unassembled /\ y.output.num_read = x.output.num_read
  BY <1>1, OutputError, ZenonT(60)
<1> HIDE DEF y, t
<1>7. Link(e.sender, q) /\ Progresses(c.receiver, q) /\ q.reassembler = y
  BY <1>1, <1>6, OutputKeeps
<1> HIDE DEF q
<1>8. t \in Senders /\ q \in Receivers
  BY <1>5, <1>7 DEF Link
<1>9. /\ d \in Connections /\ d.sender = t /\ d.receiver = q
      /\ d.segments_out = c.segments_out
  BY <1>1, <1>2, <1>8, Zenon DEF Connections
<1>10. Talks(d, e)
  BY <1>5, <1>7, <1>9, TalksFrame
<1> QED BY <1>3, <1>5, <1>6, <1>7, <1>9, <1>10, Zenon DEF Advances

(* The RST is made from the front of the sender's queue, which holds at    *)
(* least the empty segment just added.                                     *)
LEMMA SendRstAdvances ==
  ASSUME NEW c, NEW e, Talks(c, e), NEW d, d = send_rst(c)
  PROVE  Advances(c, d, e)
<1> DEFINE u == unclean_shutdown(c)
           t == send_empty_segment(u.sender)
           down == [u EXCEPT !.sender = t]
           h == Head(t.segments_out)
           p == Stamped(c, h, TRUE)
           out == Append(down.segments_out, p)
           v == [t EXCEPT !.segments_out = Tail(t.segments_out)]
<1>1. Advances(c, u, e)
  BY UncleanAdvances
<1>2. /\ c.receiver \in Receivers /\ c.sender \in Senders
      /\ Sound(c.receiver.reassembler, Capacity)
  BY TalkTypes
<1> HIDE DEF u
<1>3. Talks(u, e)
  BY <1>1 DEF Advances
<1>4. Link(u.sender, e.receiver)
  BY <1>3, TalkTypes
<1>5. Keeps(u.sender, t, e.receiver) /\ SameNumbers(u.sender, t) /\ t.segments_out # <<>>
  BY <1>4, SendEmptyKeeps
<1> HIDE DEF t
<1>6. Advances(u, down, e) /\ down.sender = t
  BY <1>3, <1>5, SenderAdvances
<1>7. Advances(c, down, e)
  BY <1>1, <1>6, AdvancesOn
<1>8. /\ Talks(down, e) /\ Grows(c.sender, down.sender) /\ Progresses(c.receiver, down.receiver)
  BY <1>7 DEF Advances
<1>9. /\ down \in Connections /\ t \in Senders /\ down.receiver \in Receivers
      /\ down.segments_out \in Seq(Packets) /\ TimerOk(t)
      /\ Link(t, e.receiver) /\ Link(e.sender, down.receiver)
  BY <1>6, <1>8, TalkTypes, Zenon
<1>10. d = [down EXCEPT !.segments_out = out, !.sender = v]
  <2>1. d = [down EXCEPT !.segments_out = Append(@, Stamped(c, Head(down.sender.segments_out), TRUE)),
                         !.sender.segments_out = Tail(@)]
    BY DEF send_rst, u, t
  <2> HIDE DEF down
  <2> QED BY <1>6, <1>9, <2>1, Zenon DEF Connections
<1> HIDE DEF down
<1>11. t.segments_out \in Seq(Segments)
  BY <1>9, SenderTypes
<1>12. /\ h \in Segments /\ Tail(t.segments_out) \in Seq(Segments)
       /\ h = t.segments_out[1] /\ 1 \in 1 .. Len(t.segments_out)
       /\ Len(Tail(t.segments_out)) = Len(t.segments_out) - 1
       /\ \A i \in 1 .. Len(t.segments_out) - 1 : Tail(t.segments_out)[i] = t.segments_out[i + 1]
  BY <1>5, <1>11, HeadTailProperties
<1>13. \A i \in 1 .. Len(t.segments_out) : IsFrom(t, t.segments_out[i])
  BY <1>9 DEF Link, Outbox
<1>14. \A i \in 1 .. Len(Tail(t.segments_out)) : IsFrom(t, Tail(t.segments_out)[i])
  <2> SUFFICES ASSUME NEW i \in 1 .. Len(Tail(t.segments_out))
               PROVE  IsFrom(t, Tail(t.segments_out)[i])
    OBVIOUS
  <2>1. Len(t.segments_out) \in Nat
    BY <1>11
  <2>2. i + 1 \in 1 .. Len(t.segments_out) /\ i \in 1 .. Len(t.segments_out) - 1
    BY <1>12, <2>1
  <2> QED BY <1>12, <1>13, <2>2
<1>15. Keeps(t, v, e.receiver)
  BY <1>9, <1>12, <1>14, QueueKeeps, ZenonT(60)
<1>16. /\ v \in Senders /\ Link(v, e.receiver) /\ Grows(t, v) /\ TimerOk(v)
       /\ v.stream.num_written = t.stream.num_written
       /\ v.stream.input_ended = t.stream.input_ended
  BY <1>9, <1>15 DEF Keeps, Link
<1>17. InTransit(p, t, c.receiver)
  BY <1>2, <1>9, <1>12, <1>13, StampedInTransit, Zenon
<1> HIDE DEF p, v, h
<1>18. Progresses(down.receiver, down.receiver)
  BY <1>9, ProgressesSelf
<1>19. InTransit(p, v, down.receiver) /\ p \in Packets
  <2>1. InTransit(p, v, down.receiver)
    BY <1>2, <1>8, <1>9, <1>16, <1>17, InTransitOn, Zenon
  <2> QED BY <2>1 DEF InTransit
<1>20. /\ out \in Seq(Packets) /\ Len(out) = Len(down.segments_out) + 1
       /\ out[Len(down.segments_out) + 1] = p
       /\ \A i \in 1 .. Len(down.segments_out) : out[i] = down.segments_out[i]
  <2>1. down.segments_out \in Seq(Packets) /\ p \in Packets
    BY <1>9, <1>19, Zenon
  <2> QED BY ONLY <2>1, AppendProperties DEF out
<1> HIDE DEF out
<1>21. /\ d \in Connections /\ d.sender = v /\ d.receiver = down.receiver /\ d.segments_out = out
  BY <1>9, <1>10, <1>16, <1>20, Zenon DEF Connections
<1>22. ASSUME NEW i \in 1 .. Len(out) PROVE InTransit(out[i], v, down.receiver)
  <2>1. Len(down.segments_out) \in Nat
    BY <1>9
  <2>2. i \in 1 .. Len(down.segments_out) \/ i = Len(down.segments_out) + 1
    BY <1>20, <2>1
  <2>3. CASE i = Len(down.segments_out) + 1
    BY <1>19, <1>20, <2>3
  <2>4. CASE i \in 1 .. Len(down.segments_out)
    <3>1. InTransit(down.segments_out[i], t, down.receiver)
      BY <1>6, <1>8, <2>4, Zenon DEF Talks, Paired
    <3> QED BY <1>9, <1>16, <1>18, <1>20, <2>4, <3>1, InTransitOn, Zenon
  <2> QED BY <2>2, <2>3, <2>4
<1>23. Talks(d, e)
  BY <1>9, <1>16, <1>21, <1>22 DEF Talks, Paired
<1>24. Advances(down, d, e)
  BY <1>6, <1>16, <1>18, <1>21, <1>23, Zenon DEF Advances
<1> QED BY <1>7, <1>24, AdvancesOn

-----------------------------------------------------------------------------
(* The parts of TCPConnection::segment_received, in their order.           *)

(* An RST shuts both streams down. *)
LEMMA NoteRstAdvances ==
  ASSUME NEW c, NEW e, Talks(c, e), NEW seg, NEW d, d = note_rst(c, seg)
  PROVE  Advances(c, d, e)
BY UncleanAdvances, AdvancesSelf DEF note_rst

(* The receiver takes the segment in. *)
LEMMA TakeInAdvances ==
  ASSUME NEW c, NEW e, Talks(c, e), NEW seg, InTransit(seg, e.sender, e.receiver),
         NEW d, d = [c EXCEPT !.receiver = receive(c.receiver, seg)]
  PROVE  Advances(c, d, e)
<1> DEFINE q == receive(c.receiver, seg)
<1>1. /\ c \in Connections /\ c.sender \in Senders /\ TimerOk(c.sender)
      /\ Link(c.sender, e.receiver) /\ Link(e.sender, c.receiver)
  BY TalkTypes
<1>2. seg \in Packets /\ IsFrom(e.sender, seg)
  BY DEF InTransit
<1>3. /\ Link(e.sender, q) /\ Progresses(c.receiver, q)
      /\ q.reassembler.output.num_read = c.receiver.reassembler.output.num_read
  BY <1>1, <1>2, ReceiveKeeps
<1> HIDE DEF q
<1>4. q \in Receivers /\ d = [c EXCEPT !.receiver = q]
  BY <1>3 DEF Link, q
<1>5. /\ d \in Connections /\ d.sender = c.sender /\ d.receiver = q
      /\ d.segments_out = c.segments_out
  BY <1>1, <1>4 DEF Connections
<1>6. Grows(c.sender, c.sender)
  BY <1>1, GrowsSelf
<1>7. Talks(d, e)
  BY <1>1, <1>3, <1>5, <1>6, TalksFrame, Zenon
<1> QED BY <1>3, <1>5, <1>6, <1>7 DEF Advances

(* The ackno goes to the sender, which fills the window it opens. *)
LEMMA NoteAckAdvances ==
  ASSUME NEW c, NEW e, Talks(c, e), NEW seg, InTransit(seg, e.sender, e.receiver),
         NEW d, d = note_ack(c, seg)
  PROVE  Advances(c, d, e)
<1> DEFINE t == ack_received(c.sender, seg.ackno, seg.win)
           u == IF t.is_syn_set THEN fill_window(t) ELSE t
<1>1. CASE ~seg.ack
  BY <1>1, AdvancesSelf DEF note_ack
<1>2. CASE seg.ack
  <2>1. e.receiver.if_syn_set
    BY <1>2 DEF InTransit
  <2>2. PICK a \in 0 .. abs_ackno(e.receiver) : seg.ackno = wrap(a, e.receiver.isn)
    BY <1>2 DEF InTransit
  <2>3. Link(c.sender, e.receiver)
    BY TalkTypes
  <2>4. e.receiver.isn = c.sender.isn /\ seg.win \in Nat
    BY <2>1, <2>3, ZenonT(60) DEF Link, Tracks, InTransit, Packets
  <2>5. Keeps(c.sender, t, e.receiver)
    BY <2>1, <2>2, <2>3, <2>4, AckReceivedKeeps
  <2>6. Link(t, e.receiver)
    BY <2>5 DEF Keeps
  <2> HIDE DEF t
  <2>7. Keeps(t, u, e.receiver)
    BY <2>6, FillWindowKeeps, KeepsSelf
  <2>8. d = [c EXCEPT !.sender = u]
    BY <1>2 DEF note_ack, t
  <2> HIDE DEF u
  <2>9. Keeps(c.sender, u, e.receiver)
    BY <2>3, <2>5, <2>7, KeepsOn
  <2> QED BY <2>8, <2>9, SenderAdvances
<1> QED BY <1>1, <1>2

(* A segment that takes numbers is answered, by the SYN or an empty one. *)
LEMMA ReplyAdvances ==
  ASSUME NEW c, NEW e, Talks(c, e), NEW seg, NEW d, d = reply(c, seg)
  PROVE  Advances(c, d, e)
<1>1. Link(c.sender, e.receiver)
  BY TalkTypes
<1>2. Keeps(c.sender, fill_window(c.sender), e.receiver)
  BY <1>1, FillWindowKeeps
<1>3. Keeps(c.sender, send_empty_segment(c.sender), e.receiver)
  BY <1>1, SendEmptyKeeps
<1>4. \/ d = c \/ d = [c EXCEPT !.sender = fill_window(c.sender)]
      \/ d = [c EXCEPT !.sender = send_empty_segment(c.sender)]
  BY DEF reply
<1> QED BY <1>2, <1>3, <1>4, SenderAdvances, AdvancesSelf

(* So is a keep-alive. *)
LEMMA KeepAliveAdvances ==
  ASSUME NEW c, NEW e, Talks(c, e), NEW seg, NEW d, d = reply_keep_alive(c, seg)
  PROVE  Advances(c, d, e)
<1>1. Link(c.sender, e.receiver)
  BY TalkTypes
<1>2. Keeps(c.sender, send_empty_segment(c.sender), e.receiver)
  BY <1>1, SendEmptyKeeps
<1>3. d = c \/ d = [c EXCEPT !.sender = send_empty_segment(c.sender)]
  BY DEF reply_keep_alive
<1> QED BY <1>2, <1>3, SenderAdvances, AdvancesSelf

(* Whether to linger is decided, and the clock starts again. *)
LEMMA PassiveCloseAdvances ==
  ASSUME NEW c, NEW e, Talks(c, e),
         NEW d, d = [note_passive_close(c) EXCEPT !.time_since_last_segment = 0]
  PROVE  Advances(c, d, e)
<1> DEFINE u == note_passive_close(c)
<1>1. c \in Connections
  BY TalkTypes
<1>2. /\ u \in Connections /\ u.sender = c.sender /\ u.receiver = c.receiver
      /\ u.segments_out = c.segments_out
  <2>1. u = c \/ u = [c EXCEPT !.linger = FALSE]
    BY DEF note_passive_close
  <2> QED BY <1>1, <2>1, Zenon DEF Connections
<1> HIDE DEF u
<1>3. /\ d \in Connections /\ d.sender = u.sender /\ d.receiver = u.receiver
      /\ d.segments_out = u.segments_out
  BY <1>2 DEF Connections, u
<1> QED BY <1>2, <1>3, FlagsAdvance, Zenon

(* TCPConnection::segment_received *)
LEMMA SegmentReceivedAdvances ==
  ASSUME NEW c, NEW e, Talks(c, e), NEW seg, InTransit(seg, e.sender, e.receiver),
         NEW d, d = segment_received(c, seg)
  PROVE  Advances(c, d, e)
<1> DEFINE c1 == note_rst(c, seg)
           c2 == [c1 EXCEPT !.receiver = receive(c1.receiver, seg)]
           c3 == note_ack(c2, seg)
           c4 == reply(c3, seg)
           c5 == reply_keep_alive(c4, seg)
           c6 == [note_passive_close(c5) EXCEPT !.time_since_last_segment = 0]
<1>1. d = send_segments(c6)
  BY DEF segment_received
<1>2. Advances(c, c1, e) /\ Talks(c1, e)
  BY NoteRstAdvances DEF Advances
<1> HIDE DEF c1
<1>3. Advances(c1, c2, e) /\ Talks(c2, e)
  <2>1. Advances(c1, c2, e)
    BY <1>2, TakeInAdvances, Zenon
  <2> QED BY <2>1, Zenon DEF Advances
<1> HIDE DEF c2
<1>4. Advances(c2, c3, e) /\ Talks(c3, e)
  <2>1. Advances(c2, c3, e)
    BY <1>3, NoteAckAdvances, Zenon
  <2> QED BY <2>1, Zenon DEF Advances
<1> HIDE DEF c3
<1>5. Advances(c3, c4, e) /\ Talks(c4, e)
  <2>1. Advances(c3, c4, e)
    BY <1>4, ReplyAdvances, Zenon
  <2> QED BY <2>1, Zenon DEF Advances
<1> HIDE DEF c4
<1>6. Advances(c4, c5, e) /\ Talks(c5, e)
  <2>1. Advances(c4, c5, e)
    BY <1>5, KeepAliveAdvances, Zenon
  <2> QED BY <2>1, Zenon DEF Advances
<1> HIDE DEF c5
<1>7. Advances(c5, c6, e) /\ Talks(c6, e)
  BY <1>6, PassiveCloseAdvances, Zenon DEF Advances
<1> HIDE DEF c6
<1>8. Advances(c6, d, e)
  BY <1>1, <1>7, SendSegmentsAdvances
<1>9. Advances(c, c2, e)
  BY <1>2, <1>3, AdvancesOn
<1>10. Advances(c, c3, e)
  BY <1>4, <1>9, AdvancesOn
<1>11. Advances(c, c4, e)
  BY <1>5, <1>10, AdvancesOn
<1>12. Advances(c, c5, e)
  BY <1>6, <1>11, AdvancesOn
<1>13. Advances(c, c6, e)
  BY <1>7, <1>12, AdvancesOn
<1> QED BY <1>8, <1>13, AdvancesOn

-----------------------------------------------------------------------------
(* The other methods of a TCPConnection                                    *)

(* The stream is written or ended; then fill_window and send_segments run. *)
LEMMA StreamAdvances ==
  ASSUME NEW c, NEW e, Talks(c, e), NEW w \in ByteStreams(Capacity, Nat), Genuine(w),
         w.num_read = c.sender.stream.num_read, 2 * (w.num_written + 2) < Mod,
         eof(c.sender.stream) => eof(w),
         NEW d, d = send_segments([c EXCEPT !.sender =
                                      fill_window([c.sender EXCEPT !.stream = w])])
  PROVE  /\ Talks(d, e) /\ Grows(c.sender, d.sender) /\ Progresses(c.receiver, d.receiver)
         /\ d.sender.stream.num_written = w.num_written
         /\ d.sender.stream.input_ended = w.input_ended
         /\ d.receiver.reassembler.output.num_read = c.receiver.reassembler.output.num_read
<1> DEFINE s == [c.sender EXCEPT !.stream = w]
           t == fill_window(s)
           c1 == [c EXCEPT !.sender = s]
           c2 == [c EXCEPT !.sender = t]
<1>1. /\ c \in Connections /\ c.sender \in Senders /\ c.receiver \in Receivers
      /\ TimerOk(c.sender) /\ Link(c.sender, e.receiver) /\ Link(e.sender, c.receiver)
  BY TalkTypes
<1>2. Link(s, e.receiver) /\ Grows(c.sender, s) /\ TimerOk(s) /\ s.stream = w
  BY <1>1, StreamKeeps
<1> HIDE DEF s
<1>3. /\ c1 \in Connections /\ c1.sender = s /\ c1.receiver = c.receiver
      /\ c1.segments_out = c.segments_out
  BY <1>1, <1>2 DEF Connections, Link
<1>4. Progresses(c.receiver, c.receiver)
  BY <1>1, ProgressesSelf
<1>5. Talks(c1, e)
  BY <1>1, <1>2, <1>3, <1>4, TalksFrame, Zenon
<1>6. Keeps(s, t, e.receiver)
  BY <1>2, FillWindowKeeps
<1>7. c2 = [c1 EXCEPT !.sender = t]
  BY <1>1, Zenon DEF Connections
<1> HIDE DEF t, c1
<1>8. Advances(c1, c2, e) /\ Talks(c2, e)
  <2>1. Advances(c1, c2, e)
    BY <1>3, <1>5, <1>6, <1>7, SenderAdvances
  <2> QED BY <2>1 DEF Advances
<1>9. d = send_segments(c2)
  BY DEF s, t
<1> HIDE DEF c2
<1>10. Advances(c2, d, e)
  BY <1>8, <1>9, SendSegmentsAdvances
<1>11. Advances(c1, d, e)
  BY <1>5, <1>8, <1>10, AdvancesOn
<1>12. d.sender \in Senders /\ s \in Senders
  BY <1>2, <1>11, TalkTypes DEF Advances, Link
<1>13. Grows(c.sender, d.sender)
  BY <1>1, <1>2, <1>3, <1>11, <1>12, GrowsOn DEF Advances
<1> QED BY <1>2, <1>3, <1>11, <1>13 DEF Advances

(* TCPConnection::write of bytes that fit into the stream. *)
LEMMA WriteAdvances ==
  ASSUME NEW c, NEW e, Talks(c, e), NEW n \in Nat \ {0},
         ~c.sender.stream.input_ended, n <= remaining_capacity(c.sender.stream),
         2 * (c.sender.stream.num_written + n + 2) < Mod,
         NEW d, d = write_data(c, Substring(c.sender.stream.num_written, n))
  PROVE  /\ Talks(d, e) /\ Grows(c.sender, d.sender) /\ Progresses(c.receiver, d.receiver)
         /\ d.sender.stream.num_written = c.sender.stream.num_written + n
         /\ ~d.sender.stream.input_ended
         /\ d.receiver.reassembler.output.num_read = c.receiver.reassembler.output.num_read
<1> DEFINE st == c.sender.stream
           data == Substring(st.num_written, n)
           w == write(st, data)
<1>1. /\ c.sender \in Senders /\ st \in ByteStreams(Capacity, Nat) /\ Genuine(st)
      /\ st.num_written \in Nat /\ Capacity \in Nat
  BY TalkTypes, SenderTypes, ConnectionConstants, ZenonT(60) DEF Link, Numbered
<1>2. data # <<>>
  <2>1. Len(data) = n
    BY <1>1, SubstringType, ZenonT(60)
  <2> QED BY <2>1
<1>3. /\ w \in ByteStreams(Capacity, Nat) /\ Genuine(w) /\ w.num_read = st.num_read
      /\ w.num_written = st.num_written + n /\ ~w.input_ended
  <2>1. n \in Nat
    OBVIOUS
  <2>2. ASSUME NEW s \in ByteStreams(Capacity, Nat), Genuine(s),
               NEW v, v = write(s, Substring(s.num_written, n))
        PROVE  /\ v \in ByteStreams(Capacity, Nat) /\ Genuine(v) /\ v.num_read = s.num_read
               /\ v.input_ended = s.input_ended
               /\ ~s.input_ended /\ n <= remaining_capacity(s) => v.num_written = s.num_written + n
    <3>1. Capacity \in Nat
      BY <1>1
    <3> QED BY ONLY <2>1, <2>2, <3>1, WriteGenuine
  <2> QED BY <1>1, <2>2, Zenon
<1>4. 2 * (w.num_written + 2) < Mod
  BY <1>3
<1>5. ~eof(st)
  BY DEF eof
<1>6. d = send_segments([c EXCEPT !.sender = fill_window([c.sender EXCEPT !.stream = w])])
  BY <1>2, Zenon DEF write_data
<1> HIDE DEF w
<1>7. /\ Talks(d, e) /\ Grows(c.sender, d.sender) /\ Progresses(c.receiver, d.receiver)
      /\ d.sender.stream.num_written = w.num_written
      /\ d.sender.stream.input_ended = w.input_ended
      /\ d.receiver.reassembler.output.num_read = c.receiver.reassembler.output.num_read
  BY <1>3, <1>4, <1>5, <1>6, StreamAdvances, ZenonT(60)
<1> QED BY <1>3, <1>7, ZenonT(60)

(* ByteStream::end_input changes nothing else. *)
LEMMA EndGenuine ==
  ASSUME NEW st \in ByteStreams(Capacity, Nat), Genuine(st), NEW w, w = end_input(st)
  PROVE  /\ w \in ByteStreams(Capacity, Nat) /\ Genuine(w)
         /\ w.num_read = st.num_read /\ w.num_written = st.num_written
         /\ eof(st) => eof(w)
<1>1. w = [st EXCEPT !.input_ended = TRUE]
  BY DEF end_input
<1>2. w \in ByteStreams(Capacity, Nat)
  BY <1>1, Zenon DEF ByteStreams
<1>3. /\ w.num_read = st.num_read /\ w.num_written = st.num_written
      /\ w.buffer = st.buffer /\ w.input_ended = TRUE /\ w.capacity = st.capacity
  BY <1>1 DEF ByteStreams
<1> QED BY <1>2, <1>3 DEF Genuine, eof

(* TCPConnection::end_input_stream *)
LEMMA EndAdvances ==
  ASSUME NEW c, NEW e, Talks(c, e), NEW d, d = end_input_stream(c)
  PROVE  /\ Talks(d, e) /\ Grows(c.sender, d.sender) /\ Progresses(c.receiver, d.receiver)
         /\ d.sender.stream.num_written = c.sender.stream.num_written
         /\ d.receiver.reassembler.output.num_read = c.receiver.reassembler.output.num_read
<1> DEFINE st == c.sender.stream
           w == end_input(st)
<1>1. /\ c.sender \in Senders /\ st \in ByteStreams(Capacity, Nat) /\ Genuine(st)
      /\ 2 * (st.num_written + 2) < Mod
  BY TalkTypes, SenderTypes, ZenonT(60) DEF Link, Numbered
<1>2. /\ w \in ByteStreams(Capacity, Nat) /\ Genuine(w) /\ w.num_read = st.num_read
      /\ w.num_written = st.num_written /\ (eof(st) => eof(w))
  BY <1>1, EndGenuine, Zenon
<1>3. d = send_segments([c EXCEPT !.sender = fill_window([c.sender EXCEPT !.stream = w])])
  BY Zenon DEF end_input_stream
<1> HIDE DEF w
<1>4. 2 * (w.num_written + 2) < Mod
  BY <1>1, <1>2
<1>5. /\ Talks(d, e) /\ Grows(c.sender, d.sender) /\ Progresses(c.receiver, d.receiver)
      /\ d.sender.stream.num_written = w.num_written
      /\ d.sender.stream.input_ended = w.input_ended
      /\ d.receiver.reassembler.output.num_read = c.receiver.reassembler.output.num_read
  BY <1>2, <1>3, <1>4, StreamAdvances, ZenonT(60)
<1> QED BY <1>2, <1>5

(* TCPConnection::connect *)
LEMMA ConnectAdvances ==
  ASSUME NEW c, NEW e, Talks(c, e), NEW d, d = connect(c)
  PROVE  Advances(c, d, e)
<1> DEFINE t == fill_window(c.sender)
           u == [c EXCEPT !.sender = t]
<1>1. CASE ~c.active
  BY <1>1, AdvancesSelf DEF connect
<1>2. CASE c.active
  <2>1. Link(c.sender, e.receiver)
    BY TalkTypes
  <2>2. Keeps(c.sender, t, e.receiver)
    BY <2>1, FillWindowKeeps
  <2>3. d = send_segments(u)
    BY <1>2 DEF connect
  <2> HIDE DEF t
  <2>4. Advances(c, u, e)
    BY <2>2, SenderAdvances
  <2> HIDE DEF u
  <2>5. Talks(u, e)
    BY <2>4 DEF Advances
  <2>6. Advances(u, d, e)
    BY <2>3, <2>5, SendSegmentsAdvances
  <2> QED BY <2>4, <2>6, AdvancesOn
<1> QED BY <1>1, <1>2

(* TCPConnection::tick: a retransmission, the RST after too many of them,  *)
(* or the end of the connection.                                           *)
LEMMA ConnectionTickAdvances ==
  ASSUME NEW c, NEW e, Talks(c, e), NEW ms \in Nat, NEW d, d = connection_tick(c, ms)
  PROVE  Advances(c, d, e)
<1> DEFINE clock == Lesser(c.time_since_last_segment + ms, LingerTime(c))
           t == tick(c.sender, ms)
           c1 == [c EXCEPT !.time_since_last_segment = clock]
           c2 == [c1 EXCEPT !.sender = t]
           act == c2.active /\ ~(StreamsFinished(c2) /\ MayClose(c2))
           c3 == [c2 EXCEPT !.active = act]
<1>1. /\ c \in Connections /\ c.sender \in Senders /\ c.time_since_last_segment \in Nat
      /\ Link(c.sender, e.receiver) /\ TimerOk(c.sender)
  BY TalkTypes
<1>2. clock \in Nat
  <2>1. LingerTime(c) \in Nat
    <3>1. c.sender.initial_RTO \in Nat
      BY <1>1 DEF Senders
    <3> QED BY <3>1, ConnectionConstants DEF LingerTime
  <2> QED BY <1>1, <2>1 DEF Lesser
<1>3. c2 = [c EXCEPT !.time_since_last_segment = clock, !.sender = t]
  BY <1>1 DEF Connections
<1>4. d = IF c2.sender.consecutive_retransmissions > MAX_RETX_ATTEMPTS
          THEN send_rst(c2) ELSE send_segments(c3)
  BY <1>3 DEF connection_tick
<1> HIDE DEF clock
<1>5. /\ c1 \in Connections /\ c1.sender = c.sender /\ c1.receiver = c.receiver
      /\ c1.segments_out = c.segments_out
  BY <1>1, <1>2 DEF Connections
<1> HIDE DEF c1
<1>6. Advances(c, c1, e) /\ Talks(c1, e)
  <2>1. Advances(c, c1, e)
    BY <1>5, FlagsAdvance
  <2> QED BY <2>1 DEF Advances
<1>7. Keeps(c1.sender, t, e.receiver)
  BY <1>1, <1>5, TickKeeps
<1> HIDE DEF t
<1>8. Advances(c1, c2, e) /\ Talks(c2, e)
  <2>1. Advances(c1, c2, e)
    BY <1>6, <1>7, SenderAdvances
  <2> QED BY <2>1 DEF Advances
<1> HIDE DEF c2
<1>9. Advances(c, c2, e)
  BY <1>6, <1>8, AdvancesOn
<1>10. c2 \in Connections
  BY <1>8, TalkTypes
<1>11. act \in BOOLEAN
  BY <1>10, Zenon DEF Connections
<1> HIDE DEF act
<1>12. /\ c3 \in Connections /\ c3.sender = c2.sender /\ c3.receiver = c2.receiver
       /\ c3.segments_out = c2.segments_out
  BY <1>10, <1>11 DEF Connections
<1> HIDE DEF c3
<1>13. Advances(c2, c3, e) /\ Talks(c3, e)
  <2>1. Advances(c2, c3, e)
    BY <1>8, <1>12, FlagsAdvance
  <2> QED BY <2>1 DEF Advances
<1>14. Advances(c, c3, e)
  BY <1>9, <1>13, AdvancesOn
<1>15. Advances(c2, send_rst(c2), e) /\ Advances(c3, send_segments(c3), e)
  BY <1>8, <1>13, SendRstAdvances, SendSegmentsAdvances
<1>16. Advances(c, send_rst(c2), e) /\ Advances(c, send_segments(c3), e)
  BY <1>9, <1>14, <1>15, AdvancesOn
<1> QED BY <1>4, <1>16

(* TCPConnection::~TCPConnection *)
LEMMA DestroyAdvances ==
  ASSUME NEW c, NEW e, Talks(c, e), NEW d, d = destroy(c)
  PROVE  Advances(c, d, e)
BY SendRstAdvances, AdvancesSelf DEF destroy

(* Rule 4 of the event loop has sent everything. *)
LEMMA SentTalks ==
  ASSUME NEW c, NEW e, Talks(c, e), NEW d, d = [c EXCEPT !.segments_out = <<>>]
  PROVE  Talks(d, e) /\ d.sender = c.sender /\ d.receiver = c.receiver
<1>1. c \in Connections
  BY TalkTypes
<1>2. <<>> \in Seq(Packets) /\ Len(<<>>) = 0
  OBVIOUS
<1>3. d \in Connections
  BY <1>1, <1>2, Zenon DEF Connections
<1>4. /\ d.sender = c.sender /\ d.receiver = c.receiver /\ d.segments_out = <<>>
  BY <1>1 DEF Connections
<1>5. 1 .. Len(<<>>) = {}
  BY <1>2
<1> QED BY <1>3, <1>4, <1>5 DEF Talks, Paired

(* The application reads n bytes. *)
LEMMA ReadAdvances ==
  ASSUME NEW c, NEW e, Talks(c, e), NEW n \in Nat,
         NEW d, d = [c EXCEPT !.receiver.reassembler.output = pop_output(@, n)]
  PROVE  /\ Talks(d, e) /\ d.sender = c.sender /\ Progresses(c.receiver, d.receiver)
         /\ ReadEffect(c.receiver.reassembler, d.receiver.reassembler, Capacity, n)
         /\ d.segments_out = c.segments_out /\ d.active = c.active
<1> DEFINE x == c.receiver.reassembler
           y == [x EXCEPT !.output = pop_output(x.output, n)]
           q == [c.receiver EXCEPT !.reassembler = y]
<1>1. /\ c \in Connections /\ c.receiver \in Receivers /\ Link(e.sender, c.receiver)
      /\ Sound(x, Capacity) /\ Capacity \in Nat /\ c.sender \in Senders
      /\ Link(c.sender, e.receiver) /\ TimerOk(c.sender)
  BY TalkTypes, ConnectionConstants
<1>2. ReadEffect(x, y, Capacity, n)
  BY <1>1, ReadFacts
<1>3. y.unassembled = x.unassembled
  BY <1>1, ZenonT(60) DEF Sound, Reassemblers
<1>4. d = [c EXCEPT !.receiver = q]
  BY <1>1, Zenon
<1> HIDE DEF y
<1>5. Link(e.sender, q) /\ Progresses(c.receiver, q) /\ q.reassembler = y
  BY <1>1, <1>2, <1>3, OutputKeeps DEF ReadEffect
<1> HIDE DEF q
<1>6. /\ d \in Connections /\ d.receiver = q /\ d.sender = c.sender
      /\ d.segments_out = c.segments_out /\ d.active = c.active
  BY <1>1, <1>4, <1>5 DEF Connections, Link
<1>7. Grows(c.sender, c.sender)
  BY <1>1, GrowsSelf
<1>8. Talks(d, e)
  BY <1>1, <1>5, <1>6, <1>7, TalksFrame, Zenon
<1> QED BY <1>2, <1>5, <1>6, <1>8

(* Seen from the peer e, that has the same segments to send as before. *)
LEMMA PeerPaired ==
  ASSUME NEW c, NEW d, NEW e, Paired(e, c), Talks(d, e)
  PROVE  Paired(e, d)
BY DEF Paired, Talks

(* A new sender and a new receiver are linked. *)
LEMMA NewLink ==
  ASSUME NEW rt \in Nat, NEW i \in WrappingInt, 2 * 2 < Mod
  PROVE  /\ Link(NewSender(Capacity, rt, i), NewReceiver(Capacity))
         /\ TimerOk(NewSender(Capacity, rt, i))
<1> DEFINE s == NewSender(Capacity, rt, i)
           r == NewReceiver(Capacity)
           w == NewByteStream(Capacity)
           x == NewReassembler(Capacity)
<1>1. Capacity \in Nat /\ 0 \in WrappingInt
  BY ConnectionConstants, ModAssumption DEF WrappingInt
<1>2. Sound(x, Capacity) /\ x.next_index = 0 /\ x \in Reassemblers(Capacity)
  BY <1>1, NewFacts, Zenon DEF Sound
<1>3. x.unassembled = <<>> /\ DOMAIN x.unassembled = {}
  BY DEF NewReassembler
<1>4. /\ w \in ByteStreams(Capacity, Nat) /\ w.num_read = 0 /\ w.num_written = 0 /\ Genuine(w)
  <2>1. Substring(0, 0) = <<>>
    BY DEF Substring
  <2> QED BY <1>1, <2>1 DEF NewByteStream, ByteStreams, Genuine
<1>5. /\ s.isn = i /\ s.stream = w /\ s.next_seqno = 0 /\ s.segments_out = <<>>
      /\ s.outstanding = <<>> /\ s.bytes_in_flight = 0 /\ s.is_syn_set = FALSE
      /\ s.is_fin_set = FALSE /\ s.recent_abs_ackno = 0 /\ s.window_size = 1
      /\ s.timer.if_run = FALSE
  BY DEF NewSender, TimerStopped
<1>6. /\ r.reassembler = x /\ r.isn = 0 /\ r.if_syn_set = FALSE /\ r.if_fin_set = FALSE
      /\ r.abs_checkpoint = 0 /\ r.abs_seqno_fin = 0
  BY DEF NewReceiver
<1>7. r \in Receivers
  BY <1>1, <1>2 DEF NewReceiver, Receivers
<1> HIDE DEF x, w
<1>8. s \in Senders
  BY <1>4 DEF NewSender, Senders, TimerStopped, w
<1> HIDE DEF s, r
<1>9. Len(<<>>) = 0 /\ 1 .. Len(<<>>) = {}
  OBVIOUS
<1>10. Numbered(s)
  BY <1>4, <1>5 DEF Numbered
<1>11. Queued(s)
  <2> DEFINE st == [k \in 1 .. 1 |-> 0]
  <2>1. st \in [1 .. Len(s.outstanding) + 1 -> 0 .. s.next_seqno]
    BY <1>5
  <2>2. Contiguous(s, st)
    BY <1>5 DEF Contiguous
  <2> QED BY <2>1, <2>2, Zenon DEF Queued
<1>12. Outbox(s)
  BY <1>5, <1>9 DEF Outbox
<1>13. Heard(s, r)
  BY <1>5, <1>6 DEF Heard
<1>14. Tracks(r, s)
  BY <1>2, <1>3, <1>4, <1>5, <1>6 DEF Tracks
<1>15. Link(s, r) /\ TimerOk(s)
  BY <1>5, <1>7, <1>8, <1>10, <1>11, <1>12, <1>13, <1>14 DEF Link, TimerOk
<1> QED BY <1>15 DEF s, r

(* Two new connections are in order. *)
LEMMA NewTalks ==
  ASSUME NEW rt \in Nat, NEW i \in WrappingInt, NEW j \in WrappingInt, 2 * 2 < Mod
  PROVE  Talks(NewConnection(rt, i), NewConnection(rt, j))
<1> DEFINE c == NewConnection(rt, i)
           e == NewConnection(rt, j)
<1>1. /\ c.sender = NewSender(Capacity, rt, i) /\ c.receiver = NewReceiver(Capacity)
      /\ e.sender = NewSender(Capacity, rt, j) /\ e.receiver = NewReceiver(Capacity)
      /\ c.segments_out = <<>>
  BY DEF NewConnection
<1>2. /\ Link(c.sender, e.receiver) /\ TimerOk(c.sender) /\ Link(e.sender, c.receiver)
  BY <1>1, NewLink
<1>3. c \in Connections
  <2>1. NewSender(Capacity, rt, i) \in Senders /\ NewReceiver(Capacity) \in Receivers
    BY NewLink DEF Link
  <2> QED BY <2>1 DEF NewConnection, Connections
<1> HIDE DEF c, e
<1>4. 1 .. Len(<<>>) = {}
  OBVIOUS
<1>5. Talks(c, e)
  BY <1>1, <1>2, <1>3, <1>4 DEF Talks, Paired
<1> QED BY <1>5 DEF c, e

(* What the receiving side of a link has delivered and acknowledged. *)
LEMMA LinkDelivers ==
  ASSUME NEW s, NEW r, Link(s, r)
  PROVE  /\ Substring(0, r.reassembler.output.num_read) \o r.reassembler.output.buffer
               = Substring(0, r.reassembler.output.num_written)
         /\ r.reassembler.output.num_written <= s.stream.num_written
         /\ r.if_syn_set => /\ abs_ackno(r) <= s.next_seqno
                            /\ s.next_seqno - s.bytes_in_flight <= abs_ackno(r)
<1> DEFINE out == r.reassembler.output
<1>1. /\ Capacity \in Nat /\ Sound(r.reassembler, Capacity) /\ s \in Senders /\ r \in Receivers
      /\ Genuine(s.stream) /\ r.reassembler.next_index <= s.stream.num_read
  BY ConnectionConstants, Zenon DEF Link, Tracks, Numbered
<1>2. Substring(0, out.num_read) \o out.buffer = Substring(0, out.num_written)
  BY <1>1, BufferFollows, Zenon
<1>3. out.num_written <= s.stream.num_written
  <2>1. /\ out.num_written \in Nat /\ r.reassembler.next_index \in Nat
    BY <1>1 DEF Sound, Reassemblers, ByteStreams
  <2>2. out.num_written <= r.reassembler.next_index
    BY <1>1 DEF Sound
  <2>3. /\ s.stream.num_read \in Nat /\ s.stream.num_written \in Nat
        /\ Len(s.stream.buffer) \in Nat
    BY <1>1, SenderTypes
  <2>4. s.stream.num_written = s.stream.num_read + Len(s.stream.buffer)
    BY <1>1 DEF Genuine
  <2> QED BY ONLY <1>1, <2>1, <2>2, <2>3, <2>4
<1>4. ASSUME r.if_syn_set
      PROVE  abs_ackno(r) <= s.next_seqno /\ s.next_seqno - s.bytes_in_flight <= abs_ackno(r)
  BY <1>4, AcknoSent DEF Link, Heard
<1> QED BY <1>2, <1>3, <1>4, ZenonT(60)
-----------------------------------------------------------------------------
(* Segments that were sent by connection c, now or earlier. *)
SentBy(ch, c) ==
    /\ ch \in Seq(Packets)
    /\ \A i \in 1 .. Len(ch) : InTransit(ch[i], c.sender, c.receiver)

(* They stay so when the connection moves on. *)
LEMMA SentByOn ==
  ASSUME NEW c, NEW d, NEW e, Talks(c, e), Talks(d, e), Grows(c.sender, d.sender),
         Progresses(c.receiver, d.receiver), NEW ch, SentBy(ch, c)
  PROVE  SentBy(ch, d)
<1>1. /\ c.sender \in Senders /\ c.receiver \in Receivers
      /\ d.sender \in Senders /\ d.receiver \in Receivers
  BY TalkTypes
<1> QED BY <1>1, InTransitOn DEF SentBy

(* More of them are put into the channel. *)
LEMMA SentByJoin ==
  ASSUME NEW c, NEW ch, NEW more, SentBy(ch, c), SentBy(more, c)
  PROVE  SentBy(ch \o more, c)
<1> DEFINE all == ch \o more
<1>1. ch \in Seq(Packets) /\ more \in Seq(Packets)
  BY DEF SentBy
<1>2. /\ all \in Seq(Packets) /\ Len(all) = Len(ch) + Len(more)
      /\ Len(ch) \in Nat /\ Len(more) \in Nat
      /\ \A i \in 1 .. Len(ch) : all[i] = ch[i]
      /\ \A i \in Len(ch) + 1 .. Len(all) : all[i] = more[i - Len(ch)]
  BY ONLY <1>1, SMTT(30)
<1> HIDE DEF all
<1>3. ASSUME NEW i \in 1 .. Len(all)
      PROVE  InTransit(all[i], c.sender, c.receiver)
  <2>1. CASE i \in 1 .. Len(ch)
    BY <1>2, <2>1 DEF SentBy
  <2>2. CASE i \notin 1 .. Len(ch)
    <3>1. i \in Len(ch) + 1 .. Len(all) /\ i - Len(ch) \in 1 .. Len(more)
      BY <1>2, <2>2
    <3> QED BY <1>2, <3>1 DEF SentBy
  <2> QED BY <2>1, <2>2
<1>4. SentBy(all, c)
  BY <1>2, <1>3, Zenon DEF SentBy
<1> QED BY <1>4 DEF all

(* A stretch of the channel. *)
LEMMA SentByPart ==
  ASSUME NEW c, NEW ch, SentBy(ch, c), NEW a \in Nat \ {0}, NEW b \in Nat, b <= Len(ch)
  PROVE  SentBy(SubSeq(ch, a, b), c)
<1> DEFINE part == SubSeq(ch, a, b)
<1>1. ch \in Seq(Packets) /\ Len(ch) \in Nat
  BY DEF SentBy
<1>2. \A k \in a .. b : ch[k] \in Packets
  BY <1>1
<1>3. /\ part \in Seq(Packets) /\ Len(part) = IF a <= b THEN b - a + 1 ELSE 0
      /\ \A i \in 1 .. Len(part) : part[i] = ch[a + i - 1]
  BY ONLY <1>1, <1>2, a \in Nat, b \in Nat, SMTT(30)
<1> HIDE DEF part
<1>4. ASSUME NEW i \in 1 .. Len(part)
      PROVE  InTransit(part[i], c.sender, c.receiver)
  <2>1. a + i - 1 \in 1 .. Len(ch)
    BY <1>1, <1>3
  <2> QED BY <1>3, <2>1 DEF SentBy
<1>5. SentBy(part, c)
  BY <1>3, <1>4 DEF SentBy
<1> QED BY <1>5 DEF part

(* The queue of a connection, and an empty channel. *)
LEMMA SentByQueue ==
  ASSUME NEW c, NEW e, Talks(c, e)
  PROVE  SentBy(c.segments_out, c) /\ SentBy(<<>>, c)
<1>1. 1 .. Len(<<>>) = {} /\ <<>> \in Seq(Packets)
  OBVIOUS
<1>2. c.segments_out \in Seq(Packets)
  BY TalkTypes
<1> QED BY <1>1, <1>2 DEF SentBy, Talks, Paired
=============================================================================
