--------------------------- MODULE ReceivingProofs ---------------------------
(***************************************************************************)
(* The receiving side of TCP.  The StreamReassembler of ReassemblerSpec,   *)
(* for every stream, every capacity and whatever is pushed; and the        *)
(* TCPReceiver of ReceiverSpec, for every size Mod of the sequence space,  *)
(* every stream and every history of segments: its sequence numbers, what  *)
(* it acknowledges, and that it delivers the stream in order.  What        *)
(* push_substring and unwrap do is in TCPLemmas.                           *)
(***************************************************************************)
EXTENDS ReassemblerSpec, ReceiverSpec, TCPLemmas

(* The inductive invariant: the object is sound whatever the peer pushes,  *)
(* what was read is the beginning of the stream, and with a conforming     *)
(* peer the map stays inside window and stream.                            *)
ReassemblerInv ==
    /\ conforming \in BOOLEAN
    /\ Sound(reasm, Capacity)
    /\ got = Substring(0, reasm.output.num_read)
    /\ conforming => Conforms(reasm, Capacity, StreamLen)

(* The invariant holds of a new StreamReassembler. *)
LEMMA InitSound == InitReassembler => ReassemblerInv
<1>1. Substring(0, 0) = <<>>
  BY DEF Substring
<1>2. NewReassembler(Capacity).output.num_read = 0
  BY DEF NewReassembler, NewByteStream
<1> QED BY <1>1, <1>2, NewFacts, StreamConstants, Zenon DEF InitReassembler, ReassemblerInv

(* push_substring keeps it. *)
LEMMA PushSound ==
  ASSUME ReassemblerInv, NEW index \in 0 .. StreamLen, NEW n \in 0 .. StreamLen, NEW is_eof \in BOOLEAN,
         Push(index, n, is_eof)
  PROVE  ReassemblerInv' /\ PushEffect(reasm, reasm', Capacity, index, n, is_eof)
<1> USE StreamConstants
<1>1. /\ index \in Nat /\ n \in Nat /\ index + n <= StreamLen
      /\ (is_eof => index + n = StreamLen)
      /\ (conforming => /\ index + n <= reasm.output.num_read + Capacity
                        /\ is_eof => n > 0 \/ index <= reasm.next_index)
      /\ reasm' = push_substring(reasm, Substring(index, n), index, is_eof)
      /\ got' = got /\ conforming' = conforming
  BY DEF Push, InWindow, EofInPlace
<1>2. /\ Sound(reasm, Capacity) /\ conforming \in BOOLEAN
      /\ got = Substring(0, reasm.output.num_read)
      /\ (conforming => Conforms(reasm, Capacity, StreamLen))
  BY DEF ReassemblerInv
<1>3. PushEffect(reasm, reasm', Capacity, index, n, is_eof)
  BY <1>1, <1>2, PushFacts
<1>4. Sound(reasm', Capacity) /\ reasm'.output.num_read = reasm.output.num_read
  BY <1>3 DEF PushEffect
<1>5. conforming => Conforms(reasm', Capacity, StreamLen)
  BY <1>1, <1>2, <1>3, PushConforms
<1> QED BY <1>1, <1>2, <1>3, <1>4, <1>5 DEF ReassemblerInv

(* ByteStream::read keeps it: the bytes read follow those read before. *)
LEMMA ReadSound ==
  ASSUME ReassemblerInv, NEW n \in 1 .. Capacity, ReadOutput(n)
  PROVE  /\ ReassemblerInv' /\ conforming' = conforming
         /\ reasm'.output.num_written = reasm.output.num_written
         /\ reasm'.output.input_ended = reasm.output.input_ended
<1> USE StreamConstants
<1>1. /\ n \in Nat /\ Capacity \in Nat /\ got' = got \o peek_output(reasm.output, n)
      /\ reasm' = [reasm EXCEPT !.output = pop_output(reasm.output, n)]
      /\ conforming' = conforming
  BY DEF ReadOutput
<1>2. /\ Sound(reasm, Capacity) /\ got = Substring(0, reasm.output.num_read)
      /\ conforming \in BOOLEAN /\ (conforming => Conforms(reasm, Capacity, StreamLen))
  BY DEF ReassemblerInv
<1>3. /\ Sound(reasm', Capacity)
      /\ reasm'.output.num_written = reasm.output.num_written
      /\ reasm'.output.input_ended = reasm.output.input_ended
      /\ Substring(0, reasm.output.num_read) \o peek_output(reasm.output, n)
           = Substring(0, reasm'.output.num_read)
      /\ (Conforms(reasm, Capacity, StreamLen) => Conforms(reasm', Capacity, StreamLen))
  <2>1. ReadEffect(reasm, reasm', Capacity, n)
    BY <1>1, <1>2, ReadFacts
  <2> QED BY <2>1 DEF ReadEffect
<1> QED BY <1>1, <1>2, <1>3, ZenonT(60) DEF ReassemblerInv

(* push_substring and a read keep the invariant. *)
LEMMA NextSound == ReassemblerInv /\ [NextReassembler]_reasm_vars => ReassemblerInv'
<1> SUFFICES ASSUME ReassemblerInv, [NextReassembler]_reasm_vars PROVE ReassemblerInv'
  OBVIOUS
<1>1. CASE \E index, n \in 0 .. StreamLen, is_eof \in BOOLEAN : Push(index, n, is_eof)
  BY <1>1, PushSound
<1>2. CASE \E n \in 1 .. Capacity : ReadOutput(n)
  BY <1>2, ReadSound
<1>3. CASE UNCHANGED reasm_vars
  BY <1>3 DEF reasm_vars, ReassemblerInv
<1> QED BY <1>1, <1>2, <1>3 DEF NextReassembler

(* Every reachable reassembler is sound, whatever was pushed, and what was *)
(* read is the beginning of the stream.                                    *)
THEOREM ReassemblerInvariant == ReassemblerSpec => []ReassemblerInv
<1> QED BY InitSound, NextSound, PTL DEF ReassemblerSpec

(* The bytes given to the reader are the first num_written bytes of the    *)
(* stream in their order, for every capacity and every overlap, repetition *)
(* and reordering of the substrings (stream_reassembler.cc:62-80).         *)
THEOREM ReassemblerDelivers == ReassemblerSpec => []DeliveredIsPrefix
<1>1. ReassemblerInv => DeliveredIsPrefix
  <2> SUFFICES ASSUME ReassemblerInv PROVE DeliveredIsPrefix
    OBVIOUS
  <2>1. Sound(reasm, Capacity) /\ got = Substring(0, reasm.output.num_read)
    BY DEF ReassemblerInv
  <2>2. reasm.output.num_read \in Nat /\ Len(reasm.output.buffer) <= Capacity
    BY <2>1, StreamConstants, RoomType
  <2>3. got \o reasm.output.buffer = Substring(0, reasm.output.num_written)
    BY <2>1, StreamConstants, BufferFollows, Zenon
  <2>4. Len(got) = reasm.output.num_read
    BY <2>1, <2>2, SubstringType, ZenonT(60)
  <2> QED BY <2>2, <2>3, <2>4 DEF DeliveredIsPrefix
<1> QED BY <1>1, ReassemblerInvariant, PTL

(* _unassembled holds only bytes still to come, and _unassembled_bytes     *)
(* counts each once, for every history (stream_reassembler.hh:46-47).      *)
THEOREM ReassemblerCounts == ReassemblerSpec => []MapIsAhead
<1>1. ReassemblerInv => MapIsAhead
  BY MapFacts DEF ReassemblerInv, Sound, Reassemblers, MapIsAhead
<1> QED BY <1>1, ReassemblerInvariant, PTL

(* A push that brings the next byte of a conforming peer's stream while    *)
(* there is room moves next_index, in every reachable state.               *)
THEOREM ReassemblerProgresses == ReassemblerSpec => []NextByteIsTaken
<1>1. ReassemblerInv => NextByteIsTaken
  <2> SUFFICES ASSUME ReassemblerInv, conforming, remaining_capacity(reasm.output) > 0,
                      NEW index \in 0 .. reasm.next_index, NEW n \in 1 .. StreamLen,
                      reasm.next_index < index + n, index + n <= StreamLen, InWindow(index, n)
               PROVE  push_substring(reasm, Substring(index, n), index, FALSE).next_index
                         > reasm.next_index
    BY ZenonT(60) DEF NextByteIsTaken
  <2> DEFINE q == push_substring(reasm, Substring(index, n), index, FALSE)
  <2>1. /\ Sound(reasm, Capacity) /\ reasm.output.num_written = reasm.next_index
        /\ \A k \in DOMAIN reasm.unassembled : k < reasm.output.num_read + Capacity
    BY DEF ReassemblerInv, Conforms
  <2>2. index \in Nat /\ n \in Nat /\ index <= reasm.next_index
        /\ index + n <= reasm.output.num_read + Capacity
    BY <2>1, RoomType, StreamConstants DEF InWindow
  <2>3. PushEffect(reasm, q, Capacity, index, n, FALSE)
    BY <2>1, <2>2, StreamConstants, PushFacts, Zenon
  <2> HIDE DEF q
  <2>4. q.next_index > reasm.next_index
    BY <2>1, <2>2, <2>3 DEF PushEffect
  <2> QED BY <2>4, Zenon DEF q
<1> QED BY <1>1, ReassemblerInvariant, PTL

(* Fed by a conforming peer, the reassembler implements in-order delivery: *)
(* every push appends the next bytes of the stream or nothing, the end     *)
(* comes with or after the last byte, and nothing changes after it.        *)
THEOREM ReassemblerRefines == ReassemblerSpec => ReassemblesInOrder
<1> USE StreamConstants
<1> DEFINE d == IF conforming THEN got \o reasm.output.buffer ELSE <<>>
           e == conforming /\ reasm.output.input_ended
<1>1. InitReassembler => ReassemblerService!Init
  <2> SUFFICES ASSUME InitReassembler PROVE ReassemblerService!Init
    OBVIOUS
  <2>1. got = <<>> /\ reasm.output.buffer = <<>> /\ reasm.output.input_ended = FALSE
    BY DEF InitReassembler, NewReassembler, NewByteStream
  <2>2. d = <<>> /\ e = FALSE
    BY <2>1
  <2> QED BY <2>2 DEF ReassemblerService!Init
<1>2. /\ ReassemblerInv /\ DeliveredIsPrefix /\ ReassemblerInv' /\ DeliveredIsPrefix'
      /\ [NextReassembler]_reasm_vars
      => [ReassemblerService!Deliver]_(ReassemblerService!dvars)
  <2> SUFFICES ASSUME ReassemblerInv, DeliveredIsPrefix, ReassemblerInv', DeliveredIsPrefix',
                      [NextReassembler]_reasm_vars, ~(d' = d /\ e' = e)
               PROVE  ReassemblerService!Deliver
    BY DEF ReassemblerService!dvars
  <2> DEFINE w == reasm.output.num_written
             w1 == reasm'.output.num_written
  <2>1. conforming' = conforming /\ conforming \in BOOLEAN
    BY DEF NextReassembler, Push, ReadOutput, reasm_vars, ReassemblerInv
  <2>2. conforming
    BY <2>1
  <2>3. d = Substring(0, w) /\ d' = Substring(0, w1)
    BY <2>1, <2>2 DEF DeliveredIsPrefix
  <2>4. /\ w \in Nat /\ w1 \in Nat /\ w = reasm.next_index /\ w1 = reasm'.next_index
        /\ w1 <= StreamLen /\ (reasm'.output.input_ended => w1 = StreamLen)
        /\ reasm'.output.input_ended \in BOOLEAN /\ reasm.output.input_ended \in BOOLEAN
    <3>1. /\ Sound(reasm, Capacity) /\ Conforms(reasm, Capacity, StreamLen)
          /\ Sound(reasm', Capacity) /\ Conforms(reasm', Capacity, StreamLen)
      BY <2>1, <2>2 DEF ReassemblerInv
    <3>2. reasm'.output.input_ended => reasm'.next_index = StreamLen
      BY <3>1, ConformsEnd
    <3> QED BY <3>1, <3>2, SMTT(60) DEF Sound, Conforms, Reassemblers, ByteStreams
  <2>5. ASSUME NEW n \in 1 .. Capacity, ReadOutput(n) PROVE FALSE
    BY <2>1, <2>3, <2>5, ReadSound, ZenonT(60)
  <2>6. ASSUME UNCHANGED reasm_vars PROVE FALSE
    BY <2>6 DEF reasm_vars
  <2>7. PICK index \in 0 .. StreamLen, n \in 0 .. StreamLen, is_eof \in BOOLEAN :
           Push(index, n, is_eof)
    BY <2>5, <2>6 DEF NextReassembler
  <2>8. PushEffect(reasm, reasm', Capacity, index, n, is_eof)
    BY <2>7, PushSound
  <2>9. w1 >= w /\ (reasm.output.input_ended => reasm'.output = reasm.output)
    BY <2>4, <2>8 DEF PushEffect
  <2>10. ~reasm.output.input_ended
    <3> SUFFICES ASSUME reasm.output.input_ended PROVE FALSE
      BY <2>4
    <3>1. reasm'.output = reasm.output
      BY <2>9
    <3> QED BY <3>1, <2>1, <2>3, ZenonT(60)
  <2>11. Len(d) = w /\ Len(d') = w1
    <3>1. Len(Substring(0, w)) = w /\ Len(Substring(0, w1)) = w1
      BY <2>4, SubstringType, ZenonT(60)
    <3> QED BY <2>3, <3>1, ZenonT(60)
  <2>12. w1 \in Len(d) .. StreamLen
    BY <2>4, <2>9, <2>11
  <2>13. d' = ReassemblerService!Substring(0, w1)
    BY <2>3 DEF Substring, ReassemblerService!Substring
  <2>14. e' \in {FALSE, Len(d') = StreamLen}
    BY <2>1, <2>2, <2>4, <2>11, Zenon
  <2>15. ~e
    BY <2>10
  <2> HIDE DEF w1
  <2> QED BY <2>12, <2>13, <2>14, <2>15, ZenonT(60) DEF ReassemblerService!Deliver
<1> QED BY <1>1, <1>2, ReassemblerInvariant, ReassemblerDelivers, PTL
        DEF ReassemblerSpec, ReassemblesInOrder, ReassemblerService!Spec
-----------------------------------------------------------------------------
(* The TCPReceiver                                                         *)

(* The members of a TCPReceiver object. *)
IsReceiver(r) ==
    r = [reassembler |-> r.reassembler, capacity |-> r.capacity, isn |-> r.isn,
         if_syn_set |-> r.if_syn_set, if_fin_set |-> r.if_fin_set,
         abs_checkpoint |-> r.abs_checkpoint, abs_seqno_fin |-> r.abs_seqno_fin]

(* What the numbers rest on: the peer's initial sequence number and the    *)
(* receiver's copy of it are 32-bit numbers, the checkpoint is natural.    *)
Numbers(r) == IsReceiver(r) /\ r.isn \in WrappingInt /\ r.abs_checkpoint \in Nat

CheckpointTypes == isn \in WrappingInt /\ Numbers(rcv)

(* The inductive invariant of the receiver and its reader.  The SYN fixes  *)
(* isn, before it nothing happened; the reassembler is sound and fed by a  *)
(* conforming peer; the FIN's number is known when eof is; and the         *)
(* checkpoint, the number of the last segment, stays near next_index: that *)
(* is why unwrap finds the number of the next segment.                     *)
SynInv ==
    /\ rcv.if_syn_set => rcv.isn = isn
    /\ ~rcv.if_syn_set => rcv = NewReceiver(Capacity)

FinInv ==
    /\ rcv.if_fin_set <=> rcv.reassembler.if_eof
    /\ rcv.abs_seqno_fin = IF rcv.if_fin_set THEN StreamLen + 1 ELSE 0

CheckpointInv ==
    /\ rcv.abs_checkpoint <= stream_out(rcv).num_read + Capacity + 1
    /\ rcv.reassembler.next_index + 1 <= rcv.abs_checkpoint + MaxStale + Capacity

IInv ==
    /\ CheckpointTypes
    /\ rcv.capacity = Capacity /\ rcv.if_syn_set \in BOOLEAN /\ rcv.if_fin_set \in BOOLEAN
    /\ Sound(rcv.reassembler, Capacity)
    /\ Conforms(rcv.reassembler, Capacity, StreamLen)
    /\ got = Substring(0, stream_out(rcv).num_read)
    /\ SynInv /\ FinInv /\ CheckpointInv

(* The invariant holds of a new TCPReceiver. *)
LEMMA InitInv == Init => IInv
<1> SUFFICES ASSUME Init PROVE IInv
  OBVIOUS
<1> USE StreamConstants, ReceiverConstants, ModAssumption
<1>1. rcv = NewReceiver(Capacity) /\ isn \in WrappingInt /\ got = <<>>
  BY DEF Init
<1>2. /\ rcv.reassembler = NewReassembler(Capacity) /\ rcv.capacity = Capacity /\ rcv.isn = 0
      /\ rcv.if_syn_set = FALSE /\ rcv.if_fin_set = FALSE /\ rcv.abs_checkpoint = 0
      /\ rcv.abs_seqno_fin = 0 /\ IsReceiver(rcv)
  BY <1>1 DEF NewReceiver, IsReceiver
<1>3. /\ Sound(rcv.reassembler, Capacity) /\ Conforms(rcv.reassembler, Capacity, StreamLen)
      /\ rcv.reassembler.next_index = 0 /\ rcv.reassembler.if_eof = FALSE
      /\ rcv.reassembler.output = NewByteStream(Capacity)
  BY <1>2, NewFacts, ZenonT(60)
<1>4. stream_out(rcv).num_read = 0 /\ Substring(0, 0) = <<>>
  BY <1>3 DEF stream_out, NewByteStream, Substring
<1>5. CheckpointTypes
  BY <1>1, <1>2 DEF CheckpointTypes, Numbers, WrappingInt
<1>6. SynInv /\ FinInv
  BY <1>1, <1>2, <1>3 DEF SynInv, FinInv
<1>7. CheckpointInv
  BY <1>2, <1>3, <1>4 DEF CheckpointInv
<1> QED BY <1>1, <1>2, <1>3, <1>4, <1>5, <1>6, <1>7, Zenon DEF IInv

(* A number that is neither MaxStale behind the ackno nor past the window  *)
(* is less than half of the sequence space away from the checkpoint.       *)
LEMMA NearCheckpoint ==
  ASSUME NEW x \in Nat, NEW c \in Nat, NEW next \in Nat, NEW nr \in Nat, NEW cap \in Nat,
         NEW stale \in Nat, NEW m \in Nat, nr <= next, next + 1 <= c + stale + cap,
         c <= nr + cap + 1, x + stale >= next + 1, x <= nr + cap + 1,
         2 * (stale + 2 * cap + 2) <= m
  PROVE  2 * Distance(x, c) < m
  BY DEF Distance

(* What a segment that arrives does to the receiver: nothing, if it        *)
(* occupies no sequence numbers; otherwise its bytes are pushed under      *)
(* their own index, whatever the 32-bit numbers wrapped around to.         *)
Received(s, n, fin) ==
    [reassembler |-> push_substring(rcv.reassembler, Substring(Index(s), n), Index(s), fin),
     capacity |-> Capacity, isn |-> isn, if_syn_set |-> TRUE,
     if_fin_set |-> rcv.if_fin_set \/ fin, abs_checkpoint |-> s,
     abs_seqno_fin |-> IF rcv.if_fin_set \/ fin THEN StreamLen + 1 ELSE 0]

(* segment_received unwraps the segment's numbers to the absolute ones.    *)
LEMMA NumbersRecovered ==
  ASSUME IInv, NEW s \in 0 .. StreamLen + 1, NEW n \in 0 .. Capacity, NEW fin \in BOOLEAN,
         MaySend(s, n, fin), Fresh(s)
  PROVE  /\ unwrap(wrap(s, isn), isn, rcv.abs_checkpoint) = s
         /\ fin => unwrap(minus(plus(wrap(s, isn), length_in_sequence_space(Segment(s, n, fin))), 1),
                          isn, rcv.abs_checkpoint) = StreamLen + 1
<1> USE StreamConstants, ReceiverConstants, ModAssumption
<1> DEFINE next == rcv.reassembler.next_index
           nr == stream_out(rcv).num_read
           c == rcv.abs_checkpoint
           len == length_in_sequence_space(Segment(s, n, fin))
<1>1. /\ s \in Nat /\ n \in Nat /\ isn \in WrappingInt /\ c \in Nat /\ Capacity \in Nat
      /\ MaxStale \in Nat /\ Mod \in Nat /\ 2 * (MaxStale + 2 * Capacity + 2) <= Mod
  BY DEF IInv, CheckpointTypes, Numbers
<1>2. next \in Nat /\ nr \in Nat /\ nr <= next
  BY ConformsWindow, ZenonT(60) DEF IInv, stream_out
<1>3. c <= nr + Capacity + 1 /\ next + 1 <= c + MaxStale + Capacity
  BY DEF IInv, CheckpointInv
<1>4. s + MaxStale >= next + 1
  <2>1. abs_ackno(rcv) \in {next + 1, next + 1 + 1}
    BY DEF abs_ackno
  <2> QED BY <1>1, <1>2, <2>1 DEF Fresh
<1>5. /\ Index(s) \in Nat /\ s <= Index(s) + 1 /\ (s > 0 => s = Index(s) + 1)
      /\ (s = 0 => Index(s) = 0)
  BY <1>1 DEF Index
<1>6. /\ Index(s) + n <= nr + Capacity \/ (Index(s) = nr + Capacity /\ n = 1 /\ ~fin)
      /\ (fin => Index(s) + n = StreamLen)
  BY DEF MaySend, stream_out
<1> HIDE DEF next, nr, c
<1>7. s <= nr + Capacity + 1
  BY <1>1, <1>2, <1>5, <1>6
<1>8. unwrap(wrap(s, isn), isn, c) = s
  <2>1. 2 * Distance(s, c) < Mod
    BY <1>1, <1>2, <1>3, <1>4, <1>7, NearCheckpoint, ZenonT(60)
  <2> QED BY <1>1, <2>1, UnwrapInvertsWrap, SMTT(60)
<1>9. ASSUME fin PROVE unwrap(minus(plus(wrap(s, isn), len), 1), isn, c) = StreamLen + 1
  <2>1. /\ Segment(s, n, fin).payload = Substring(Index(s), n)
        /\ Segment(s, n, fin).syn = (s = 0) /\ Segment(s, n, fin).fin = TRUE
    BY <1>9 DEF Segment
  <2>2. Len(Substring(Index(s), n)) = n
    BY <1>1, <1>5, SubstringType, SMTT(60)
  <2>3. len = n + (IF s = 0 THEN 1 ELSE 0) + 1
    BY <2>1, <2>2, ZenonT(60) DEF length_in_sequence_space
  <2> HIDE DEF len
  <2>4. len \in Nat /\ s + len >= 1 /\ s + len - 1 = StreamLen + 1
    BY <1>1, <1>5, <1>6, <1>9, <2>3, SMTT(60)
  <2>5. minus(plus(wrap(s, isn), len), 1) = wrap(StreamLen + 1, isn)
    BY <1>1, <2>4, WrapShift
  <2>6. StreamLen + 1 \in Nat /\ StreamLen + 1 + MaxStale >= next + 1
        /\ StreamLen + 1 <= nr + Capacity + 1
    BY <1>1, <1>2, <1>4, <1>6, <1>9, SMTT(60)
  <2>7. 2 * Distance(StreamLen + 1, c) < Mod
    BY <1>1, <1>2, <1>3, <2>6, NearCheckpoint, Zenon
  <2> QED BY <1>1, <2>5, <2>6, <2>7, UnwrapInvertsWrap
<1> QED BY <1>8, <1>9, SMTT(60) DEF c

(* The whole of segment_received on a segment of the peer's stream. *)
LEMMA ReceiveIs ==
  ASSUME IInv, NEW s \in 0 .. StreamLen + 1, NEW n \in 0 .. Capacity, NEW fin \in BOOLEAN,
         Arrive(s, n, fin)
  PROVE  rcv' = rcv \/ rcv' = Received(s, n, fin)
<1> USE StreamConstants, ReceiverConstants, ModAssumption
<1> DEFINE seg == Segment(s, n, fin)
           noted == note_fin(note_syn(rcv, seg), seg)
<1>1. /\ rcv' = receive(rcv, seg) /\ MaySend(s, n, fin) /\ Fresh(s)
  BY DEF Arrive
<1>2. /\ unwrap(wrap(s, isn), isn, rcv.abs_checkpoint) = s
      /\ fin => unwrap(minus(plus(wrap(s, isn), length_in_sequence_space(seg)), 1),
                       isn, rcv.abs_checkpoint) = StreamLen + 1
  BY <1>1, NumbersRecovered
<1>3. /\ seg.seqno = wrap(s, isn) /\ seg.syn = (s = 0) /\ seg.fin = fin
      /\ seg.payload = Substring(Index(s), n)
  BY DEF Segment
<1>4. /\ IsReceiver(rcv) /\ isn \in WrappingInt /\ rcv.capacity = Capacity
      /\ rcv.if_syn_set \in BOOLEAN /\ rcv.if_fin_set \in BOOLEAN
      /\ (rcv.if_syn_set => rcv.isn = isn) /\ (s > 0 => rcv.if_syn_set)
      /\ rcv.abs_seqno_fin = IF rcv.if_fin_set THEN StreamLen + 1 ELSE 0
  BY <1>1 DEF IInv, CheckpointTypes, Numbers, SynInv, FinInv, MaySend
<1>5. note_syn(rcv, seg) = [rcv EXCEPT !.isn = isn, !.if_syn_set = TRUE]
  <2>1. CASE rcv.if_syn_set
    BY <2>1, <1>4, Zenon DEF note_syn, IsReceiver
  <2>2. CASE ~rcv.if_syn_set
    <3>1. s = 0 /\ wrap(0, isn) = isn
      BY <2>2, <1>4, WrapZero
    <3> QED BY <2>2, <3>1, <1>3, Zenon DEF note_syn
  <2> QED BY <2>1, <2>2, <1>4, SMTT(60)
<1> HIDE DEF seg
<1> DEFINE r1 == [reassembler |-> rcv.reassembler, capacity |-> Capacity, isn |-> isn,
                  if_syn_set |-> TRUE, if_fin_set |-> rcv.if_fin_set,
                  abs_checkpoint |-> rcv.abs_checkpoint, abs_seqno_fin |-> rcv.abs_seqno_fin]
           f == rcv.if_fin_set \/ fin
           a == IF rcv.if_fin_set \/ fin THEN StreamLen + 1 ELSE 0
           r2 == [reassembler |-> rcv.reassembler, capacity |-> Capacity, isn |-> isn,
                  if_syn_set |-> TRUE, if_fin_set |-> f,
                  abs_checkpoint |-> rcv.abs_checkpoint, abs_seqno_fin |-> a]
<1>6. note_syn(rcv, seg) = r1
  BY <1>4, <1>5, Zenon DEF IsReceiver
<1>7. note_fin(r1, seg) = r2
  <2>1. CASE ~rcv.if_fin_set /\ fin
    BY <2>1, <1>2, <1>3, Zenon DEF note_fin
  <2>2. CASE rcv.if_fin_set \/ ~fin
    BY <2>2, <1>3, <1>4, Zenon DEF note_fin
  <2> QED BY <2>1, <2>2, <1>4
<1>8. noted = r2
  BY <1>6, <1>7
<1>9. CASE length_in_sequence_space(seg) = 0
  <2>1. Index(s) \in Nat /\ n \in Nat
    BY DEF Index
  <2>2. Len(seg.payload) = n
    <3>1. Len(Substring(Index(s), n)) = n
      BY <2>1, SubstringType, Zenon
    <3> QED BY <1>3, <3>1
  <2>3. length_in_sequence_space(seg)
          = n + (IF s = 0 THEN 1 ELSE 0) + (IF fin THEN 1 ELSE 0)
    BY <1>3, <2>2, ZenonT(60) DEF length_in_sequence_space
  <2>4. s > 0 /\ ~fin
    BY <1>9, <2>1, <2>3
  <2>5. r2 = rcv
    BY <2>4, <1>4 DEF IsReceiver
  <2>6. receive(rcv, seg) = noted
    BY <1>9 DEF receive
  <2> QED BY <1>1, <1>8, <2>5, <2>6 DEF seg
<1>10. CASE length_in_sequence_space(seg) # 0
  <2>1. receive(rcv, seg) = push_payload(r2, seg)
    BY <1>8, <1>10 DEF receive
  <2>2. (IF seg.syn THEN s ELSE (s - 1) % (Mod * Mod)) = Index(s)
    <3>1. CASE s = 0
      BY <3>1, <1>3, Zenon DEF Index
    <3>2. CASE s > 0
      <4>1. s - 1 \in Nat /\ s - 1 < Mod * Mod /\ Mod * Mod \in Nat
        BY <3>2
      <4> DEFINE m == Mod * Mod
      <4> HIDE DEF m
      <4>2. (s - 1) % m = s - 1
        BY <4>1, SMTT(30) DEF m
      <4> QED BY <3>2, <4>2, <1>3, Zenon DEF Index, m
    <3> QED BY <3>1, <3>2
  <2>3. unwrap(seg.seqno, r2.isn, r2.abs_checkpoint) = s
    BY <1>2, <1>3
  <2> DEFINE pushed == push_substring(rcv.reassembler, seg.payload, Index(s), seg.fin)
  <2>4. push_payload(r2, seg) = [r2 EXCEPT !.reassembler = pushed, !.abs_checkpoint = s]
    BY <2>2, <2>3, Zenon DEF push_payload
  <2> HIDE DEF pushed, f, a
  <2>5. push_payload(r2, seg)
          = [reassembler |-> pushed, capacity |-> Capacity, isn |-> isn, if_syn_set |-> TRUE,
             if_fin_set |-> f, abs_checkpoint |-> s, abs_seqno_fin |-> a]
    BY <2>4, ZenonT(60)
  <2>6. push_payload(r2, seg) = Received(s, n, fin)
    BY <2>5, <1>3, Zenon DEF Received, pushed, f, a
  <2> QED BY <1>1, <2>1, <2>6, SMTT(60) DEF seg
<1> QED BY <1>9, <1>10

(* segment_received keeps the invariant. *)
LEMMA ArriveInv ==
  ASSUME IInv, NEW s \in 0 .. StreamLen + 1, NEW n \in 0 .. Capacity, NEW fin \in BOOLEAN,
         Arrive(s, n, fin), rcv' # rcv
  PROVE  IInv' /\ PushEffect(rcv.reassembler, rcv'.reassembler, Capacity, Index(s), n, fin)
<1> USE StreamConstants, ReceiverConstants, ModAssumption
<1> DEFINE r == rcv.reassembler
           q == rcv'.reassembler
           nr == stream_out(rcv).num_read
<1>1. rcv' = Received(s, n, fin)
  BY ReceiveIs
<1>2. /\ q = push_substring(r, Substring(Index(s), n), Index(s), fin)
      /\ rcv'.capacity = Capacity /\ rcv'.isn = isn /\ rcv'.if_syn_set = TRUE
      /\ rcv'.if_fin_set = (rcv.if_fin_set \/ fin) /\ rcv'.abs_checkpoint = s
      /\ rcv'.abs_seqno_fin = (IF rcv.if_fin_set \/ fin THEN StreamLen + 1 ELSE 0)
      /\ IsReceiver(rcv')
  BY <1>1 DEF Received, IsReceiver
<1>3. /\ isn \in WrappingInt /\ rcv.if_fin_set \in BOOLEAN
      /\ Sound(r, Capacity) /\ Conforms(r, Capacity, StreamLen)
      /\ got = Substring(0, nr) /\ (rcv.if_fin_set <=> r.if_eof)
  BY DEF IInv, CheckpointTypes, FinInv
<1>4. Index(s) \in Nat /\ n \in Nat /\ s \in Nat /\ s <= Index(s) + 1
  BY DEF Index
<1>5. /\ isn' = isn /\ got' = got /\ Index(s) + n <= StreamLen
      /\ (fin => Index(s) + n = StreamLen)
      /\ (Index(s) + n <= r.output.num_read + Capacity
           \/ (Index(s) = r.output.num_read + Capacity /\ n = 1 /\ ~fin))
      /\ (fin => n > 0 \/ Index(s) <= r.next_index)
      /\ s + MaxStale >= abs_ackno(rcv)
  BY DEF Arrive, MaySend, FinInPlace, Fresh, stream_out
<1>6. PushEffect(r, q, Capacity, Index(s), n, fin)
  BY <1>2, <1>3, <1>4, PushFacts, SMTT(60)
<1>7. r.next_index \in Nat /\ r.output.num_read \in Nat /\ r.output.num_read <= r.next_index
  BY <1>3, ConformsWindow, ZenonT(60)
<1>8. Index(s) + n <= r.output.num_read + Capacity
      \/ (Index(s) >= r.output.num_read + Capacity /\ ~fin)
  BY <1>4, <1>5, <1>7
<1>9. Conforms(q, Capacity, StreamLen)
  BY <1>3, <1>4, <1>5, <1>6, <1>8, PushConforms
<1>10. /\ Sound(q, Capacity) /\ q.output.num_read = r.output.num_read
       /\ (q.if_eof <=> r.if_eof \/ fin)
  BY <1>6 DEF PushEffect
<1>11. CheckpointTypes'
  BY <1>2, <1>3, <1>4, <1>5, SMTT(60) DEF CheckpointTypes, Numbers
<1>12. SynInv' /\ FinInv'
  BY <1>2, <1>3, <1>5, <1>10, SMTT(60) DEF SynInv, FinInv
<1>13. CheckpointInv'
  <2>1. s <= r.output.num_read + Capacity + 1
    BY <1>4, <1>5, <1>7, SMTT(60)
  <2>2. q.next_index <= r.output.num_read + Capacity
    BY <1>9, <1>10, ConformsWindow, SMTT(60)
  <2>3. abs_ackno(rcv) \in {r.next_index + 1, r.next_index + 1 + 1}
    BY DEF abs_ackno
  <2>4. q.next_index \in Nat
    BY <1>10, RoomType
  <2>5. q.next_index + 1 <= s + MaxStale + Capacity
    BY <1>4, <1>5, <1>7, <2>2, <2>3, <2>4, SMTT(60)
  <2> QED BY <1>2, <1>10, <2>1, <2>5, SMTT(60) DEF CheckpointInv, stream_out
<1>14. got' = Substring(0, stream_out(rcv)'.num_read)
  BY <1>3, <1>5, <1>10, SMTT(60) DEF stream_out
<1> QED BY <1>2, <1>3, <1>6, <1>9, <1>10, <1>11, <1>12, <1>13, <1>14, Zenon DEF IInv

(* ByteStream::read keeps the invariant: the bytes read follow those read  *)
(* before, and the checkpoint stays inside the window that moves on.       *)
LEMMA ReadInv ==
  ASSUME IInv, NEW n \in 1 .. Capacity, Read(n)
  PROVE  IInv' /\ ReadEffect(rcv.reassembler, rcv'.reassembler, Capacity, n)
<1> USE StreamConstants, ReceiverConstants, ModAssumption
<1> DEFINE r == rcv.reassembler
           q == rcv'.reassembler
<1>1. /\ n \in Nat /\ isn' = isn /\ got' = got \o peek_output(r.output, n)
      /\ rcv' = [rcv EXCEPT !.reassembler = [r EXCEPT !.output = pop_output(r.output, n)]]
      /\ r.output.buffer # <<>>
  BY DEF Read, stream_out
<1>2. IsReceiver(rcv)
  BY DEF IInv, CheckpointTypes, Numbers
<1>3. /\ q = [r EXCEPT !.output = pop_output(r.output, n)]
      /\ rcv'.capacity = rcv.capacity /\ rcv'.isn = rcv.isn
      /\ rcv'.if_syn_set = rcv.if_syn_set /\ rcv'.if_fin_set = rcv.if_fin_set
      /\ rcv'.abs_checkpoint = rcv.abs_checkpoint /\ rcv'.abs_seqno_fin = rcv.abs_seqno_fin
      /\ IsReceiver(rcv')
  BY <1>1, <1>2, ZenonT(60) DEF IsReceiver
<1>4. /\ Sound(r, Capacity) /\ Conforms(r, Capacity, StreamLen)
      /\ got = Substring(0, r.output.num_read) /\ rcv.abs_checkpoint \in Nat
  BY DEF IInv, stream_out, CheckpointTypes, Numbers
<1>5. ReadEffect(r, q, Capacity, n)
  BY <1>1, <1>3, <1>4, ReadFacts, SMTT(60)
<1>6. /\ Sound(q, Capacity) /\ Conforms(q, Capacity, StreamLen)
      /\ q.next_index = r.next_index /\ q.if_eof = r.if_eof
      /\ q.output.num_read >= r.output.num_read
      /\ Substring(0, r.output.num_read) \o peek_output(r.output, n)
           = Substring(0, q.output.num_read)
  BY <1>4, <1>5, SMTT(60) DEF ReadEffect
<1>7. got' = Substring(0, stream_out(rcv)'.num_read)
  BY <1>1, <1>4, <1>6, ZenonT(60) DEF stream_out
<1>8. CheckpointTypes'
  BY <1>1, <1>3, SMTT(60) DEF IInv, CheckpointTypes, Numbers
<1>9. SynInv'
  <2>1. rcv.if_syn_set
    <3> SUFFICES ASSUME ~rcv.if_syn_set PROVE FALSE
      OBVIOUS
    <3>1. rcv = NewReceiver(Capacity)
      BY SMTT(60) DEF IInv, SynInv
    <3> QED BY <3>1, <1>1 DEF NewReceiver, NewReassembler, NewByteStream
  <2> QED BY <2>1, <1>1, <1>3, SMTT(60) DEF IInv, SynInv
<1>10. FinInv'
  BY <1>3, <1>6 DEF IInv, FinInv
<1>11. CheckpointInv'
  <2>1. rcv.abs_checkpoint <= r.output.num_read + Capacity + 1
    BY DEF IInv, CheckpointInv, stream_out
  <2>2. r.output.num_read \in Nat /\ q.output.num_read \in Nat
    BY <1>4, <1>6, ConformsWindow, SMTT(60)
  <2>3. rcv.abs_checkpoint <= q.output.num_read + Capacity + 1
    BY <1>4, <1>6, <2>1, <2>2, SMTT(60)
  <2>4. q.next_index + 1 <= rcv.abs_checkpoint + MaxStale + Capacity
    BY <1>6 DEF IInv, CheckpointInv
  <2> QED BY <1>3, <2>3, <2>4, SMTT(60) DEF CheckpointInv, stream_out
<1> QED BY <1>3, <1>5, <1>6, <1>7, <1>8, <1>9, <1>10, <1>11, SMTT(60) DEF IInv

(* What a step may do to the output: a segment appends, a read consumes,   *)
(* the end of the stream stays announced and ends the output's changes.    *)
StepEffect ==
    /\ rcv'.reassembler.next_index >= rcv.reassembler.next_index
    /\ stream_out(rcv').num_read >= stream_out(rcv).num_read
    /\ stream_out(rcv).input_ended => /\ stream_out(rcv').input_ended
                                      /\ stream_out(rcv').num_written = stream_out(rcv).num_written

(* Every step keeps the invariant and has that effect. *)
LEMMA NextInv == IInv /\ [Next]_vars => IInv' /\ StepEffect
<1> SUFFICES ASSUME IInv, [Next]_vars PROVE IInv' /\ StepEffect
  OBVIOUS
<1> DEFINE r == rcv.reassembler
           q == rcv'.reassembler
<1>1. r.next_index \in Nat /\ r.output.num_read \in Nat
  BY ConformsWindow, StreamConstants, ReceiverConstants DEF IInv
<1>2. ASSUME UNCHANGED vars PROVE IInv' /\ StepEffect
  <2>1. IInv'
    BY <1>2 DEF vars, IInv, CheckpointTypes, SynInv, FinInv, CheckpointInv, stream_out
  <2> QED BY <1>1, <1>2, <2>1, SMTT(60) DEF vars, StepEffect, stream_out
<1>3. ASSUME NEW s \in 0 .. StreamLen + 1, NEW n \in 0 .. Capacity, NEW fin \in BOOLEAN,
             Arrive(s, n, fin)
      PROVE  IInv' /\ StepEffect
  <2>1. CASE rcv' = rcv
    BY <2>1, <1>2, <1>3, ZenonT(60) DEF Arrive, vars
  <2>2. CASE rcv' # rcv
    <3>1. IInv' /\ PushEffect(r, q, Capacity, Index(s), n, fin)
      BY <2>2, <1>3, ArriveInv, SMTT(60)
    <3>2. /\ q.next_index >= r.next_index /\ q.output.num_read = r.output.num_read
          /\ (r.output.input_ended => q.output = r.output)
      BY <3>1, SMTT(60) DEF PushEffect
    <3> QED BY <3>1, <3>2, <1>1 DEF StepEffect, stream_out
  <2> QED BY <2>1, <2>2, SMTT(60)
<1>4. ASSUME NEW n \in 1 .. Capacity, Read(n) PROVE IInv' /\ StepEffect
  <2>1. IInv' /\ ReadEffect(r, q, Capacity, n)
    BY <1>4, ReadInv
  <2> QED BY <2>1, <1>1 DEF ReadEffect, StepEffect, stream_out
<1> QED BY <1>2, <1>3, <1>4 DEF Next

(* Every reachable receiver satisfies the invariant: in particular every   *)
(* segment's 32-bit numbers were unwrapped to the numbers it was sent with.*)
THEOREM ReceiverInvariant == Spec => []IInv
<1> QED BY InitInv, NextInv, PTL DEF Spec

(* However many segments were unwrapped against each other's results,      *)
(* every absolute number near the checkpoint survives the round trip       *)
(* through a 32-bit seqno.                                                 *)
THEOREM RoundTripAlways == Spec => []RoundTrip
<1>1. IInv => RoundTrip
  <2> SUFFICES ASSUME IInv, NEW n \in 0 .. rcv.abs_checkpoint + Mod,
                      2 * Distance(n, rcv.abs_checkpoint) < Mod
               PROVE  unwrap(wrap(n, rcv.isn), rcv.isn, rcv.abs_checkpoint) = n
    BY DEF RoundTrip
  <2>1. n \in Nat /\ rcv.isn \in WrappingInt /\ rcv.abs_checkpoint \in Nat
    BY DEF IInv, CheckpointTypes, Numbers
  <2> QED BY <2>1, UnwrapInvertsWrap
<1> QED BY <1>1, ReceiverInvariant, PTL

(* Whatever arrived before, unwrap picks the absolute number closest to    *)
(* the receiver's checkpoint among all that wrap to the seqno.             *)
THEOREM ClosestAlways == Spec => []ClosestToCheckpoint
<1>1. IInv => ClosestToCheckpoint
  <2> SUFFICES ASSUME IInv, NEW raw \in WrappingInt
               PROVE  LET abs == unwrap(raw, rcv.isn, rcv.abs_checkpoint)
                      IN  /\ abs \in Nat
                          /\ wrap(abs, rcv.isn) = raw
                          /\ \A other \in 0 .. rcv.abs_checkpoint + Mod :
                                wrap(other, rcv.isn) = raw =>
                                    Distance(abs, rcv.abs_checkpoint)
                                        <= Distance(other, rcv.abs_checkpoint)
    BY DEF ClosestToCheckpoint
  <2>1. rcv.isn \in WrappingInt /\ rcv.abs_checkpoint \in Nat
    BY DEF IInv, CheckpointTypes, Numbers
  <2>2. 0 .. rcv.abs_checkpoint + Mod \subseteq Nat
    OBVIOUS
  <2> QED BY <2>1, <2>2, UnwrapType, UnwrapIsClosest, Zenon
<1> QED BY <1>1, ReceiverInvariant, PTL

(* What the receiver advertises: the FIN is counted exactly when the       *)
(* output has ended, and the window is what the output has room for.       *)
AckFacts ==
    LET ended == IF stream_out(rcv).input_ended THEN 1 ELSE 0
    IN  /\ abs_ackno(rcv) = stream_out(rcv).num_written + 1 + ended
        /\ abs_ackno(rcv) + window_size(rcv) = stream_out(rcv).num_read + Capacity + 1 + ended
        /\ stream_out(rcv).num_written = rcv.reassembler.next_index
        /\ stream_out(rcv).num_written \in Nat /\ stream_out(rcv).num_read \in Nat

(* Lines 48-53 of ackno() and window_size() compute that. *)
LEMMA AckValue == IInv => AckFacts
<1> SUFFICES ASSUME IInv PROVE AckFacts
  OBVIOUS
<1> USE StreamConstants, ReceiverConstants
<1> DEFINE r == rcv.reassembler
           next == r.next_index
           nr == r.output.num_read
           l == Len(r.output.buffer)
           ended == IF r.output.input_ended THEN 1 ELSE 0
<1>1. /\ Sound(r, Capacity) /\ Conforms(r, Capacity, StreamLen) /\ rcv.capacity = Capacity
      /\ (rcv.if_fin_set <=> r.if_eof) /\ rcv.if_fin_set \in BOOLEAN
      /\ rcv.abs_seqno_fin = (IF rcv.if_fin_set THEN StreamLen + 1 ELSE 0)
  BY SMTT(60) DEF IInv, FinInv
<1>2. /\ next \in Nat /\ nr \in Nat /\ r.output.num_written = next
      /\ l \in Nat /\ r.output.num_written = nr + l
  BY <1>1, ConformsWindow, RoomType, SMTT(60) DEF Conforms, Sound, Genuine
<1>3. r.output.input_ended <=> rcv.if_fin_set /\ next = StreamLen
  BY <1>1, ConformsEnd, SMTT(60) DEF Conforms
<1>4. next + 1 = rcv.abs_seqno_fin <=> rcv.if_fin_set /\ next = StreamLen
  BY <1>1, <1>2, SMTT(60)
<1>5. abs_ackno(rcv) = next + 1 + ended
  BY <1>2, <1>3, <1>4, SMTT(60) DEF abs_ackno
<1>6. window_size(rcv) = Capacity - l
  BY <1>1 DEF window_size
<1>7. /\ ended \in Nat /\ next \in Nat /\ nr \in Nat /\ l \in Nat /\ Capacity \in Nat
      /\ next = nr + l
  BY <1>2
<1> HIDE DEF l, ended, next, nr
<1>8. abs_ackno(rcv) + window_size(rcv) = nr + Capacity + 1 + ended
  <2>1. next + 1 + ended + (Capacity - l) = nr + Capacity + 1 + ended
    BY ONLY <1>7
  <2> QED BY <1>5, <1>6, <2>1, ZenonT(60)
<1> QED BY <1>2, <1>5, <1>8, Zenon DEF AckFacts, stream_out, ended, next, nr

(* The ackno covers exactly the SYN, the bytes written to the output and,  *)
(* once the stream ended, the FIN: for every Mod, stream, capacity and     *)
(* order of the segments (tcp_receiver.cc:45-54).                          *)
THEOREM ReceiverAcks == Spec => []AckedIsDelivered
<1>1. IInv => AckedIsDelivered
  <2> SUFFICES ASSUME IInv, has_ackno(rcv)
               PROVE  ackno(rcv) = wrap(1 + stream_out(rcv).num_written
                                + (IF stream_out(rcv).input_ended THEN 1 ELSE 0), isn)
    BY DEF AckedIsDelivered
  <2> DEFINE w == stream_out(rcv).num_written
             ended == IF stream_out(rcv).input_ended THEN 1 ELSE 0
  <2>1. rcv.isn = isn
    BY DEF IInv, SynInv, has_ackno
  <2>2. abs_ackno(rcv) = w + 1 + ended /\ w \in Nat
    BY AckValue DEF AckFacts
  <2>3. ended \in Nat
    OBVIOUS
  <2> HIDE DEF w, ended
  <2>4. w + 1 + ended = 1 + w + ended
    BY <2>2, <2>3
  <2>5. ackno(rcv) = wrap(1 + w + ended, isn)
    BY <2>1, <2>2, <2>4, ZenonT(60) DEF ackno
  <2> QED BY <2>5 DEF w, ended
<1> QED BY <1>1, ReceiverInvariant, PTL

(* Neither the ackno nor the right edge of the window ever moves back: the *)
(* peer is never told less than it was told before.                        *)
THEOREM ReceiverNeverRetreats == Spec => WindowNeverRetreats
<1>1. /\ AckFacts /\ AckFacts' /\ StepEffect
      => /\ abs_ackno(rcv') >= abs_ackno(rcv)
         /\ abs_ackno(rcv') + window_size(rcv') >= abs_ackno(rcv) + window_size(rcv)
  <2> SUFFICES ASSUME AckFacts, AckFacts', StepEffect
               PROVE  /\ abs_ackno(rcv') >= abs_ackno(rcv)
                      /\ abs_ackno(rcv') + window_size(rcv') >= abs_ackno(rcv) + window_size(rcv)
    OBVIOUS
  <2> DEFINE w == stream_out(rcv).num_written
             w1 == stream_out(rcv').num_written
             nr == stream_out(rcv).num_read
             nr1 == stream_out(rcv').num_read
             e == IF stream_out(rcv).input_ended THEN 1 ELSE 0
             e1 == IF stream_out(rcv').input_ended THEN 1 ELSE 0
  <2>1. /\ abs_ackno(rcv) = w + 1 + e /\ w \in Nat /\ nr \in Nat
        /\ abs_ackno(rcv) + window_size(rcv) = nr + Capacity + 1 + e
        /\ w = rcv.reassembler.next_index
    BY DEF AckFacts
  <2>2. /\ abs_ackno(rcv') = w1 + 1 + e1 /\ w1 \in Nat /\ nr1 \in Nat
        /\ abs_ackno(rcv') + window_size(rcv') = nr1 + Capacity + 1 + e1
        /\ w1 = rcv'.reassembler.next_index
    BY DEF AckFacts, stream_out, abs_ackno, window_size
  <2>3. w1 >= w /\ nr1 >= nr /\ e1 >= e /\ e \in Nat /\ e1 \in Nat
    BY <2>1, <2>2 DEF StepEffect
  <2> HIDE DEF w, w1, nr, nr1, e, e1
  <2> QED BY <2>1, <2>2, <2>3, StreamConstants, ReceiverConstants, SMTT(60)
<1>2. IInv /\ AckFacts /\ AckFacts' /\ [Next]_vars
      => [/\ abs_ackno(rcv') >= abs_ackno(rcv)
          /\ abs_ackno(rcv') + window_size(rcv') >= abs_ackno(rcv) + window_size(rcv)]_vars
  BY <1>1, NextInv
<1> QED BY <1>2, ReceiverInvariant, AckValue, PTL DEF Spec, WindowNeverRetreats

(* The receiver implements in-order delivery of the peer's stream: every   *)
(* step appends the next bytes or nothing, and the end comes with or after *)
(* the last byte, although the seqnos wrap around within the stream.       *)
THEOREM ReceiverRefines == Spec => InOrder
<1> USE StreamConstants, ReceiverConstants
<1> DEFINE d == got \o stream_out(rcv).buffer
           e == stream_out(rcv).input_ended
           w == stream_out(rcv).num_written
<1>1. Init => Service!Init
  <2> SUFFICES ASSUME Init PROVE Service!Init
    OBVIOUS
  <2>1. got = <<>> /\ stream_out(rcv).buffer = <<>> /\ stream_out(rcv).input_ended = FALSE
    BY DEF Init, NewReceiver, NewReassembler, NewByteStream, stream_out
  <2>2. d = <<>> /\ e = FALSE
    BY <2>1
  <2> QED BY <2>2 DEF Service!Init
<1>2. IInv => /\ d = Substring(0, w) /\ Len(d) = w /\ w \in Nat /\ w <= StreamLen
              /\ e \in BOOLEAN /\ (e => w = StreamLen)
  <2> SUFFICES ASSUME IInv
               PROVE  /\ d = Substring(0, w) /\ Len(d) = w /\ w \in Nat /\ w <= StreamLen
                      /\ e \in BOOLEAN /\ (e => w = StreamLen)
    OBVIOUS
  <2>1. /\ Sound(rcv.reassembler, Capacity) /\ Conforms(rcv.reassembler, Capacity, StreamLen)
        /\ got = Substring(0, rcv.reassembler.output.num_read)
    BY DEF IInv, stream_out
  <2>2. d = Substring(0, w)
    BY <2>1, BufferFollows, ZenonT(60) DEF stream_out
  <2>3. w = rcv.reassembler.next_index /\ w \in Nat /\ w <= StreamLen
    BY <2>1, ConformsWindow DEF Conforms, stream_out
  <2>4. e \in BOOLEAN /\ (e => w = StreamLen)
    <3>1. rcv.reassembler \in Reassemblers(Capacity)
      BY <2>1 DEF Sound
    <3>2. rcv.reassembler.output \in ByteStreams(Capacity, Nat)
      BY <3>1 DEF Reassemblers
    <3>3. rcv.reassembler.output.input_ended \in BOOLEAN
      BY <3>2 DEF ByteStreams
    <3>4. rcv.reassembler.output.input_ended => rcv.reassembler.next_index = StreamLen
      BY <2>1, ConformsEnd
    <3> QED BY <2>3, <3>3, <3>4 DEF stream_out
  <2>5. Len(Substring(0, w)) = w
    BY <2>3, SubstringType, Zenon
  <2> QED BY <2>2, <2>3, <2>4, <2>5, ZenonT(60)
<1>3. IInv /\ IInv' /\ [Next]_vars => [Service!Deliver]_(Service!dvars)
  <2> SUFFICES ASSUME IInv, IInv', [Next]_vars, ~(d' = d /\ e' = e)
               PROVE  Service!Deliver
    BY SMTT(60) DEF Service!dvars
  <2>1. /\ d = Substring(0, w) /\ Len(d) = w /\ w \in Nat /\ e \in BOOLEAN
    BY <1>2
  <2>2. /\ d' = Substring(0, w') /\ Len(d') = w' /\ w' \in Nat /\ w' <= StreamLen
        /\ e' \in BOOLEAN /\ (e' => w' = StreamLen)
    <3>1. (IInv => /\ d = Substring(0, w) /\ Len(d) = w /\ w \in Nat /\ w <= StreamLen
                   /\ e \in BOOLEAN /\ (e => w = StreamLen))'
      BY <1>2, PTL
    <3> QED BY <3>1, ZenonT(60)
  <2>3. StepEffect
    BY NextInv, SMTT(60)
  <2>4. w' >= w /\ (e => e' /\ w' = w)
    <3>1. w = rcv.reassembler.next_index /\ w' = rcv'.reassembler.next_index
      BY Zenon DEF IInv, Conforms, stream_out
    <3> QED BY <2>3, <3>1, SMTT(60) DEF StepEffect, stream_out
  <2>5. ~e
    BY <2>1, <2>2, <2>4, ZenonT(60)
  <2>6. w' \in Len(d) .. StreamLen
    BY <2>1, <2>2, <2>4, SMTT(60)
  <2>7. d' = Service!Substring(0, w')
    BY <2>2 DEF Substring, Service!Substring
  <2>8. e' \in {FALSE, Len(d') = StreamLen}
    BY <2>2, Zenon
  <2> HIDE DEF w
  <2> QED BY <2>5, <2>6, <2>7, <2>8, Zenon DEF Service!Deliver
<1> QED BY <1>1, <1>3, ReceiverInvariant, PTL DEF Spec, InOrder, Service!Spec
=============================================================================
