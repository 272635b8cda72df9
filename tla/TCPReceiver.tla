----------------------------- MODULE TCPReceiver -----------------------------
(***************************************************************************)
(* class TCPReceiver (libsponge/tcp_receiver.{hh,cc}): turns segments into *)
(* pushes to a StreamReassembler and computes the ackno and the window     *)
(* size to advertise.  One record is one object.  _syn_flag and _fin_flag  *)
(* are copies of the segment's flags that no other call reads; they are    *)
(* not kept in the record.                                                 *)
(***************************************************************************)
EXTENDS WrappingIntegers, StreamReassembler, TCPSegment

(* TCPReceiver::TCPReceiver *)
NewReceiver(cap) ==
    [reassembler |-> NewReassembler(cap), capacity |-> cap, isn |-> 0,
     if_syn_set |-> FALSE, if_fin_set |-> FALSE,
     abs_checkpoint |-> 0, abs_seqno_fin |-> 0]

(* Lines 20-23: the first SYN fixes the initial sequence number. *)
note_syn(rcv, seg) ==
    IF ~rcv.if_syn_set /\ seg.syn
    THEN [rcv EXCEPT !.isn = seg.seqno, !.if_syn_set = TRUE] ELSE rcv

(* Lines 25-28: the first FIN fixes the absolute seqno of the FIN, whether *)
(* or not a SYN was received.                                              *)
note_fin(rcv, seg) ==
    IF ~rcv.if_fin_set /\ seg.fin
    THEN [rcv EXCEPT
            !.abs_seqno_fin =
                unwrap(minus(plus(seg.seqno, length_in_sequence_space(seg)), 1),
                       rcv.isn, rcv.abs_checkpoint),
            !.if_fin_set = TRUE]
    ELSE rcv

(* Mutated form: the checkpoint is never moved. *)
push_payload_StaleCheckpoint(rcv, seg) ==
    LET abs_seqno == unwrap(seg.seqno, rcv.isn, rcv.abs_checkpoint)
        stream_index == IF seg.syn THEN abs_seqno ELSE (abs_seqno - 1) % (Mod * Mod)
    IN  [rcv EXCEPT !.reassembler = push_substring(@, seg.payload, stream_index, seg.fin)]

(* Lines 33-41.  The stream index is a 64-bit number: a segment that       *)
(* claims the SYN's seqno without being the SYN gets the largest index.    *)
push_payload(rcv, seg) ==
    LET abs_seqno == unwrap(seg.seqno, rcv.isn, rcv.abs_checkpoint)
        stream_index == IF seg.syn THEN abs_seqno ELSE (abs_seqno - 1) % (Mod * Mod)
    IN  [rcv EXCEPT
           !.reassembler = push_substring(@, seg.payload, stream_index, seg.fin),
           !.abs_checkpoint = abs_seqno]

(* TCPReceiver::segment_received *)
receive(rcv, seg) ==
    LET noted == note_fin(note_syn(rcv, seg), seg)
    IN  IF length_in_sequence_space(seg) = 0 \/ ~noted.if_syn_set
        THEN noted ELSE push_payload(noted, seg)

(* Mutated form: the FIN is acknowledged as soon as it is seen. *)
abs_ackno_FinAtOnce(rcv) ==
    rcv.reassembler.next_index + (IF rcv.if_fin_set THEN 2 ELSE 1)

(* Lines 48-53: what ackno() wraps. *)
abs_ackno(rcv) ==
    LET next == rcv.reassembler.next_index + 1
    IN  IF next = rcv.abs_seqno_fin THEN next + 1 ELSE next

(* TCPReceiver::ackno; it has a value only after the SYN. *)
has_ackno(rcv) == rcv.if_syn_set
ackno(rcv) == wrap(abs_ackno(rcv), rcv.isn)

(* Mutated form: bytes that wait for a gap to be filled are deducted. *)
window_size_LessWaiting(rcv) ==
    rcv.capacity - Len(rcv.reassembler.output.buffer) - rcv.reassembler.unassembled_bytes

window_size(rcv) == rcv.capacity - Len(rcv.reassembler.output.buffer)

stream_out(rcv) == rcv.reassembler.output
=============================================================================
