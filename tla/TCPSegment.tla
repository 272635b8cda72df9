----------------------------- MODULE TCPSegment -----------------------------
(***************************************************************************)
(* class TCPSegment (libsponge/tcp_helpers/tcp_segment.{hh,cc}): the       *)
(* fields a TCPSender fills in are seqno, syn, fin and payload; those the  *)
(* TCPConnection adds are ack, ackno, win and rst.                         *)
(***************************************************************************)
EXTENDS Naturals, Sequences

(* TCPSegment::length_in_sequence_space *)
length_in_sequence_space(seg) ==
    Len(seg.payload) + (IF seg.syn THEN 1 ELSE 0) + (IF seg.fin THEN 1 ELSE 0)
=============================================================================
