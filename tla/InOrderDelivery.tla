--------------------------- MODULE InOrderDelivery ---------------------------
(***************************************************************************)
(* What one direction of a TCP connection promises to the reader: the      *)
(* bytes of the stream come in order, none is lost or invented, and the    *)
(* end of the stream is announced only after the last byte.  The bytes of  *)
(* a stream are numbered from 0, and a byte is its number.                 *)
(***************************************************************************)
EXTENDS Naturals, Sequences

CONSTANT StreamLen          \* number of bytes in the stream

VARIABLES delivered,        \* the bytes given to the reader so far
          ended             \* whether the end was announced

dvars == <<delivered, ended>>

(* The n bytes of the stream from byte index on. *)
Substring(index, n) == [i \in 1 .. n |-> index + i - 1]

Init == delivered = <<>> /\ ended = FALSE

(* Some number of the next bytes, possibly together with the end. *)
Deliver ==
    /\ ~ended
    /\ \E n \in Len(delivered) .. StreamLen : delivered' = Substring(0, n)
    /\ ended' \in {FALSE, Len(delivered') = StreamLen}

Spec == Init /\ [][Deliver]_dvars
=============================================================================
