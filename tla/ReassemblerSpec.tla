--------------------------- MODULE ReassemblerSpec ---------------------------
(***************************************************************************)
(* A StreamReassembler between a peer that pushes substrings of one byte   *)
(* stream, in any order and any number of times, and a reader that takes   *)
(* bytes from the output stream.  Byte i of the stream (i = 0, 1, ...) is  *)
(* represented by its index, so that a byte that ends up in the wrong      *)
(* place is told apart from the right one.                                 *)
(***************************************************************************)
EXTENDS StreamReassembler, PeerStream

VARIABLES reasm,            \* the StreamReassembler object
          conforming        \* the peer behaves as described at InWindow (chosen once)

reasm_vars == <<reasm, got, conforming>>

InitReassembler == reasm = NewReassembler(Capacity) /\ got = <<>> /\ conforming \in BOOLEAN

(* A conforming peer never goes past the window the receiver advertised    *)
(* (output.num_read + Capacity is its right edge), and its end-of-stream   *)
(* mark does not arrive alone ahead of missing bytes.                      *)
InWindow(index, n) == index + n <= reasm.output.num_read + Capacity

EofInPlace(index, n, is_eof) == is_eof => n > 0 \/ index <= reasm.next_index

(* stream_reassembler.hh:33-35: eof may be given only with the substring   *)
(* that ends the stream.                                                   *)
Push(index, n, is_eof) ==
    /\ index + n <= StreamLen
    /\ is_eof => index + n = StreamLen
    /\ conforming => InWindow(index, n) /\ EofInPlace(index, n, is_eof)
    /\ reasm' = push_substring(reasm, Substring(index, n), index, is_eof)
    /\ UNCHANGED <<got, conforming>>

(* The reader calls stream_out().read(n). *)
ReadOutput(n) ==
    /\ reasm.output.buffer # <<>>
    /\ got' = got \o peek_output(reasm.output, n)
    /\ reasm' = [reasm EXCEPT !.output = pop_output(@, n)]
    /\ UNCHANGED conforming

NextReassembler ==
    \/ \E index, n \in 0 .. StreamLen, is_eof \in BOOLEAN : Push(index, n, is_eof)
    \/ \E n \in 1 .. Capacity : ReadOutput(n)

(* The peer retransmits the oldest missing byte and the final substring    *)
(* until they are acknowledged (TCPSender::tick), and the reader drains    *)
(* the stream (event-loop rule 3 of TCPSpongeSocket).                      *)
ResendOldest ==
    conforming /\ \E n \in 1 .. Capacity :
        Push(reasm.next_index, n, reasm.next_index + n = StreamLen)

ResendEof == conforming /\ Push(StreamLen, 0, TRUE)

Drain == \E n \in 1 .. Capacity : ReadOutput(n)

ReassemblerSpec ==
    /\ InitReassembler /\ [][NextReassembler]_reasm_vars
    /\ WF_reasm_vars(ResendOldest) /\ WF_reasm_vars(ResendEof) /\ WF_reasm_vars(Drain)
-----------------------------------------------------------------------------

(* Whatever is pushed, the bytes popped and buffered are exactly the first *)
(* num_written bytes of the stream: push_substring never reorders, repeats *)
(* or invents a byte, and the buffer never outgrows its capacity.          *)
DeliveredIsPrefix ==
    /\ got \o reasm.output.buffer = Substring(0, reasm.output.num_written)
    /\ Len(got) = reasm.output.num_read
    /\ Len(reasm.output.buffer) <= Capacity

(* The map holds only bytes still to come, each under its own index, and   *)
(* _unassembled_bytes counts them (every index once, however often it was  *)
(* pushed; stream_reassembler.hh:46-47).                                   *)
MapIsAhead ==
    /\ \A k \in DOMAIN reasm.unassembled :
          k >= reasm.next_index /\ reasm.unassembled[k] = k
    /\ reasm.unassembled_bytes = Cardinality(DOMAIN reasm.unassembled)

(* A push that brings the next byte of a conforming peer's stream while    *)
(* the output has room makes progress (stream_reassembler.hh:28: "write    *)
(* any newly contiguous bytes into the stream").                           *)
NextByteIsTaken ==
    conforming /\ remaining_capacity(reasm.output) > 0 =>
        \A index \in 0 .. reasm.next_index, n \in 1 .. StreamLen :
            /\ reasm.next_index < index + n
            /\ index + n <= StreamLen /\ InWindow(index, n)
            => push_substring(reasm, Substring(index, n), index, FALSE).next_index
                   > reasm.next_index

(* With a conforming peer that retransmits and a reader that reads, the    *)
(* reader eventually has the whole stream and sees its end.                *)
Completes == conforming => <>(eof(reasm.output) /\ got = Substring(0, StreamLen))

(* Fed by a conforming peer the reassembler implements in-order delivery.  *)
ReassemblerService == INSTANCE InOrderDelivery
           WITH delivered <- IF conforming THEN got \o reasm.output.buffer ELSE <<>>,
                ended <- conforming /\ reasm.output.input_ended

ReassemblesInOrder == ReassemblerService!Spec
=============================================================================
