----------------------------- MODULE ByteStream -----------------------------
(***************************************************************************)
(* class ByteStream (libsponge/byte_stream.{hh,cc}): a bounded FIFO of     *)
(* bytes with a writer side and a reader side.  One record is one object;  *)
(* one operator is one method, mapping the object before the call to the   *)
(* object after it (and, for a method with a result, a second operator     *)
(* gives the result).  The TCPSender reads the stream the application      *)
(* writes; the StreamReassembler writes the stream the application reads.  *)
(***************************************************************************)
EXTENDS Naturals, Sequences

(* std::min *)
Lesser(a, b) == IF a <= b THEN a ELSE b

(* In the specifications byte i of a stream is represented by its index i; *)
(* these are its n bytes from byte index on.                               *)
Substring(index, n) == [i \in 1 .. n |-> index + i - 1]

(* ByteStream::ByteStream *)
NewByteStream(cap) ==
    [buffer |-> <<>>, capacity |-> cap, input_ended |-> FALSE,
     error |-> FALSE, num_written |-> 0, num_read |-> 0]

(* The values a ByteStream of capacity cap can take. *)
ByteStreams(cap, Byte) ==
    [buffer : Seq(Byte), capacity : {cap}, input_ended : BOOLEAN,
     error : BOOLEAN, num_written : Nat, num_read : Nat]

remaining_capacity(st) == st.capacity - Len(st.buffer)

(* The value write() returns: how many bytes of data it accepts. *)
num_writable(st, data) ==
    IF st.input_ended THEN 0
                      ELSE Lesser(Len(data), remaining_capacity(st))

(* ByteStream::write *)
write(st, data) ==
    LET n == num_writable(st, data)
    IN  [st EXCEPT !.buffer = @ \o SubSeq(data, 1, n),
                   !.num_written = @ + n]

(* Mutated form: one byte more than is popped. *)
peek_output_OneMore(st, len) == SubSeq(st.buffer, 1, Lesser(len + 1, Len(st.buffer)))

peek_output(st, len) == SubSeq(st.buffer, 1, Lesser(len, Len(st.buffer)))

(* ByteStream::pop_output; read(len) is peek_output(len) and then this. *)
pop_output(st, len) ==
    LET n == Lesser(len, Len(st.buffer))
    IN  [st EXCEPT !.buffer = SubSeq(@, n + 1, Len(@)),
                   !.num_read = @ + n]

end_input(st) == [st EXCEPT !.input_ended = TRUE]

set_error(st) == [st EXCEPT !.error = TRUE]

eof(st) == st.input_ended /\ st.buffer = <<>>
=============================================================================
