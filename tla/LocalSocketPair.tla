--------------------------- MODULE LocalSocketPair ---------------------------
(***************************************************************************)
(* The pair of connected Unix stream sockets between the owner of a        *)
(* TCPSpongeSocket and its TCP thread, as the kernel implements it and     *)
(* FileDescriptor and Socket (libsponge/util/) use it.  Both ends are      *)
(* non-blocking and are used only after poll(2) reported them.             *)
(***************************************************************************)
EXTENDS ByteStream

CONSTANT PipeCapacity       \* bytes the kernel holds in each direction

ASSUME PipeAssumption == PipeCapacity \in Nat \ {0}

OtherEnd(e) == IF e = "owner" THEN "thread" ELSE "owner"

(* queue[e]: bytes to be read at end e; no_read, no_write: the ends that   *)
(* are shut down for reading or writing; closed: the owner's end is closed.*)
NewPair == [queue |-> [e \in {"owner", "thread"} |-> <<>>], no_read |-> {}, no_write |-> {},
            closed |-> FALSE]

(* shutdown(2) works on both ends. *)
ShutWr(pair, e) ==
    [pair EXCEPT !.no_write = @ \cup {e}, !.no_read = @ \cup {OtherEnd(e)}]
ShutRdWr(pair) ==
    [pair EXCEPT !.no_write = {"owner", "thread"}, !.no_read = {"owner", "thread"}]

(* FileDescriptor::close, of the owner's end when everything is read *)
Closed(pair) == [ShutRdWr(pair) EXCEPT !.closed = TRUE]

(* poll(2): POLLIN, POLLOUT and POLLHUP *)
Readable(pair, e) == pair.queue[e] # <<>> \/ e \in pair.no_read
Writable(pair, e) == Len(pair.queue[OtherEnd(e)]) < PipeCapacity
HungUp(pair, e) == e \in pair.no_read /\ e \in pair.no_write

(* FileDescriptor::read(limit): any part of what is there; nothing at all  *)
(* is the end of the stream (the _eof flag).                               *)
ReadSizes(pair, e, limit) ==
    IF pair.queue[e] = <<>> THEN {0} ELSE 1 .. Lesser(limit, Len(pair.queue[e]))
ReadBytes(pair, e, n) == SubSeq(pair.queue[e], 1, n)
AfterRead(pair, e, n) == [pair EXCEPT !.queue[e] = SubSeq(@, n + 1, Len(@))]

(* FileDescriptor::write(data, false): some of the bytes.  Writing to an   *)
(* end that is shut down raises SIGPIPE, which nobody handles; writing     *)
(* nothing does not reach the socket.                                      *)
WriteFails(pair, e, data) == data # <<>> /\ e \in pair.no_write
WriteSizes(pair, e, data) ==
    IF data = <<>> THEN {0}
    ELSE 1 .. Lesser(Len(data), PipeCapacity - Len(pair.queue[OtherEnd(e)]))
AfterWrite(pair, e, data, n) ==
    [pair EXCEPT !.queue[OtherEnd(e)] = @ \o SubSeq(data, 1, n)]
=============================================================================
