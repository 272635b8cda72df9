----------------------------- MODULE SocketSpec -----------------------------
(***************************************************************************)
(* A program that owns a TCPSpongeSocket.  One like tcp_udp                *)
(* (apps/tcp_udp.cc) connects it, copies its standard streams over it and  *)
(* waits until it is closed; webget (apps/webget.cc) connects it, writes a *)
(* request and prints what it reads until the end of the stream.  The      *)
(* client of TwoEndpoints is this program, with its two threads, their     *)
(* event loops and the local sockets between them; the server and the      *)
(* network are those of TwoEndpoints.  Time passes for an endpoint only    *)
(* while no segment is under way, as there.                                *)
(***************************************************************************)
EXTENDS TwoEndpoints, TCPSpongeSocket, StreamCopy

ASSUME SameInput == InputLen = ClientLen

VARIABLES thr,      \* TCPSpongeSocket: its t
          own,      \* StreamCopy: its o
          webget,   \* the program is webget (chosen once)
          pair,     \* the local sockets between the two
          died      \* "no", or why the process was killed

local == <<thr, own, webget, pair, died>>
all == <<vars, local>>

SocketInit ==
    /\ conn = [p \in Endpoint |->
                 IF p = "client" THEN connect(NewConnection(RtTimeout, ClientIsn))
                 ELSE NewConnection(RtTimeout, ServerIsn)]
    /\ chan = [p \in Endpoint |-> <<>>]
    /\ got = [p \in Endpoint |-> <<>>]
    /\ reliable \in BOOLEAN
    /\ faults = 0
    /\ thr = NewSocket /\ own = NewCopy /\ pair = NewPair /\ died = "no"
    /\ webget \in BOOLEAN

(* What the rules of the socket work on, and their effect. *)
Socket == [t |-> thr, c |-> conn["client"], pair |-> pair, rx |-> chan["client"], tx |-> <<>>, died |-> died]

SocketBecomes(s) ==
    /\ thr' = s.t /\ pair' = s.pair /\ died' = s.died
    /\ conn' = [conn EXCEPT !["client"] = s.c]
    /\ chan' = [client |-> IF s.c.active THEN s.rx ELSE <<>>,
                server |-> IF conn["server"].active THEN chan["server"] \o s.tx ELSE <<>>]
    /\ UNCHANGED <<got, reliable, faults, own, webget>>

(* The TCP thread, and the owner while it is in connect() *)
ThreadRuns == died = "no" /\ thr.at # "done"
ThreadIdle == thr.todo = {} /\ conn["client"].segments_out = <<>>

ThreadPoll ==
    /\ ThreadRuns /\ thr.todo = {}
    /\ SocketBecomes(socket_poll(Socket, IF Quiet THEN 1 ELSE 0))

ThreadServe ==
    /\ ThreadRuns /\ thr.todo # {}
    /\ \E s \in socket_serve(Socket) : SocketBecomes(s)

(* The owner *)
Copy == [o |-> own, pair |-> pair, died |-> died]

CopyBecomes(w) ==
    /\ own' = w.o /\ pair' = w.pair /\ died' = w.died
    /\ UNCHANGED <<vars, thr, webget>>

Connected == own.at = "connect" /\ thr.at # "connect"

OwnerConnected ==
    /\ died = "no" /\ Connected
    /\ CopyBecomes([Copy EXCEPT !.o.at = IF webget THEN "request" ELSE "copy"])

CopyPoll ==
    /\ died = "no" /\ own.at = "copy" /\ own.todo = {}
    /\ \E w \in with_standards(copy_poll(Copy)) : CopyBecomes(w)

CopyServe ==
    /\ died = "no" /\ own.at = "copy" /\ own.todo # {}
    /\ \E u \in copy_serve(Copy) : \E w \in with_standards(u) : CopyBecomes(w)

(* wait_until_closed, lines 194-201: shutdown, and join *)
WaitUntilClosed ==
    /\ died = "no" /\ own.at = "copied"
    /\ CopyBecomes([Copy EXCEPT !.o.at = "wait", !.pair = ShutRdWr(@)])

(* The owner is left by an exception, or just drops the socket: the        *)
(* destructor, lines 180-191.                                              *)
Drop ==
    /\ died = "no" /\ own.at \in {"copy", "copied"} /\ Fault("drop")
    /\ thr' = [thr EXCEPT !.abort = TRUE]
    /\ own' = [own EXCEPT !.at = "dropped", !.todo = {}]
    /\ UNCHANGED <<conn, chan, got, reliable, webget, pair, died>>

(* webget: the request is written, by a loop in FileDescriptor::write *)
WebgetWrite ==
    LET rest == Substring(own.read, InputLen - own.read)
    IN  /\ died = "no" /\ own.at = "request" /\ Writable(pair, "owner")
        /\ IF WriteFails(pair, "owner", rest) THEN CopyBecomes([Copy EXCEPT !.died = "SIGPIPE"])
           ELSE \E n \in WriteSizes(pair, "owner", rest) :
                   CopyBecomes([Copy EXCEPT !.pair = AfterWrite(@, "owner", rest, n), !.o.read = @ + n,
                                            !.o.at = IF own.read + n = InputLen THEN "response" ELSE @])

(* A round of lines 34-37, and the socket is closed after the last one.    *)
WebgetRead ==
    /\ died = "no" /\ own.at = "response" /\ Readable(pair, "owner")
    /\ \E n \in ReadSizes(pair, "owner", PipeCapacity) :
          CopyBecomes([Copy EXCEPT !.pair = AfterRead(@, "owner", n),
                                   !.o.output = @ \o ReadBytes(pair, "owner", n), !.o.socket_eof = n = 0,
                                   !.o.at = IF n = 0 THEN "response read" ELSE @])

WebgetClose ==
    /\ died = "no" /\ own.at = "response read"
    /\ CopyBecomes([Copy EXCEPT !.pair = Closed(@), !.o.at = "closed"])

(* Line 41: the shutdown of wait_until_closed fails on a closed            *)
(* descriptor, and the exception destroys the socket.                      *)
WebgetUnwound ==
    /\ died = "no" /\ own.at = "closed"
    /\ thr' = [thr EXCEPT !.abort = TRUE]
    /\ own' = [own EXCEPT !.at = "dropped"]
    /\ UNCHANGED <<vars, webget, pair, died>>

Webget == WebgetWrite \/ WebgetRead \/ WebgetClose \/ WebgetUnwound

Joined ==
    /\ died = "no" /\ own.at \in {"wait", "dropped"} /\ thr.at = "done"
    /\ CopyBecomes([Copy EXCEPT !.o.at = "end"])

Owner == OwnerConnected \/ CopyPoll \/ CopyServe \/ WaitUntilClosed \/ Webget \/ Joined

(* The other endpoint, whose application runs when its event loop has no   *)
(* segment to serve first and writes as much as fits, and the network      *)
ServerApplication ==
    LET fits == Lesser(remaining_capacity(conn["server"].sender.stream), BytesFrom("server") - Written("server"))
    IN  \/ fits > 0 /\ WriteApp("server", fits)
        \/ EndApp("server")
        \/ \E n \in 1 .. Capacity : ReadApp("server", n)

Server ==
    /\ \/ Receive("server", 1)
       \/ chan["server"] = <<>> /\ ServerApplication
       \/ Tick("server") /\ ThreadIdle
       \/ Abort("server")
    /\ UNCHANGED local

(* What poll(2) reported has arrived and is not lost any more. *)
Lost ==
    /\ thr.todo = {}
    /\ \E p \in Endpoint : \E i \in DOMAIN chan[p] : Lose(p, i)
    /\ UNCHANGED local

SocketNext == ThreadPoll \/ ThreadServe \/ Owner \/ Drop \/ Server \/ Lost

(* Both threads are scheduled and the server is as fair as in TwoEndpoints:*)
(* an actor that can change its own part of the state does so.  Nobody     *)
(* else changes it, but for the faults, which are finitely many.           *)
ThreadCan == ThreadRuns /\ (thr.todo # {} \/ socket_poll(Socket, IF Quiet THEN 1 ELSE 0) # Socket)

OwnerCan ==
    /\ died = "no"
    /\ \/ Connected \/ own.at = "copied"
       \/ own.at \in {"wait", "dropped"} /\ thr.at = "done"
       \/ own.at = "copy" /\ (own.todo # {} \/ copy_poll(Copy) # Copy)
       \/ own.at = "request" /\ Writable(pair, "owner")
       \/ own.at = "response" /\ Readable(pair, "owner")
       \/ own.at \in {"response read", "closed"}

ServerCan ==
    \/ CanReceive("server") \/ CanRead("server") \/ CanWrite("server")
    \/ ThreadIdle /\ CanTick("server")

threadState == <<thr, conn["client"]>>
serverState == <<conn["server"], got>>

SocketFairness ==
    /\ []<><<TRUE>>_threadState \/ []<>~ThreadCan
    /\ []<><<TRUE>>_own \/ []<>~OwnerCan
    /\ []<><<TRUE>>_serverState \/ []<>~ServerCan

SocketSpec == SocketInit /\ [][SocketNext]_all /\ SocketFairness
-----------------------------------------------------------------------------

(* No byte is lost, duplicated or reordered between the threads, whatever  *)
(* part of it a read or write transfers (tcp_sponge_socket.cc:128-134):    *)
(* what the connection reassembled is on standard output, in the copy's    *)
(* buffer, in the local socket or still in the connection, in this order,  *)
(* and so is what was read from standard input.  Only when the TCP thread  *)
(* has ended and rule 2 was cancelled for it may the copy go on to read    *)
(* its input and drop it (bidirectional_stream_copy.cc:31-52: rule 1       *)
(* outlives rule 2).                                                       *)
BytesConserved ==
    LET kept == pair.queue["thread"] \o own.outbound.buffer
    IN  /\ own.output \o own.inbound.buffer \o pair.queue["owner"] \o Inbound("client").buffer
             = Substring(0, Inbound("client").num_written)
        /\ kept = Substring(Written("client"), Len(kept))
        /\ \/ Len(kept) = own.read - Written("client")
           \/ thr.at = "done" /\ "to socket" \notin own.rules

(* The process never runs into the exceptions of tcp_sponge_socket.cc:103  *)
(* and eventloop.cc:136; it dies from writing to a socket that is shut     *)
(* down only when the connection was reset, and from shutting down a       *)
(* socket that is closed (tcp_sponge_socket.cc:261) only as webget, which  *)
(* has then printed all that the connection reassembled.                   *)
Survives ==
    \/ died = "no"
    \/ died = "SIGPIPE" /\ ~reliable
    \/ died = "EBADF" /\ webget /\ own.output = Substring(0, Inbound("client").num_written)

(* When the owner sees the end of the stream on a reliable network, it has *)
(* all the bytes of the server, or all but the one that a full connection  *)
(* dropped: the pipe is shut down only behind the last byte that was       *)
(* reassembled (tcp_sponge_socket.cc:136).                                 *)
EndOfFileIsTrue == reliable /\ own.socket_eof => own.output \o own.inbound.buffer = Deliverable("client")

(* The destructor returns: the thread sees _abort within a turn.           *)
DropEnds == own.at = "dropped" ~> (own.at = "end" \/ died # "no")

(* On a reliable network everything is copied both ways, again but for a   *)
(* last byte that a full connection dropped.  A program like tcp_udp then  *)
(* ends, and the connection ends cleanly on both sides.                    *)
Completes ==
    reliable => <>(/\ own.output = Deliverable("client") /\ got["server"] = Deliverable("server")
                   /\ \/ webget
                      \/ /\ own.at = "end" /\ own.output_closed
                         /\ \A p \in Endpoint : ~conn[p].active /\ ~Inbound(p).error)
=============================================================================
