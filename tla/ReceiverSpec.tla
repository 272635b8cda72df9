---------------------------- MODULE ReceiverSpec ----------------------------
(***************************************************************************)
(* A TCPReceiver between the network and its reader.  The network delivers *)
(* segments cut from the peer's stream (SYN, the bytes 0 .. StreamLen-1,   *)
(* FIN) in any order and any number of times, as far as the peer's sender  *)
(* may have put them there.                                                *)
(***************************************************************************)
EXTENDS TCPReceiver, PeerStream

CONSTANTS Isns,             \* the initial sequence numbers tried
          MaxStale          \* how far behind the ackno a late segment may start

ASSUME ReceiverConstants ==
    /\ MaxStale \in Nat
    /\ Isns \subseteq WrappingInt
    \* windows are far smaller than the sequence space (2^16 against 2^32)
    /\ 2 * (MaxStale + 2 * Capacity + 2) <= Mod
    \* stream indices are 64-bit numbers
    /\ StreamLen < Mod * Mod

VARIABLES rcv,              \* the TCPReceiver object
          isn               \* the peer's initial sequence number

vars == <<rcv, isn, got>>

Init == rcv = NewReceiver(Capacity) /\ isn \in Isns /\ got = <<>>

(* The segment of n bytes that starts at absolute seqno s. *)
Index(s) == IF s = 0 THEN 0 ELSE s - 1
Segment(s, n, fin) ==
    [seqno |-> wrap(s, isn), syn |-> s = 0, fin |-> fin,
     payload |-> Substring(Index(s), n)]

(* What the peer's sender may send: the SYN until it is acknowledged, then *)
(* bytes within the advertised window, or one byte past a window of size 0.*)
MaySend(s, n, fin) ==
    LET edge == stream_out(rcv).num_read + Capacity
    IN  /\ Index(s) + n <= StreamLen
        /\ fin => Index(s) + n = StreamLen
        /\ s > 0 => rcv.if_syn_set
        /\ \/ Index(s) + n <= edge
           \/ Index(s) = edge /\ n = 1 /\ ~fin

(* The network: late segments are not older than MaxStale, and a FIN       *)
(* without payload does not overtake the bytes before it.                  *)
Fresh(s) == s + MaxStale >= abs_ackno(rcv)
FinInPlace(s, n, fin) == fin => n > 0 \/ Index(s) <= rcv.reassembler.next_index

Arrive(s, n, fin) ==
    /\ MaySend(s, n, fin)
    /\ Fresh(s)
    /\ FinInPlace(s, n, fin)
    /\ rcv' = receive(rcv, Segment(s, n, fin))
    /\ UNCHANGED <<isn, got>>

Read(n) ==
    /\ stream_out(rcv).buffer # <<>>
    /\ got' = got \o peek_output(stream_out(rcv), n)
    /\ rcv' = [rcv EXCEPT !.reassembler.output = pop_output(@, n)]
    /\ UNCHANGED isn

Next == \/ \E s \in 0 .. StreamLen + 1, n \in 0 .. Capacity, fin \in BOOLEAN : Arrive(s, n, fin)
        \/ \E n \in 1 .. Capacity : Read(n)

Spec == Init /\ [][Next]_vars

-----------------------------------------------------------------------------

(* The ackno covers exactly the SYN, the bytes written to the output       *)
(* stream and, once everything before it was written, the FIN: no byte is  *)
(* acknowledged that the reader cannot get, and the FIN is acknowledged as *)
(* soon as the stream ended (tcp_receiver.hh:54-55).                       *)
AckedIsDelivered ==
    has_ackno(rcv) =>
        ackno(rcv) = wrap(1 + stream_out(rcv).num_written
                            + (IF stream_out(rcv).input_ended THEN 1 ELSE 0), isn)

(* Neither the ackno nor the right edge of the advertised window ever      *)
(* moves back, whatever arrives and whatever is read.                      *)
WindowNeverRetreats ==
    [][/\ abs_ackno(rcv') >= abs_ackno(rcv)
       /\ abs_ackno(rcv') + window_size(rcv') >= abs_ackno(rcv) + window_size(rcv)]_vars

(* unwrap returns an absolute number that wraps to its argument, and no    *)
(* other such number is closer to the checkpoint, along every chain of     *)
(* checkpoints the receiver goes through (wrapping_integers.hh:30,         *)
(* tcp_receiver.cc:33,41).                                                 *)
ClosestToCheckpoint ==
    \A raw \in WrappingInt :
        LET abs == unwrap(raw, rcv.isn, rcv.abs_checkpoint)
        IN  /\ abs \in Nat
            /\ wrap(abs, rcv.isn) = raw
            /\ \A other \in 0 .. rcv.abs_checkpoint + Mod :
                  wrap(other, rcv.isn) = raw =>
                      Distance(abs, rcv.abs_checkpoint) <= Distance(other, rcv.abs_checkpoint)

(* An absolute number less than half the sequence space away from the      *)
(* checkpoint survives being sent as a 32-bit seqno: this is why sender    *)
(* and receiver agree on positions in streams longer than 2^32 bytes.      *)
RoundTrip ==
    \A n \in 0 .. rcv.abs_checkpoint + Mod :
        2 * Distance(n, rcv.abs_checkpoint) < Mod
            => unwrap(wrap(n, rcv.isn), rcv.isn, rcv.abs_checkpoint) = n

(* The receiver delivers the peer's stream in order, although its length   *)
(* exceeds the range of the sequence numbers.                              *)
Service == INSTANCE InOrderDelivery
           WITH delivered <- got \o stream_out(rcv).buffer,
                ended <- stream_out(rcv).input_ended

InOrder == Service!Spec
=============================================================================
