------------------------------ MODULE TCPState ------------------------------
(***************************************************************************)
(* class TCPState (libsponge/tcp_helpers/tcp_state.{hh,cc}): the official  *)
(* TCP state of a TCPConnection, derived from summaries of its parts.      *)
(***************************************************************************)
EXTENDS TCPConnection

(* TCPState::state_summary(const TCPReceiver &) *)
ReceiverSummary(rcv) ==
    CASE stream_out(rcv).error -> "ERROR"
      [] ~stream_out(rcv).error /\ ~has_ackno(rcv) -> "LISTEN"
      [] OTHER -> IF stream_out(rcv).input_ended THEN "FIN_RECV" ELSE "SYN_RECV"

(* TCPState::state_summary(const TCPSender &) *)
SenderSummary(snd) ==
    IF snd.stream.error THEN "ERROR"
    ELSE IF snd.next_seqno = 0 THEN "CLOSED"
    ELSE IF snd.next_seqno = snd.bytes_in_flight THEN "SYN_SENT"
    ELSE IF ~eof(snd.stream) \/ snd.next_seqno < snd.stream.num_written + 2 THEN "SYN_ACKED"
    ELSE IF snd.bytes_in_flight > 0 THEN "FIN_SENT" ELSE "FIN_ACKED"

(* TCPState::TCPState(const TCPState::State): receiver, sender, linger and *)
(* active of every official state.                                         *)
Official ==
    [LISTEN      |-> <<"LISTEN",   "CLOSED",    TRUE,  TRUE>>,
     SYN_RCVD    |-> <<"SYN_RECV", "SYN_SENT",  TRUE,  TRUE>>,
     SYN_SENT    |-> <<"LISTEN",   "SYN_SENT",  TRUE,  TRUE>>,
     ESTABLISHED |-> <<"SYN_RECV", "SYN_ACKED", TRUE,  TRUE>>,
     CLOSE_WAIT  |-> <<"FIN_RECV", "SYN_ACKED", FALSE, TRUE>>,
     LAST_ACK    |-> <<"FIN_RECV", "FIN_SENT",  FALSE, TRUE>>,
     CLOSING     |-> <<"FIN_RECV", "FIN_SENT",  TRUE,  TRUE>>,
     FIN_WAIT_1  |-> <<"SYN_RECV", "FIN_SENT",  TRUE,  TRUE>>,
     FIN_WAIT_2  |-> <<"SYN_RECV", "FIN_ACKED", TRUE,  TRUE>>,
     TIME_WAIT   |-> <<"FIN_RECV", "FIN_ACKED", TRUE,  TRUE>>,
     RESET       |-> <<"ERROR",    "ERROR",     FALSE, FALSE>>,
     CLOSED      |-> <<"FIN_RECV", "FIN_ACKED", FALSE, FALSE>>]

(* TCPState::TCPState(sender, receiver, active, linger) *)
Summary(c) ==
    <<ReceiverSummary(c.receiver), SenderSummary(c.sender),
      c.active /\ c.linger, c.active>>

(* The connection is in the official state st (operator==). *)
InState(c, st) == Summary(c) = Official[st]
=============================================================================
