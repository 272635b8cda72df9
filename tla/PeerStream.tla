----------------------------- MODULE PeerStream -----------------------------
(***************************************************************************)
(* The byte stream a peer sends to a StreamReassembler or a TCPReceiver,   *)
(* and what is read at the other end.                                      *)
(***************************************************************************)
EXTENDS Naturals

CONSTANTS StreamLen,        \* bytes in the peer's stream
          Capacity          \* constructor argument of the receiving object

ASSUME StreamConstants == StreamLen \in Nat /\ Capacity \in Nat \ {0}

VARIABLE got                \* history: the bytes the reader popped
=============================================================================
