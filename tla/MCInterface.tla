----------------------------- MODULE MCInterface -----------------------------
(* Values of the constants of InterfaceSpec. *)
EXTENDS InterfaceSpec

CONSTANTS a, b, c

MCHosts == {a, b, c}
MCActive == {a, b}
MCEth == [h \in MCHosts |-> <<h>>]
=============================================================================
