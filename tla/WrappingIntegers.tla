-------------------------- MODULE WrappingIntegers --------------------------
(***************************************************************************)
(* libsponge/wrapping_integers.{hh,cc}: 32-bit sequence numbers relative   *)
(* to an initial sequence number, and the absolute 64-bit numbers they     *)
(* stand for.  A WrappingInt32 is its raw value, in 0 .. Mod-1; Mod stands *)
(* for 2^32.                                                               *)
(***************************************************************************)
EXTENDS Integers

CONSTANT Mod

ASSUME ModAssumption == Mod \in Nat \ {0, 1}

WrappingInt == 0 .. Mod - 1

(* operator+ and operator- of a WrappingInt32 and a uint32_t *)
plus(a, b) == (a + b) % Mod
minus(a, b) == (a - b) % Mod

wrap(n, isn) == plus(isn, n % Mod)

(* Line 36: the smallest absolute number that wraps to n. *)
abs_offset(n, isn) == IF n < isn THEN n + Mod - isn ELSE n - isn

(* Mutated form: the farther candidate is taken. *)
unwrap_Farther(n, isn, checkpoint) ==
    LET abs_seqno == abs_offset(n, isn)
        left_dist == (checkpoint - abs_seqno) % Mod
        right_dist == (abs_seqno - checkpoint) % Mod
    IN  IF abs_seqno >= checkpoint THEN abs_seqno
        ELSE IF left_dist < right_dist THEN checkpoint + right_dist
                                       ELSE checkpoint - left_dist

(* The differences of lines 41-42 are taken modulo 2^64, a multiple of     *)
(* Mod, before they are reduced modulo Mod: the outer reduction is what is *)
(* left of the two.                                                        *)
unwrap(n, isn, checkpoint) ==
    LET abs_seqno == abs_offset(n, isn)
        left_dist == (checkpoint - abs_seqno) % Mod
        right_dist == (abs_seqno - checkpoint) % Mod
    IN  IF abs_seqno >= checkpoint THEN abs_seqno
        ELSE IF left_dist > right_dist THEN checkpoint + right_dist
                                       ELSE checkpoint - left_dist

(* How far two absolute numbers are apart. *)
Distance(a, b) == IF a >= b THEN a - b ELSE b - a
=============================================================================
