----------------------------- MODULE TCPLemmas -----------------------------
(***************************************************************************)
(* Facts about the parts of a TCPConnection that the proofs about it, and  *)
(* about its receiver, sender and reassembler, share: what wrap and unwrap *)
(* compute, for every size Mod of the sequence space; what the operations  *)
(* of a ByteStream do to a stream whose byte i is i; and what              *)
(* push_substring does to a StreamReassembler fed with substrings of that  *)
(* stream, for every capacity and every history.                           *)
(***************************************************************************)
EXTENDS WrappingIntegers, StreamReassembler, SequenceTheorems, FiniteSetTheorems, TLAPS

-----------------------------------------------------------------------------
(* Induction up to a bound                                                 *)

(* A non-empty set of numbers has a least one. *)
LEMMA LeastExists ==
  ASSUME NEW W \in SUBSET Nat, W # {}
  PROVE  \E i \in W : \A j \in W : i <= j
<1> DEFINE R == OpToRel(<, Nat)
<1>1. IsWellFoundedOn(R, Nat)
  BY NatLessThanWellFounded, ZenonT(60)
<1>2. PICK t \in W : \A y \in W : ~(<<y, t>> \in R)
  <2> HIDE DEF R
  <2> QED BY <1>1, WFMin, ZenonT(60)
<1>3. ASSUME NEW y \in W PROVE t <= y
  <2>1. ~(y < t)
    BY <1>2, ZenonT(60) DEF OpToRel
  <2> QED BY <2>1, SMTT(60)
<1> QED BY <1>3

(* A set of numbers that holds 0 and, with k - 1, also k, up to n, holds   *)
(* every number up to n.                                                   *)
LEMMA UpTo ==
  ASSUME NEW n \in Nat, NEW W, 0 \in W, \A k \in 1 .. n : k - 1 \in W => k \in W
  PROVE  \A k \in 0 .. n : k \in W
<1> DEFINE V == {k \in 0 .. n : k \notin W}
<1>1. V \in SUBSET Nat
  OBVIOUS
<1>2. CASE V = {}
  BY <1>2
<1>3. CASE V # {}
  <2> HIDE DEF V
  <2>1. PICK k \in V : \A j \in V : k <= j
    BY <1>1, <1>3, LeastExists, SMTT(60)
  <2>2. k \in 0 .. n /\ k \notin W
    BY <2>1 DEF V
  <2>3. k \in 1 .. n /\ k - 1 \in 0 .. n /\ k - 1 < k
    BY <2>2
  <2>4. k - 1 \notin V
    BY <2>1, <2>3, SMTT(60)
  <2>5. k - 1 \in W
    BY <2>3, <2>4 DEF V
  <2> QED BY <2>2, <2>3, <2>5
<1> QED BY <1>2, <1>3

-----------------------------------------------------------------------------
(* Sequence numbers                                                        *)

(* Division with remainder: the facts about % that the proofs use. *)
LEMMA ModRange ==
  ASSUME NEW a \in Int
  PROVE  a % Mod \in 0 .. Mod - 1
  BY ModAssumption, SMT

(* A number that differs from x by a multiple of Mod has remainder x. *)
LEMMA ModUnique ==
  ASSUME NEW q \in Int, NEW x \in 0 .. Mod - 1, NEW a \in Int, a = q * Mod + x
  PROVE  a % Mod = x
  BY ModAssumption, SMT

(* Every number is a multiple of Mod plus its remainder. *)
LEMMA ModDivides ==
  ASSUME NEW a \in Int
  PROVE  \E q \in Int : a = q * Mod + (a % Mod)
<1>1. a \div Mod \in Int /\ a = (a \div Mod) * Mod + (a % Mod)
  BY ModAssumption, SMT
<1> QED BY <1>1

(* The offset that unwrap computes first undoes wrap up to a multiple of   *)
(* Mod (wrapping_integers.cc:18 and :36).                                  *)
LEMMA OffsetOfWrap ==
  ASSUME NEW n \in Nat, NEW i \in WrappingInt
  PROVE  abs_offset(wrap(n, i), i) = n % Mod
<1> DEFINE o == n % Mod
<1>1. o \in 0 .. Mod - 1
  BY ModRange
<1>2. CASE i + o < Mod
  <2>1. i + o \in 0 .. Mod - 1 /\ i + o = 0 * Mod + (i + o)
    BY <1>1, <1>2, ModAssumption DEF WrappingInt
  <2>2. wrap(n, i) = i + o
    BY <2>1, ModUnique DEF wrap, plus
  <2> QED BY <2>2, <1>1, ModAssumption DEF abs_offset, WrappingInt
<1>3. CASE i + o >= Mod
  <2>1. i + o - Mod \in 0 .. Mod - 1 /\ i + o = 1 * Mod + (i + o - Mod)
    BY <1>1, <1>3, ModAssumption DEF WrappingInt
  <2>2. wrap(n, i) = i + o - Mod
    BY <2>1, <1>1, ModUnique, ModAssumption DEF wrap, plus, WrappingInt
  <2> QED BY <2>2, <1>1, <1>3, ModAssumption DEF abs_offset, WrappingInt
<1> QED BY <1>1, <1>2, <1>3, ModAssumption DEF WrappingInt

(* unwrap inverts wrap for every absolute number that is less than half of *)
(* the sequence space away from the checkpoint, on either side.            *)
THEOREM UnwrapInvertsWrap ==
  ASSUME NEW n \in Nat, NEW i \in WrappingInt, NEW c \in Nat,
         2 * Distance(n, c) < Mod
  PROVE  unwrap(wrap(n, i), i, c) = n
<1> DEFINE o == n % Mod
<1>1. PICK q \in Int : n = q * Mod + o
  BY ModDivides
<1>2. o \in 0 .. Mod - 1
  BY ModRange
<1>3. q >= 0
  BY <1>1, <1>2, ModAssumption, SMT
<1>4. abs_offset(wrap(n, i), i) = o
  BY OffsetOfWrap
<1>5. CASE o >= c
  <2>1. q = 0
    <3>1. SUFFICES ASSUME q >= 1 PROVE FALSE
      BY <1>3
    <3>2. q * Mod >= Mod
      BY <3>1, ModAssumption, SMT
    <3>3. n - c >= Mod
      BY <1>1, <1>2, <1>5, <3>2, ModAssumption
    <3> QED BY <3>3, ModAssumption DEF Distance
  <2> QED BY <2>1, <1>1, <1>2, <1>4, <1>5, ModAssumption DEF unwrap
<1>6. CASE o < c /\ c >= n
  <2> DEFINE d == c - n
  <2>1. d \in 0 .. Mod - 1 /\ 2 * d < Mod
    BY <1>6, ModAssumption DEF Distance
  <2>2. (c - o) % Mod = d
    <3>1. c - o = q * Mod + d /\ c - o \in Int
      BY <1>1, <1>2, ModAssumption, SMT
    <3> QED BY <3>1, <2>1, ModUnique
  <2>3. CASE d = 0
    BY <2>2, <2>3, <1>4, <1>6, <1>2, ModRange, ModAssumption DEF unwrap
  <2>4. CASE d > 0
    <3>1. Mod - d \in 0 .. Mod - 1 /\ o - c = (-(q + 1)) * Mod + (Mod - d)
          /\ -(q + 1) \in Int /\ o - c \in Int
      BY <2>1, <2>4, <1>1, <1>2, ModAssumption, SMT
    <3>2. (o - c) % Mod = Mod - d
      BY <3>1, ModUnique
    <3> QED BY <2>1, <2>2, <3>2, <1>4, <1>6, <1>2, ModAssumption DEF unwrap
  <2> QED BY <2>1, <2>3, <2>4
<1>7. CASE o < c /\ c < n
  <2> DEFINE d == n - c
  <2>1. d \in 1 .. Mod - 1 /\ 2 * d < Mod
    BY <1>7, ModAssumption DEF Distance
  <2>2. (o - c) % Mod = d
    <3>1. o - c = (-q) * Mod + d /\ -q \in Int /\ o - c \in Int
      BY <1>1, <1>2, ModAssumption, SMT
    <3> QED BY <3>1, <2>1, ModUnique
  <2>3. (c - o) % Mod = Mod - d
    <3>1. Mod - d \in 0 .. Mod - 1 /\ c - o = (q - 1) * Mod + (Mod - d)
          /\ q - 1 \in Int /\ c - o \in Int
      BY <2>1, <1>1, <1>2, ModAssumption, SMT
    <3> QED BY <3>1, ModUnique
  <2> QED BY <2>1, <2>2, <2>3, <1>4, <1>7, <1>2, ModAssumption DEF unwrap
<1> QED BY <1>2, <1>5, <1>6, <1>7, ModAssumption

(* unwrap yields an absolute number. *)
LEMMA UnwrapType ==
  ASSUME NEW n \in WrappingInt, NEW i \in WrappingInt, NEW c \in Nat
  PROVE  unwrap(n, i, c) \in Nat
<1> DEFINE o == abs_offset(n, i)
<1>1. o \in Nat
  BY ModAssumption DEF abs_offset, WrappingInt
<1>2. CASE o >= c
  BY <1>1, <1>2 DEF unwrap
<1>3. CASE o < c
  <2>1. (c - o) % Mod \in Nat /\ (o - c) % Mod \in Nat
    BY <1>1, ModRange, ModAssumption
  <2>2. PICK q \in Int : c - o = q * Mod + ((c - o) % Mod)
    BY <1>1, ModDivides
  <2>3. q >= 0
    <3> SUFFICES ASSUME q <= -1 PROVE FALSE
      OBVIOUS
    <3>1. q * Mod <= -Mod
      BY ModAssumption, SMT
    <3>2. (c - o) % Mod < Mod
      BY <1>1, ModRange, ModAssumption
    <3> QED BY <1>1, <1>3, <2>1, <2>2, <3>1, <3>2, ModAssumption
  <2>4. q * Mod >= 0
    BY <2>3, ModAssumption, SMT
  <2>5. (c - o) % Mod <= c - o
    BY <2>1, <2>2, <2>4, <1>1, ModAssumption
  <2> QED BY <1>1, <1>3, <2>1, <2>5 DEF unwrap
<1> QED BY <1>1, <1>2, <1>3

(* An absolute number that lies a multiple of Mod above the offset of n    *)
(* wraps to n.                                                             *)
LEMMA WrapOfOffset ==
  ASSUME NEW n \in WrappingInt, NEW i \in WrappingInt, NEW k \in Int
  PROVE  wrap(k * Mod + abs_offset(n, i), i) = n
<1> DEFINE o == abs_offset(n, i)
<1>1. o \in 0 .. Mod - 1
  BY ModAssumption DEF abs_offset, WrappingInt
<1>2. (k * Mod + o) % Mod = o
  BY <1>1, ModUnique, ModAssumption
<1>3. (i + o) % Mod = n
  <2>1. CASE n < i
    <3>1. i + o = 1 * Mod + n
      BY <2>1, ModAssumption DEF abs_offset, WrappingInt
    <3> QED BY <3>1, <1>1, ModUnique, ModAssumption DEF WrappingInt
  <2>2. CASE n >= i
    <3>1. i + o = 0 * Mod + n
      BY <2>2, ModAssumption DEF abs_offset, WrappingInt
    <3> QED BY <3>1, <1>1, ModUnique, ModAssumption DEF WrappingInt
  <2> QED BY <2>1, <2>2 DEF WrappingInt
<1> QED BY <1>2, <1>3 DEF wrap, plus

(* A difference of multiples of Mod is at least Mod or at most 0.          *)
LEMMA MultiplesApart ==
  ASSUME NEW p \in Int, NEW q \in Int
  PROVE  \/ p <= q /\ p * Mod <= q * Mod
         \/ p > q /\ p * Mod >= q * Mod + Mod
<1>1. CASE p <= q
  BY <1>1, ModAssumption, SMT
<1>2. CASE p > q
  <2>1. (p - q) * Mod >= Mod
    BY <1>2, ModAssumption, SMT
  <2> QED BY <2>1, <1>2, ModAssumption, SMT
<1> QED BY <1>1, <1>2

(* unwrap returns a number that wraps to its argument, and every other     *)
(* number that does is at least as far from the checkpoint.                *)
THEOREM UnwrapIsClosest ==
  ASSUME NEW n \in WrappingInt, NEW i \in WrappingInt, NEW c \in Nat
  PROVE  /\ wrap(unwrap(n, i, c), i) = n
         /\ \A x \in Nat : wrap(x, i) = n => Distance(unwrap(n, i, c), c) <= Distance(x, c)
<1> DEFINE o == abs_offset(n, i)
<1>1. o \in 0 .. Mod - 1 /\ o = 0 * Mod + o
  BY ModAssumption DEF abs_offset, WrappingInt
<1>2. ASSUME NEW x \in Nat, wrap(x, i) = n
      PROVE  \E p \in Int : p >= 0 /\ x = p * Mod + o
  <2>1. PICK p \in Int : x = p * Mod + (x % Mod)
    BY ModDivides
  <2>2. x % Mod = o
    BY <1>2, OffsetOfWrap
  <2>3. p >= 0
    BY <2>1, <2>2, <1>1, MultiplesApart, ModAssumption, SMT
  <2> QED BY <2>1, <2>2, <2>3
<1>3. CASE o >= c
  <2>1. unwrap(n, i, c) = o
    BY <1>3 DEF unwrap
  <2>2. wrap(o, i) = n
    BY <1>1, WrapOfOffset
  <2>3. ASSUME NEW x \in Nat, wrap(x, i) = n PROVE Distance(o, c) <= Distance(x, c)
    <3>1. PICK p \in Int : p >= 0 /\ x = p * Mod + o
      BY <2>3, <1>2
    <3>2. p * Mod >= 0
      BY <3>1, ModAssumption, SMT
    <3> QED BY <3>1, <3>2, <1>1, <1>3, ModAssumption DEF Distance
  <2> QED BY <2>1, <2>2, <2>3
<1>4. CASE o < c
  <2> DEFINE l == (c - o) % Mod
             r == (o - c) % Mod
  <2>1. l \in 0 .. Mod - 1 /\ r \in 0 .. Mod - 1
    BY <1>1, ModRange, ModAssumption
  <2>2. PICK q \in Int : c - o = q * Mod + l
    <3>1. c - o \in Int
      BY <1>1
    <3> QED BY <3>1, ModDivides
  <2>3. unwrap(n, i, c) = (IF l > r THEN c + r ELSE c - l) /\ r = (o - c) % Mod
    BY <1>4, <1>1, ModAssumption DEF unwrap
  <2>6. o = abs_offset(n, i)
    OBVIOUS
  <2> HIDE DEF o, l, r
  <2>4. CASE l = 0
    <3>1. o - c = (-q) * Mod + 0 /\ 0 \in 0 .. Mod - 1 /\ -q \in Int /\ o - c \in Int
      BY <2>2, <2>4, <1>1, ModAssumption, SMT
    <3>2. r = 0
      BY <3>1, <2>3, ModUnique
    <3>3. unwrap(n, i, c) = c /\ c = q * Mod + o
      BY <2>2, <2>3, <2>4, <3>2, <1>1, ModAssumption
    <3>4. wrap(c, i) = n
      BY <3>3, <2>6, WrapOfOffset
    <3> QED BY <3>3, <3>4, ModAssumption DEF Distance
  <2>5. CASE l > 0
    <3>1. o - c = (-(q + 1)) * Mod + (Mod - l) /\ Mod - l \in 0 .. Mod - 1
          /\ -(q + 1) \in Int /\ o - c \in Int
      BY <2>1, <2>2, <2>5, <1>1, ModAssumption, SMT
    <3>2. r = Mod - l
      BY <3>1, <2>3, ModUnique
    <3>3. c - l = q * Mod + o /\ c + r = (q + 1) * Mod + o /\ q + 1 \in Int
      BY <2>1, <2>2, <3>2, <1>1, ModAssumption, SMT
    <3>4. wrap(c - l, i) = n /\ wrap(c + r, i) = n
      BY <3>3, <2>6, WrapOfOffset
    <3>5. ASSUME NEW x \in Nat, wrap(x, i) = n
          PROVE  Distance(unwrap(n, i, c), c) <= Distance(x, c)
      <4>1. PICK p \in Int : p >= 0 /\ x = p * Mod + o
        BY <3>5, <1>2
      <4>2. \/ p * Mod <= q * Mod
            \/ p * Mod >= q * Mod + Mod
        BY MultiplesApart
      <4> DEFINE pm == p * Mod
                 qm == q * Mod
      <4>3. pm \in Int /\ qm \in Int
        BY ModAssumption
      <4>4. x = pm + o /\ c - l = qm + o /\ (pm <= qm \/ pm >= qm + Mod)
        BY <4>1, <4>2, <3>3
      <4> HIDE DEF pm, qm
      <4>5. x <= c - l \/ x >= c - l + Mod
        BY <4>3, <4>4, <2>1, <1>1, ModAssumption
      <4> QED BY <4>5, <2>1, <2>3, <2>5, <3>2, ModAssumption DEF Distance
    <3> QED BY <2>3, <3>4, <3>5
  <2> QED BY <2>1, <2>4, <2>5, ModAssumption
<1> QED BY <1>1, <1>3, <1>4
-----------------------------------------------------------------------------
(* Reducing a summand first does not change a sum modulo Mod. *)
LEMMA ModSum ==
  ASSUME NEW a \in Int, NEW b \in Int
  PROVE  ((a % Mod) + b) % Mod = (a + b) % Mod
<1>1. PICK p \in Int : a = p * Mod + (a % Mod)
  BY ModDivides
<1>2. a % Mod \in Int /\ Mod \in Int
  BY ModRange, ModAssumption
<1> DEFINE c == (a % Mod) + b
<1>3. PICK q \in Int : c = q * Mod + (c % Mod)
  <2>1. c \in Int
    BY <1>2
  <2> HIDE DEF c
  <2> QED BY <2>1, ModDivides
<1>4. c % Mod \in 0 .. Mod - 1
  BY <1>2, ModRange
<1>5. a + b = (p + q) * Mod + (c % Mod)
  <2> DEFINE u == a % Mod
             v == c % Mod
  <2>1. u \in Int /\ v \in Int /\ a = p * Mod + u /\ u + b = q * Mod + v
    BY <1>1, <1>2, <1>3, <1>4
  <2> HIDE DEF u, v, c
  <2>2. a + b = (p + q) * Mod + v
    BY <1>2, <2>1
  <2> QED BY <2>2 DEF v
<1>6. (a + b) % Mod = c % Mod
  <2> HIDE DEF c
  <2>1. p + q \in Int /\ a + b \in Int
    OBVIOUS
  <2> QED BY <1>4, <1>5, <2>1, ModUnique, ZenonT(60)
<1> QED BY <1>6

(* The same for wrap and operator+, operator- on its results. *)
LEMMA WrapShift ==
  ASSUME NEW n \in Nat, NEW i \in WrappingInt, NEW k \in Nat, n + k >= 1
  PROVE  /\ wrap(n, i) = (i + n) % Mod
         /\ minus(plus(wrap(n, i), k), 1) = wrap(n + k - 1, i)
<1>1. i \in Int /\ n + k - 1 \in Nat
  BY ModAssumption DEF WrappingInt
<1>2. ASSUME NEW m \in Nat PROVE wrap(m, i) = (i + m) % Mod
  <2>1. ((m % Mod) + i) % Mod = (m + i) % Mod
    BY <1>1, ModSum
  <2>2. m % Mod \in Int
    BY ModRange
  <2>3. (m % Mod) + i = i + (m % Mod) /\ m + i = i + m
    BY <1>1, <2>2
  <2> QED BY <2>1, <2>3 DEF wrap, plus
<1>3. (((i + n) % Mod) + k) % Mod = (i + n + k) % Mod
  BY <1>1, ModSum
<1>4. (((i + n + k) % Mod) + (-1)) % Mod = (i + n + k + (-1)) % Mod
  BY <1>1, ModSum
<1>5. (i + n + k) % Mod \in Int
  BY <1>1, ModRange
<1>6. /\ ((i + n + k) % Mod) + (-1) = ((i + n + k) % Mod) - 1
      /\ i + n + k + (-1) = i + (n + k - 1)
  BY <1>1, <1>5
<1> QED BY <1>1, <1>2, <1>3, <1>4, <1>6, Zenon DEF plus, minus

(* The number 0 wraps to the initial sequence number itself. *)
LEMMA WrapZero ==
  ASSUME NEW i \in WrappingInt
  PROVE  wrap(0, i) = i
<1>1. wrap(0, i) = (i + 0) % Mod
  BY ModAssumption DEF wrap, plus
<1> QED BY <1>1, ModAssumption, ModUnique DEF WrappingInt
-----------------------------------------------------------------------------
(* Byte streams                                                            *)

(* Substring is a sequence of n numbers. *)
LEMMA SubstringType ==
  ASSUME NEW a \in Nat, NEW n \in Nat
  PROVE  /\ Substring(a, n) \in Seq(Nat)
         /\ Len(Substring(a, n)) = n
         /\ \A i \in 1 .. n : Substring(a, n)[i] = a + i - 1
<1>1. Substring(a, n) \in [1 .. n -> Nat]
  BY DEF Substring
<1>2. Substring(a, n) \in Seq(Nat)
  BY <1>1, SMT
<1>3. Len(Substring(a, n)) = n
  BY <1>1, <1>2, LenProperties, SMT DEF Substring
<1> QED BY <1>2, <1>3 DEF Substring

(* The first k bytes of a substring (ByteStream::peek_output). *)
LEMMA SubstringFront ==
  ASSUME NEW a \in Nat, NEW n \in Nat, NEW k \in 0 .. n
  PROVE  SubSeq(Substring(a, n), 1, k) = Substring(a, k)
<1> DEFINE s == Substring(a, n)
           t == SubSeq(s, 1, k)
<1>1. s \in Seq(Nat) /\ Len(s) = n /\ \A i \in 1 .. n : s[i] = a + i - 1
  BY SubstringType
<1>2. \A i \in 1 .. k : s[i] \in Nat
  BY <1>1
<1> HIDE DEF s
<1>3. t \in Seq(Nat) /\ Len(t) = k /\ \A i \in 1 .. k : t[i] = s[i]
  BY <1>1, <1>2, SubSeqProperties
<1>4. Substring(a, k) \in Seq(Nat) /\ Len(Substring(a, k)) = k
      /\ \A i \in 1 .. k : Substring(a, k)[i] = a + i - 1
  BY SubstringType
<1>5. t = Substring(a, k)
  <2> HIDE DEF t
  <2> QED BY <1>1, <1>3, <1>4, SeqEqual
<1> QED BY <1>5 DEF s

(* The rest of a substring without its first k bytes                       *)
(* (ByteStream::pop_output).                                               *)
LEMMA SubstringBack ==
  ASSUME NEW a \in Nat, NEW n \in Nat, NEW k \in 0 .. n
  PROVE  SubSeq(Substring(a, n), k + 1, n) = Substring(a + k, n - k)
<1> DEFINE s == Substring(a, n)
           t == SubSeq(s, k + 1, n)
<1>1. s \in Seq(Nat) /\ Len(s) = n /\ \A i \in 1 .. n : s[i] = a + i - 1
  BY SubstringType
<1>2. \A i \in k + 1 .. n : s[i] \in Nat
  BY <1>1
<1> HIDE DEF s
<1>3. t \in Seq(Nat) /\ Len(t) = n - k /\ \A i \in 1 .. n - k : t[i] = s[k + i]
  BY <1>1, <1>2, SubSeqProperties
<1>4. Substring(a + k, n - k) \in Seq(Nat) /\ Len(Substring(a + k, n - k)) = n - k
      /\ \A i \in 1 .. n - k : Substring(a + k, n - k)[i] = a + k + i - 1
  <2>1. a + k \in Nat /\ n - k \in Nat
    OBVIOUS
  <2> QED BY <2>1, SubstringType, Zenon
<1>5. t = Substring(a + k, n - k)
  <2> HIDE DEF t
  <2>1. \A i \in 1 .. n - k : t[i] = a + k + i - 1
    BY <1>1, <1>3
  <2> QED BY <2>1, <1>3, <1>4, SeqEqual
<1> QED BY <1>5 DEF s

(* Adjacent substrings join (ByteStream::write). *)
LEMMA SubstringJoin ==
  ASSUME NEW a \in Nat, NEW n \in Nat, NEW k \in Nat
  PROVE  Substring(a, n) \o Substring(a + n, k) = Substring(a, n + k)
<1> DEFINE s == Substring(a, n)
           t == Substring(a + n, k)
           u == Substring(a, n + k)
<1>1. s \in Seq(Nat) /\ Len(s) = n /\ \A i \in 1 .. n : s[i] = a + i - 1
  BY SubstringType
<1>2. t \in Seq(Nat) /\ Len(t) = k /\ \A i \in 1 .. k : t[i] = a + n + i - 1
  <2>1. a + n \in Nat
    OBVIOUS
  <2> QED BY <2>1, SubstringType, Zenon
<1>3. u \in Seq(Nat) /\ Len(u) = n + k /\ \A i \in 1 .. n + k : u[i] = a + i - 1
  BY SubstringType
<1> HIDE DEF s, t, u
<1>4. s \o t \in Seq(Nat) /\ Len(s \o t) = n + k
      /\ \A i \in 1 .. n + k : (s \o t)[i] = IF i <= n THEN s[i] ELSE t[i - n]
  BY <1>1, <1>2, ConcatProperties, ZenonT(60)
<1>5. \A i \in 1 .. n + k : (s \o t)[i] = u[i]
  BY <1>1, <1>2, <1>3, <1>4, SMTT(60)
<1>6. s \o t = u
  BY <1>3, <1>4, <1>5, SeqEqual, Zenon
<1> QED BY <1>6 DEF s, t, u
-----------------------------------------------------------------------------
(* What fits into the rest of a capacity. *)
LEMMA LesserRoom ==
  ASSUME NEW n \in Nat, NEW cap \in Nat, NEW l \in Nat, l <= cap
  PROVE  /\ Lesser(n, cap - l) \in Nat
         /\ Lesser(n, cap - l) <= n
         /\ l + Lesser(n, cap - l) <= cap
  BY DEF Lesser

(* A stream that holds the bytes between num_read and num_written. *)
Genuine(st) ==
    /\ st.buffer = Substring(st.num_read, Len(st.buffer))
    /\ st.num_written = st.num_read + Len(st.buffer)
    /\ Len(st.buffer) <= st.capacity

(* ByteStream::write of the next n bytes keeps it so. *)
LEMMA WriteGenuine ==
  ASSUME NEW cap \in Nat, NEW st \in ByteStreams(cap, Nat), Genuine(st), NEW n \in Nat,
         NEW w, w = write(st, Substring(st.num_written, n))
  PROVE  /\ w \in ByteStreams(cap, Nat) /\ Genuine(w)
         /\ w.num_read = st.num_read /\ w.input_ended = st.input_ended
         /\ st.input_ended => w = st
         /\ ~st.input_ended /\ n <= remaining_capacity(st) => w.num_written = st.num_written + n
<1> DEFINE data == Substring(st.num_written, n)
           k == num_writable(st, data)
<1>1. /\ st.buffer \in Seq(Nat) /\ st.num_written \in Nat /\ st.num_read \in Nat
      /\ st.capacity = cap /\ st.input_ended \in BOOLEAN /\ Len(st.buffer) \in Nat
  BY DEF ByteStreams
<1>2. data \in Seq(Nat) /\ Len(data) = n
  BY <1>1, SubstringType, Zenon
<1>3. k \in Nat /\ k <= n /\ Len(st.buffer) + k <= cap /\ (st.input_ended => k = 0)
  <2> HIDE DEF data
  <2>1. Len(st.buffer) <= cap
    BY <1>1 DEF Genuine
  <2>2. CASE st.input_ended
    <3>1. k = 0
      BY <2>2, Zenon DEF num_writable
    <3> QED BY <1>1, <2>1, <3>1
  <2>3. CASE ~st.input_ended
    <3>1. k = Lesser(Len(data), remaining_capacity(st))
      BY <2>3, Zenon DEF num_writable
    <3>2. k = Lesser(n, cap - Len(st.buffer))
      BY <3>1, <1>1, <1>2 DEF remaining_capacity
    <3>3. k \in Nat /\ k <= n /\ Len(st.buffer) + k <= cap
      BY <1>1, <2>1, <3>2, LesserRoom, ZenonT(60)
    <3> QED BY <2>3, <3>3, Zenon
  <2> QED BY <1>1, <2>2, <2>3
<1> HIDE DEF k
<1>4. SubSeq(data, 1, k) = Substring(st.num_written, k)
  <2>1. k \in 0 .. n
    BY <1>3
  <2> QED BY <2>1, <1>1, SubstringFront, Zenon
<1> DEFINE b == st.buffer \o SubSeq(data, 1, k)
           m == st.num_written + k
<1>5. w = [st EXCEPT !.buffer = b, !.num_written = m]
  BY DEF write, k
<1>6. b = Substring(st.num_read, Len(st.buffer) + k)
  <2>1. st.num_written = st.num_read + Len(st.buffer)
    BY DEF Genuine
  <2>2. Substring(st.num_read, Len(st.buffer)) \o Substring(st.num_read + Len(st.buffer), k)
          = Substring(st.num_read, Len(st.buffer) + k)
    BY <1>1, <1>3, SubstringJoin, ZenonT(60)
  <2> QED BY <2>1, <2>2, <1>4, Zenon DEF Genuine
<1>7. m \in Nat /\ m = st.num_read + (Len(st.buffer) + k) /\ Len(st.buffer) + k \in Nat
  BY <1>1, <1>3, SMTT(60) DEF Genuine
<1> HIDE DEF data, b, m
<1>8. b \in Seq(Nat) /\ Len(b) = Len(st.buffer) + k
  BY <1>1, <1>6, <1>7, SubstringType, Zenon
<1>9. /\ w.buffer = b /\ w.num_written = m /\ w.num_read = st.num_read
      /\ w.capacity = cap /\ w.input_ended = st.input_ended
  BY <1>1, <1>5 DEF ByteStreams
<1>10. w \in ByteStreams(cap, Nat)
  BY <1>5, <1>7, <1>8, Zenon DEF ByteStreams
<1>11. Genuine(w)
  <2>1. w.buffer = Substring(w.num_read, Len(w.buffer))
    BY <1>6, <1>8, <1>9, Zenon
  <2> QED BY <2>1, <1>3, <1>7, <1>8, <1>9, Zenon DEF Genuine
<1>12. ASSUME st.input_ended PROVE w = st
  <2>1. k = 0
    BY <1>3, <1>12
  <2>2. b = st.buffer
    <3>1. Len(st.buffer) + k = Len(st.buffer)
      BY <1>1, <2>1
    <3> QED BY <3>1, <1>6, Zenon DEF Genuine
  <2>3. m = st.num_written
    BY <2>1, <1>1 DEF m
  <2> QED BY <2>2, <2>3, <1>5, Zenon DEF ByteStreams
<1>13. ASSUME ~st.input_ended, n <= remaining_capacity(st)
       PROVE  w.num_written = st.num_written + n
  <2>1. k = Lesser(n, cap - Len(st.buffer)) /\ n <= cap - Len(st.buffer)
    BY <1>1, <1>2, <1>13 DEF k, num_writable, remaining_capacity
  <2>2. k = n
    BY <2>1 DEF Lesser
  <2> QED BY <2>2, <1>9 DEF m
<1> QED BY <1>9, <1>10, <1>11, <1>12, <1>13

(* ByteStream::write after end_input does nothing. *)
LEMMA WriteEnded ==
  ASSUME NEW cap \in Nat, NEW st \in ByteStreams(cap, Nat), st.input_ended,
         NEW data \in Seq(Nat)
  PROVE  write(st, data) = st
<1>1. st.buffer \in Seq(Nat) /\ st.num_written \in Nat
  BY DEF ByteStreams
<1>2. SubSeq(data, 1, 0) = <<>>
  OBVIOUS
<1>3. st.buffer \o <<>> = st.buffer /\ st.num_written + 0 = st.num_written
  BY <1>1
<1>4. write(st, data) = [st EXCEPT !.buffer = st.buffer, !.num_written = st.num_written]
  BY <1>2, <1>3, Zenon DEF write, num_writable
<1> QED BY <1>4, Zenon DEF ByteStreams

(* ByteStream::peek_output returns the next bytes, at most n. *)
LEMMA PeekGenuine ==
  ASSUME NEW cap \in Nat, NEW st \in ByteStreams(cap, Nat), Genuine(st), NEW n \in Nat
  PROVE  /\ Lesser(n, Len(st.buffer)) \in Nat
         /\ peek_output(st, n) = Substring(st.num_read, Lesser(n, Len(st.buffer)))
         /\ peek_output(st, n) \in Seq(Nat)
         /\ Len(peek_output(st, n)) = Lesser(n, Len(st.buffer))
<1> DEFINE k == Lesser(n, Len(st.buffer))
<1>1. st.buffer \in Seq(Nat) /\ st.num_read \in Nat /\ Len(st.buffer) \in Nat
  BY DEF ByteStreams
<1>2. k \in 0 .. Len(st.buffer)
  BY <1>1 DEF Lesser
<1> HIDE DEF k
<1>3. SubSeq(Substring(st.num_read, Len(st.buffer)), 1, k) = Substring(st.num_read, k)
  BY <1>1, <1>2, SubstringFront, Zenon
<1>4. peek_output(st, n) = Substring(st.num_read, k)
  BY <1>3 DEF peek_output, Genuine, k
<1>5. k \in Nat
  BY <1>1, <1>2
<1>6. Substring(st.num_read, k) \in Seq(Nat) /\ Len(Substring(st.num_read, k)) = k
  BY <1>1, <1>5, SubstringType, Zenon
<1>7. /\ k \in Nat /\ peek_output(st, n) = Substring(st.num_read, k)
      /\ peek_output(st, n) \in Seq(Nat) /\ Len(peek_output(st, n)) = k
  BY <1>4, <1>5, <1>6, Zenon
<1> QED BY <1>7, Zenon DEF k

(* ByteStream::pop_output removes them and keeps the stream genuine. *)
LEMMA PopGenuine ==
  ASSUME NEW cap \in Nat, NEW st \in ByteStreams(cap, Nat), Genuine(st), NEW n \in Nat,
         NEW w, w = pop_output(st, n)
  PROVE  /\ w \in ByteStreams(cap, Nat) /\ Genuine(w)
         /\ w.num_read = st.num_read + Lesser(n, Len(st.buffer))
         /\ Len(w.buffer) = Len(st.buffer) - Lesser(n, Len(st.buffer))
         /\ w.num_written = st.num_written /\ w.input_ended = st.input_ended
<1> DEFINE k == Lesser(n, Len(st.buffer))
           b == SubSeq(st.buffer, k + 1, Len(st.buffer))
           m == st.num_read + k
<1>1. /\ st.buffer \in Seq(Nat) /\ st.num_written \in Nat /\ st.num_read \in Nat
      /\ st.capacity = cap /\ st.input_ended \in BOOLEAN /\ Len(st.buffer) \in Nat
  BY DEF ByteStreams
<1>2. k \in Nat /\ k <= Len(st.buffer)
  BY <1>1 DEF Lesser
<1>3. w = [st EXCEPT !.buffer = b, !.num_read = m]
  BY DEF pop_output
<1> HIDE DEF k
<1>4. b = Substring(m, Len(st.buffer) - k)
  <2>1. SubSeq(Substring(st.num_read, Len(st.buffer)), k + 1, Len(st.buffer))
          = Substring(st.num_read + k, Len(st.buffer) - k)
    <3>1. k \in 0 .. Len(st.buffer)
      BY <1>1, <1>2
    <3> QED BY <3>1, <1>1, SubstringBack, Zenon
  <2> QED BY <2>1, Zenon DEF Genuine
<1>5. m \in Nat /\ Len(st.buffer) - k \in Nat /\ Len(st.buffer) <= cap
      /\ st.num_written = m + (Len(st.buffer) - k)
  BY <1>1, <1>2, SMTT(60) DEF Genuine
<1>6. m = st.num_read + k
  OBVIOUS
<1> HIDE DEF b, m
<1>7. b \in Seq(Nat) /\ Len(b) = Len(st.buffer) - k
  BY <1>4, <1>5, SubstringType, Zenon
<1>8. /\ w.buffer = b /\ w.num_read = m /\ w.num_written = st.num_written
      /\ w.capacity = cap /\ w.input_ended = st.input_ended
  BY <1>1, <1>3 DEF ByteStreams
<1>9. w \in ByteStreams(cap, Nat)
  BY <1>3, <1>5, <1>7, Zenon DEF ByteStreams
<1>10. Genuine(w)
  <2>1. w.buffer = Substring(w.num_read, Len(w.buffer))
    BY <1>4, <1>7, <1>8, Zenon
  <2>2. w.num_written = w.num_read + Len(w.buffer) /\ Len(w.buffer) <= w.capacity
    <3>1. Len(st.buffer) - k <= cap
      BY <1>1, <1>2, <1>5
    <3> QED BY <3>1, <1>5, <1>7, <1>8
  <2> QED BY <2>1, <2>2 DEF Genuine
<1>11. w.num_read = st.num_read + k /\ Len(w.buffer) = Len(st.buffer) - k
  BY <1>6, <1>7, <1>8
<1> QED BY <1>8, <1>9, <1>10, <1>11 DEF k
-----------------------------------------------------------------------------
(* The reassembler                                                         *)

(* The values of _unassembled: bytes of the stream under their own index.  *)
Maps == {[k \in D |-> k] : D \in {E \in SUBSET Nat : IsFiniteSet(E)}}

Reassemblers(cap) ==
    [output : ByteStreams(cap, Nat), capacity : {cap}, unassembled : Maps,
     unassembled_bytes : Nat, if_eof : BOOLEAN, next_index : Nat]

(* A sound object: the output holds the bytes before num_written, the map  *)
(* only bytes from next_index on, and _unassembled_bytes counts them.  The *)
(* two indices agree until the end of the stream was announced; afterwards *)
(* write() accepts nothing, while _next_index may still move.              *)
Sound(r, cap) ==
    /\ r \in Reassemblers(cap)
    /\ Genuine(r.output)
    /\ r.output.num_written <= r.next_index
    /\ ~r.output.input_ended => r.output.num_written = r.next_index
    /\ \A k \in DOMAIN r.unassembled : k >= r.next_index
    /\ r.unassembled_bytes = Cardinality(DOMAIN r.unassembled)

(* A non-empty set of numbers up to m has a greatest element. *)
LEMMA MaxIsGreatest ==
  ASSUME NEW m \in Nat, NEW S \in SUBSET (0 .. m), S # {}
  PROVE  Max(S) \in S /\ \A y \in S : Max(S) >= y
<1> DEFINE T == {y \in Nat : \E x \in S : x + y = m}
           R == OpToRel(<, Nat)
<1>1. \A x \in S : x \in Nat /\ m - x \in Nat /\ m - x \in T /\ x + (m - x) = m
  OBVIOUS
<1>2. IsWellFoundedOn(R, Nat)
  BY NatLessThanWellFounded, Zenon
<1>3. PICK t \in T : \A y \in T : ~(<<y, t>> \in R)
  <2>1. T \subseteq Nat /\ T # {}
    BY <1>1, Zenon
  <2> HIDE DEF T, R
  <2> QED BY <1>2, <2>1, WFMin, Zenon
<1>4. PICK x \in S : x + t = m
  OBVIOUS
<1>5. ASSUME NEW y \in S PROVE x >= y
  <2>1. <<m - y, t>> \notin R /\ m - y \in Nat
    BY <1>1, <1>3, Zenon
  <2>2. ~(m - y < t)
    BY <2>1 DEF OpToRel
  <2> QED BY <2>2, <1>1, <1>4
<1> QED BY <1>5, Zenon DEF Max

(* Counting the bytes of a map: what storing new ones adds, ... *)
LEMMA AddedCount ==
  ASSUME NEW A, IsFiniteSet(A), NEW B, IsFiniteSet(B)
  PROVE  /\ IsFiniteSet(A \cup B) /\ Cardinality(A \cup B) \in Nat
         /\ Cardinality(A \cup B) = Cardinality(A) + Cardinality(B \ A)
<1>1. IsFiniteSet(B \ A) /\ A \cup (B \ A) = A \cup B /\ A \cap (B \ A) = {}
  BY FS_Difference, Zenon
<1>2. Cardinality(A \cup B) = Cardinality(A) + Cardinality(B \ A) - 0
  BY <1>1, FS_Union, FS_EmptySet
<1>3. Cardinality(A) \in Nat /\ Cardinality(B \ A) \in Nat
  BY <1>1, FS_CardinalityType
<1>4. Cardinality(A \cup B) = Cardinality(A) + Cardinality(B \ A)
  BY <1>2, <1>3
<1> QED BY <1>3, <1>4, FS_Union, FS_CardinalityType, Zenon

(* ... what taking n consecutive ones out leaves, ... *)
LEMMA RemovedCount ==
  ASSUME NEW A, IsFiniteSet(A), NEW lo \in Nat, NEW n \in Nat, lo .. lo + n - 1 \subseteq A
  PROVE  /\ IsFiniteSet(A \ (lo .. lo + n - 1))
         /\ Cardinality(A \ (lo .. lo + n - 1)) = Cardinality(A) - n
         /\ Cardinality(A \ (lo .. lo + n - 1)) \in Nat
<1> DEFINE I == lo .. lo + n - 1
<1>1. Cardinality(I) = n
  BY FS_Interval
<1>2. A \cap I = I
  BY Zenon
<1> HIDE DEF I
<1>3. IsFiniteSet(A \ I) /\ Cardinality(A \ I) = Cardinality(A) - n
  BY <1>1, <1>2, FS_Difference, ZenonT(60)
<1> QED BY <1>3, FS_CardinalityType DEF I

(* ... and how many fit into a window of cap bytes. *)
LEMMA WindowCount ==
  ASSUME NEW lo \in Nat, NEW cap \in Nat, NEW S,
         \A k \in S : k \in Nat /\ lo <= k /\ k < lo + cap
  PROVE  IsFiniteSet(S) /\ Cardinality(S) <= cap
<1>1. IsFiniteSet(lo .. lo + cap - 1) /\ Cardinality(lo .. lo + cap - 1) = cap
  BY FS_Interval
<1>2. S \subseteq lo .. lo + cap - 1
  OBVIOUS
<1> QED BY <1>1, <1>2, FS_Subset, Zenon

(* What is known of the map of bytes that wait. *)
LEMMA MapFacts ==
  ASSUME NEW f \in Maps
  PROVE  /\ DOMAIN f \subseteq Nat /\ IsFiniteSet(DOMAIN f) /\ Cardinality(DOMAIN f) \in Nat
         /\ \A k \in DOMAIN f : f[k] = k
<1>1. PICK D \in {E \in SUBSET Nat : IsFiniteSet(E)} : f = [k \in D |-> k]
  BY DEF Maps
<1>2. DOMAIN f = D /\ \A k \in D : f[k] = k
  BY <1>1
<1> QED BY <1>2, FS_CardinalityType, Zenon

(* A finite set of indices makes such a map. *)
LEMMA MapMade ==
  ASSUME NEW D \in SUBSET Nat, IsFiniteSet(D)
  PROVE  [k \in D |-> k] \in Maps
BY DEF Maps

(* The room of a sound object's output. *)
LEMMA RoomType ==
  ASSUME NEW cap \in Nat, NEW r, Sound(r, cap)
  PROVE  /\ remaining_capacity(r.output) \in Nat
         /\ remaining_capacity(r.output) = cap - Len(r.output.buffer)
         /\ remaining_capacity(r.output) <= cap
         /\ Len(r.output.buffer) \in Nat
         /\ r.output.num_read \in Nat /\ r.output.num_written \in Nat /\ r.next_index \in Nat
         /\ r.output.num_written + remaining_capacity(r.output) = r.output.num_read + cap
<1>1. /\ r.output.buffer \in Seq(Nat) /\ r.output.capacity = cap
      /\ r.output.num_read \in Nat /\ r.output.num_written \in Nat /\ r.next_index \in Nat
  BY DEF Sound, Reassemblers, ByteStreams
<1>2. Len(r.output.buffer) \in Nat
  BY <1>1
<1>3. Len(r.output.buffer) <= cap
      /\ r.output.num_written = r.output.num_read + Len(r.output.buffer)
  BY <1>1 DEF Sound, Genuine
<1> QED BY <1>1, <1>2, <1>3, SMTT(60) DEF remaining_capacity

(* Lines 29-51 of push_substring: what is left of the n bytes from index   *)
(* on is a substring that starts at start_index, not before next_index,    *)
(* and ends where the pushed bytes end if these are all inside the room.   *)
LEMMA SubdataFacts ==
  ASSUME NEW cap \in Nat, NEW r, Sound(r, cap), NEW index \in Nat, NEW n \in Nat
  PROVE  \E m \in Nat :
            /\ subdata(r, Substring(index, n), index) = Substring(start_index(r, index), m)
            /\ start_index(r, index) \in Nat /\ start_index(r, index) >= r.next_index
            /\ m > 0 => start_index(r, index) + m <= index + n
            /\ (/\ index + n <= r.next_index + remaining_capacity(r.output)
                /\ index + n > r.next_index /\ n > 0)
               => start_index(r, index) + m = index + n
            /\ index >= r.next_index + remaining_capacity(r.output) => m = 0
<1> DEFINE room == remaining_capacity(r.output)
           data == Substring(index, n)
           start == start_index(r, index)
           d == front_sliced(r, data, index)
<1>1. room \in Nat /\ r.next_index \in Nat
  BY RoomType
<1>2. start \in Nat /\ start >= r.next_index /\ start >= index
      /\ (index >= r.next_index => start = index)
      /\ (index < r.next_index => start = r.next_index)
  BY <1>1 DEF start_index
<1>3. PICK l \in Nat :
         /\ d = Substring(start, l)
         /\ l > 0 => start + l = index + n
         /\ (/\ index + n <= r.next_index + room /\ index + n > r.next_index /\ n > 0)
            => start + l = index + n
         /\ index >= r.next_index + room => l = 0
  <2>0. data \in Seq(Nat) /\ Len(data) = n /\ Substring(start, 0) = <<>>
    BY SubstringType, <1>2 DEF Substring
  <2>1. CASE index < r.next_index /\ r.next_index - index <= n
    <3>1. d = SubSeq(data, r.next_index - index + 1, n)
      BY <2>0, <2>1, Zenon DEF front_sliced
    <3>2. r.next_index - index \in 0 .. n
      BY <2>1, <1>1
    <3>3. d = Substring(index + (r.next_index - index), n - (r.next_index - index))
      BY <3>1, <3>2, SubstringBack, Zenon
    <3>4. /\ index + (r.next_index - index) = start /\ n - (r.next_index - index) \in Nat
          /\ start + (n - (r.next_index - index)) = index + n
          /\ ~(index >= r.next_index + room)
      BY <2>1, <1>1, <1>2
    <3> HIDE DEF d, start, data, room
    <3> QED BY <3>3, <3>4
  <2>2. CASE index < r.next_index /\ r.next_index - index > n
    <3>1. d = SubSeq(data, r.next_index - index + 1, n)
      BY <2>0, <2>2, Zenon DEF front_sliced
    <3>2. d = <<>>
      <4> HIDE DEF d, data
      <4> QED BY <3>1, <2>0, <2>2, <1>1, SMTT(60)
    <3>3. ~(index + n > r.next_index)
      BY <2>2, <1>1
    <3> HIDE DEF d, start, data
    <3> QED BY <3>2, <3>3, <2>0
  <2>3. CASE index >= r.next_index /\ index >= r.next_index + room
    <3>1. d = <<>>
      BY <2>3, <1>1 DEF front_sliced
    <3>2. ~(index + n <= r.next_index + room /\ n > 0)
      BY <2>3, <1>1
    <3> HIDE DEF d, start, data, room
    <3> QED BY <3>1, <3>2, <2>0
  <2>4. CASE index >= r.next_index /\ index < r.next_index + room
    <3>1. d = Substring(start, n) /\ start = index
      BY <2>4, <1>1, <1>2 DEF front_sliced
    <3>2. ~(index >= r.next_index + room)
      BY <2>4, <1>1
    <3> HIDE DEF d, start, data, room
    <3> QED BY <3>1, <3>2
  <2> HIDE DEF d, start, data, room
  <2> QED BY <1>1, <2>1, <2>2, <2>3, <2>4
<1> DEFINE m == Lesser(l, room)
<1>4. m \in 0 .. l /\ (l <= room => m = l)
  BY <1>1 DEF Lesser
<1>5. subdata(r, data, index) = Substring(start, m)
  <2>1. Len(d) = l
    <3> HIDE DEF d, start
    <3> QED BY <1>2, <1>3, SubstringType
  <2>2. SubSeq(d, 1, m) = Substring(start, m)
    <3> HIDE DEF m, d, start
    <3> QED BY <1>2, <1>3, <1>4, SubstringFront, ZenonT(60)
  <2> QED BY <2>1, <2>2 DEF subdata
<1> HIDE DEF d, start, data, room, m
<1>6. /\ m \in Nat /\ (m > 0 => start + m <= index + n)
      /\ (index >= r.next_index + room => m = 0)
  BY <1>2, <1>3, <1>4
<1>7. ASSUME index + n <= r.next_index + room, index + n > r.next_index, n > 0
      PROVE  start + m = index + n
  BY <1>1, <1>2, <1>3, <1>4, <1>7
<1>8. /\ subdata(r, data, index) = Substring(start, m)
      /\ start \in Nat /\ start >= r.next_index
      /\ m > 0 => start + m <= index + n
      /\ (index + n <= r.next_index + room /\ index + n > r.next_index /\ n > 0)
            => start + m = index + n
      /\ index >= r.next_index + room => m = 0
  BY <1>2, <1>5, <1>6, <1>7
<1> QED BY <1>6, <1>8 DEF start, data, room

(* Lines 54-60: the bytes that are stored extend the map and its count.    *)
(* The next byte is stored whenever the map has room; all of them are when *)
(* map and substring stay within cap of next_index.                        *)
LEMMA InsertFacts ==
  ASSUME NEW cap \in Nat, NEW r, Sound(r, cap), NEW start \in Nat, start >= r.next_index,
         NEW m \in Nat, NEW q, q = insert(r, Substring(start, m), start)
  PROVE  /\ Sound(q, cap) /\ q.output = r.output /\ q.next_index = r.next_index
         /\ q.if_eof = r.if_eof
         /\ DOMAIN r.unassembled \subseteq DOMAIN q.unassembled
         /\ DOMAIN q.unassembled \subseteq DOMAIN r.unassembled \cup start .. start + m - 1
         /\ m > 0 /\ Cardinality(DOMAIN r.unassembled) <= cap => start \in DOMAIN q.unassembled
         /\ (/\ \A k \in DOMAIN r.unassembled : k < r.next_index + cap
             /\ start + m <= r.next_index + cap)
            => start .. start + m - 1 \subseteq DOMAIN q.unassembled
<1> DEFINE sub == Substring(start, m)
           st == stored(r, sub, start)
           old == DOMAIN r.unassembled
           new == {start + i : i \in st}
           U == [k \in old \cup new |-> IF k \in new THEN sub[k - start + 1]
                                                   ELSE r.unassembled[k]]
           c == r.unassembled_bytes + Cardinality(new \ old)
<1>1. q = [r EXCEPT !.unassembled = U, !.unassembled_bytes = c]
  BY DEF insert
<1>2. /\ r \in Reassemblers(cap) /\ r.unassembled \in Maps /\ r.next_index \in Nat
      /\ r.capacity = cap /\ r.unassembled_bytes = Cardinality(old)
      /\ \A k \in old : k >= r.next_index
  BY DEF Sound, Reassemblers
<1>3. /\ old \subseteq Nat /\ IsFiniteSet(old) /\ Cardinality(old) \in Nat
      /\ \A k \in old : r.unassembled[k] = k
  BY <1>2, MapFacts
<1>4. Len(sub) = m /\ \A i \in 1 .. m : sub[i] = start + i - 1
  BY SubstringType
<1>5. st \subseteq 0 .. m - 1
  BY <1>4 DEF stored
<1>6. st = {i \in 0 .. m - 1 : Cardinality(old \cup {start + k : k \in 0 .. i - 1}) <= cap}
  BY <1>2, <1>4, Zenon DEF stored
<1> HIDE DEF sub, st, old
<1>7. new \subseteq start .. start + m - 1 /\ new \subseteq Nat
  BY <1>5
<1>8. IsFiniteSet(new)
  <2>1. IsFiniteSet(start .. start + m - 1)
    BY FS_Interval
  <2> QED BY <1>7, <2>1, FS_Subset, Zenon
<1> HIDE DEF new
<1>9. U = [k \in old \cup new |-> k]
  <2>1. \A k \in new : k - start + 1 \in 1 .. m /\ start + (k - start + 1) - 1 = k
    BY <1>7
  <2>2. \A k \in new : sub[k - start + 1] = k
    BY <1>4, <2>1
  <2> QED BY <1>3, <2>2, Zenon
<1>10. IsFiniteSet(old \cup new) /\ old \cup new \subseteq Nat
  BY <1>3, <1>7, <1>8, FS_Union, Zenon
<1>11. DOMAIN U = old \cup new /\ U \in Maps
  BY <1>9, <1>10, MapMade
<1>12. c = Cardinality(old \cup new) /\ c \in Nat
  BY <1>2, <1>3, <1>8, AddedCount, ZenonT(60)
<1> HIDE DEF U, c
<1>13. /\ q \in Reassemblers(cap) /\ q.output = r.output /\ q.next_index = r.next_index
       /\ q.if_eof = r.if_eof /\ q.unassembled = U /\ q.unassembled_bytes = c
  BY <1>1, <1>2, <1>11, <1>12, Zenon DEF Reassemblers
<1>14. \A k \in old \cup new : k >= r.next_index
  <2>1. \A k \in new : k \in Nat /\ k >= start
    BY <1>7
  <2>2. \A k \in new : k >= r.next_index
    BY <1>2, <2>1
  <2> QED BY <1>2, <2>2
<1>15. Sound(q, cap)
  BY <1>11, <1>12, <1>13, <1>14 DEF Sound
<1>16. ASSUME m > 0, Cardinality(old) <= cap PROVE start \in old \cup new
  <2>1. 0 \in 0 .. m - 1 /\ old \cup {start + k : k \in 0 .. 0 - 1} = old
    BY <1>16
  <2>2. 0 \in st
    BY <1>6, <1>16, <2>1, Zenon
  <2> QED BY <2>2 DEF new
<1>17. ASSUME \A k \in old : k < r.next_index + cap, start + m <= r.next_index + cap
       PROVE  start .. start + m - 1 \subseteq old \cup new
  <2> SUFFICES ASSUME NEW k \in start .. start + m - 1 PROVE k \in new
    OBVIOUS
  <2> DEFINE i == k - start
             S == old \cup {start + j : j \in 0 .. i - 1}
  <2>1. i \in 0 .. m - 1 /\ start + i = k
    OBVIOUS
  <2>2. ASSUME NEW j \in 0 .. i - 1
        PROVE  start + j \in Nat /\ start + j >= start /\ start + j < start + m
    BY <2>1
  <2> HIDE DEF i
  <2>3. \A x \in S : x \in Nat /\ r.next_index <= x /\ x < r.next_index + cap
    <3>1. \A x \in old : x \in Nat /\ r.next_index <= x /\ x < r.next_index + cap
      BY <1>2, <1>3, <1>17
    <3>2. ASSUME NEW j \in 0 .. i - 1
          PROVE  start + j \in Nat /\ r.next_index <= start + j /\ start + j < r.next_index + cap
      BY <1>2, <1>17, <2>2
    <3> QED BY <3>1, <3>2, Zenon
  <2>4. Cardinality(S) <= cap
    <3> HIDE DEF S
    <3> QED BY <1>2, <2>3, WindowCount
  <2>5. i \in st
    BY <1>6, <2>1, <2>4, Zenon
  <2> QED BY <2>1, <2>5 DEF new
<1> QED BY <1>7, <1>11, <1>13, <1>15, <1>16, <1>17, Zenon DEF old

(* Lines 62-80: the longest run of stored bytes that is next and fits is   *)
(* moved to the output, in order.                                          *)
LEMMA AssembleFacts ==
  ASSUME NEW cap \in Nat, NEW r, Sound(r, cap), NEW q, q = assemble(r)
  PROVE  \E n \in Nat :
            /\ n <= remaining_capacity(r.output)
            /\ r.next_index .. r.next_index + n - 1 \subseteq DOMAIN r.unassembled
            /\ n = remaining_capacity(r.output) \/ r.next_index + n \notin DOMAIN r.unassembled
            /\ Sound(q, cap) /\ q.next_index = r.next_index + n /\ q.if_eof = r.if_eof
            /\ DOMAIN q.unassembled
                 = DOMAIN r.unassembled \ (r.next_index .. r.next_index + n - 1)
            /\ q.output.num_read = r.output.num_read
            /\ q.output.input_ended = r.output.input_ended
            /\ r.output.input_ended => q.output = r.output
<1> DEFINE room == remaining_capacity(r.output)
           next == r.next_index
           D == DOMAIN r.unassembled
           C == {i \in 0 .. room : \A k \in next .. next + i - 1 : k \in D}
           n == assemblable(r)
           I == next .. next + n - 1
           data == [i \in 1 .. n |-> r.unassembled[next + i - 1]]
           M == [k \in D \ I |-> r.unassembled[k]]
           out == write(r.output, data)
<1>1. /\ r \in Reassemblers(cap) /\ r.unassembled \in Maps /\ next \in Nat
      /\ r.output \in ByteStreams(cap, Nat) /\ Genuine(r.output)
      /\ r.unassembled_bytes = Cardinality(D) /\ \A k \in D : k >= next
      /\ r.output.num_written <= next
      /\ (~r.output.input_ended => r.output.num_written = next)
      /\ r.output.input_ended \in BOOLEAN
  BY DEF Sound, Reassemblers, ByteStreams
<1>2. room \in Nat /\ r.output.num_written \in Nat
  BY RoomType
<1>3. D \subseteq Nat /\ IsFiniteSet(D) /\ \A k \in D : r.unassembled[k] = k
  BY <1>1, MapFacts
<1>4. q = [r EXCEPT !.unassembled = M, !.unassembled_bytes = r.unassembled_bytes - n,
                    !.next_index = next + n, !.output = out]
  BY Zenon DEF assemble
<1>5. n = Max(C)
  BY DEF assemblable
<1> HIDE DEF room, next, D
<1>6. 0 \in C /\ C \in SUBSET (0 .. room)
  BY <1>1, <1>2
<1> HIDE DEF n
<1>7. n \in C /\ \A y \in C : n >= y
  <2> HIDE DEF C
  <2> QED BY <1>2, <1>5, <1>6, MaxIsGreatest
<1>8. n \in Nat /\ n <= room /\ I \subseteq D
  BY <1>2, <1>7
<1>9. n = room \/ next + n \notin D
  <2> SUFFICES ASSUME n # room, next + n \in D PROVE FALSE
    OBVIOUS
  <2>1. n + 1 \in 0 .. room /\ ~(n >= n + 1)
    BY <1>2, <1>8
  <2>2. ASSUME NEW k \in next .. next + (n + 1) - 1 PROVE k \in D
    <3>1. k \in I \/ k = next + n
      BY <1>1, <1>8
    <3> QED BY <3>1, <1>8
  <2> QED BY <1>7, <2>1, <2>2
<1> HIDE DEF C
<1>10. M = [k \in D \ I |-> k]
  BY <1>3, Zenon
<1>11. /\ IsFiniteSet(D \ I) /\ Cardinality(D \ I) = Cardinality(D) - n
       /\ Cardinality(D \ I) \in Nat
  BY <1>1, <1>3, <1>8, RemovedCount, Zenon
<1>12. DOMAIN M = D \ I /\ M \in Maps
  <2>1. D \ I \in SUBSET Nat
    BY <1>3, ZenonT(60)
  <2> QED BY <1>10, <1>11, <2>1, MapMade
<1>13. data = Substring(next, n)
  <2>1. \A i \in 1 .. n : next + i - 1 \in I
    BY <1>1, <1>8
  <2>2. \A i \in 1 .. n : r.unassembled[next + i - 1] = next + i - 1
    BY <1>3, <1>8, <2>1
  <2> QED BY <2>2, Zenon DEF Substring
<1>14. ASSUME NEW k \in D \ I PROVE k >= next + n
  <2>1. k \in Nat /\ k >= next /\ next \in Nat /\ n \in Nat
    BY <1>1, <1>3, <1>8, Zenon
  <2>2. k \notin next .. next + n - 1
    BY Zenon
  <2> HIDE DEF D, I, n
  <2> QED BY ONLY <2>1, <2>2, SMT
<1> HIDE DEF data, out, M, I
<1>15. /\ out \in ByteStreams(cap, Nat) /\ Genuine(out)
       /\ out.num_read = r.output.num_read /\ out.input_ended = r.output.input_ended
       /\ r.output.input_ended => out = r.output
       /\ ~r.output.input_ended => out.num_written = next + n
  <2>1. CASE r.output.input_ended
    <3>1. data \in Seq(Nat)
      BY <1>1, <1>8, <1>13, SubstringType, ZenonT(60)
    <3>2. out = r.output
      BY <1>1, <2>1, <3>1, WriteEnded DEF out
    <3> QED BY <1>1, <2>1, <3>2, Zenon
  <2>2. CASE ~r.output.input_ended
    <3>1. r.output.num_written = next /\ n <= remaining_capacity(r.output)
      BY <1>1, <1>8, <2>2 DEF room
    <3>2. out = write(r.output, Substring(r.output.num_written, n))
      BY <3>1, <1>13 DEF out
    <3>3. /\ out \in ByteStreams(cap, Nat) /\ Genuine(out)
          /\ out.num_read = r.output.num_read /\ out.input_ended = r.output.input_ended
          /\ (~r.output.input_ended /\ n <= remaining_capacity(r.output)
                => out.num_written = r.output.num_written + n)
      <4>1. r.output \in ByteStreams(cap, Nat) /\ Genuine(r.output) /\ n \in Nat
        BY <1>1, <1>8
      <4> QED BY ONLY cap \in Nat, <4>1, <3>2, WriteGenuine, SMTT(30)
    <3> QED BY <2>2, <3>1, <3>3
  <2> QED BY <1>1, <2>1, <2>2
<1>16. /\ q \in Reassemblers(cap) /\ q.unassembled = M /\ q.output = out
       /\ q.unassembled_bytes = Cardinality(D \ I)
       /\ q.next_index = next + n /\ q.if_eof = r.if_eof
  <2>1. r.unassembled_bytes - n = Cardinality(D \ I)
    BY <1>1, <1>11
  <2>2. next + n \in Nat
    BY <1>1, <1>8
  <2> QED BY <1>1, <1>4, <1>11, <1>12, <1>15, <2>1, <2>2, ZenonT(60) DEF Reassemblers
<1>17. Sound(q, cap)
  <2>1. q.output.num_written <= q.next_index
    <3>1. CASE r.output.input_ended
      BY <1>1, <1>2, <1>8, <1>15, <1>16, <3>1, SMTT(60)
    <3>2. CASE ~r.output.input_ended
      BY <1>1, <1>8, <1>15, <1>16, <3>2, SMTT(60)
    <3> QED BY <1>1, <3>1, <3>2
  <2>2. ~q.output.input_ended => q.output.num_written = q.next_index
    BY <1>15, <1>16
  <2> QED BY <2>1, <2>2, <1>12, <1>14, <1>15, <1>16, SMTT(60) DEF Sound
<1>18. DOMAIN q.unassembled = D \ I
  BY <1>12, <1>16
<1> QED BY <1>8, <1>9, <1>15, <1>16, <1>17, <1>18 DEF room, next, D, I

(* Lines 82-83: the end of the stream is announced once if_eof is set and  *)
(* nothing waits.                                                          *)
LEMMA FinishFacts ==
  ASSUME NEW cap \in Nat, NEW r, Sound(r, cap), NEW q, q = finish(r)
  PROVE  /\ Sound(q, cap) /\ q.unassembled = r.unassembled /\ q.next_index = r.next_index
         /\ q.if_eof = r.if_eof
         /\ q.output.buffer = r.output.buffer /\ q.output.num_read = r.output.num_read
         /\ q.output.num_written = r.output.num_written
         /\ r.output.input_ended => q.output = r.output
         /\ q.output.input_ended
              <=> r.output.input_ended \/ (r.if_eof /\ DOMAIN r.unassembled = {})
<1>1. /\ r \in Reassemblers(cap) /\ r.output \in ByteStreams(cap, Nat) /\ Genuine(r.output)
      /\ r.output.input_ended \in BOOLEAN /\ r.unassembled \in Maps
      /\ r.unassembled_bytes = Cardinality(DOMAIN r.unassembled)
  BY DEF Sound, Reassemblers, ByteStreams
<1>2. r.unassembled_bytes = 0 <=> DOMAIN r.unassembled = {}
  BY <1>1, MapFacts, FS_EmptySet
<1>3. CASE r.if_eof /\ r.unassembled_bytes = 0
  <2> DEFINE out == [r.output EXCEPT !.input_ended = TRUE]
  <2>1. q = [r EXCEPT !.output = out]
    BY <1>3 DEF finish, end_input
  <2>2. /\ out \in ByteStreams(cap, Nat) /\ out.input_ended = TRUE
        /\ out.buffer = r.output.buffer /\ out.num_read = r.output.num_read
        /\ out.num_written = r.output.num_written /\ out.capacity = r.output.capacity
    BY <1>1, Zenon DEF ByteStreams
  <2>3. r.output.input_ended => out = r.output
    BY <1>1, Zenon DEF ByteStreams
  <2>4. Genuine(out)
    <3> HIDE DEF out
    <3> QED BY <1>1, <2>2, Zenon DEF Genuine
  <2> HIDE DEF out
  <2>5. /\ q \in Reassemblers(cap) /\ q.output = out /\ q.unassembled = r.unassembled
        /\ q.next_index = r.next_index /\ q.if_eof = r.if_eof
        /\ q.unassembled_bytes = r.unassembled_bytes
    BY <1>1, <2>1, <2>2, ZenonT(60) DEF Reassemblers
  <2>6. Sound(q, cap)
    BY <2>2, <2>4, <2>5 DEF Sound
  <2> QED BY <1>2, <1>3, <2>2, <2>3, <2>5, <2>6, SMTT(60)
<1>4. CASE ~(r.if_eof /\ r.unassembled_bytes = 0)
  BY <1>1, <1>2, <1>4, SMTT(60) DEF finish
<1> QED BY <1>3, <1>4

(* push_substring of n bytes from index on, as a whole.  It keeps the      *)
(* object sound; only bytes that were stored or pushed are assembled or    *)
(* stored, and no stored byte is dropped; the end is announced when eof    *)
(* was seen and nothing waits.  Inside the advertised window no pushed     *)
(* byte is dropped either, and the next byte is assembled if there is room.*)
PushEffect(r, q, cap, index, n, is_eof) ==
    /\ Sound(q, cap)
    /\ q.output.num_read = r.output.num_read
    /\ q.next_index >= r.next_index
    /\ q.if_eof <=> r.if_eof \/ is_eof
    /\ r.output.input_ended => q.output = r.output
    /\ ~r.output.input_ended => q.output.num_written = q.next_index
    /\ q.output.input_ended
         <=> r.output.input_ended \/ (q.if_eof /\ DOMAIN q.unassembled = {})
    /\ DOMAIN q.unassembled \subseteq DOMAIN r.unassembled \cup index .. index + n - 1
    /\ \A k \in r.next_index .. q.next_index - 1 :
          k \in DOMAIN r.unassembled \cup index .. index + n - 1
    /\ \A k \in DOMAIN r.unassembled : k < q.next_index \/ k \in DOMAIN q.unassembled
    /\ index >= r.next_index + remaining_capacity(r.output)
         => DOMAIN q.unassembled \subseteq DOMAIN r.unassembled
    /\ (/\ r.output.num_written = r.next_index
        /\ \A k \in DOMAIN r.unassembled : k < r.output.num_read + cap
        /\ index + n <= r.output.num_read + cap)
       => /\ \A k \in index .. index + n - 1 :
                k < q.next_index \/ k \in DOMAIN q.unassembled
          /\ (/\ remaining_capacity(r.output) > 0
              /\ index <= r.next_index /\ r.next_index < index + n)
             => q.next_index > r.next_index

(* That is what push_substring does. *)
LEMMA PushFacts ==
  ASSUME NEW cap \in Nat, NEW r, Sound(r, cap), NEW index \in Nat, NEW n \in Nat,
         NEW is_eof \in BOOLEAN,
         NEW q, q = push_substring(r, Substring(index, n), index, is_eof)
  PROVE  PushEffect(r, q, cap, index, n, is_eof)
<1> DEFINE r0 == [r EXCEPT !.if_eof = r.if_eof \/ is_eof]
           sub == subdata(r, Substring(index, n), index)
           start == start_index(r, index)
           r1 == insert(r0, sub, start)
           r2 == assemble(r1)
           D == DOMAIN r.unassembled
           D1 == DOMAIN r1.unassembled
           D2 == DOMAIN r2.unassembled
           room == remaining_capacity(r.output)
           next == r.next_index
<1>1. q = finish(r2)
  BY Zenon DEF push_substring
<1>2. /\ Sound(r0, cap) /\ r0.output = r.output /\ r0.unassembled = r.unassembled
      /\ r0.next_index = next /\ (r0.if_eof <=> r.if_eof \/ is_eof)
  <2>1. r \in Reassemblers(cap) /\ r.if_eof \in BOOLEAN
    BY DEF Sound, Reassemblers
  <2>2. /\ r0 \in Reassemblers(cap) /\ r0.output = r.output /\ r0.unassembled = r.unassembled
        /\ r0.next_index = next /\ r0.if_eof = (r.if_eof \/ is_eof)
        /\ r0.unassembled_bytes = r.unassembled_bytes
    BY <2>1, Zenon DEF Reassemblers
  <2> HIDE DEF r0
  <2> QED BY <2>2, Zenon DEF Sound
<1>3. PICK m \in Nat :
         /\ sub = Substring(start, m) /\ start \in Nat /\ start >= next
         /\ m > 0 => start + m <= index + n
         /\ index + n <= next + room /\ index + n > next /\ n > 0 => start + m = index + n
         /\ index >= next + room => m = 0
  BY SubdataFacts
<1>4. /\ room \in Nat /\ next \in Nat /\ room <= cap /\ r.output.num_read \in Nat
      /\ r.output.num_written + room = r.output.num_read + cap /\ r.output.num_written \in Nat
  BY RoomType
<1>5. D \subseteq Nat /\ Cardinality(D) \in Nat /\ \A k \in D : k >= next
  BY MapFacts DEF Sound, Reassemblers
<1>6. start >= index /\ (index <= next => start = next) /\ (index >= next => start = index)
  BY <1>4 DEF start_index
<1> HIDE DEF r0, sub, start
<1>7. /\ Sound(r1, cap) /\ r1.output = r.output /\ r1.next_index = next
      /\ (r1.if_eof <=> r.if_eof \/ is_eof)
      /\ D \subseteq D1 /\ D1 \subseteq D \cup start .. start + m - 1
      /\ (m > 0 /\ Cardinality(D) <= cap => start \in D1)
      /\ ((\A k \in D : k < next + cap) /\ start + m <= next + cap
            => start .. start + m - 1 \subseteq D1)
  <2>1. r1 = insert(r0, Substring(start, m), start)
    BY <1>3
  <2> HIDE DEF r1
  <2>2. /\ Sound(r1, cap) /\ r1.output = r0.output /\ r1.next_index = r0.next_index
        /\ r1.if_eof = r0.if_eof
        /\ DOMAIN r0.unassembled \subseteq D1
        /\ D1 \subseteq DOMAIN r0.unassembled \cup start .. start + m - 1
        /\ m > 0 /\ Cardinality(DOMAIN r0.unassembled) <= cap => start \in D1
        /\ (/\ \A k \in DOMAIN r0.unassembled : k < r0.next_index + cap
            /\ start + m <= r0.next_index + cap)
           => start .. start + m - 1 \subseteq D1
    BY <1>2, <1>3, <2>1, InsertFacts, SMTT(60)
  <2> QED BY <1>2, <2>2, Zenon
<1> HIDE DEF r1
<1>8. PICK p \in Nat :
         /\ p <= room /\ next .. next + p - 1 \subseteq D1
         /\ p = room \/ next + p \notin D1
         /\ Sound(r2, cap) /\ r2.next_index = next + p /\ (r2.if_eof <=> r.if_eof \/ is_eof)
         /\ D2 = D1 \ (next .. next + p - 1)
         /\ r2.output.num_read = r.output.num_read
         /\ r2.output.input_ended = r.output.input_ended
         /\ r.output.input_ended => r2.output = r.output
  BY <1>7, AssembleFacts
<1> HIDE DEF r2, D2
<1>9. /\ Sound(q, cap) /\ q.unassembled = r2.unassembled /\ q.next_index = next + p
      /\ (q.if_eof <=> r.if_eof \/ is_eof) /\ q.output.num_read = r.output.num_read
      /\ (r.output.input_ended => q.output = r.output)
      /\ (~r.output.input_ended => q.output.num_written = q.next_index)
      /\ (q.output.input_ended
            <=> r.output.input_ended \/ (q.if_eof /\ DOMAIN q.unassembled = {}))
      /\ DOMAIN q.unassembled = D2
  <2>1. ~r.output.input_ended => r2.output.num_written = r2.next_index
    BY <1>8 DEF Sound
  <2> QED BY <1>1, <1>8, <2>1, FinishFacts, SMTT(60) DEF D2
<1> HIDE DEF D1, D, room, next
<1>10. start .. start + m - 1 \subseteq index .. index + n - 1
  BY <1>3, <1>4, <1>6
<1>11. ASSUME NEW k \in D1 PROVE k < next + p \/ k \in D2
  <2>1. k \in Nat /\ k >= next
    BY <1>3, <1>4, <1>5, <1>7
  <2> QED BY <1>4, <1>8, <2>1
<1>12. ASSUME r.output.num_written = next, \A k \in D : k < r.output.num_read + cap,
              index + n <= r.output.num_read + cap
       PROVE  /\ \A k \in index .. index + n - 1 : k < next + p \/ k \in D2
              /\ room > 0 /\ index <= next /\ next < index + n => p > 0
  <2>1. next + room = r.output.num_read + cap
    BY <1>4, <1>12
  <2>2. \A k \in D : k < next + cap
    BY <1>4, <1>5, <1>12, <2>1
  <2>3. ASSUME NEW k \in index .. index + n - 1 PROVE k < next + p \/ k \in D2
    <3>1. CASE k < next
      BY <3>1, <1>4
    <3>2. CASE k >= next
      <4>1. index + n > next /\ n > 0 /\ start + m = index + n
        BY <3>2, <1>3, <1>4, <1>12, <2>1, SMTT(60)
      <4>2. start + m <= next + cap /\ k \in start .. start + m - 1
        BY <3>2, <4>1, <1>4, <1>6, <1>12, <2>1, SMTT(60)
      <4>3. k \in D1
        BY <1>7, <2>2, <4>2
      <4> QED BY <4>3, <1>11
    <3> QED BY <1>4, <3>1, <3>2
  <2>4. ASSUME room > 0, index <= next, next < index + n PROVE p > 0
    <3>1. next \in index .. index + n - 1
      BY <1>4, <2>4
    <3>2. CASE next < next + p
      BY <1>4, <3>2
    <3>3. CASE next \in D2 /\ ~(next < next + p)
      <4>1. p = 0 /\ next + p = next
        BY <3>3, <1>4
      <4> QED BY <4>1, <3>3, <1>8, <2>4, SMTT(60)
    <3> QED BY <2>3, <3>1, <3>2, <3>3
  <2> QED BY <2>3, <2>4
<1>13. \A k \in next .. q.next_index - 1 : k \in D \cup index .. index + n - 1
  <2>1. next .. next + p - 1 \subseteq D \cup index .. index + n - 1
    BY <1>7, <1>8, <1>10, ZenonT(60)
  <2>2. q.next_index - 1 = next + p - 1
    BY <1>4, <1>9
  <2> QED BY <2>1, <2>2, ZenonT(60)
<1>14. DOMAIN q.unassembled \subseteq D \cup index .. index + n - 1
  BY <1>7, <1>8, <1>9, <1>10, SMTT(60)
<1>15. \A k \in D : k < q.next_index \/ k \in DOMAIN q.unassembled
  BY <1>7, <1>9, <1>11
<1>16. q.next_index >= next /\ (p > 0 => q.next_index > next)
  BY <1>4, <1>9
<1>17. (/\ r.output.num_written = next /\ \A k \in D : k < r.output.num_read + cap
        /\ index + n <= r.output.num_read + cap)
       => /\ \A k \in index .. index + n - 1 : k < q.next_index \/ k \in DOMAIN q.unassembled
          /\ room > 0 /\ index <= next /\ next < index + n => q.next_index > next
  BY <1>9, <1>12, <1>16
<1>18. index >= next + room => DOMAIN q.unassembled \subseteq D
  <2> SUFFICES ASSUME index >= next + room PROVE DOMAIN q.unassembled \subseteq D
    OBVIOUS
  <2>1. start .. start + m - 1 = {}
    BY <1>3
  <2> QED BY <2>1, <1>7, <1>8, <1>9, ZenonT(60)
<1> QED BY <1>9, <1>13, <1>14, <1>15, <1>16, <1>17, <1>18, SMTT(60) DEF PushEffect, D, room, next
-----------------------------------------------------------------------------
(* Fed by a conforming peer with a stream of len bytes, the map stays      *)
(* inside the advertised window and the stream; once eof was seen the last *)
(* byte is assembled or waits in the map, and the end is announced exactly *)
(* when nothing waits any more.                                            *)
Conforms(r, cap, len) ==
    /\ r.output.num_written = r.next_index
    /\ r.next_index <= len
    /\ \A k \in DOMAIN r.unassembled : k < len /\ k < r.output.num_read + cap
    /\ r.if_eof => r.next_index = len \/ len - 1 \in DOMAIN r.unassembled
    /\ r.output.input_ended <=> r.if_eof /\ DOMAIN r.unassembled = {}

(* When the end is announced the whole stream was delivered, and the map   *)
(* is empty once the stream is assembled.                                  *)
LEMMA ConformsEnd ==
  ASSUME NEW cap \in Nat, NEW len \in Nat, NEW r, Sound(r, cap), Conforms(r, cap, len)
  PROVE  /\ r.output.input_ended => r.next_index = len
         /\ r.next_index = len => DOMAIN r.unassembled = {}
<1>1. DOMAIN r.unassembled \subseteq Nat /\ \A k \in DOMAIN r.unassembled : k >= r.next_index
  BY MapFacts DEF Sound, Reassemblers
<1> QED BY <1>1 DEF Conforms

(* The next index is one of the window the peer was told. *)
LEMMA ConformsWindow ==
  ASSUME NEW cap \in Nat, NEW len \in Nat, NEW r, Sound(r, cap), Conforms(r, cap, len)
  PROVE  /\ r.next_index \in Nat /\ r.output.num_read \in Nat
         /\ r.output.num_read <= r.next_index /\ r.next_index <= r.output.num_read + cap
<1> DEFINE room == remaining_capacity(r.output)
<1>1. /\ room \in Nat /\ room <= cap /\ r.next_index \in Nat /\ r.output.num_read \in Nat
      /\ r.output.num_written + room = r.output.num_read + cap
  BY RoomType
<1>2. r.output.num_written = r.next_index
  BY DEF Conforms
<1> HIDE DEF room
<1> QED BY <1>1, <1>2

(* push_substring keeps it so: the substring is inside the window, or it   *)
(* is the probe a sender puts just behind a window that is full.  The end  *)
(* mark of the stream does not come alone ahead of missing bytes.          *)
LEMMA PushConforms ==
  ASSUME NEW cap \in Nat, NEW len \in Nat, NEW r, Sound(r, cap), Conforms(r, cap, len),
         NEW index \in Nat, NEW n \in Nat, NEW is_eof \in BOOLEAN,
         index + n <= len, is_eof => index + n = len,
         is_eof => n > 0 \/ index <= r.next_index,
         \/ index + n <= r.output.num_read + cap
         \/ index >= r.output.num_read + cap /\ ~is_eof,
         NEW q, PushEffect(r, q, cap, index, n, is_eof)
  PROVE  Conforms(q, cap, len)
<1> DEFINE next == r.next_index
           next1 == q.next_index
           D == DOMAIN r.unassembled
           D1 == DOMAIN q.unassembled
           edge == r.output.num_read + cap
           room == remaining_capacity(r.output)
<1>1. /\ Sound(q, cap) /\ q.output.num_read = r.output.num_read /\ next1 >= next
      /\ (q.if_eof <=> r.if_eof \/ is_eof)
      /\ (r.output.input_ended => q.output = r.output)
      /\ (~r.output.input_ended => q.output.num_written = next1)
      /\ (q.output.input_ended <=> r.output.input_ended \/ (q.if_eof /\ D1 = {}))
      /\ D1 \subseteq D \cup index .. index + n - 1
      /\ \A k \in next .. next1 - 1 : k \in D \cup index .. index + n - 1
      /\ \A k \in D : k < next1 \/ k \in D1
      /\ (index >= next + room => D1 \subseteq D)
      /\ ((r.output.num_written = next /\ (\A k \in D : k < edge) /\ index + n <= edge)
            => \A k \in index .. index + n - 1 : k < next1 \/ k \in D1)
  BY DEF PushEffect
<1>2. /\ next \in Nat /\ next1 \in Nat /\ edge \in Nat /\ room \in Nat
      /\ r.output.num_written + room = edge
  BY <1>1, RoomType, SMTT(60)
<1>3. /\ r.output.num_written = next /\ next <= len
      /\ \A k \in D : k < len /\ k < edge
      /\ (r.if_eof => next = len \/ len - 1 \in D)
      /\ (r.output.input_ended <=> r.if_eof /\ D = {})
  BY DEF Conforms
<1>4. D1 \subseteq Nat /\ \A k \in D1 : k >= next1
  BY <1>1, MapFacts DEF Sound, Reassemblers
<1>5. index + n <= edge \/ (index >= next + room /\ ~is_eof)
  BY <1>2, <1>3
<1> HIDE DEF next, next1, D, D1, edge, room
<1>6. next1 <= len
  <2> SUFFICES ASSUME next1 > len PROVE FALSE
    BY <1>2
  <2>1. len \in D \cup index .. index + n - 1
    BY <1>1, <1>2, <1>3
  <2> QED BY <2>1, <1>3
<1>7. \A k \in D1 : k < len /\ k < edge
  BY <1>1, <1>2, <1>3, <1>5, SMTT(60)
<1>8. q.if_eof => next1 = len \/ len - 1 \in D1
  <2>1. CASE next = len
    BY <2>1, <1>1, <1>2, <1>6
  <2>2. CASE r.if_eof /\ len - 1 \in D
    BY <2>2, <1>1, <1>2, <1>6
  <2>3. CASE is_eof /\ n > 0
    <3>1. len - 1 \in index .. index + n - 1
      BY <2>3
    <3>2. len - 1 < next1 \/ len - 1 \in D1
      BY <2>3, <3>1, <1>1, <1>3, <1>5, SMTT(60)
    <3> QED BY <3>2, <1>2, <1>6
  <2>4. CASE is_eof /\ ~(n > 0)
    <3>1. next = len
      BY <2>4, <1>2, <1>3 DEF next
    <3> QED BY <2>1, <3>1
  <2> QED BY <1>1, <1>3, <2>1, <2>2, <2>3, <2>4, SMTT(60)
<1>9. r.output.input_ended => next = len
  BY <1>3
<1>10. q.output.num_written = next1
  <2>1. CASE r.output.input_ended
    <3>1. q.output.num_written = next /\ next = len
      BY <1>1, <1>3, <1>9, <2>1, SMTT(60)
    <3> QED BY <3>1, <1>1, <1>2, <1>6, SMTT(60)
  <2>2. CASE ~r.output.input_ended
    BY <1>1, <2>2
  <2> QED BY <2>1, <2>2
<1>11. q.output.input_ended <=> q.if_eof /\ D1 = {}
  <2>1. CASE r.output.input_ended
    <3>1. next1 = len /\ q.if_eof
      BY <1>1, <1>2, <1>3, <1>6, <1>9, <2>1, SMTT(60)
    <3>2. D1 = {}
      BY <3>1, <1>4, <1>7, SMTT(60)
    <3> QED BY <1>1, <2>1, <3>1, <3>2, SMTT(60)
  <2>2. CASE ~r.output.input_ended
    BY <1>1, <2>2, SMTT(60)
  <2> QED BY <2>1, <2>2
<1> QED BY <1>1, <1>6, <1>7, <1>8, <1>10, <1>11, SMTT(60) DEF Conforms, next1, D1, edge

(* ByteStream::read on the output: what is read continues the stream, and  *)
(* the reassembler stays sound.                                            *)
ReadEffect(r, q, cap, n) ==
    /\ Sound(q, cap)
    /\ q.next_index = r.next_index
    /\ q.output.num_written = r.output.num_written
    /\ q.output.input_ended = r.output.input_ended
    /\ q.output.num_read >= r.output.num_read
    /\ q.if_eof = r.if_eof
    /\ Substring(0, r.output.num_read) \o peek_output(r.output, n)
         = Substring(0, q.output.num_read)
    /\ \A len \in Nat : Conforms(r, cap, len) => Conforms(q, cap, len)

(* Reading takes the next genuine bytes and keeps the object sound         *)
(* (ByteStream::read on stream_out).                                       *)
LEMMA ReadFacts ==
  ASSUME NEW cap \in Nat, NEW r, Sound(r, cap), NEW n \in Nat,
         NEW q, q = [r EXCEPT !.output = pop_output(r.output, n)]
  PROVE  ReadEffect(r, q, cap, n)
<1> DEFINE out == r.output
           out1 == pop_output(r.output, n)
           k == Lesser(n, Len(out.buffer))
<1>1. /\ r \in Reassemblers(cap) /\ out \in ByteStreams(cap, Nat) /\ Genuine(out)
      /\ out.num_read \in Nat
  BY DEF Sound, Reassemblers, ByteStreams
<1>2. k \in Nat /\ peek_output(out, n) = Substring(out.num_read, k)
  BY <1>1, PeekGenuine, Zenon
<1>3. /\ out1 \in ByteStreams(cap, Nat) /\ Genuine(out1)
      /\ out1.num_read = out.num_read + k
      /\ out1.num_written = out.num_written /\ out1.input_ended = out.input_ended
  BY ONLY <1>1, cap \in Nat, n \in Nat, PopGenuine, SMTT(30)
<1> HIDE DEF out1, k
<1>4. /\ q \in Reassemblers(cap) /\ q.output = out1
      /\ q.unassembled = r.unassembled /\ q.next_index = r.next_index
      /\ q.unassembled_bytes = r.unassembled_bytes /\ q.if_eof = r.if_eof
  BY <1>1, <1>3, ZenonT(60) DEF Reassemblers, out1
<1>5. Sound(q, cap)
  BY <1>3, <1>4 DEF Sound
<1>6. Substring(0, out.num_read) \o peek_output(out, n) = Substring(0, q.output.num_read)
  <2>1. Substring(0, out.num_read) \o Substring(0 + out.num_read, k)
          = Substring(0, out.num_read + k)
    BY <1>1, <1>2, SubstringJoin, ZenonT(60)
  <2>2. 0 + out.num_read = out.num_read
    BY <1>1
  <2> QED BY <1>2, <1>3, <1>4, <2>1, <2>2, ZenonT(60)
<1>7. q.output.num_read >= out.num_read
  BY <1>1, <1>2, <1>3, <1>4
<1>8. ASSUME NEW len \in Nat, Conforms(r, cap, len) PROVE Conforms(q, cap, len)
  <2>1. DOMAIN r.unassembled \subseteq Nat
    BY <1>1, MapFacts DEF Reassemblers
  <2>2. \A i \in DOMAIN r.unassembled : i < len /\ i < q.output.num_read + cap
    BY <1>1, <1>2, <1>3, <1>4, <1>8, <2>1 DEF Conforms
  <2> QED BY <1>3, <1>4, <1>8, <2>2 DEF Conforms
<1> QED BY <1>3, <1>4, <1>5, <1>6, <1>7, <1>8, Zenon DEF ReadEffect

(* What was read and what is buffered are the bytes written so far. *)
LEMMA BufferFollows ==
  ASSUME NEW cap \in Nat, NEW r, Sound(r, cap)
  PROVE  Substring(0, r.output.num_read) \o r.output.buffer = Substring(0, r.output.num_written)
<1> DEFINE m == r.output.num_read
           l == Len(r.output.buffer)
<1>1. r.output.buffer = Substring(m, l) /\ r.output.num_written = m + l
  BY DEF Sound, Genuine
<1>2. m \in Nat /\ l \in Nat
  BY RoomType, Zenon
<1> HIDE DEF m, l
<1>3. 0 + m = m
  BY <1>2
<1>4. Substring(0, m) \o Substring(0 + m, l) = Substring(0, m + l)
  BY <1>2, SubstringJoin, Zenon
<1> QED BY <1>1, <1>3, <1>4, Zenon DEF m

(* A new object is sound and conforms. *)
LEMMA NewFacts ==
  ASSUME NEW cap \in Nat
  PROVE  /\ Sound(NewReassembler(cap), cap)
         /\ \A len \in Nat : Conforms(NewReassembler(cap), cap, len)
         /\ NewReassembler(cap).output = NewByteStream(cap)
         /\ NewReassembler(cap).next_index = 0 /\ NewReassembler(cap).if_eof = FALSE
<1> DEFINE r == NewReassembler(cap)
<1>1. Substring(0, 0) = <<>>
  BY DEF Substring
<1>2. DOMAIN <<>> = {} /\ <<>> = [k \in {} |-> k]
  OBVIOUS
<1>3. <<>> \in Maps /\ Cardinality({}) = 0
  BY <1>2, MapMade, FS_EmptySet, Zenon
<1>4. /\ r.output = NewByteStream(cap) /\ r.capacity = cap
      /\ r.unassembled = <<>> /\ r.unassembled_bytes = 0
      /\ r.if_eof = FALSE /\ r.next_index = 0
      /\ r.output.num_read = 0 /\ r.output.num_written = 0
      /\ r.output.buffer = <<>> /\ r.output.input_ended = FALSE
      /\ r.output.capacity = cap
  BY DEF NewReassembler, NewByteStream
<1>5. NewByteStream(cap) \in ByteStreams(cap, Nat)
  BY DEF NewByteStream, ByteStreams
<1>6. r \in Reassemblers(cap)
  BY <1>3, <1>5 DEF NewReassembler, Reassemblers
<1> HIDE DEF r
<1>7. Genuine(r.output)
  BY <1>1, <1>4 DEF Genuine
<1>8. Sound(r, cap)
  BY <1>2, <1>3, <1>4, <1>6, <1>7 DEF Sound
<1>9. \A len \in Nat : Conforms(r, cap, len)
  BY <1>2, <1>4 DEF Conforms
<1> QED BY <1>4, <1>8, <1>9 DEF r
=============================================================================
