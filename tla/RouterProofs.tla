---------------------------- MODULE RouterProofs ----------------------------
(***************************************************************************)
(* The loop over the routing table finds the longest matching route, for   *)
(* every table, every width of the addresses and every network.  An        *)
(* interface and a router pass on only the datagrams that are given to     *)
(* them; from this, the programs of lab7.cc, whose routers these are, bind *)
(* their adapters to one another as they should, for every Tick and        *)
(* lifetime and in every order of their steps.                             *)
(***************************************************************************)
EXTENDS RoutedNetwork, Lab7, SequenceTheorems, NaturalsInduction, WellFoundedInduction, TLAPS

(* A non-empty set of numbers has a least element. *)
LEMMA LeastExists ==
  ASSUME NEW W \in SUBSET Nat, W # {}
  PROVE  \E i \in W : \A j \in W : i <= j
<1> DEFINE R == OpToRel(<, Nat)
<1>1. IsWellFoundedOn(R, Nat)
  BY NatLessThanWellFounded, ZenonT(60)
<1>2. PICK t \in W : \A y \in W : ~(<<y, t>> \in R)
  <2> HIDE DEF R
  <2> QED BY <1>1, WFMin, ZenonT(60)
<1>3. ASSUME NEW y \in W PROVE t <= y
  <2>1. ~(y < t)
    BY <1>2, ZenonT(60) DEF OpToRel
  <2> QED BY <2>1, SMTT(60)
<1> QED BY <1>3

(* A set of numbers that holds 0 and, with k - 1, also k, up to n, holds   *)
(* every number up to n.                                                   *)
LEMMA UpTo ==
  ASSUME NEW n \in Nat, NEW W, 0 \in W, \A k \in 1 .. n : k - 1 \in W => k \in W
  PROVE  \A k \in 0 .. n : k \in W
<1> DEFINE V == {k \in 0 .. n : k \notin W}
<1>1. V \in SUBSET Nat
  OBVIOUS
<1>2. CASE V = {}
  BY <1>2
<1>3. CASE V # {}
  <2> HIDE DEF V
  <2>1. PICK k \in V : \A j \in V : k <= j
    BY <1>1, <1>3, LeastExists, SMTT(60)
  <2>2. k \in 0 .. n /\ k \notin W
    BY <2>1 DEF V
  <2>3. k \in 1 .. n /\ k - 1 \in 0 .. n /\ k - 1 < k
    BY <2>2
  <2>4. k - 1 \notin V
    BY <2>1, <2>3, SMTT(60)
  <2>5. k - 1 \in W
    BY <2>3, <2>4 DEF V
  <2> QED BY <2>2, <2>3, <2>5
<1> QED BY <1>2, <1>3

(* Clearing the low bits of an address and comparing the high bits is the  *)
(* same when the other number has no low bits (router.cc:66).              *)
LEMMA ClearedIsHigh ==
  ASSUME NEW a \in Nat, NEW p \in Nat, NEW low \in Nat \ {0}, p % low = 0
  PROVE  a - (a % low) = p <=> a \div low = p \div low
<1>1. /\ a \div low \in Int /\ a % low \in Int /\ a = low * (a \div low) + (a % low)
      /\ p \div low \in Int /\ p = low * (p \div low) + (p % low)
  BY SMT
<1> DEFINE x == a \div low
           y == p \div low
<1>2. a - (a % low) = low * x /\ p = low * y /\ x \in Int /\ y \in Int
  BY <1>1
<1> HIDE DEF x, y
<1>3. low * x = low * y <=> x = y
  BY <1>2, SMT
<1> QED BY <1>2, <1>3, SMTT(60) DEF x, y

(* A number below low has no high bits. *)
LEMMA SmallHasNoHigh ==
  ASSUME NEW low \in Nat \ {0}, NEW a \in 0 .. low - 1
  PROVE  a \div low = 0 /\ a % low = a
  BY SMT
-----------------------------------------------------------------------------
(* A route whose prefix has no bits set below its length: the premise of   *)
(* the theorems, for without it the property fails (a route with such bits *)
(* matches no address).                                                    *)
IsRoute(x) ==
    /\ x.prefix_length \in 0 .. AddressBits
    /\ x.route_prefix \in Addresses
    /\ x.route_prefix % 2^(AddressBits - x.prefix_length) = 0

IsList(s) == \E S : s \in Seq(S)
IsTable(table) ==
    /\ IsList(table)
    /\ \A i \in 1 .. Len(table) : IsRoute(table[i])

(* A list has a length, and is determined by its elements. *)
LEMMA ListFacts ==
  ASSUME NEW s, IsList(s)
  PROVE  Len(s) \in Nat /\ s = [i \in 1 .. Len(s) |-> s[i]]
<1>1. PICK S : s \in Seq(S)
  BY DEF IsList
<1> QED BY <1>1, LenProperties, SMTT(60)

(* A function on 1 .. n is a list of length n. *)
LEMMA ListOf ==
  ASSUME NEW n \in Nat, NEW f, f = [i \in 1 .. n |-> f[i]]
  PROVE  IsList(f) /\ Len(f) = n
<1> DEFINE S == {f[i] : i \in 1 .. n}
<1>1. f \in [1 .. n -> S]
  OBVIOUS
<1> HIDE DEF S
<1>2. f \in Seq(S)
  BY <1>1, SeqDef
<1>3. Len(f) \in Nat /\ DOMAIN f = 1 .. Len(f)
  BY <1>2, LenProperties, SMTT(60)
<1>4. 1 .. Len(f) = 1 .. n
  BY <1>1, <1>3, SMTT(60)
<1>5. Len(f) = n
  BY <1>3, <1>4
<1> QED BY <1>2, <1>5, SMTT(60) DEF IsList

(* Two lists in a row are a list. *)
LEMMA ListConcat ==
  ASSUME NEW s, IsList(s), NEW t, IsList(t)
  PROVE  IsList(s \o t)
<1>1. PICK S, T : s \in Seq(S) /\ t \in Seq(T)
  BY DEF IsList
<1>2. s \in Seq(S \cup T) /\ t \in Seq(S \cup T)
  BY <1>1, SeqDef
<1>3. s \o t \in Seq(S \cup T)
  BY <1>2, ConcatProperties
<1> QED BY <1>3 DEF IsList

(* A route matches the addresses that agree with its prefix. *)
LEMMA MatchIsAgreement ==
  ASSUME NEW x, IsRoute(x), NEW addr \in Addresses
  PROVE  Matches(x, addr) <=> LET low == 2^(AddressBits - x.prefix_length)
                              IN  addr \div low = x.route_prefix \div low
<1> DEFINE low == 2^(AddressBits - x.prefix_length)
<1>1. AddressBits - x.prefix_length \in 0 .. AddressBits /\ x.prefix_length \in 0 .. AddressBits
  BY BitsAssumption DEF IsRoute
<1>2. low \in Nat \ {0} /\ 2^AddressBits \in Nat \ {0}
  BY <1>1, BitsAssumption, SMTT(60)
<1>3. /\ addr \in Nat /\ addr < 2^AddressBits /\ x.route_prefix \in Nat
      /\ x.route_prefix < 2^AddressBits /\ x.route_prefix % low = 0
  BY <1>2 DEF IsRoute, Addresses
<1>4. CASE x.prefix_length = 0
  <2>1. low = 2^AddressBits
    BY <1>4, BitsAssumption
  <2> HIDE DEF low
  <2>2. addr \div low = 0 /\ x.route_prefix \div low = 0 /\ x.route_prefix % low = x.route_prefix
    BY <1>2, <1>3, <2>1, SmallHasNoHigh, SMTT(60)
  <2>3. x.route_prefix = 0
    BY <1>3, <2>2, SMTT(60)
  <2>4. Matches(x, addr)
    BY <1>4, <2>3, SMTT(60) DEF Matches, Masked
  <2> QED BY <2>2, <2>4 DEF low
<1>5. CASE x.prefix_length # 0
  <2> DEFINE p == x.route_prefix
  <2>1. Matches(x, addr) <=> addr - (addr % low) = p
    BY <1>5 DEF Matches, Masked
  <2>2. addr \in Nat /\ p \in Nat /\ low \in Nat \ {0} /\ p % low = 0
    BY <1>2, <1>3, SMTT(60)
  <2> HIDE DEF low, p
  <2>3. (addr - (addr % low) = p) <=> (addr \div low = p \div low)
    BY ONLY <2>2, ClearedIsHigh, ZenonT(60)
  <2> QED BY <2>1, <2>3, SMTT(60) DEF low, p
<1> QED BY <1>4, <1>5
-----------------------------------------------------------------------------
(* The loop over the table, as a function of the number of routes seen.    *)
Length(table, i) == IF i = 0 THEN -1 ELSE table[i].prefix_length
Better(table, addr, i, b) ==
    IF Matches(table[i], addr) /\ Length(table, i) > Length(table, b) THEN i ELSE b
Scan(table, addr, n, f) ==
    f = [i \in 0 .. n |-> IF i = 0 THEN 0 ELSE Better(table, addr, i, f[i - 1])]

(* The loop ends with such a function. *)
LEMMA TableLoop ==
  ASSUME NEW table, Len(table) \in Nat, NEW addr
  PROVE  \E f : Scan(table, addr, Len(table), f) /\ longest_prefix_match(table, addr) = f[Len(table)]
<1> DEFINE n == Len(table)
           W == {k \in 0 .. n : \E f : Scan(table, addr, k, f)}
<1>1. 0 \in W
  <2>1. Scan(table, addr, 0, [i \in 0 .. 0 |-> 0])
    BY DEF Scan
  <2> QED BY <2>1
<1>2. ASSUME NEW k \in 1 .. n, k - 1 \in W PROVE k \in W
  <2>1. PICK g : Scan(table, addr, k - 1, g)
    BY <1>2
  <2> DEFINE f == [i \in 0 .. k |-> IF i = k THEN Better(table, addr, k, g[k - 1]) ELSE g[i]]
  <2>2. g = [i \in 0 .. k - 1 |-> IF i = 0 THEN 0 ELSE Better(table, addr, i, g[i - 1])]
    BY <2>1, ZenonT(60) DEF Scan
  <2>3. \A i \in 0 .. k : f[i] = IF i = 0 THEN 0 ELSE Better(table, addr, i, f[i - 1])
    BY <2>2
  <2>4. Scan(table, addr, k, f)
    BY <2>3, SMTT(60) DEF Scan
  <2> QED BY <2>4
<1> HIDE DEF W
<1>3. n \in W
  <2>1. \A k \in 0 .. n : k \in W
    BY <1>1, <1>2, UpTo, ZenonT(60)
  <2> QED BY <2>1
<1>4. \E f : Scan(table, addr, n, f)
  BY <1>3 DEF W
<1> DEFINE F == CHOOSE f : Scan(table, addr, n, f)
<1>5. Scan(table, addr, n, F)
  BY <1>4, Zenon
<1>6. longest_prefix_match(table, addr) = F[n]
  BY Zenon DEF longest_prefix_match, Scan, Better, Length
<1> QED BY <1>5, <1>6, ZenonT(60)

(* The route found among the first k is the longest of those that match,   *)
(* and the first of several; there is none if none matches.                *)
BestOf(table, addr, k, m) ==
    IF \A j \in 1 .. k : ~Matches(table[j], addr) THEN m = 0
    ELSE /\ m \in 1 .. k /\ Matches(table[m], addr)
         /\ \A j \in 1 .. k : Matches(table[j], addr) =>
                \/ table[j].prefix_length < table[m].prefix_length
                \/ table[j].prefix_length = table[m].prefix_length /\ m <= j

(* longest_prefix_match finds it in the whole table. *)
LEMMA LoopFindsBest ==
  ASSUME NEW table, IsTable(table), NEW addr
  PROVE  BestOf(table, addr, Len(table), longest_prefix_match(table, addr))
<1> DEFINE n == Len(table)
<1>1. n \in Nat /\ \A i \in 1 .. n : table[i].prefix_length \in Nat
  BY BitsAssumption, ListFacts, SMTT(60) DEF IsTable, IsRoute
<1>2. PICK f : Scan(table, addr, n, f) /\ longest_prefix_match(table, addr) = f[n]
  BY <1>1, TableLoop, SMTT(60)
<1>3. \A i \in 0 .. n : f[i] = IF i = 0 THEN 0 ELSE Better(table, addr, i, f[i - 1])
  BY <1>2 DEF Scan
<1> DEFINE W == {k \in 0 .. n : BestOf(table, addr, k, f[k])}
<1>4. 0 \in W
  BY <1>1, <1>3, SMTT(60) DEF BestOf
<1>5. ASSUME NEW k \in 1 .. n, k - 1 \in W PROVE k \in W
  <2> DEFINE b == f[k - 1]
  <2>1. f[k] = Better(table, addr, k, b) /\ BestOf(table, addr, k - 1, b)
    BY <1>1, <1>3, <1>5, SMTT(60)
  <2>2. k \in Nat /\ table[k].prefix_length \in Nat /\ \A j \in 1 .. k : j \in 1 .. k - 1 \/ j = k
    BY <1>1, SMTT(60)
  <2> HIDE DEF b
  <2>3. CASE ~Matches(table[k], addr)
    <3>1. f[k] = b
      BY <2>1, <2>3, SMTT(60) DEF Better
    <3> QED BY <2>1, <2>2, <2>3, <3>1, SMTT(60) DEF BestOf
  <2>4. CASE Matches(table[k], addr) /\ b = 0
    <3>1. f[k] = k
      BY <2>1, <2>2, <2>4, SMTT(60) DEF Better, Length
    <3>2. \A j \in 1 .. k - 1 : ~Matches(table[j], addr)
      BY <2>1, <2>4 DEF BestOf
    <3> QED BY <2>2, <2>4, <3>1, <3>2, SMTT(60) DEF BestOf
  <2>5. CASE Matches(table[k], addr) /\ b # 0
    <3>1. /\ b \in 1 .. k - 1 /\ Matches(table[b], addr) /\ table[b].prefix_length \in Nat
          /\ \A j \in 1 .. k - 1 : Matches(table[j], addr) =>
                \/ table[j].prefix_length < table[b].prefix_length
                \/ table[j].prefix_length = table[b].prefix_length /\ b <= j
      BY <1>1, <2>1, <2>5, SMTT(60) DEF BestOf
    <3>2. CASE table[k].prefix_length > table[b].prefix_length
      <4>1. f[k] = k
        BY <2>1, <2>2, <2>5, <3>1, <3>2, SMTT(60) DEF Better, Length
      <4>2. \A j \in 1 .. k - 1 : Matches(table[j], addr) =>
                table[j].prefix_length < table[k].prefix_length
        BY <1>1, <2>2, <3>1, <3>2, SMTT(60)
      <4> QED BY <2>2, <2>5, <4>1, <4>2, SMTT(60) DEF BestOf
    <3>3. CASE ~(table[k].prefix_length > table[b].prefix_length)
      <4>1. f[k] = b
        BY <2>1, <2>2, <2>5, <3>1, <3>3, SMTT(60) DEF Better, Length
      <4> QED BY <2>2, <2>5, <3>1, <3>3, <4>1 DEF BestOf
    <3> QED BY <3>2, <3>3
  <2> QED BY <2>3, <2>4, <2>5, SMTT(60)
<1> HIDE DEF W
<1>6. \A k \in 0 .. n : k \in W
  BY <1>1, <1>4, <1>5, UpTo, ZenonT(60)
<1> QED BY <1>1, <1>2, <1>6 DEF W

(* The loop of route_one_datagram implements longest-prefix match on every *)
(* table of aligned routes and for every address.                          *)
THEOREM LongestMatch ==
  ASSUME NEW table, IsTable(table), NEW addr \in Addresses
  PROVE  LET m == longest_prefix_match(table, addr)
         IN  IF Agreeing(table, addr) = {} THEN m = 0 ELSE IsLongest(table, addr, m)
<1> DEFINE m == longest_prefix_match(table, addr)
<1>1. BestOf(table, addr, Len(table), m)
  BY LoopFindsBest
<1>2. Agreeing(table, addr) = {i \in 1 .. Len(table) : Matches(table[i], addr)}
  BY MatchIsAgreement DEF Agreeing, IsTable
<1> HIDE DEF m
<1>3. IF Agreeing(table, addr) = {} THEN m = 0 ELSE IsLongest(table, addr, m)
  BY <1>1, <1>2 DEF BestOf, IsLongest
<1> QED BY <1>3 DEF m
-----------------------------------------------------------------------------
(* What an interface and a router are made of. *)
IsAsync(itf) ==
    /\ itf = [base |-> itf.base, datagrams_out |-> itf.datagrams_out]
    /\ IsList(itf.datagrams_out)
IsRouter(r) ==
    /\ r = [interfaces |-> r.interfaces, routing_table |-> r.routing_table]
    /\ IsList(r.interfaces)
    /\ \A i \in 1 .. Len(r.interfaces) : IsAsync(r.interfaces[i])

(* An interface with an empty queue is one. *)
LEMMA EmptyMade ==
  ASSUME NEW b, NEW itf, itf = [base |-> b, datagrams_out |-> <<>>]
  PROVE  IsAsync(itf)
<1>1. IsList(<<>>)
  BY EmptySeq DEF IsList
<1>2. itf.base = b /\ itf.datagrams_out = <<>>
  OBVIOUS
<1> QED BY <1>1, <1>2, ZenonT(60) DEF IsAsync

(* Interfaces in a row. *)
AllAsync(s) == IsList(s) /\ \A i \in 1 .. Len(s) : IsAsync(s[i])

(* They and a table make a router. *)
LEMMA RouterMade ==
  ASSUME NEW s, AllAsync(s), NEW t, NEW q, q = [interfaces |-> s, routing_table |-> t]
  PROVE  IsRouter(q) /\ q.routing_table = t
<1>1. q.interfaces = s /\ q.routing_table = t
  OBVIOUS
<1> QED BY <1>1, ZenonT(60) DEF IsRouter, AllAsync

(* q is a router with the table of r and as many interfaces. *)
Keeps(r, q) == IsRouter(q) /\ q.routing_table = r.routing_table /\ Len(q.interfaces) = Len(r.interfaces)

(* A change of one interface leaves the router a router with its table. *)
LEMMA ChangeKeeps ==
  ASSUME NEW r, IsRouter(r), NEW q, NEW k, NEW x, IsAsync(x),
         q = [r EXCEPT !.interfaces = [r.interfaces EXCEPT ![k] = x]]
  PROVE  Keeps(r, q)
<1> DEFINE n == Len(r.interfaces)
           s == [r.interfaces EXCEPT ![k] = x]
<1>1. n \in Nat /\ r.interfaces = [i \in 1 .. n |-> r.interfaces[i]]
  BY ListFacts DEF IsRouter
<1>2. s = [i \in 1 .. n |-> s[i]] /\ \A i \in 1 .. n : s[i] = IF i = k THEN x ELSE r.interfaces[i]
  BY <1>1, SMTT(60)
<1>3. q = [interfaces |-> s, routing_table |-> r.routing_table]
  BY DEF IsRouter
<1> HIDE DEF n, s
<1>4. IsList(s) /\ Len(s) = n
  BY <1>1, <1>2, ListOf
<1>5. \A i \in 1 .. Len(s) : IsAsync(s[i])
  BY <1>2, <1>4, SMTT(60) DEF IsRouter, n
<1> QED BY <1>3, <1>4, <1>5, SMTT(60) DEF Keeps, IsRouter, n

(* Router::route_one_datagram leaves the table alone. *)
LEMMA OneKeeps ==
  ASSUME NEW r, IsRouter(r), NEW d
  PROVE  Keeps(r, route_one_datagram(r, d))
<1> DEFINE q == route_one_datagram(r, d)
<1>1. CASE q = r
  BY <1>1 DEF Keeps
<1>2. CASE q # r
  <2> DEFINE m == longest_prefix_match(r.routing_table, d.dst)
             k == r.routing_table[m].interface_num
             sd == send_datagram(r.interfaces[k].base, [d EXCEPT !.ttl = @ - 1],
                                 NextHop(r.routing_table[m], d.dst))
             x == [r.interfaces[k] EXCEPT !.base = sd]
  <2>1. q = [r EXCEPT !.interfaces = [r.interfaces EXCEPT ![k] = x]]
    BY <1>2, ZenonT(60) DEF route_one_datagram
  <2> HIDE DEF q, sd, k
  <2>2. CASE k \in 1 .. Len(r.interfaces)
    <3>1. IsAsync(r.interfaces[k])
      BY <2>2 DEF IsRouter
    <3>2. x = [base |-> sd, datagrams_out |-> r.interfaces[k].datagrams_out]
      BY <3>1 DEF IsAsync
    <3>3. IsAsync(x)
      BY <3>1, <3>2 DEF IsAsync
    <3> HIDE DEF x
    <3>4. Keeps(r, q)
      BY <2>1, <3>3, ChangeKeeps, SMTT(60)
    <3> QED BY <3>4 DEF q
  <2>3. CASE k \notin 1 .. Len(r.interfaces)
    <3>1. r.interfaces = [i \in 1 .. Len(r.interfaces) |-> r.interfaces[i]]
      BY ListFacts DEF IsRouter
    <3> HIDE DEF x
    <3>2. [r.interfaces EXCEPT ![k] = x] = r.interfaces
      BY <2>3, <3>1
    <3>3. q = r
      BY <2>1, <3>2 DEF IsRouter
    <3> QED BY <1>2, <3>3
  <2> QED BY <2>2, <2>3, SMTT(60)
<1> QED BY <1>1, <1>2

(* The loop over a queue, as a function of the number of datagrams routed. *)
Drain(r, queue, n, f) ==
    f = [k \in 0 .. n |-> IF k = 0 THEN r ELSE route_one_datagram(f[k - 1], queue[k])]

(* The loop ends with such a function. *)
LEMMA QueueLoop ==
  ASSUME NEW r, NEW queue, Len(queue) \in Nat
  PROVE  \E f : Drain(r, queue, Len(queue), f) /\ route_queue(r, queue) = f[Len(queue)]
<1> DEFINE n == Len(queue)
           W == {k \in 0 .. n : \E f : Drain(r, queue, k, f)}
<1>1. 0 \in W
  <2>1. Drain(r, queue, 0, [i \in 0 .. 0 |-> r])
    BY DEF Drain
  <2> QED BY <2>1
<1>2. ASSUME NEW k \in 1 .. n, k - 1 \in W PROVE k \in W
  <2>1. PICK g : Drain(r, queue, k - 1, g)
    BY <1>2
  <2> DEFINE f == [i \in 0 .. k |-> IF i = k THEN route_one_datagram(g[k - 1], queue[k]) ELSE g[i]]
  <2>2. g = [i \in 0 .. k - 1 |-> IF i = 0 THEN r ELSE route_one_datagram(g[i - 1], queue[i])]
    BY <2>1, Zenon DEF Drain
  <2>3. \A i \in 0 .. k : f[i] = IF i = 0 THEN r ELSE route_one_datagram(f[i - 1], queue[i])
    BY <2>2
  <2>4. Drain(r, queue, k, f)
    BY <2>3 DEF Drain
  <2> QED BY <2>4
<1> HIDE DEF W
<1>3. n \in W
  <2>1. \A k \in 0 .. n : k \in W
    BY <1>1, <1>2, UpTo, ZenonT(60)
  <2> QED BY <2>1
<1>4. \E f : Drain(r, queue, n, f)
  BY <1>3 DEF W
<1> DEFINE F == CHOOSE f : Drain(r, queue, n, f)
<1>5. Drain(r, queue, n, F)
  BY <1>4, Zenon
<1>6. route_queue(r, queue) = F[n]
  BY Zenon DEF route_queue, Drain
<1> QED BY <1>5, <1>6, ZenonT(60)

(* Routing a queue leaves the table alone. *)
LEMMA QueueKeeps ==
  ASSUME NEW r, IsRouter(r), NEW queue, IsList(queue)
  PROVE  Keeps(r, route_queue(r, queue))
<1> DEFINE n == Len(queue)
<1>1. n \in Nat
  BY ListFacts
<1>2. PICK f : Drain(r, queue, n, f) /\ route_queue(r, queue) = f[n]
  BY <1>1, QueueLoop
<1>3. \A k \in 0 .. n : f[k] = IF k = 0 THEN r ELSE route_one_datagram(f[k - 1], queue[k])
  BY <1>2 DEF Drain
<1> DEFINE W == {k \in 0 .. n : Keeps(r, f[k])}
<1>4. 0 \in W
  BY <1>1, <1>3 DEF Keeps
<1>5. ASSUME NEW k \in 1 .. n, k - 1 \in W PROVE k \in W
  <2>1. f[k] = route_one_datagram(f[k - 1], queue[k]) /\ Keeps(r, f[k - 1]) /\ k \in 0 .. n
    BY <1>1, <1>3, <1>5, SMTT(60)
  <2>2. Keeps(f[k - 1], f[k])
    BY <2>1, OneKeeps DEF Keeps
  <2>3. Keeps(r, f[k])
    BY <2>1, <2>2 DEF Keeps
  <2> QED BY <2>1, <2>3
<1> HIDE DEF W
<1>6. \A k \in 0 .. n : k \in W
  BY <1>1, <1>4, <1>5, UpTo, ZenonT(60)
<1> QED BY <1>1, <1>2, <1>6 DEF W

(* The loop over the interfaces, as a function of the number of queues     *)
(* emptied.                                                                *)
Emptied(s, i) == [s EXCEPT !.interfaces[i].datagrams_out = <<>>]
Turn(r, s, i) == route_queue(Emptied(s, i), r.interfaces[i].datagrams_out)
Turns(r, n, f) == f = [i \in 0 .. n |-> IF i = 0 THEN r ELSE Turn(r, f[i - 1], i)]

(* The loop ends with such a function. *)
LEMMA RouteLoop ==
  ASSUME NEW r, Len(r.interfaces) \in Nat
  PROVE  \E f : Turns(r, Len(r.interfaces), f) /\ route(r) = f[Len(r.interfaces)]
<1> DEFINE n == Len(r.interfaces)
           W == {k \in 0 .. n : \E f : Turns(r, k, f)}
<1>1. 0 \in W
  <2>1. Turns(r, 0, [i \in 0 .. 0 |-> r])
    BY DEF Turns
  <2> QED BY <2>1
<1>2. ASSUME NEW k \in 1 .. n, k - 1 \in W PROVE k \in W
  <2>1. PICK g : Turns(r, k - 1, g)
    BY <1>2
  <2> DEFINE f == [i \in 0 .. k |-> IF i = k THEN Turn(r, g[k - 1], k) ELSE g[i]]
  <2>2. g = [i \in 0 .. k - 1 |-> IF i = 0 THEN r ELSE Turn(r, g[i - 1], i)]
    BY <2>1, ZenonT(60) DEF Turns
  <2>3. \A i \in 0 .. k : f[i] = IF i = 0 THEN r ELSE Turn(r, f[i - 1], i)
    BY <2>2
  <2>4. Turns(r, k, f)
    BY <2>3 DEF Turns
  <2> QED BY <2>4
<1> HIDE DEF W
<1>3. n \in W
  <2>1. \A k \in 0 .. n : k \in W
    BY <1>1, <1>2, UpTo, ZenonT(60)
  <2> QED BY <2>1
<1>4. \E f : Turns(r, n, f)
  BY <1>3 DEF W
<1> DEFINE F == CHOOSE f : Turns(r, n, f)
<1>5. Turns(r, n, F)
  BY <1>4, Zenon
<1>6. route(r) = F[n]
  BY Zenon DEF route, Turns, Turn, Emptied
<1> QED BY <1>5, <1>6, ZenonT(60)

(* Router::route leaves the table alone. *)
LEMMA RouteKeeps ==
  ASSUME NEW r, IsRouter(r)
  PROVE  Keeps(r, route(r))
<1> DEFINE n == Len(r.interfaces)
<1>1. n \in Nat
  BY ListFacts DEF IsRouter
<1>2. PICK f : Turns(r, n, f) /\ route(r) = f[n]
  BY <1>1, RouteLoop, SMTT(60)
<1>3. \A i \in 0 .. n : f[i] = IF i = 0 THEN r ELSE Turn(r, f[i - 1], i)
  BY <1>2, SMTT(60) DEF Turns
<1> DEFINE W == {i \in 0 .. n : Keeps(r, f[i])}
<1>4. 0 \in W
  BY <1>1, <1>3 DEF Keeps
<1>5. ASSUME NEW i \in 1 .. n, i - 1 \in W PROVE i \in W
  <2> DEFINE s == f[i - 1]
             x == [s.interfaces[i] EXCEPT !.datagrams_out = <<>>]
             e == [s EXCEPT !.interfaces = [s.interfaces EXCEPT ![i] = x]]
  <2>1. f[i] = Turn(r, s, i) /\ Keeps(r, s) /\ i \in 0 .. n
    BY <1>1, <1>3, <1>5, SMTT(60)
  <2> HIDE DEF s
  <2>2. IsRouter(s) /\ IsAsync(s.interfaces[i]) /\ IsAsync(r.interfaces[i])
    BY <2>1 DEF Keeps, IsRouter
  <2>3. x = [base |-> s.interfaces[i].base, datagrams_out |-> <<>>]
    BY <2>2 DEF IsAsync
  <2>4. IsList(<<>>)
    BY EmptySeq DEF IsList
  <2>5. IsAsync(x)
    BY <2>3, <2>4, SMTT(60) DEF IsAsync
  <2>6. Emptied(s, i) = e
    BY ZenonT(60) DEF Emptied
  <2> HIDE DEF x
  <2>7. Keeps(s, e)
    BY <2>2, <2>5, ChangeKeeps, SMTT(60)
  <2> HIDE DEF e
  <2>8. IsRouter(e) /\ IsList(r.interfaces[i].datagrams_out)
    BY <2>2, <2>7 DEF Keeps, IsAsync
  <2>9. Keeps(e, f[i])
    BY <2>1, <2>6, <2>8, QueueKeeps, SMTT(60) DEF Turn
  <2>10. Keeps(r, f[i])
    BY <2>1, <2>7, <2>9, SMTT(60) DEF Keeps
  <2> QED BY <2>1, <2>10, SMTT(60)
<1> HIDE DEF W
<1>6. \A i \in 0 .. n : i \in W
  BY <1>1, <1>4, <1>5, UpTo, ZenonT(60)
<1> QED BY <1>1, <1>2, <1>6 DEF W

(* The arrival of a frame at an interface, or its departure, leaves the    *)
(* interface an interface.                                                 *)
LEMMA ExchangedKeeps ==
  ASSUME NEW itf, IsAsync(itf), NEW from, NEW frame
  PROVE  IsAsync(Exchanged(itf, from, frame))
<1> DEFINE q == Exchanged(itf, from, frame)
<1>1. CASE q = [itf EXCEPT !.base.frames_out = Tail(@)]
  <2>1. q = [base |-> q.base, datagrams_out |-> itf.datagrams_out]
    BY <1>1, Zenon DEF IsAsync
  <2> QED BY <2>1 DEF IsAsync
<1>2. CASE q = async_recv_frame(itf, frame)
  <2>1. received(itf.base, frame) = <<>> \/ received(itf.base, frame) = <<frame.payload>>
    BY DEF received
  <2>2. <<frame.payload>> \in Seq({frame.payload}) /\ <<>> \in Seq({frame.payload})
    BY EmptySeq
  <2>3. IsList(received(itf.base, frame))
    BY <2>1, <2>2, Zenon DEF IsList
  <2>4. IsList(itf.datagrams_out \o received(itf.base, frame))
    BY <2>3, ListConcat DEF IsAsync
  <2>5. q = [base |-> recv_frame(itf.base, frame),
             datagrams_out |-> itf.datagrams_out \o received(itf.base, frame)]
    BY <1>2 DEF async_recv_frame
  <2> QED BY <2>4, <2>5 DEF IsAsync
<1>3. CASE q = itf
  BY <1>3
<1>4. q = [itf EXCEPT !.base.frames_out = Tail(@)] \/ q = async_recv_frame(itf, frame) \/ q = itf
  BY DEF Exchanged
<1> QED BY <1>1, <1>2, <1>3, <1>4
-----------------------------------------------------------------------------
(* The routes that a network starts with and may get are aligned. *)
RoutesAreAligned ==
    \A r \in Routers : IsTable(FirstRoutes[r]) /\ \A x \in MoreRoutes[r] : IsRoute(x)

(* The routers stay routers with tables of aligned routes. *)
TablesInv ==
    /\ DOMAIN router = Routers
    /\ \A r \in Routers : IsRouter(router[r]) /\ IsTable(router[r].routing_table)

(* It holds at first. *)
LEMMA InitTables ==
  ASSUME RoutesAreAligned, Init
  PROVE  TablesInv
<1> SUFFICES ASSUME NEW r \in Routers
             PROVE  IsRouter(router[r]) /\ IsTable(router[r].routing_table)
  BY DEF Init, TablesInv
<1> DEFINE n == Len(Ports[r])
           s == [i \in 1 .. n |-> AsyncInterface(EthernetOf(Ports[r][i]), Ports[r][i])]
<1>1. n \in Nat
  BY NetworkAssumption, LenProperties
<1>2. router[r] = [interfaces |-> s, routing_table |-> FirstRoutes[r]]
  BY Zenon DEF Init, NewRouter
<1>3. s = [i \in 1 .. n |-> s[i]] /\ \A i \in 1 .. n : IsAsync(s[i])
  <2>1. \A i \in 1 .. n : s[i] = [base |-> NewInterface(EthernetOf(Ports[r][i]), Ports[r][i]),
                                   datagrams_out |-> <<>>]
    BY DEF AsyncInterface
  <2>2. \A i \in 1 .. n : IsAsync(s[i])
    BY <2>1, EmptyMade, ZenonT(60)
  <2>3. s = [i \in 1 .. n |-> s[i]]
    OBVIOUS
  <2> QED BY <2>2, <2>3, SMTT(60)
<1> HIDE DEF n, s
<1>4. IsList(s) /\ Len(s) = n
  BY <1>1, <1>3, ListOf, SMTT(60)
<1>5. AllAsync(s)
  BY <1>3, <1>4, ZenonT(60) DEF AllAsync
<1>6. IsRouter(router[r]) /\ router[r].routing_table = FirstRoutes[r]
  BY <1>2, <1>5, RouterMade, SMTT(60)
<1> QED BY <1>6 DEF RoutesAreAligned

(* Router::add_route appends an aligned route. *)
LEMMA AddKeeps ==
  ASSUME NEW r, IsRouter(r), IsTable(r.routing_table), NEW x, IsRoute(x)
  PROVE  IsRouter(add_route(r, x)) /\ IsTable(add_route(r, x).routing_table)
<1> DEFINE t == r.routing_table
<1>1. add_route(r, x) = [interfaces |-> r.interfaces, routing_table |-> Append(t, x)]
  BY SMTT(60) DEF add_route, IsRouter
<1>2. PICK S : t \in Seq(S)
  BY DEF IsTable, IsList
<1>3. t \in Seq(S \cup {x})
  BY <1>2, SeqDef
<1> HIDE DEF t
<1>4. /\ Append(t, x) \in Seq(S \cup {x}) /\ Len(Append(t, x)) = Len(t) + 1 /\ Len(t) \in Nat
      /\ \A i \in 1 .. Len(t) : Append(t, x)[i] = t[i]
      /\ Append(t, x)[Len(t) + 1] = x
  BY <1>3, AppendProperties
<1>5. \A i \in 1 .. Len(Append(t, x)) : IsRoute(Append(t, x)[i])
  BY <1>4 DEF IsTable, t
<1> QED BY <1>1, <1>4, <1>5, SMTT(60) DEF IsRouter, IsTable, IsList

(* Every step keeps it. *)
LEMMA NextTables ==
  ASSUME RoutesAreAligned, TablesInv, [Next]_vars
  PROVE  TablesInv'
<1>1. ASSUME router' = router PROVE TablesInv'
  BY <1>1 DEF TablesInv
<1>2. ASSUME NEW itf, Exchange(itf) PROVE TablesInv'
  <2> DEFINE from == itf.base.ip_address
             frame == Head(itf.base.frames_out)
             after(r) == [i \in 1 .. Len(router[r].interfaces) |->
                             Exchanged(router[r].interfaces[i], from, frame)]
  <2>1. router' = [r \in Routers |-> [router[r] EXCEPT !.interfaces = after(r)]]
    BY <1>2 DEF Exchange
  <2> HIDE DEF from, frame
  <2> SUFFICES ASSUME NEW r \in Routers
               PROVE  IsRouter(router'[r]) /\ IsTable(router'[r].routing_table)
    BY <2>1, Zenon DEF TablesInv
  <2>2. IsRouter(router[r]) /\ IsTable(router[r].routing_table)
    BY DEF TablesInv
  <2>3. router'[r] = [interfaces |-> after(r), routing_table |-> router[r].routing_table]
    BY <2>1, <2>2, ZenonT(60) DEF IsRouter
  <2> DEFINE n == Len(router[r].interfaces)
             s == after(r)
  <2>4. n \in Nat
    BY <2>2, ListFacts DEF IsRouter
  <2>5. s = [i \in 1 .. n |-> s[i]] /\ \A i \in 1 .. n : IsAsync(s[i])
    BY <2>2, ExchangedKeeps DEF IsRouter
  <2> HIDE DEF n, s
  <2>6. IsList(s) /\ Len(s) = n
    BY <2>4, <2>5, ListOf, SMTT(60)
  <2>7. router'[r] = [interfaces |-> s, routing_table |-> router[r].routing_table]
    BY <2>3 DEF s
  <2> HIDE DEF after
  <2>8. AllAsync(s)
    BY <2>5, <2>6, ZenonT(60) DEF AllAsync
  <2>9. IsRouter(router'[r]) /\ router'[r].routing_table = router[r].routing_table
    BY <2>7, <2>8, RouterMade, SMTT(60)
  <2> QED BY <2>2, <2>9
<1>3. ASSUME NEW r \in Routers, Route(r) PROVE TablesInv'
  <2>1. router' = [router EXCEPT ![r] = route(router[r])]
    BY <1>3 DEF Route
  <2>2. Keeps(router[r], route(router[r]))
    BY RouteKeeps DEF TablesInv
  <2> QED BY <2>1, <2>2 DEF TablesInv, Keeps
<1>4. ASSUME NEW r \in Routers, NEW x \in MoreRoutes[r], AddRoute(r, x) PROVE TablesInv'
  <2>1. router' = [router EXCEPT ![r] = add_route(router[r], x)]
    BY <1>4 DEF AddRoute
  <2>2. IsRouter(add_route(router[r], x)) /\ IsTable(add_route(router[r], x).routing_table)
    BY AddKeeps DEF TablesInv, RoutesAreAligned
  <2> QED BY <2>1, <2>2, SMTT(60) DEF TablesInv
<1>5. CASE \E h \in Senders, d \in Destinations, ttl \in Ttls : SendTo(h, d, ttl)
  BY <1>1, <1>5 DEF SendTo
<1>6. CASE Check
  BY <1>1, <1>6 DEF Check
<1>7. CASE \E h \in Hosts : HostFrame(h)
  BY <1>2, <1>7, SMTT(60) DEF HostFrame
<1>8. CASE \E r \in Routers : \E i \in 1 .. Len(Ports[r]) : RouterFrame(r, i)
  BY <1>2, <1>8 DEF RouterFrame
<1>9. CASE UNCHANGED vars
  BY <1>1, <1>9, SMTT(60) DEF vars
<1> QED BY <1>3, <1>4, <1>5, <1>6, <1>7, <1>8, <1>9, SMTT(60) DEF Next

(* In a network whose routes are aligned, every router uses the longest    *)
(* agreeing route and the first of several, whatever routes are added and  *)
(* whatever is on its way (router.cc:46-73).                               *)
THEOREM RoutersUseLongestPrefix == RoutesAreAligned /\ Spec => []LongestPrefixWins
<1>1. RoutesAreAligned /\ Init => TablesInv
  BY InitTables
<1>2. RoutesAreAligned /\ TablesInv /\ [Next]_vars => TablesInv'
  BY NextTables, SMTT(60)
<1>3. TablesInv => LongestPrefixWins
  BY LongestMatch, SMTT(60) DEF TablesInv, LongestPrefixWins
<1>4. RoutesAreAligned => RoutesAreAligned'
  BY DEF RoutesAreAligned, Routers, IsTable, IsList, IsRoute, Addresses
<1> QED BY <1>1, <1>2, <1>3, <1>4, PTL DEF Spec
-----------------------------------------------------------------------------
(* What carries datagrams of a set D only: a frame, rows of frames and of  *)
(* datagrams that wait for an address, an interface.  If b holds, the      *)
(* interface has a frame to send.                                          *)
FrameOk(f, D) == f.type = "IPv4" => f.payload \in D
FramesOk(s, D) == \E S : s \in Seq(S) /\ \A f \in S : FrameOk(f, D)
QueueOk(s, D) == \E S : s \in Seq(S) /\ \A e \in S : e.dgram \in D

InterfaceOk(ni, D, b) ==
    /\ ni = [ethernet_address |-> ni.ethernet_address, ip_address |-> ni.ip_address,
             frames_out |-> ni.frames_out, mapping_cache |-> ni.mapping_cache,
             ARP_queue |-> ni.ARP_queue]
    /\ FramesOk(ni.frames_out, D) /\ QueueOk(ni.ARP_queue, D)
    /\ b => ni.frames_out # <<>>

(* A sequence over a set is one over a larger set. *)
LEMMA SeqWider ==
  ASSUME NEW S, NEW T, S \subseteq T, NEW s \in Seq(S)
  PROVE  s \in Seq(T)
BY SeqDef

(* No frame, one more frame, and two rows of frames in a row. *)
LEMMA FramesJoin ==
  ASSUME NEW D
  PROVE  /\ FramesOk(<<>>, D)
         /\ \A f : FrameOk(f, D) => FramesOk(<<f>>, D)
         /\ \A s, f : FramesOk(s, D) /\ FrameOk(f, D)
               => FramesOk(Append(s, f), D) /\ Append(s, f) # <<>>
         /\ \A s, t : FramesOk(s, D) /\ FramesOk(t, D) => FramesOk(s \o t, D)
<1>1. FramesOk(<<>>, D)
  <2> DEFINE S == {}
             s == <<>>
  <2>1. s \in Seq(S) /\ \A g \in S : FrameOk(g, D)
    BY EmptySeq
  <2> HIDE DEF S, s
  <2>2. FramesOk(s, D)
    BY <2>1, Zenon DEF FramesOk
  <2> QED BY <2>2 DEF s
<1>2. ASSUME NEW f, FrameOk(f, D) PROVE FramesOk(<<f>>, D)
  <2> DEFINE S == {f}
             s == <<f>>
  <2>1. s \in Seq(S) /\ \A g \in S : FrameOk(g, D)
    BY <1>2
  <2> HIDE DEF S, s
  <2>2. FramesOk(s, D)
    BY <2>1, Zenon DEF FramesOk
  <2> QED BY <2>2 DEF s
<1>3. ASSUME NEW s, NEW f, FramesOk(s, D), FrameOk(f, D)
      PROVE  FramesOk(Append(s, f), D) /\ Append(s, f) # <<>>
  <2>1. PICK S : s \in Seq(S) /\ \A g \in S : FrameOk(g, D)
    BY <1>3 DEF FramesOk
  <2>2. s \in Seq(S \cup {f})
    BY <2>1, SeqWider
  <2>3. Append(s, f) \in Seq(S \cup {f}) /\ Append(s, f) # <<>>
    BY <2>2, AppendProperties
  <2> QED BY <1>3, <2>1, <2>3, Zenon DEF FramesOk
<1>4. ASSUME NEW s, NEW t, FramesOk(s, D), FramesOk(t, D) PROVE FramesOk(s \o t, D)
  <2>1. PICK S : s \in Seq(S) /\ \A g \in S : FrameOk(g, D)
    BY <1>4 DEF FramesOk
  <2>2. PICK T : t \in Seq(T) /\ \A g \in T : FrameOk(g, D)
    BY <1>4 DEF FramesOk
  <2>3. s \in Seq(S \cup T) /\ t \in Seq(S \cup T)
    BY <2>1, <2>2, SeqWider
  <2>4. s \o t \in Seq(S \cup T)
    BY <2>3, ConcatProperties
  <2>5. \A g \in S \cup T : FrameOk(g, D)
    BY <2>1, <2>2
  <2> QED BY <2>4, <2>5, Zenon DEF FramesOk
<1> QED BY <1>1, <1>2, <1>3, <1>4

(* The first frame and the others. *)
LEMMA FramesTail ==
  ASSUME NEW D, NEW s, FramesOk(s, D), s # <<>>
  PROVE  FrameOk(Head(s), D) /\ FramesOk(Tail(s), D)
<1>1. PICK S : s \in Seq(S) /\ \A g \in S : FrameOk(g, D)
  BY DEF FramesOk
<1>2. Head(s) \in S /\ Tail(s) \in Seq(S)
  BY <1>1, HeadTailProperties
<1> QED BY <1>1, <1>2, Zenon DEF FramesOk

(* A larger set of datagrams. *)
LEMMA Wider ==
  ASSUME NEW D, NEW E, D \subseteq E, NEW b
  PROVE  /\ \A f : FrameOk(f, D) => FrameOk(f, E)
         /\ \A s : FramesOk(s, D) => FramesOk(s, E)
         /\ \A s : QueueOk(s, D) => QueueOk(s, E)
         /\ \A ni : InterfaceOk(ni, D, b) => InterfaceOk(ni, E, b)
<1>1. \A f : FrameOk(f, D) => FrameOk(f, E)
  BY DEF FrameOk
<1>2. \A s : FramesOk(s, D) => FramesOk(s, E)
  BY <1>1, Zenon DEF FramesOk
<1>3. \A s : QueueOk(s, D) => QueueOk(s, E)
  BY Zenon DEF QueueOk
<1> QED BY <1>1, <1>2, <1>3, Zenon DEF InterfaceOk

(* Datagrams that wait: none, one more, one of them, and the others. *)
LEMMA QueueFacts ==
  ASSUME NEW D
  PROVE  /\ QueueOk(<<>>, D)
         /\ \A s, e : QueueOk(s, D) /\ e.dgram \in D => QueueOk(Append(s, e), D)
         /\ \A s : QueueOk(s, D) => \A i \in 1 .. Len(s) :
                /\ s[i].dgram \in D
                /\ QueueOk(SubSeq(s, 1, i - 1) \o SubSeq(s, i + 1, Len(s)), D)
<1>1. QueueOk(<<>>, D)
  <2> DEFINE S == {}
             s == <<>>
  <2>1. s \in Seq(S) /\ \A g \in S : g.dgram \in D
    BY EmptySeq
  <2> HIDE DEF S, s
  <2>2. QueueOk(s, D)
    BY <2>1, Zenon DEF QueueOk
  <2> QED BY <2>2 DEF s
<1>2. ASSUME NEW s, NEW e, QueueOk(s, D), e.dgram \in D PROVE QueueOk(Append(s, e), D)
  <2>1. PICK S : s \in Seq(S) /\ \A g \in S : g.dgram \in D
    BY <1>2 DEF QueueOk
  <2>2. s \in Seq(S \cup {e})
    BY <2>1, SeqWider
  <2>3. Append(s, e) \in Seq(S \cup {e})
    BY <2>2, AppendProperties
  <2> QED BY <1>2, <2>1, <2>3, Zenon DEF QueueOk
<1>3. ASSUME NEW s, QueueOk(s, D), NEW i \in 1 .. Len(s)
      PROVE  /\ s[i].dgram \in D
             /\ QueueOk(SubSeq(s, 1, i - 1) \o SubSeq(s, i + 1, Len(s)), D)
  <2>1. PICK S : s \in Seq(S) /\ \A g \in S : g.dgram \in D
    BY <1>3 DEF QueueOk
  <2>2. Len(s) \in Nat /\ s[i] \in S
    BY <2>1, LenProperties, ElementOfSeq
  <2>3. SubSeq(s, 1, i - 1) \in Seq(S) /\ SubSeq(s, i + 1, Len(s)) \in Seq(S)
    BY <2>1, <2>2, SubSeqProperties
  <2>4. SubSeq(s, 1, i - 1) \o SubSeq(s, i + 1, Len(s)) \in Seq(S)
    BY <2>3, ConcatProperties
  <2> QED BY <2>1, <2>2, <2>4, Zenon DEF QueueOk
<1> QED BY <1>1, <1>2, <1>3
(* An interface with its rows of frames and of datagrams replaced. *)
LEMMA InterfaceMade ==
  ASSUME NEW D, NEW b, NEW e, NEW a, NEW f, FramesOk(f, D), b => f # <<>>,
         NEW m, NEW q, QueueOk(q, D), NEW ni,
         ni = [ethernet_address |-> e, ip_address |-> a, frames_out |-> f,
               mapping_cache |-> m, ARP_queue |-> q]
  PROVE  InterfaceOk(ni, D, b)
<1>1. ni.ethernet_address = e /\ ni.ip_address = a /\ ni.frames_out = f
      /\ ni.mapping_cache = m /\ ni.ARP_queue = q
  OBVIOUS
<1> QED BY <1>1, Zenon DEF InterfaceOk

(* A new interface carries nothing. *)
LEMMA NewInterfaceOk ==
  ASSUME NEW D, NEW eth, NEW ip
  PROVE  InterfaceOk(NewInterface(eth, ip), D, FALSE)
BY FramesJoin, QueueFacts, InterfaceMade, Zenon DEF NewInterface

(* NetworkInterface::send_datagram keeps the datagram, sends it or drops   *)
(* it.                                                                     *)
LEMMA SendOk ==
  ASSUME NEW D, NEW b, NEW ni, InterfaceOk(ni, D, b), NEW d \in D, NEW hop, NEW s,
         s = send_datagram(ni, d, hop)
  PROVE  /\ InterfaceOk(s, D, b)
         /\ Len(ni.ARP_queue) \in Nat /\ Len(s.ARP_queue) \in Nat
         /\ Len(ni.ARP_queue) <= Len(s.ARP_queue)
<1> DEFINE e == ni.ethernet_address
           a == ni.ip_address
<1>len. \A x : QueueOk(x, D) => Len(x) \in Nat
  BY LenProperties DEF QueueOk
<1>1. ni = [ethernet_address |-> e, ip_address |-> a, frames_out |-> ni.frames_out,
            mapping_cache |-> ni.mapping_cache, ARP_queue |-> ni.ARP_queue]
      /\ FramesOk(ni.frames_out, D) /\ QueueOk(ni.ARP_queue, D)
      /\ (b => ni.frames_out # <<>>)
  BY DEF InterfaceOk
<1>2. CASE s = ni
  BY <1>1, <1>2, <1>len
<1>3. CASE s = push_datagram(ni, d, ni.mapping_cache[hop].first)
  <2> DEFINE f == Frame(ni, ni.mapping_cache[hop].first, "IPv4", d)
  <2>1. FrameOk(f, D)
    BY DEF FrameOk, Frame
  <2>2. s = [ni EXCEPT !.frames_out = Append(ni.frames_out, f)]
    BY <1>3 DEF push_datagram
  <2> HIDE DEF f
  <2>3. FramesOk(Append(ni.frames_out, f), D) /\ Append(ni.frames_out, f) # <<>>
    BY <1>1, <2>1, FramesJoin, Zenon
  <2>4. s = [ethernet_address |-> e, ip_address |-> a, frames_out |-> Append(ni.frames_out, f),
             mapping_cache |-> ni.mapping_cache, ARP_queue |-> ni.ARP_queue]
    BY <1>1, <2>2, Zenon
  <2>5. InterfaceOk(s, D, b)
    BY <1>1, <2>3, <2>4, InterfaceMade, Zenon
  <2> QED BY <1>1, <1>len, <2>4, <2>5
<1>4. CASE s = ask(ni, d, hop)
  <2> DEFINE arp == [opcode |-> "request", sender_ip |-> a, sender_eth |-> e,
                     target_ip |-> hop, target_eth |-> ETHERNET_UNSET]
             f == Frame(ni, ETHERNET_BROADCAST, "ARP", arp)
             w == [dgram |-> d, next_hop |-> hop]
             m == Mapped(ni.mapping_cache, hop, ETHERNET_BROADCAST)
  <2>1. FrameOk(f, D) /\ w.dgram \in D
    BY DEF FrameOk, Frame
  <2>2. s = [[ni EXCEPT !.frames_out = Append(ni.frames_out, f)] EXCEPT
                !.ARP_queue = Append([ni EXCEPT !.frames_out = Append(ni.frames_out, f)].ARP_queue, w),
                !.mapping_cache = Mapped([ni EXCEPT !.frames_out = Append(ni.frames_out, f)].mapping_cache,
                                         hop, ETHERNET_BROADCAST)]
    BY <1>4, Zenon DEF ask, push_arp
  <2> HIDE DEF f, w
  <2>3. s = [ethernet_address |-> e, ip_address |-> a, frames_out |-> Append(ni.frames_out, f),
             mapping_cache |-> m, ARP_queue |-> Append(ni.ARP_queue, w)]
    BY <1>1, <2>2, Zenon
  <2>4. FramesOk(Append(ni.frames_out, f), D) /\ QueueOk(Append(ni.ARP_queue, w), D)
        /\ Append(ni.frames_out, f) # <<>>
    BY <1>1, <2>1, FramesJoin, QueueFacts, Zenon
  <2>5. Len(Append(ni.ARP_queue, w)) = Len(ni.ARP_queue) + 1
    <3>1. PICK S : ni.ARP_queue \in Seq(S)
      BY <1>1 DEF QueueOk
    <3>2. ni.ARP_queue \in Seq(S \cup {w})
      BY <3>1, SeqWider
    <3> QED BY <3>2, AppendProperties
  <2> HIDE DEF m
  <2>6. InterfaceOk(s, D, b)
    BY <2>3, <2>4, InterfaceMade, Zenon
  <2> QED BY <1>1, <1>len, <2>3, <2>5, <2>6
<1> QED BY <1>2, <1>3, <1>4 DEF send_datagram

(* Learning an address from an ARP message, and answering it. *)
LEMMA LearnOk ==
  ASSUME NEW D, NEW b, NEW ni, InterfaceOk(ni, D, b), NEW arp
  PROVE  InterfaceOk(learn(ni, arp), D, b) /\ InterfaceOk(answer(ni, arp), D, b)
<1> DEFINE e == ni.ethernet_address
           a == ni.ip_address
<1>1. ni = [ethernet_address |-> e, ip_address |-> a, frames_out |-> ni.frames_out,
            mapping_cache |-> ni.mapping_cache, ARP_queue |-> ni.ARP_queue]
      /\ FramesOk(ni.frames_out, D) /\ QueueOk(ni.ARP_queue, D)
      /\ (b => ni.frames_out # <<>>)
  BY DEF InterfaceOk
<1>2. InterfaceOk(learn(ni, arp), D, b)
  <2> DEFINE m == Mapped(ni.mapping_cache, arp.sender_ip, arp.sender_eth)
  <2>1. learn(ni, arp) = [ni EXCEPT !.mapping_cache = m]
    BY Zenon DEF learn
  <2> HIDE DEF m
  <2>2. learn(ni, arp) =
            [ethernet_address |-> e, ip_address |-> a, frames_out |-> ni.frames_out,
             mapping_cache |-> m, ARP_queue |-> ni.ARP_queue]
    BY <1>1, <2>1
  <2> QED BY <1>1, <2>2, InterfaceMade, Zenon
<1>3. InterfaceOk(answer(ni, arp), D, b)
  <2> DEFINE rep == [opcode |-> "reply", sender_ip |-> a, sender_eth |-> e,
                     target_ip |-> arp.sender_ip, target_eth |-> arp.sender_eth]
             f == Frame(ni, arp.sender_eth, "ARP", rep)
  <2>1. FrameOk(f, D)
    BY DEF FrameOk, Frame
  <2>2. answer(ni, arp) = ni \/ answer(ni, arp) = [ni EXCEPT !.frames_out = Append(ni.frames_out, f)]
    BY Zenon DEF answer, push_arp
  <2> HIDE DEF f
  <2>3. FramesOk(Append(ni.frames_out, f), D) /\ Append(ni.frames_out, f) # <<>>
    BY <1>1, <2>1, FramesJoin, Zenon
  <2>4. CASE answer(ni, arp) = [ni EXCEPT !.frames_out = Append(ni.frames_out, f)]
    <3>1. answer(ni, arp) =
              [ethernet_address |-> e, ip_address |-> a, frames_out |-> Append(ni.frames_out, f),
               mapping_cache |-> ni.mapping_cache, ARP_queue |-> ni.ARP_queue]
      BY <1>1, <2>4
    <3> QED BY <1>1, <2>3, <3>1, InterfaceMade, Zenon
  <2> QED BY <2>2, <2>4
<1> QED BY <1>2, <1>3

(* Sending the first datagram that waited for an address. *)
LEMMA FlushOk ==
  ASSUME NEW D, NEW b, NEW ni, InterfaceOk(ni, D, b), NEW ip
  PROVE  InterfaceOk(flush_first(ni, ip), D, b)
<1>1. CASE Waiting(ni, ip) = {}
  BY <1>1 DEF flush_first
<1>2. CASE Waiting(ni, ip) # {}
  <2> DEFINE i == CHOOSE i \in Waiting(ni, ip) : \A j \in Waiting(ni, ip) : i <= j
             s == send_datagram(ni, ni.ARP_queue[i].dgram, ip)
             q == SubSeq(s.ARP_queue, 1, i - 1) \o SubSeq(s.ARP_queue, i + 1, Len(s.ARP_queue))
  <2>1. flush_first(ni, ip) = [s EXCEPT !.ARP_queue = q]
    BY <1>2, Zenon DEF flush_first
  <2>2. Waiting(ni, ip) \in SUBSET Nat
    BY DEF Waiting
  <2>3. i \in Waiting(ni, ip)
    BY <1>2, <2>2, LeastExists
  <2>4. i \in 1 .. Len(ni.ARP_queue)
    BY <2>3 DEF Waiting
  <2> HIDE DEF i
  <2>5. ni.ARP_queue[i].dgram \in D
    BY <2>4, QueueFacts, Zenon DEF InterfaceOk
  <2>6. InterfaceOk(s, D, b) /\ i \in 1 .. Len(s.ARP_queue)
    BY <2>4, <2>5, SendOk
  <2> HIDE DEF s
  <2>7. QueueOk(q, D)
    BY <2>6, QueueFacts, Zenon DEF InterfaceOk
  <2> HIDE DEF q
  <2>8. [s EXCEPT !.ARP_queue = q] =
            [ethernet_address |-> s.ethernet_address, ip_address |-> s.ip_address,
             frames_out |-> s.frames_out, mapping_cache |-> s.mapping_cache, ARP_queue |-> q]
    BY <2>6 DEF InterfaceOk
  <2>9. FramesOk(s.frames_out, D) /\ (b => s.frames_out # <<>>)
    BY <2>6 DEF InterfaceOk
  <2>10. InterfaceOk([s EXCEPT !.ARP_queue = q], D, b)
    BY <2>7, <2>8, <2>9, InterfaceMade, Zenon
  <2> QED BY <2>1, <2>10
<1> QED BY <1>1, <1>2
(* NetworkInterface::recv_frame *)
LEMMA RecvOk ==
  ASSUME NEW D, NEW b, NEW ni, InterfaceOk(ni, D, b), NEW frame, FrameOk(frame, D)
  PROVE  InterfaceOk(recv_frame(ni, frame), D, b) /\ received(ni, frame) \in Seq(D)
<1>1. InterfaceOk(recv_frame(ni, frame), D, b)
  <2> DEFINE arp == frame.payload
  <2>1. InterfaceOk(learn(ni, arp), D, b)
    BY LearnOk
  <2>2. InterfaceOk(answer(learn(ni, arp), arp), D, b)
    BY <2>1, LearnOk
  <2>3. InterfaceOk(flush_first(learn(ni, arp), arp.sender_ip), D, b)
    BY <2>1, FlushOk
  <2> QED BY <2>2, <2>3, Zenon DEF recv_frame
<1>2. received(ni, frame) \in Seq(D)
  BY DEF received, FrameOk
<1> QED BY <1>1, <1>2

(* NetworkInterface::tick, and sending the pending frames. *)
LEMMA TickOk ==
  ASSUME NEW D, NEW b, NEW ni, InterfaceOk(ni, D, b), NEW ms
  PROVE  InterfaceOk(interface_tick(ni, ms), D, b)
<1>1. PICK m : interface_tick(ni, ms) = [ni EXCEPT !.mapping_cache = m]
  BY Zenon DEF interface_tick
<1> DEFINE x == [ni EXCEPT !.mapping_cache = m]
<1>2. x = [ethernet_address |-> ni.ethernet_address, ip_address |-> ni.ip_address,
           frames_out |-> ni.frames_out, mapping_cache |-> m, ARP_queue |-> ni.ARP_queue]
  BY DEF InterfaceOk
<1>3. FramesOk(ni.frames_out, D) /\ QueueOk(ni.ARP_queue, D) /\ (b => ni.frames_out # <<>>)
  BY DEF InterfaceOk
<1>4. interface_tick(ni, ms) = x
  BY <1>1
<1> HIDE DEF x
<1>5. InterfaceOk(x, D, b)
  BY <1>2, <1>3, InterfaceMade, Zenon
<1> QED BY <1>4, <1>5

(* Other frames to send. *)
LEMMA FramesChange ==
  ASSUME NEW D, NEW b, NEW ni, InterfaceOk(ni, D, b), NEW f, FramesOk(f, D), NEW c, c => f # <<>>
  PROVE  InterfaceOk([ni EXCEPT !.frames_out = f], D, c)
<1> DEFINE x == [ni EXCEPT !.frames_out = f]
<1>1. x = [ethernet_address |-> ni.ethernet_address, ip_address |-> ni.ip_address,
           frames_out |-> f, mapping_cache |-> ni.mapping_cache, ARP_queue |-> ni.ARP_queue]
  BY DEF InterfaceOk
<1>2. QueueOk(ni.ARP_queue, D)
  BY DEF InterfaceOk
<1> HIDE DEF x
<1>3. InterfaceOk(x, D, c)
  BY <1>1, <1>2, InterfaceMade, Zenon
<1> QED BY <1>3 DEF x
-----------------------------------------------------------------------------
(* The same for the interfaces of a router, and for a router of two, each  *)
(* of which has a frame to send if B says so.                              *)
AsyncOk(itf, D, b) ==
    /\ itf = [base |-> itf.base, datagrams_out |-> itf.datagrams_out]
    /\ InterfaceOk(itf.base, D, b) /\ itf.datagrams_out \in Seq(D)

RouterOk(r, D, B) ==
    /\ IsRouter(r) /\ Len(r.interfaces) = 2
    /\ \A i \in 1 .. 2 : AsyncOk(r.interfaces[i], D, B[i])

(* An interface made of its two parts. *)
LEMMA AsyncMade ==
  ASSUME NEW D, NEW b, NEW ni, InterfaceOk(ni, D, b), NEW q \in Seq(D), NEW x,
         x = [base |-> ni, datagrams_out |-> q]
  PROVE  AsyncOk(x, D, b) /\ IsAsync(x)
<1>1. x.base = ni /\ x.datagrams_out = q
  OBVIOUS
<1> QED BY <1>1, Zenon DEF AsyncOk, IsAsync, IsList

(* A change of one interface of a router. *)
LEMMA ChangeOk ==
  ASSUME NEW D, NEW B, NEW r, RouterOk(r, D, B), NEW k, NEW x, k \in 1 .. 2 => AsyncOk(x, D, B[k]), NEW q,
         q = [r EXCEPT !.interfaces = [r.interfaces EXCEPT ![k] = x]]
  PROVE  RouterOk(q, D, B) /\ q.routing_table = r.routing_table
<1>1. IsRouter(r) /\ Len(r.interfaces) = 2
      /\ r.interfaces = [i \in 1 .. 2 |-> r.interfaces[i]]
  BY ListFacts DEF RouterOk, IsRouter
<1>2. CASE k \in 1 .. 2
  <2>1. AsyncOk(x, D, B[k]) /\ IsAsync(x)
    BY <1>2, Zenon DEF AsyncOk, IsAsync, IsList
  <2>2. Keeps(r, q)
    BY <1>1, <2>1, ChangeKeeps
  <2>3. q.interfaces = [r.interfaces EXCEPT ![k] = x]
    BY <1>1 DEF IsRouter
  <2>4. \A i \in 1 .. 2 : q.interfaces[i] = IF i = k THEN x ELSE r.interfaces[i]
    BY <1>1, <2>3
  <2>5. \A i \in 1 .. 2 : AsyncOk(q.interfaces[i], D, B[i])
    BY <2>1, <2>4 DEF RouterOk
  <2> QED BY <1>1, <2>2, <2>5 DEF RouterOk, Keeps
<1>3. CASE k \notin 1 .. 2
  <2>1. [r.interfaces EXCEPT ![k] = x] = r.interfaces
    BY <1>1, <1>3
  <2>2. q = r
    BY <1>1, <2>1 DEF IsRouter
  <2> QED BY <2>2
<1> QED BY <1>2, <1>3

(* A frame that comes to an interface of a router. *)
LEMMA AsyncRecvOk ==
  ASSUME NEW D, NEW b, NEW itf, AsyncOk(itf, D, b), NEW frame, FrameOk(frame, D)
  PROVE  AsyncOk(async_recv_frame(itf, frame), D, b)
<1>1. InterfaceOk(itf.base, D, b) /\ itf.datagrams_out \in Seq(D)
  BY DEF AsyncOk
<1>2. InterfaceOk(recv_frame(itf.base, frame), D, b) /\ received(itf.base, frame) \in Seq(D)
  BY <1>1, RecvOk
<1>3. itf.datagrams_out \o received(itf.base, frame) \in Seq(D)
  BY <1>1, <1>2, ConcatProperties
<1> QED BY <1>2, <1>3, AsyncMade, Zenon DEF async_recv_frame
(* Router::route_one_datagram: the datagram, with a lower time to live,    *)
(* goes to an interface or is dropped.                                     *)
LEMMA RouteOneOk ==
  ASSUME NEW D, \A d \in D : [d EXCEPT !.ttl = @ - 1] \in D,
         NEW B, NEW r, RouterOk(r, D, B), NEW d \in D
  PROVE  RouterOk(route_one_datagram(r, d), D, B)
<1> DEFINE q == route_one_datagram(r, d)
           m == longest_prefix_match(r.routing_table, d.dst)
           k == r.routing_table[m].interface_num
           sd == send_datagram(r.interfaces[k].base, [d EXCEPT !.ttl = @ - 1],
                               NextHop(r.routing_table[m], d.dst))
           x == [r.interfaces[k] EXCEPT !.base = sd]
<1>1. CASE q = r
  BY <1>1
<1>2. CASE q # r
  <2>1. q = [r EXCEPT !.interfaces = [r.interfaces EXCEPT ![k] = x]]
    BY <1>2, ZenonT(60) DEF route_one_datagram
  <2>2. [d EXCEPT !.ttl = @ - 1] \in D
    OBVIOUS
  <2> HIDE DEF q, k
  <2>3. ASSUME k \in 1 .. 2 PROVE AsyncOk(x, D, B[k])
    <3>1. AsyncOk(r.interfaces[k], D, B[k])
      BY <2>3 DEF RouterOk
    <3>2. InterfaceOk(r.interfaces[k].base, D, B[k]) /\ r.interfaces[k].datagrams_out \in Seq(D)
          /\ r.interfaces[k] = [base |-> r.interfaces[k].base,
                                datagrams_out |-> r.interfaces[k].datagrams_out]
      BY <3>1 DEF AsyncOk
    <3>3. InterfaceOk(sd, D, B[k])
      BY <2>2, <3>2, SendOk
    <3> HIDE DEF sd
    <3>4. x = [base |-> sd, datagrams_out |-> r.interfaces[k].datagrams_out]
      BY <3>2
    <3> QED BY <3>2, <3>3, <3>4, AsyncMade
  <2> HIDE DEF x
  <2>4. RouterOk(q, D, B)
    BY <2>1, <2>3, ChangeOk
  <2> QED BY <2>4 DEF q
<1> QED BY <1>1, <1>2

(* A queue of datagrams is routed. *)
LEMMA RouteQueueOk ==
  ASSUME NEW D, \A d \in D : [d EXCEPT !.ttl = @ - 1] \in D,
         NEW B, NEW r, RouterOk(r, D, B), NEW queue \in Seq(D)
  PROVE  RouterOk(route_queue(r, queue), D, B)
<1> DEFINE n == Len(queue)
<1>1. n \in Nat /\ \A k \in 1 .. n : queue[k] \in D
  BY LenProperties, ElementOfSeq
<1>2. PICK f : Drain(r, queue, n, f) /\ route_queue(r, queue) = f[n]
  BY <1>1, QueueLoop
<1>3. \A k \in 0 .. n : f[k] = IF k = 0 THEN r ELSE route_one_datagram(f[k - 1], queue[k])
  BY <1>2 DEF Drain
<1> DEFINE W == {k \in 0 .. n : RouterOk(f[k], D, B)}
<1>4. 0 \in W
  BY <1>1, <1>3
<1>5. ASSUME NEW k \in 1 .. n, k - 1 \in W PROVE k \in W
  <2>1. f[k] = route_one_datagram(f[k - 1], queue[k]) /\ RouterOk(f[k - 1], D, B) /\ k \in 0 .. n
    BY <1>1, <1>3, <1>5, SMTT(60)
  <2>2. queue[k] \in D
    BY <1>1, <1>5
  <2>3. RouterOk(f[k], D, B)
    BY <2>1, <2>2, RouteOneOk, Zenon
  <2> QED BY <2>1, <2>3
<1> HIDE DEF W
<1>6. \A k \in 0 .. n : k \in W
  BY <1>1, <1>4, <1>5, UpTo, ZenonT(60)
<1> QED BY <1>1, <1>2, <1>6 DEF W

(* Router::route *)
LEMMA RouteOk ==
  ASSUME NEW D, \A d \in D : [d EXCEPT !.ttl = @ - 1] \in D, NEW B,
         NEW r, RouterOk(r, D, B)
  PROVE  RouterOk(route(r), D, B)
<1>1. Len(r.interfaces) = 2
  BY DEF RouterOk
<1>2. PICK f : Turns(r, 2, f) /\ route(r) = f[2]
  <2>1. Len(r.interfaces) \in Nat
    BY <1>1
  <2>2. \E f : Turns(r, Len(r.interfaces), f) /\ route(r) = f[Len(r.interfaces)]
    BY <2>1, RouteLoop, Zenon
  <2> QED BY <1>1, <2>2
<1>3. \A i \in 0 .. 2 : f[i] = IF i = 0 THEN r ELSE Turn(r, f[i - 1], i)
  BY <1>2, SMTT(60) DEF Turns
<1>4. ASSUME NEW i \in 1 .. 2, NEW s, RouterOk(s, D, B) PROVE RouterOk(Turn(r, s, i), D, B)
  <2> DEFINE x == [s.interfaces[i] EXCEPT !.datagrams_out = <<>>]
             e == [s EXCEPT !.interfaces = [s.interfaces EXCEPT ![i] = x]]
  <2>1. Emptied(s, i) = e
    BY ZenonT(60) DEF Emptied
  <2>2. AsyncOk(s.interfaces[i], D, B[i])
    BY <1>4 DEF RouterOk
  <2>3. x = [base |-> s.interfaces[i].base, datagrams_out |-> <<>>]
    BY <2>2 DEF AsyncOk
  <2>4. <<>> \in Seq(D) /\ InterfaceOk(s.interfaces[i].base, D, B[i])
    BY <2>2, EmptySeq DEF AsyncOk
  <2>5. AsyncOk(x, D, B[i])
    BY <2>3, <2>4, AsyncMade, Zenon
  <2> HIDE DEF x
  <2>6. RouterOk(e, D, B)
    BY <1>4, <2>5, ChangeOk, Zenon
  <2> HIDE DEF e
  <2>7. r.interfaces[i].datagrams_out \in Seq(D)
    BY DEF RouterOk, AsyncOk
  <2> QED BY <2>1, <2>6, <2>7, RouteQueueOk, Zenon DEF Turn
<1>5. RouterOk(f[0], D, B) /\ f[1] = Turn(r, f[0], 1) /\ f[2] = Turn(r, f[1], 2)
  BY <1>3
<1>6. RouterOk(f[1], D, B)
  BY <1>4, <1>5
<1>7. RouterOk(f[2], D, B)
  BY <1>4, <1>5, <1>6
<1> QED BY <1>2, <1>7
-----------------------------------------------------------------------------
(* The segments and the datagrams on their way once the server has taken   *)
(* the clients with the ports P: what comes from the server's port goes to *)
(* one of these.                                                           *)
Segs(P) ==
    {seg \in [header : [sport : Nat, dport : Nat, syn : BOOLEAN, rst : {FALSE}],
              result : {"NoError"}] :
        seg.header.sport = Port("server") => seg.header.dport \in P}
Dgrams(P) == [src : Nat, dst : Nat, proto : {6}, ttl : Int, seg : Segs(P)]

(* A program in which all datagrams are of a set D. *)
Idle == [i \in 1 .. 2 |-> FALSE]
ProgramOk(g, D) ==
    /\ g = [ad |-> g.ad, interface |-> g.interface, to_host |-> g.to_host,
            to_router |-> g.to_router, router |-> g.router, inbox |-> g.inbox,
            phase |-> g.phase, up |-> g.up]
    /\ InterfaceOk(g.interface, D, FALSE) /\ RouterOk(g.router, D, Idle)
    /\ FramesOk(g.to_host, D) /\ FramesOk(g.to_router, D) /\ FramesOk(g.inbox, D)

(* Routers decrement the time to live of a datagram. *)
LEMMA Decrements ==
  ASSUME NEW P
  PROVE  \A d \in Dgrams(P) : [d EXCEPT !.ttl = @ - 1] \in Dgrams(P)
<1> HIDE DEF Segs
<1> QED BY DEF Dgrams

(* More ports, more datagrams. *)
LEMMA MorePorts ==
  ASSUME NEW P, NEW Q, P \subseteq Q
  PROVE  Segs(P) \subseteq Segs(Q) /\ Dgrams(P) \subseteq Dgrams(Q)
<1>1. Segs(P) \subseteq Segs(Q)
  BY Zenon DEF Segs
<1> QED BY <1>1 DEF Dgrams

(* Routers and programs with a larger set of datagrams. *)
LEMMA ProgramWider ==
  ASSUME NEW D, NEW E, D \subseteq E
  PROVE  \A g : ProgramOk(g, D) => ProgramOk(g, E)
<1>1. \A r : RouterOk(r, D, Idle) => RouterOk(r, E, Idle)
  <2>1. \A itf, b : AsyncOk(itf, D, b) => AsyncOk(itf, E, b)
    BY Wider, SeqWider, Zenon DEF AsyncOk
  <2> QED BY <2>1, Zenon DEF RouterOk
<1>2. \A ni : InterfaceOk(ni, D, FALSE) => InterfaceOk(ni, E, FALSE)
  BY Wider, Zenon
<1>3. \A s : FramesOk(s, D) => FramesOk(s, E)
  BY Wider
<1> QED BY <1>1, <1>2, <1>3, Zenon DEF ProgramOk

(* A program with another interface and other frames for its host. *)
LEMMA InterfaceChange ==
  ASSUME NEW D, NEW g, ProgramOk(g, D), NEW ni, InterfaceOk(ni, D, FALSE),
         NEW th, FramesOk(th, D), NEW x,
         x = [ad |-> g.ad, interface |-> ni, to_host |-> th, to_router |-> g.to_router,
              router |-> g.router, inbox |-> g.inbox, phase |-> g.phase, up |-> g.up]
  PROVE  ProgramOk(x, D) /\ x.ad = g.ad /\ x.up = g.up /\ x.phase = g.phase
<1>1. FramesOk(g.to_router, D) /\ RouterOk(g.router, D, Idle) /\ FramesOk(g.inbox, D)
  BY Zenon DEF ProgramOk
<1>2. /\ x.ad = g.ad /\ x.interface = ni /\ x.to_host = th /\ x.to_router = g.to_router
      /\ x.router = g.router /\ x.inbox = g.inbox /\ x.phase = g.phase /\ x.up = g.up
  OBVIOUS
<1> QED BY <1>1, <1>2, Zenon DEF ProgramOk

(* NetworkInterfaceAdapter::send_pending *)
LEMMA SendPendingOk ==
  ASSUME NEW D, NEW g, ProgramOk(g, D), NEW y, y = send_pending(g)
  PROVE  ProgramOk(y, D) /\ y.ad = g.ad /\ y.up = g.up /\ y.phase = g.phase
<1> DEFINE e == [g.interface EXCEPT !.frames_out = <<>>]
           tr == g.to_router \o g.interface.frames_out
<1>1. y = [ad |-> g.ad, interface |-> e, to_host |-> g.to_host, to_router |-> tr,
           router |-> g.router, inbox |-> g.inbox, phase |-> g.phase, up |-> g.up]
  BY Zenon DEF send_pending, ProgramOk
<1>2. FramesOk(tr, D)
  BY FramesJoin, Zenon DEF ProgramOk, InterfaceOk
<1>3. RouterOk(g.router, D, Idle) /\ FramesOk(g.inbox, D) /\ FramesOk(g.to_host, D)
      /\ InterfaceOk(g.interface, D, FALSE)
  BY Zenon DEF ProgramOk
<1>4. InterfaceOk(e, D, FALSE)
  <2>1. FramesOk(<<>>, D)
    BY FramesJoin
  <2> QED BY <1>3, <2>1, FramesChange, Zenon
<1> HIDE DEF e, tr
<1>5. /\ y.ad = g.ad /\ y.interface = e /\ y.to_host = g.to_host /\ y.to_router = tr
      /\ y.router = g.router /\ y.inbox = g.inbox /\ y.phase = g.phase /\ y.up = g.up
  BY <1>1
<1> QED BY <1>1, <1>2, <1>3, <1>4, <1>5, Zenon DEF ProgramOk

(* The values of an adapter. *)
AdapterSet ==
    [source : [ip : Nat, port : Nat], destination : [ip : Nat, port : Nat], listening : BOOLEAN]

(* NetworkInterfaceAdapter::write: the segment is for the port the adapter *)
(* is bound to.                                                            *)
LEMMA AdapterWriteOk ==
  ASSUME NEW P, NEW g, ProgramOk(g, Dgrams(P)), g.ad \in AdapterSet,
         g.ad.source.port = Port("server") => g.ad.destination.port \in P,
         NEW p, NEW syn \in BOOLEAN, NEW y, y = adapter_write(p, g, syn)
  PROVE  ProgramOk(y, Dgrams(P)) /\ y.ad = g.ad /\ y.up = g.up /\ y.phase = g.phase
<1> DEFINE seg == [header |-> [sport |-> g.ad.source.port, dport |-> g.ad.destination.port,
                               syn |-> syn, rst |-> FALSE], result |-> "NoError"]
           dgram == [src |-> g.ad.source.ip, dst |-> g.ad.destination.ip, proto |-> 6,
                     ttl |-> 3, seg |-> seg]
           ni == send_datagram(g.interface, dgram, HostSide(p))
           x == [g EXCEPT !.interface = ni]
<1>1. seg \in Segs(P)
  BY DEF Segs, AdapterSet
<1>2. g.ad.source.ip \in Nat /\ g.ad.destination.ip \in Nat
  BY DEF AdapterSet
<1>3. y = send_pending(x)
  BY Zenon DEF adapter_write
<1> HIDE DEF seg
<1>4. dgram \in Dgrams(P)
  BY <1>1, <1>2 DEF Dgrams
<1> HIDE DEF dgram
<1>5. InterfaceOk(g.interface, Dgrams(P), FALSE) /\ FramesOk(g.to_host, Dgrams(P))
  BY Zenon DEF ProgramOk
<1>6. InterfaceOk(ni, Dgrams(P), FALSE)
  BY <1>4, <1>5, SendOk, Zenon
<1> HIDE DEF ni
<1>7. x = [ad |-> g.ad, interface |-> ni, to_host |-> g.to_host, to_router |-> g.to_router,
           router |-> g.router, inbox |-> g.inbox, phase |-> g.phase, up |-> g.up]
  BY DEF ProgramOk
<1> HIDE DEF x
<1>8. ProgramOk(x, Dgrams(P)) /\ x.ad = g.ad /\ x.up = g.up /\ x.phase = g.phase
  BY <1>5, <1>6, <1>7, InterfaceChange, Zenon
<1> QED BY <1>3, <1>8, SendPendingOk

(* NetworkInterfaceAdapter::tick *)
LEMMA AdapterTickOk ==
  ASSUME NEW D, NEW g, ProgramOk(g, D), NEW y, y = adapter_tick(g)
  PROVE  ProgramOk(y, D) /\ y.ad = g.ad /\ y.up = g.up /\ y.phase = g.phase
<1> DEFINE ni == interface_tick(g.interface, Tick)
           x == [g EXCEPT !.interface = ni]
<1>1. y = send_pending(x)
  BY Zenon DEF adapter_tick
<1>2. InterfaceOk(g.interface, D, FALSE) /\ FramesOk(g.to_host, D)
  BY Zenon DEF ProgramOk
<1>3. InterfaceOk(ni, D, FALSE)
  BY <1>2, TickOk, Zenon
<1> HIDE DEF ni
<1>4. x = [ad |-> g.ad, interface |-> ni, to_host |-> g.to_host, to_router |-> g.to_router,
           router |-> g.router, inbox |-> g.inbox, phase |-> g.phase, up |-> g.up]
  BY DEF ProgramOk
<1> HIDE DEF x
<1>5. ProgramOk(x, D) /\ x.ad = g.ad /\ x.up = g.up /\ x.phase = g.phase
  BY <1>2, <1>3, <1>4, InterfaceChange, Zenon
<1> QED BY <1>1, <1>5, SendPendingOk

(* What an adapter and the segments it has passed up are to each other.    *)
(* The server hears one client, whose port is in P once it is bound; a     *)
(* client hears the server, and what is for its own port.                  *)
Bound(p, ad, up, P) ==
    /\ ad \in AdapterSet /\ ad.source.port = Port(p) /\ up \subseteq Segs(P)
    /\ p = "server" =>
          /\ ad.listening <=> up = {}
          /\ P = IF ad.listening THEN {} ELSE {ad.destination.port}
          /\ \A seg \in up : seg.header.sport = ad.destination.port
    /\ p # "server" =>
          /\ ~ad.listening /\ ad.destination.port = Port("server")
          /\ \A seg \in up : seg.header.dport = Port(p) /\ seg.header.sport = Port("server")

(* The ports after unwrap_tcp_in_ip: at most the server learns one. *)
Unwrapped(p, ad, up, P, seg, got, Q) ==
    /\ P \subseteq Q /\ (p # "server" => Q = P)
    /\ Bound(p, got.ad, up \cup Range(got.up), Q)
    /\ \/ got.up = <<>> /\ Q = P /\ got.ad = ad
       \/ got.up = <<seg>> /\ seg.header.syn \in BOOLEAN /\ ~got.ad.listening

(* TCPOverIPv4Adapter::unwrap_tcp_in_ip passes up none or one segment,     *)
(* binds a server that listens, and changes no other adapter.              *)
LEMMA UnwrapBinds ==
  ASSUME NEW p, NEW ad, NEW up, NEW P, Bound(p, ad, up, P), NEW ip \in Dgrams(P),
         NEW got, got = unwrap_tcp_in_ip(ad, ip, ip.seg)
  PROVE  \E Q : Unwrapped(p, ad, up, P, ip.seg, got, Q)
<1> USE DEF Unwrapped
<1> DEFINE seg == ip.seg
           bound == [source |-> [ip |-> ip.dst, port |-> ad.source.port],
                     destination |-> [ip |-> ip.src, port |-> seg.header.sport],
                     listening |-> FALSE]
           now == IF ad.listening THEN bound ELSE ad
<1>1. /\ seg \in Segs(P) /\ seg.header.sport \in Nat /\ seg.header.dport \in Nat
      /\ seg.header.syn \in BOOLEAN
      /\ (seg.header.sport = Port("server") => seg.header.dport \in P)
      /\ ip.dst \in Nat /\ ip.src \in Nat
  BY Zenon DEF Dgrams, Segs
<1>2. /\ Range(<<>>) = {} /\ Range(<<seg>>) = {seg}
  BY DEF Range
<1>3. CASE got = [ad |-> ad, up |-> <<>>]
  <2>1. got.ad = ad /\ got.up = <<>> /\ up \cup Range(got.up) = up
    BY <1>2, <1>3
  <2> QED BY <2>1, Zenon
<1>4. CASE got # [ad |-> ad, up |-> <<>>]
  <2>1. /\ seg.header.dport = ad.source.port
        /\ got = [ad |-> now, up |-> IF seg.header.sport = now.destination.port
                                     THEN <<seg>> ELSE <<>>]
    BY <1>4, Zenon DEF unwrap_tcp_in_ip
  <2>2. CASE ad.listening
    <3>1. p = "server" /\ up = {} /\ P = {}
      BY <2>2 DEF Bound
    <3>2. now = bound /\ bound \in AdapterSet /\ bound.source.port = Port(p)
          /\ bound.destination.port = seg.header.sport /\ ~bound.listening
      BY <1>1, <2>2 DEF Bound, AdapterSet
    <3>3. got.ad = bound /\ got.up = <<seg>>
      BY <2>1, <3>2
    <3> DEFINE Q == {seg.header.sport}
    <3>4. up \cup Range(got.up) = {seg}
      BY <1>2, <3>1, <3>3
    <3>5. seg \in Segs(Q)
      BY <1>1, <3>1, Zenon DEF Segs
    <3> HIDE DEF bound, seg, now
    <3>6. Bound(p, bound, {seg}, Q)
      BY <3>1, <3>2, <3>5 DEF Bound
    <3>7. P \subseteq Q
      BY <3>1
    <3> QED BY <1>1, <3>1, <3>2, <3>3, <3>4, <3>6, <3>7, Zenon DEF seg
  <2>3. CASE ~ad.listening
    <3>1. now = ad /\ got.ad = ad
      BY <2>1, <2>3
    <3>2. CASE seg.header.sport # ad.destination.port
      <4>1. got.up = <<>> /\ up \cup Range(got.up) = up
        BY <1>2, <2>1, <3>1, <3>2
      <4> QED BY <3>1, <4>1, Zenon
    <3>3. CASE seg.header.sport = ad.destination.port
      <4>1. got.up = <<seg>> /\ up \cup Range(got.up) = up \cup {seg}
        BY <1>2, <2>1, <3>1, <3>3
      <4> HIDE DEF seg, now, bound
      <4>2. Bound(p, ad, up \cup {seg}, P)
        BY <1>1, <2>1, <2>3, <3>3 DEF Bound
      <4> QED BY <1>1, <2>3, <3>1, <4>1, <4>2, Zenon DEF seg
    <3> QED BY <3>2, <3>3, Zenon
  <2> QED BY <2>2, <2>3, Zenon
<1> QED BY <1>3, <1>4, Zenon
(* The ports differ. *)
Everyone == {"server", "client", "rival"}
LEMMA PortFacts ==
  /\ \A p \in Everyone : Port(p) \in Nat /\ HostIp(p) \in Nat
  /\ \A p \in Everyone : p # "server" => Port(p) # Port("server")
BY DEF Everyone, Port, HostIp, ServerNet, ClientNet

(* A program with another interface and other frames for the host. *)
LEMMA TwoFields ==
  ASSUME NEW g, g = [ad |-> g.ad, interface |-> g.interface, to_host |-> g.to_host,
                     to_router |-> g.to_router, router |-> g.router, inbox |-> g.inbox,
                     phase |-> g.phase, up |-> g.up], NEW a, NEW b
  PROVE  [g EXCEPT !.to_host = a, !.interface = b] =
            [ad |-> g.ad, interface |-> b, to_host |-> a, to_router |-> g.to_router,
             router |-> g.router, inbox |-> g.inbox, phase |-> g.phase, up |-> g.up]
<1> DEFINE h == [g EXCEPT !.to_host = a]
<1>1. h = [ad |-> g.ad, interface |-> g.interface, to_host |-> a, to_router |-> g.to_router,
           router |-> g.router, inbox |-> g.inbox, phase |-> g.phase, up |-> g.up]
  OBVIOUS
<1>2. [g EXCEPT !.to_host = a, !.interface = b] = [h EXCEPT !.interface = b]
  OBVIOUS
<1> HIDE DEF h
<1> QED BY ONLY <1>1, <1>2

(* NetworkInterfaceAdapter::read and the answer of TCP: the server may be  *)
(* bound by it.                                                            *)
LEMMA AdapterReadOk ==
  ASSUME NEW p \in Everyone, NEW P, NEW g, ProgramOk(g, Dgrams(P)), Bound(p, g.ad, g.up, P),
         g.to_host # <<>>, NEW z, z = adapter_read(p, g)
  PROVE  \E Q : /\ P \subseteq Q /\ (p # "server" => Q = P)
                /\ ProgramOk(z, Dgrams(Q)) /\ Bound(p, z.ad, z.up, Q)
<1> DEFINE D == Dgrams(P)
           frame == Head(g.to_host)
           ni == recv_frame(g.interface, frame)
           th == Tail(g.to_host)
           x == [g EXCEPT !.to_host = th, !.interface = ni]
           nx == send_pending(x)
           dgrams == received(g.interface, frame)
           got == unwrap_tcp_in_ip(g.ad, dgrams[1], dgrams[1].seg)
           taken == [nx EXCEPT !.ad = got.ad, !.up = nx.up \cup Range(got.up)]
<1>1. /\ InterfaceOk(g.interface, D, FALSE) /\ FramesOk(g.to_host, D)
  BY Zenon DEF ProgramOk
<1>2. FrameOk(frame, D) /\ FramesOk(th, D)
  BY <1>1, FramesTail, Zenon
<1>3. z = IF dgrams = <<>> THEN nx
          ELSE IF got.up = <<>> THEN taken
          ELSE IF p = "server" THEN adapter_write(p, taken, got.up[1].header.syn)
          ELSE IF got.up[1].header.syn THEN adapter_write(p, taken, FALSE) ELSE taken
  BY Zenon DEF adapter_read
<1>4. dgrams = <<>> \/ (dgrams = <<frame.payload>> /\ frame.payload \in D)
  BY <1>2 DEF received, FrameOk
<1> HIDE DEF frame, D
<1>5. InterfaceOk(ni, D, FALSE)
  BY <1>1, <1>2, RecvOk, Zenon
<1> HIDE DEF ni, th
<1>0. g = [ad |-> g.ad, interface |-> g.interface, to_host |-> g.to_host,
           to_router |-> g.to_router, router |-> g.router, inbox |-> g.inbox,
           phase |-> g.phase, up |-> g.up]
  BY Zenon DEF ProgramOk
<1>6. x = [ad |-> g.ad, interface |-> ni, to_host |-> th, to_router |-> g.to_router,
           router |-> g.router, inbox |-> g.inbox, phase |-> g.phase, up |-> g.up]
  BY <1>0, TwoFields, Zenon
<1> HIDE DEF x
<1>7. ProgramOk(x, D) /\ x.ad = g.ad /\ x.up = g.up
  BY <1>2, <1>5, <1>6, InterfaceChange, Zenon DEF D
<1>80. nx = send_pending(x)
  OBVIOUS
<1> HIDE DEF nx, dgrams
<1>8. ProgramOk(nx, D) /\ nx.ad = g.ad /\ nx.up = g.up
  <2>1. ProgramOk(nx, D) /\ nx.ad = x.ad /\ nx.up = x.up
    BY <1>7, <1>80, SendPendingOk
  <2> QED BY <1>7, <2>1, Zenon
<1>9. CASE dgrams = <<>>
  BY <1>3, <1>8, <1>9, Zenon DEF D
<1>10. CASE dgrams # <<>>
  <2> DEFINE ip == frame.payload
  <2>1. dgrams[1] = ip /\ ip \in Dgrams(P)
    BY <1>4, <1>10 DEF D
  <2>2. got = unwrap_tcp_in_ip(g.ad, ip, ip.seg)
    BY <2>1, Zenon
  <2> HIDE DEF ip, got
  <2>3. PICK Q : /\ P \subseteq Q /\ (p # "server" => Q = P)
                 /\ Bound(p, got.ad, g.up \cup Range(got.up), Q)
                 /\ \/ got.up = <<>> /\ Q = P /\ got.ad = g.ad
                    \/ /\ got.up = <<ip.seg>> /\ ip.seg.header.syn \in BOOLEAN
                       /\ ~got.ad.listening
    <3> DEFINE ad == g.ad
               up == g.up
    <3>1. Bound(p, ad, up, P) /\ got = unwrap_tcp_in_ip(ad, ip, ip.seg)
      BY <2>2
    <3> HIDE DEF ad, up
    <3>2. \E Q : Unwrapped(p, ad, up, P, ip.seg, got, Q)
      BY ONLY <2>1, <3>1, UnwrapBinds
    <3> QED BY <3>2, Zenon DEF ad, up, Unwrapped
  <2>4. ProgramOk(nx, Dgrams(Q))
    BY <1>8, <2>3, MorePorts, ProgramWider, Zenon DEF D
  <2>5. /\ taken = [ad |-> got.ad, interface |-> nx.interface, to_host |-> nx.to_host,
                    to_router |-> nx.to_router, router |-> nx.router, inbox |-> nx.inbox,
                    phase |-> nx.phase, up |-> nx.up \cup Range(got.up)]
    <3>1. nx = [ad |-> nx.ad, interface |-> nx.interface, to_host |-> nx.to_host,
                to_router |-> nx.to_router, router |-> nx.router, inbox |-> nx.inbox,
                phase |-> nx.phase, up |-> nx.up]
      BY <2>4, Zenon DEF ProgramOk
    <3> DEFINE a == got.ad
               b == nx.up \cup Range(got.up)
    <3> HIDE DEF a, b
    <3>2. [nx EXCEPT !.ad = a, !.up = b] =
             [ad |-> a, interface |-> nx.interface, to_host |-> nx.to_host,
              to_router |-> nx.to_router, router |-> nx.router, inbox |-> nx.inbox,
              phase |-> nx.phase, up |-> b]
      <4> HIDE DEF nx
      <4> DEFINE h == [nx EXCEPT !.ad = a]
      <4>1. h = [ad |-> a, interface |-> nx.interface, to_host |-> nx.to_host,
                 to_router |-> nx.to_router, router |-> nx.router, inbox |-> nx.inbox,
                 phase |-> nx.phase, up |-> nx.up]
        BY ONLY <3>1
      <4>2. [nx EXCEPT !.ad = a, !.up = b] = [h EXCEPT !.up = b]
        OBVIOUS
      <4> HIDE DEF h
      <4> QED BY ONLY <4>1, <4>2
    <3> QED BY <3>2, Zenon DEF a, b
  <2>6. /\ taken.ad = got.ad /\ taken.interface = nx.interface /\ taken.to_host = nx.to_host
        /\ taken.to_router = nx.to_router /\ taken.router = nx.router
        /\ taken.inbox = nx.inbox /\ taken.phase = nx.phase
        /\ taken.up = nx.up \cup Range(got.up)
    BY <2>5
  <2> HIDE DEF taken
  <2>7. ProgramOk(taken, Dgrams(Q))
    BY <2>4, <2>5, <2>6, Zenon DEF ProgramOk
  <2>8. Bound(p, taken.ad, taken.up, Q)
    BY <1>8, <2>3, <2>6, Zenon
  <2>9. CASE z = taken
    BY <2>3, <2>7, <2>8, <2>9, Zenon
  <2>10. CASE z # taken
    <3>1. PICK syn \in BOOLEAN : z = adapter_write(p, taken, syn) /\ ~taken.ad.listening
      <4>1. got.up # <<>> /\ got.up[1] = ip.seg /\ ip.seg.header.syn \in BOOLEAN
            /\ ~got.ad.listening
        <5>1. got.up # <<>>
          BY <1>3, <1>10, <2>10, Zenon
        <5> QED BY <2>3, <5>1
      <4>2. z = adapter_write(p, taken, got.up[1].header.syn) \/ z = adapter_write(p, taken, FALSE)
        BY <1>3, <1>10, <2>10, <4>1, Zenon
      <4> QED BY <2>6, <4>1, <4>2, ZenonT(60)
    <3>2. taken.ad \in AdapterSet
          /\ (taken.ad.source.port = Port("server") => taken.ad.destination.port \in Q)
      BY <2>8, <3>1, PortFacts DEF Bound
    <3>3. ProgramOk(z, Dgrams(Q)) /\ z.ad = taken.ad /\ z.up = taken.up
      BY ONLY <2>7, <3>1, <3>2, AdapterWriteOk
    <3> QED BY <2>3, <2>8, <3>3, Zenon
  <2> QED BY <2>9, <2>10
<1> QED BY <1>9, <1>10
-----------------------------------------------------------------------------
(* A router of which less is known to wait. *)
LEMMA RouterWeaker ==
  ASSUME NEW D, NEW B, NEW C, C[1] => B[1], C[2] => B[2], NEW r, RouterOk(r, D, B)
  PROVE  RouterOk(r, D, C)
<1>1. \A itf, b, c : AsyncOk(itf, D, b) /\ (c => b) => AsyncOk(itf, D, c)
  BY Zenon DEF AsyncOk, InterfaceOk
<1>2. \A i \in 1 .. 2 : C[i] => B[i]
  OBVIOUS
<1> QED BY <1>1, <1>2, Zenon DEF RouterOk

(* The first frame of a row of frames to send is sent. *)
LEMMA RowTaken ==
  ASSUME NEW D, NEW C, NEW r, RouterOk(r, D, C), NEW k \in 1 .. 2, ~C[k],
         r.interfaces[k].base.frames_out # <<>>,
         NEW q, q = [r EXCEPT !.interfaces[k].base.frames_out = Tail(@)]
  PROVE  RouterOk(q, D, C) /\ FrameOk(Head(r.interfaces[k].base.frames_out), D)
<1> DEFINE itf == r.interfaces[k]
           ni == [itf.base EXCEPT !.frames_out = Tail(@)]
           x == [itf EXCEPT !.base = ni]
<1>1. AsyncOk(itf, D, C[k]) /\ InterfaceOk(itf.base, D, C[k]) /\ FramesOk(itf.base.frames_out, D)
  BY Zenon DEF RouterOk, AsyncOk, InterfaceOk
<1>2. FrameOk(Head(itf.base.frames_out), D) /\ FramesOk(Tail(itf.base.frames_out), D)
  BY <1>1, FramesTail, Zenon
<1>3. InterfaceOk(ni, D, C[k])
  BY <1>1, <1>2, FramesChange, Zenon
<1>4. q = [r EXCEPT !.interfaces = [r.interfaces EXCEPT ![k] = x]]
  OBVIOUS
<1> HIDE DEF ni
<1>5. x = [base |-> ni, datagrams_out |-> itf.datagrams_out] /\ itf.datagrams_out \in Seq(D)
  BY <1>1 DEF AsyncOk
<1> HIDE DEF itf, x
<1>6. AsyncOk(x, D, C[k])
  BY <1>3, <1>5, AsyncMade
<1>7. RouterOk(q, D, C)
  BY ONLY RouterOk(r, D, C), <1>4, <1>6, ChangeOk
<1> QED BY <1>2, <1>7 DEF itf

(* A frame comes in at an interface and its datagrams are routed. *)
LEMMA FrameRouted ==
  ASSUME NEW P, NEW D, D = Dgrams(P), NEW B, NEW r, RouterOk(r, D, B), NEW k \in 1 .. 2,
         NEW frame, FrameOk(frame, D)
  PROVE  RouterOk(route([r EXCEPT !.interfaces[k] = async_recv_frame(@, frame)]), D, B)
<1> DEFINE x == async_recv_frame(r.interfaces[k], frame)
           q == [r EXCEPT !.interfaces = [r.interfaces EXCEPT ![k] = x]]
<1>1. AsyncOk(x, D, B[k])
  BY AsyncRecvOk, Zenon DEF RouterOk
<1>2. [r EXCEPT !.interfaces[k] = async_recv_frame(@, frame)] = q
  OBVIOUS
<1>3. RouterOk(q, D, B)
  BY <1>1, ChangeOk, Zenon
<1> HIDE DEF q
<1>4. RouterOk(route(q), D, B)
  BY <1>3, Decrements, RouteOk
<1> QED BY <1>2, <1>4
(* A turn of the network thread of g: what is left of g, with the frames   *)
(* ib of the bouncer, and the frames for the Internet.                     *)
TurnOk(w, g, ib, D, B) ==
    /\ w = [g |-> w.g, tx |-> w.tx]
    /\ w.g = [ad |-> g.ad, interface |-> g.interface, to_host |-> w.g.to_host,
              to_router |-> w.g.to_router, router |-> w.g.router, inbox |-> ib,
              phase |-> g.phase, up |-> g.up]
    /\ RouterOk(w.g.router, D, B) /\ FramesOk(w.g.to_host, D) /\ FramesOk(w.g.to_router, D)
    /\ FramesOk(ib, D) /\ FramesOk(w.tx, D)

(* A turn made of its parts. *)
LEMMA TurnMade ==
  ASSUME NEW D, NEW g, NEW B, NEW th, FramesOk(th, D), NEW tr, FramesOk(tr, D),
         NEW ro, RouterOk(ro, D, B), NEW ib, FramesOk(ib, D), NEW tx, FramesOk(tx, D),
         NEW w, w = [g |-> [ad |-> g.ad, interface |-> g.interface, to_host |-> th,
                            to_router |-> tr, router |-> ro, inbox |-> ib,
                            phase |-> g.phase, up |-> g.up],
                     tx |-> tx]
  PROVE  TurnOk(w, g, ib, D, B)
<1>1. w.g = [ad |-> g.ad, interface |-> g.interface, to_host |-> th, to_router |-> tr,
             router |-> ro, inbox |-> ib, phase |-> g.phase, up |-> g.up] /\ w.tx = tx
  OBVIOUS
<1> DEFINE u == w.g
<1>2. u = [ad |-> g.ad, interface |-> g.interface, to_host |-> th, to_router |-> tr,
           router |-> ro, inbox |-> ib, phase |-> g.phase, up |-> g.up]
  BY <1>1
<1> HIDE DEF u
<1>3. u.to_host = th /\ u.to_router = tr /\ u.router = ro /\ u.inbox = ib
  BY ONLY <1>2
<1>4. w = [g |-> u, tx |-> tx]
  BY <1>2
<1> QED BY <1>1, <1>2, <1>3, <1>4, Zenon DEF TurnOk, u

(* Lines 198-208: a frame of the host goes to the router. *)
LEMMA HostInOk ==
  ASSUME NEW P, NEW D, D = Dgrams(P), NEW g, NEW B, NEW ib, NEW w, TurnOk(w, g, ib, D, B),
         w.g.to_router # <<>>, NEW y, y = network_callback(w, "host in")
  PROVE  TurnOk(y, g, ib, D, B)
<1> DEFINE u == w.g
           ro == route([u.router EXCEPT !.interfaces[1] = async_recv_frame(@, Head(u.to_router))])
           tr == Tail(u.to_router)
<1>1. /\ w = [g |-> u, tx |-> w.tx]
      /\ u = [ad |-> g.ad, interface |-> g.interface, to_host |-> u.to_host,
              to_router |-> u.to_router, router |-> u.router, inbox |-> ib,
              phase |-> g.phase, up |-> g.up]
      /\ RouterOk(u.router, D, B) /\ FramesOk(u.to_host, D) /\ FramesOk(u.to_router, D)
      /\ FramesOk(ib, D) /\ FramesOk(w.tx, D)
  BY Zenon DEF TurnOk
<1>2. y = [w EXCEPT !.g.to_router = Tail(@), !.g.router = ro]
  BY DEF network_callback
<1>3. FrameOk(Head(u.to_router), D) /\ FramesOk(tr, D)
  BY <1>1, FramesTail, Zenon
<1>4. RouterOk(ro, D, B)
  <2> DEFINE r == u.router
             frame == Head(u.to_router)
  <2>1. RouterOk(r, D, B) /\ FrameOk(frame, D)
    BY <1>1, <1>3, Zenon
  <2> HIDE DEF r, frame
  <2>2. RouterOk(route([r EXCEPT !.interfaces[1] = async_recv_frame(@, frame)]), D, B)
    BY ONLY <2>1, D = Dgrams(P), FrameRouted
  <2> QED BY <2>2, Zenon DEF r, frame
<1> HIDE DEF ro
<1>5. y = [g |-> [[u EXCEPT !.to_router = tr] EXCEPT !.router = ro], tx |-> w.tx]
  BY <1>1, <1>2, Zenon
<1> HIDE DEF tr, u
<1> DEFINE h == [u EXCEPT !.to_router = tr]
<1>6. h = [ad |-> g.ad, interface |-> g.interface, to_host |-> u.to_host,
           to_router |-> tr, router |-> u.router, inbox |-> ib,
           phase |-> g.phase, up |-> g.up]
  BY ONLY <1>1
<1> HIDE DEF h
<1>7. [h EXCEPT !.router = ro] =
         [ad |-> g.ad, interface |-> g.interface, to_host |-> u.to_host,
          to_router |-> tr, router |-> ro, inbox |-> ib, phase |-> g.phase, up |-> g.up]
  BY ONLY <1>6
<1>8. y = [g |-> [ad |-> g.ad, interface |-> g.interface, to_host |-> u.to_host,
                  to_router |-> tr, router |-> ro, inbox |-> ib,
                  phase |-> g.phase, up |-> g.up],
           tx |-> w.tx]
  BY <1>5, <1>7, Zenon DEF h
<1>9. TurnOk(y, g, ib, D, B)
  BY ONLY <1>1, <1>3, <1>4, <1>8, TurnMade
<1> QED BY <1>9, Zenon
(* Lines 211-220: a frame of the router goes to the host. *)
LEMMA HostOutOk ==
  ASSUME NEW D, NEW g, NEW B, NEW ib, NEW w, TurnOk(w, g, ib, D, B), B[1],
         NEW C, ~C[1], C[2] => B[2], NEW y, y = network_callback(w, "host out")
  PROVE  TurnOk(y, g, ib, D, C)
<1> DEFINE u == w.g
           row == u.router.interfaces[1].base.frames_out
           ro == [u.router EXCEPT !.interfaces[1].base.frames_out = Tail(@)]
           th == Append(u.to_host, Head(row))
<1>1. /\ w = [g |-> u, tx |-> w.tx]
      /\ u = [ad |-> g.ad, interface |-> g.interface, to_host |-> u.to_host,
              to_router |-> u.to_router, router |-> u.router, inbox |-> ib,
              phase |-> g.phase, up |-> g.up]
      /\ RouterOk(u.router, D, B) /\ FramesOk(u.to_host, D) /\ FramesOk(u.to_router, D)
      /\ FramesOk(ib, D) /\ FramesOk(w.tx, D)
  BY Zenon DEF TurnOk
<1>2. y = [w EXCEPT !.g.to_host = Append(@, Head(row)),
                    !.g.router.interfaces[1].base.frames_out = Tail(@)]
  BY Zenon DEF network_callback
<1>3. RouterOk(u.router, D, C) /\ row # <<>>
  <2> DEFINE r == u.router
  <2>1. RouterOk(r, D, B)
    BY <1>1, Zenon
  <2> HIDE DEF r
  <2>2. RouterOk(r, D, C)
    BY <2>1, RouterWeaker, Zenon
  <2>3. 1 \in 1 .. 2
    BY ONLY SMT
  <2>4. r.interfaces[1].base.frames_out # <<>>
    BY <2>1, <2>3, Zenon DEF RouterOk, AsyncOk, InterfaceOk
  <2> QED BY <2>2, <2>4, Zenon DEF r
<1>4. RouterOk(ro, D, C) /\ FrameOk(Head(row), D)
  <2> DEFINE r == u.router
             q == [r EXCEPT !.interfaces[1].base.frames_out = Tail(@)]
  <2>1. RouterOk(r, D, C) /\ r.interfaces[1].base.frames_out # <<>>
    BY <1>3, Zenon
  <2> HIDE DEF r
  <2>2. RouterOk(q, D, C) /\ FrameOk(Head(r.interfaces[1].base.frames_out), D)
    <3>1. 1 \in 1 .. 2
      BY ONLY SMT
    <3>2. q = [r EXCEPT !.interfaces[1].base.frames_out = Tail(@)]
      OBVIOUS
    <3> HIDE DEF q
    <3> QED BY ONLY <2>1, <3>1, <3>2, ~C[1], RowTaken, Zenon
  <2> QED BY <2>2, Zenon DEF r
<1>40. FramesOk(th, D)
  BY <1>1, <1>4, FramesJoin, Zenon
<1>5. y = [g |-> [[u EXCEPT !.to_host = th] EXCEPT !.router = ro], tx |-> w.tx]
  BY <1>1, <1>2, Zenon
<1> HIDE DEF ro, th, u
<1> DEFINE h == [u EXCEPT !.to_host = th]
<1>6. h = [ad |-> g.ad, interface |-> g.interface, to_host |-> th,
           to_router |-> u.to_router, router |-> u.router, inbox |-> ib,
           phase |-> g.phase, up |-> g.up]
  BY ONLY <1>1
<1> HIDE DEF h
<1>7. [h EXCEPT !.router = ro] =
         [ad |-> g.ad, interface |-> g.interface, to_host |-> th, to_router |-> u.to_router,
          router |-> ro, inbox |-> ib, phase |-> g.phase, up |-> g.up]
  BY ONLY <1>6
<1>8. y = [g |-> [ad |-> g.ad, interface |-> g.interface, to_host |-> th,
                  to_router |-> u.to_router, router |-> ro, inbox |-> ib,
                  phase |-> g.phase, up |-> g.up],
           tx |-> w.tx]
  BY <1>5, <1>7, Zenon DEF h
<1>9. TurnOk(y, g, ib, D, C)
  BY ONLY <1>1, <1>4, <1>40, <1>8, TurnMade
<1> QED BY <1>9, Zenon

(* Lines 223-232: a frame of the router goes to the bouncer. *)
LEMMA InternetOutOk ==
  ASSUME NEW D, NEW g, NEW B, NEW ib, NEW w, TurnOk(w, g, ib, D, B), B[2],
         NEW C, ~C[2], C[1] => B[1], NEW y, y = network_callback(w, "internet out")
  PROVE  TurnOk(y, g, ib, D, C)
<1> DEFINE u == w.g
           row == u.router.interfaces[2].base.frames_out
           ro == [u.router EXCEPT !.interfaces[2].base.frames_out = Tail(@)]
           tx == Append(w.tx, Head(row))
<1>1. /\ w = [g |-> u, tx |-> w.tx]
      /\ u = [ad |-> g.ad, interface |-> g.interface, to_host |-> u.to_host,
              to_router |-> u.to_router, router |-> u.router, inbox |-> ib,
              phase |-> g.phase, up |-> g.up]
      /\ RouterOk(u.router, D, B) /\ FramesOk(u.to_host, D) /\ FramesOk(u.to_router, D)
      /\ FramesOk(ib, D) /\ FramesOk(w.tx, D)
  BY Zenon DEF TurnOk
<1>2. y = [w EXCEPT !.tx = Append(@, Head(row)),
                    !.g.router.interfaces[2].base.frames_out = Tail(@)]
  BY DEF network_callback
<1>3. RouterOk(u.router, D, C) /\ row # <<>>
  <2> DEFINE r == u.router
  <2>1. RouterOk(r, D, B)
    BY <1>1, Zenon
  <2> HIDE DEF r
  <2>2. RouterOk(r, D, C)
    BY <2>1, RouterWeaker, Zenon
  <2>3. 2 \in 1 .. 2
    BY ONLY SMT
  <2>4. r.interfaces[2].base.frames_out # <<>>
    BY <2>1, <2>3, Zenon DEF RouterOk, AsyncOk, InterfaceOk
  <2> QED BY <2>2, <2>4, Zenon DEF r
<1>4. RouterOk(ro, D, C) /\ FrameOk(Head(row), D)
  <2> DEFINE r == u.router
             q == [r EXCEPT !.interfaces[2].base.frames_out = Tail(@)]
  <2>1. RouterOk(r, D, C) /\ r.interfaces[2].base.frames_out # <<>>
    BY <1>3, Zenon
  <2> HIDE DEF r
  <2>2. RouterOk(q, D, C) /\ FrameOk(Head(r.interfaces[2].base.frames_out), D)
    <3>1. 2 \in 1 .. 2
      BY ONLY SMT
    <3>2. q = [r EXCEPT !.interfaces[2].base.frames_out = Tail(@)]
      OBVIOUS
    <3> HIDE DEF q
    <3> QED BY ONLY <2>1, <3>1, <3>2, ~C[2], RowTaken, Zenon
  <2> QED BY <2>2, Zenon DEF r
<1>40. FramesOk(tx, D)
  BY <1>1, <1>4, FramesJoin, Zenon
<1>5. y = [g |-> [u EXCEPT !.router = ro], tx |-> tx]
  BY <1>1, <1>2, Zenon
<1> HIDE DEF ro, tx, u
<1>7. [u EXCEPT !.router = ro] =
         [ad |-> g.ad, interface |-> g.interface, to_host |-> u.to_host,
          to_router |-> u.to_router, router |-> ro, inbox |-> ib,
          phase |-> g.phase, up |-> g.up]
  BY ONLY <1>1
<1>8. y = [g |-> [ad |-> g.ad, interface |-> g.interface, to_host |-> u.to_host,
                  to_router |-> u.to_router, router |-> ro, inbox |-> ib,
                  phase |-> g.phase, up |-> g.up],
           tx |-> tx]
  BY <1>5, <1>7, Zenon
<1>9. TurnOk(y, g, ib, D, C)
  BY ONLY <1>1, <1>4, <1>40, <1>8, TurnMade
<1> QED BY <1>9, Zenon

(* Lines 235-245: a frame of the bouncer goes to the router. *)
LEMMA InternetInOk ==
  ASSUME NEW P, NEW D, D = Dgrams(P), NEW g, NEW B, NEW ib, NEW w, TurnOk(w, g, ib, D, B),
         ib # <<>>, NEW y, y = network_callback(w, "internet in")
  PROVE  TurnOk(y, g, Tail(ib), D, B)
<1> DEFINE u == w.g
           ro == route([u.router EXCEPT !.interfaces[2] = async_recv_frame(@, Head(ib))])
           tl == Tail(ib)
<1>1. /\ w = [g |-> u, tx |-> w.tx]
      /\ u = [ad |-> g.ad, interface |-> g.interface, to_host |-> u.to_host,
              to_router |-> u.to_router, router |-> u.router, inbox |-> ib,
              phase |-> g.phase, up |-> g.up]
      /\ RouterOk(u.router, D, B) /\ FramesOk(u.to_host, D) /\ FramesOk(u.to_router, D)
      /\ FramesOk(ib, D) /\ FramesOk(w.tx, D)
  BY Zenon DEF TurnOk
<1>10. u.inbox = ib
  <2> HIDE DEF u
  <2> QED BY ONLY <1>1
<1>2. y = [w EXCEPT !.g.inbox = tl, !.g.router = ro]
  BY <1>10 DEF network_callback
<1>3. FrameOk(Head(ib), D) /\ FramesOk(tl, D)
  BY <1>1, FramesTail, Zenon
<1>4. RouterOk(ro, D, B)
  <2> DEFINE r == u.router
             frame == Head(ib)
  <2>1. RouterOk(r, D, B) /\ FrameOk(frame, D)
    BY <1>1, <1>3, Zenon
  <2> HIDE DEF r, frame
  <2>2. RouterOk(route([r EXCEPT !.interfaces[2] = async_recv_frame(@, frame)]), D, B)
    BY ONLY <2>1, D = Dgrams(P), FrameRouted
  <2> QED BY <2>2, Zenon DEF r, frame
<1> HIDE DEF ro
<1>5. y = [g |-> [[u EXCEPT !.inbox = tl] EXCEPT !.router = ro], tx |-> w.tx]
  BY <1>1, <1>2, <1>10, Zenon
<1> HIDE DEF tl, u
<1> DEFINE h == [u EXCEPT !.inbox = tl]
<1>6. h = [ad |-> g.ad, interface |-> g.interface, to_host |-> u.to_host,
           to_router |-> u.to_router, router |-> u.router, inbox |-> tl,
           phase |-> g.phase, up |-> g.up]
  BY ONLY <1>1
<1> HIDE DEF h
<1>7. [h EXCEPT !.router = ro] =
         [ad |-> g.ad, interface |-> g.interface, to_host |-> u.to_host,
          to_router |-> u.to_router, router |-> ro, inbox |-> tl,
          phase |-> g.phase, up |-> g.up]
  BY ONLY <1>6
<1>8. y = [g |-> [ad |-> g.ad, interface |-> g.interface, to_host |-> u.to_host,
                  to_router |-> u.to_router, router |-> ro, inbox |-> tl,
                  phase |-> g.phase, up |-> g.up],
           tx |-> w.tx]
  BY <1>5, <1>7, Zenon DEF h
<1>9. TurnOk(y, g, tl, D, B)
  BY ONLY <1>1, <1>3, <1>4, <1>8, TurnMade
<1> QED BY <1>9, Zenon DEF tl
(* Lines 254-255: the clocks of both interfaces of a router. *)
LEMMA TicksOk ==
  ASSUME NEW D, NEW r, RouterOk(r, D, Idle), NEW q,
         q = both_tick(r)
  PROVE  RouterOk(q, D, Idle)
<1> DEFINE t == [i \in 1 .. 2 |->
                   [r.interfaces[i] EXCEPT !.base = interface_tick(r.interfaces[i].base, Tick)]]
<1>1. ASSUME NEW i \in 1 .. 2 PROVE AsyncOk(t[i], D, FALSE) /\ IsAsync(t[i])
  <2> DEFINE itf == r.interfaces[i]
             ni == interface_tick(itf.base, Tick)
  <2>1. AsyncOk(itf, D, FALSE)
    BY Zenon DEF RouterOk, Idle
  <2>2. InterfaceOk(ni, D, FALSE) /\ itf.datagrams_out \in Seq(D)
    BY <2>1, TickOk, Zenon DEF AsyncOk
  <2>3. t[i] = [itf EXCEPT !.base = ni]
    OBVIOUS
  <2> HIDE DEF ni, t
  <2>4. t[i] = [base |-> ni, datagrams_out |-> itf.datagrams_out]
    BY <2>1, <2>3 DEF AsyncOk
  <2> HIDE DEF itf
  <2> QED BY ONLY <2>2, <2>4, AsyncMade, Zenon
<1>2. r = [interfaces |-> r.interfaces, routing_table |-> r.routing_table]
  BY Zenon DEF RouterOk, IsRouter
<1>3. <<t[1], t[2]>> = t /\ t \in Seq({t[1], t[2]}) /\ Len(t) = 2
  OBVIOUS
<1>4. q = [interfaces |-> <<t[1], t[2]>>, routing_table |-> r.routing_table]
  <2>1. q = [r EXCEPT !.interfaces = <<t[1], t[2]>>]
    <3>1. \A i \in 1 .. 2 :
             t[i] = [r.interfaces[i] EXCEPT !.base = interface_tick(r.interfaces[i].base, Tick)]
      OBVIOUS
    <3>2. 1 \in 1 .. 2 /\ 2 \in 1 .. 2
      OBVIOUS
    <3> HIDE DEF t
    <3> QED BY <3>1, <3>2, Zenon DEF both_tick
  <2> HIDE DEF t
  <2> QED BY ONLY <1>2, <2>1
<1> HIDE DEF t
<1>5. q.interfaces = t /\ q.routing_table = r.routing_table
  BY <1>3, <1>4
<1>6. IsList(t) /\ \A i \in 1 .. Len(t) : IsAsync(t[i])
  BY <1>1, <1>3 DEF IsList
<1>7. IsRouter(q)
  BY <1>2, <1>4, <1>5, <1>6, <1>3 DEF IsRouter
<1>8. \A i \in 1 .. 2 : AsyncOk(q.interfaces[i], D, Idle[i])
  BY <1>1, <1>5, Zenon DEF Idle
<1> QED BY <1>3, <1>5, <1>7, <1>8 DEF RouterOk
(* A turn of which less is known to wait. *)
LEMMA TurnWeaker ==
  ASSUME NEW D, NEW g, NEW B, NEW C, C[1] => B[1], C[2] => B[2], NEW ib, NEW w, TurnOk(w, g, ib, D, B)
  PROVE  TurnOk(w, g, ib, D, C)
<1>1. RouterOk(w.g.router, D, C)
  BY RouterWeaker, Zenon DEF TurnOk
<1> QED BY <1>1, Zenon DEF TurnOk

(* A turn of the network thread: the rules that were ready when it began   *)
(* still have their frames when they are served.                           *)
LEMMA NetworkTurnOk ==
  ASSUME NEW P, NEW D, D = Dgrams(P), NEW g, ProgramOk(g, D), NEW z, z = network_turn(g)
  PROVE  ProgramOk(z.g, D) /\ z.g.ad = g.ad /\ z.g.up = g.up /\ FramesOk(z.tx, D)
<1> DEFINE B == [i \in 1 .. 2 |-> g.router.interfaces[i].base.frames_out # <<>>]
           C == [i \in 1 .. 2 |-> i = 2 /\ g.router.interfaces[i].base.frames_out # <<>>]
           a == [g |-> g, tx |-> <<>>]
           b == network_serve(g, a, "host in")
           c == network_serve(g, b, "host out")
           d == network_serve(g, c, "internet out")
           e == network_serve(g, d, "internet in")
<1>0. /\ network_ready(g, "host in") => g.to_router # <<>>
      /\ network_ready(g, "host out") => g.router.interfaces[1].base.frames_out # <<>>
      /\ network_ready(g, "internet out") => g.router.interfaces[2].base.frames_out # <<>>
      /\ network_ready(g, "internet in") => g.inbox # <<>>
  BY DEF network_ready
<1>1. /\ network_ready(g, "host out") => B[1]
      /\ network_ready(g, "internet out") => C[2]
      /\ C[2] => B[2]
      /\ ~C[1] /\ ~Idle[1] /\ ~Idle[2]
  <2>1. B[1] = (g.router.interfaces[1].base.frames_out # <<>>)
    OBVIOUS
  <2>2. B[2] = (g.router.interfaces[2].base.frames_out # <<>>)
    OBVIOUS
  <2>3. C[2] = (2 = 2 /\ g.router.interfaces[2].base.frames_out # <<>>)
    OBVIOUS
  <2>4. C[1] = (1 = 2 /\ g.router.interfaces[1].base.frames_out # <<>>)
    OBVIOUS
  <2>5. Idle[1] = FALSE /\ Idle[2] = FALSE
    BY DEF Idle
  <2>6. 1 # 2
    OBVIOUS
  <2> HIDE DEF B, C
  <2> QED BY <1>0, <2>1, <2>2, <2>3, <2>4, <2>5, <2>6, Zenon
<1>2. /\ TurnOk(a, g, g.inbox, D, B) /\ a.g.to_router = g.to_router
  <2>1. RouterOk(g.router, D, B)
    <3>1. \A i \in 1 .. 2 : AsyncOk(g.router.interfaces[i], D, FALSE)
      BY Zenon DEF ProgramOk, RouterOk, Idle
    <3>2. \A i \in 1 .. 2 : B[i] => g.router.interfaces[i].base.frames_out # <<>>
      OBVIOUS
    <3> HIDE DEF B
    <3>3. \A i \in 1 .. 2 : AsyncOk(g.router.interfaces[i], D, B[i])
      BY <3>1, <3>2, Zenon DEF AsyncOk, InterfaceOk
    <3> QED BY <3>3, Zenon DEF ProgramOk, RouterOk
  <2>2. FramesOk(<<>>, D)
    BY FramesJoin
  <2>3. /\ FramesOk(g.to_host, D) /\ FramesOk(g.to_router, D) /\ FramesOk(g.inbox, D)
        /\ g = [ad |-> g.ad, interface |-> g.interface, to_host |-> g.to_host,
                to_router |-> g.to_router, router |-> g.router, inbox |-> g.inbox,
                phase |-> g.phase, up |-> g.up]
    BY Zenon DEF ProgramOk
  <2> DEFINE no == <<>>
  <2>4. FramesOk(no, D) /\ a = [g |-> g, tx |-> no]
    BY <2>2
  <2> HIDE DEF no, a, B
  <2>5. a.g = g /\ a.tx = no
    BY <2>4
  <2> QED BY <2>1, <2>3, <2>4, <2>5, Zenon DEF TurnOk
<1> HIDE DEF a, B, C
<1>3. TurnOk(b, g, g.inbox, D, B)
  <2>1. CASE network_ready(g, "host in")
    <3>1. b = network_callback(a, "host in")
      BY <2>1, Zenon DEF network_serve
    <3>2. a.g.to_router # <<>>
      BY <1>0, <1>2, <2>1, Zenon
    <3> HIDE DEF b
    <3> QED BY ONLY <1>2, <3>1, <3>2, D = Dgrams(P), HostInOk, Zenon
  <2>2. CASE ~network_ready(g, "host in")
    BY <1>2, <2>2, Zenon DEF network_serve
  <2> QED BY <2>1, <2>2, Zenon
<1> HIDE DEF b
<1>4. TurnOk(c, g, g.inbox, D, C)
  <2>1. CASE network_ready(g, "host out")
    <3>1. c = network_callback(b, "host out")
      BY <2>1, Zenon DEF network_serve
    <3>2. B[1]
      BY <1>1, <2>1, Zenon
    <3> HIDE DEF c
    <3> QED BY ONLY <1>1, <1>3, <3>1, <3>2, HostOutOk, Zenon
  <2>2. CASE ~network_ready(g, "host out")
    BY <1>1, <1>3, <2>2, TurnWeaker, Zenon DEF network_serve
  <2> QED BY <2>1, <2>2, Zenon
<1> HIDE DEF c
<1>5. TurnOk(d, g, g.inbox, D, Idle)
  <2>1. CASE network_ready(g, "internet out")
    <3>1. d = network_callback(c, "internet out")
      BY <2>1, Zenon DEF network_serve
    <3>2. C[2]
      BY <1>1, <2>1, Zenon
    <3> HIDE DEF d
    <3> QED BY ONLY <1>1, <1>4, <3>1, <3>2, InternetOutOk, Zenon
  <2>2. CASE ~network_ready(g, "internet out")
    BY <1>1, <1>4, <2>2, TurnWeaker, Zenon DEF network_serve
  <2> QED BY <2>1, <2>2, Zenon
<1> HIDE DEF d
<1>6. \E ib : TurnOk(e, g, ib, D, Idle)
  <2>1. CASE network_ready(g, "internet in")
    <3>1. e = network_callback(d, "internet in")
      BY <2>1, Zenon DEF network_serve
    <3>2. g.inbox # <<>>
      BY <1>0, <2>1, Zenon
    <3> HIDE DEF e
    <3> QED BY ONLY <1>5, <3>1, <3>2, D = Dgrams(P), InternetInOk, Zenon
  <2>2. CASE ~network_ready(g, "internet in")
    BY <1>5, <2>2, Zenon DEF network_serve
  <2> QED BY <2>1, <2>2, Zenon
<1>7. z = [g |-> [e.g EXCEPT !.router = both_tick(@)], tx |-> e.tx]
  BY Zenon DEF network_turn, a, b, c, d
<1> HIDE DEF e
<1> DEFINE u == e.g
           ro == both_tick(u.router)
<1>80. PICK ib : TurnOk(e, g, ib, D, Idle)
  BY <1>6
<1>8. /\ e = [g |-> u, tx |-> e.tx]
      /\ u = [ad |-> g.ad, interface |-> g.interface, to_host |-> u.to_host,
              to_router |-> u.to_router, router |-> u.router, inbox |-> ib,
              phase |-> g.phase, up |-> g.up]
      /\ RouterOk(u.router, D, Idle) /\ FramesOk(u.to_host, D) /\ FramesOk(u.to_router, D)
      /\ FramesOk(ib, D) /\ FramesOk(e.tx, D)
  BY <1>80, Zenon DEF TurnOk
<1>9. RouterOk(ro, D, Idle)
  BY <1>8, TicksOk
<1>10. z = [g |-> [u EXCEPT !.router = ro], tx |-> e.tx]
  BY <1>7, <1>8
<1> HIDE DEF ro, u
<1>11. z.g = [ad |-> g.ad, interface |-> g.interface, to_host |-> u.to_host,
              to_router |-> u.to_router, router |-> ro, inbox |-> ib,
              phase |-> g.phase, up |-> g.up]
       /\ z.tx = e.tx
  BY <1>8, <1>10
<1> DEFINE v == z.g
<1>12. v = [ad |-> g.ad, interface |-> g.interface, to_host |-> u.to_host,
            to_router |-> u.to_router, router |-> ro, inbox |-> ib,
            phase |-> g.phase, up |-> g.up]
  BY <1>11
<1> HIDE DEF v
<1>13. /\ v.ad = g.ad /\ v.interface = g.interface /\ v.to_host = u.to_host
       /\ v.to_router = u.to_router /\ v.router = ro /\ v.inbox = ib
       /\ v.phase = g.phase /\ v.up = g.up
  BY ONLY <1>12
<1>14. InterfaceOk(g.interface, D, FALSE)
  BY Zenon DEF ProgramOk
<1>15. ProgramOk(v, D)
  BY <1>8, <1>9, <1>12, <1>13, <1>14, Zenon DEF ProgramOk
<1> QED BY <1>8, <1>11, <1>13, <1>15 DEF v
-----------------------------------------------------------------------------
(* The datagrams in a socket of the bouncer: empty, or one frame each. *)
RecordOk(rec, D) == rec.payload # <<>> => FrameOk(rec.payload[1], D)
RecordsOk(s, D) == \E S : s \in Seq(S) /\ \A rec \in S : RecordOk(rec, D)

(* Two rows of records in a row, the first record and the others, and      *)
(* records of a larger set.                                                *)
LEMMA RecordsJoin ==
  ASSUME NEW D
  PROVE  /\ \A s, t : RecordsOk(s, D) /\ RecordsOk(t, D) => RecordsOk(s \o t, D)
         /\ \A s : RecordsOk(s, D) /\ s # <<>> => RecordOk(Head(s), D) /\ RecordsOk(Tail(s), D)
         /\ \A E, s : D \subseteq E /\ RecordsOk(s, D) => RecordsOk(s, E)
<1>1. ASSUME NEW s, NEW t, RecordsOk(s, D), RecordsOk(t, D) PROVE RecordsOk(s \o t, D)
  <2>1. PICK S : s \in Seq(S) /\ \A rec \in S : RecordOk(rec, D)
    BY <1>1 DEF RecordsOk
  <2>2. PICK T : t \in Seq(T) /\ \A rec \in T : RecordOk(rec, D)
    BY <1>1 DEF RecordsOk
  <2>3. s \in Seq(S \cup T) /\ t \in Seq(S \cup T)
    BY <2>1, <2>2, SeqWider
  <2>4. s \o t \in Seq(S \cup T)
    BY <2>3, ConcatProperties
  <2>5. \A rec \in S \cup T : RecordOk(rec, D)
    BY <2>1, <2>2
  <2> QED BY <2>4, <2>5, Zenon DEF RecordsOk
<1>2. ASSUME NEW s, RecordsOk(s, D), s # <<>>
      PROVE  RecordOk(Head(s), D) /\ RecordsOk(Tail(s), D)
  <2>1. PICK S : s \in Seq(S) /\ \A rec \in S : RecordOk(rec, D)
    BY <1>2 DEF RecordsOk
  <2>2. Head(s) \in S /\ Tail(s) \in Seq(S)
    BY <1>2, <2>1, HeadTailProperties
  <2> QED BY <2>1, <2>2, Zenon DEF RecordsOk
<1>3. ASSUME NEW E, NEW s, D \subseteq E, RecordsOk(s, D) PROVE RecordsOk(s, E)
  BY <1>3, Zenon DEF RecordsOk, RecordOk, FrameOk
<1> QED BY <1>1, <1>2, <1>3

(* Three hellos, and the frames of a turn. *)
LEMMA RecordsSent ==
  ASSUME NEW D, NEW p, NEW tx, FramesOk(tx, D)
  PROVE  /\ RecordsOk(<<[from |-> p, payload |-> <<>>], [from |-> p, payload |-> <<>>],
                        [from |-> p, payload |-> <<>>]>>, D)
         /\ RecordsOk([i \in DOMAIN tx |-> [from |-> p, payload |-> <<tx[i]>>]], D)
<1>1. RecordsOk(<<[from |-> p, payload |-> <<>>], [from |-> p, payload |-> <<>>],
                  [from |-> p, payload |-> <<>>]>>, D)
  <2> DEFINE hello == [from |-> p, payload |-> <<>>]
             S == {hello}
             s == <<hello, hello, hello>>
  <2>1. RecordOk(hello, D)
    BY DEF RecordOk
  <2> HIDE DEF hello
  <2>2. s \in Seq(S) /\ \A rec \in S : RecordOk(rec, D)
    BY <2>1
  <2> HIDE DEF S, s
  <2>3. RecordsOk(s, D)
    BY <2>2, Zenon DEF RecordsOk
  <2> QED BY <2>3 DEF s, hello
<1>2. RecordsOk([i \in DOMAIN tx |-> [from |-> p, payload |-> <<tx[i]>>]], D)
  <2>1. PICK T : tx \in Seq(T) /\ \A f \in T : FrameOk(f, D)
    BY DEF FramesOk
  <2> DEFINE rec(i) == [from |-> p, payload |-> <<tx[i]>>]
             S == {rec(i) : i \in 1 .. Len(tx)}
             s == [i \in DOMAIN tx |-> rec(i)]
  <2>2. DOMAIN tx = 1 .. Len(tx) /\ Len(tx) \in Nat /\ \A i \in 1 .. Len(tx) : tx[i] \in T
    BY <2>1, LenProperties, ElementOfSeq
  <2>3. ASSUME NEW i \in 1 .. Len(tx) PROVE RecordOk(rec(i), D)
    BY <2>1, <2>2 DEF RecordOk
  <2> HIDE DEF rec
  <2>4. s \in Seq(S)
    BY <2>2, SeqDef
  <2>5. \A x \in S : RecordOk(x, D)
    BY <2>3
  <2> HIDE DEF S, s
  <2>6. RecordsOk(s, D)
    BY <2>4, <2>5, Zenon DEF RecordsOk
  <2> QED BY <2>6 DEF s, rec
<1> QED BY <1>1, <1>2

(* The inductive invariant.  P holds the port the server is bound to, if   *)
(* it is: every segment of the server, wherever it is, goes to this port.  *)
Lab7Ok(pr, bo, P) ==
    /\ pr = [p \in Programs |-> pr[p]]
    /\ \A p \in Programs : ProgramOk(pr[p], Dgrams(P)) /\ Bound(p, pr[p].ad, pr[p].up, P)
    /\ bo = [peer |-> bo.peer, queue |-> bo.queue]
    /\ bo.queue = [s \in {"x", "y"} |-> bo.queue[s]]
    /\ \A s \in {"x", "y"} : RecordsOk(bo.queue[s], Dgrams(P))

Lab7Inv == rival \in BOOLEAN /\ \E P : Lab7Ok(prog, bouncer, P)

(* One program takes a step; the server may be bound by it. *)
LEMMA OneMoves ==
  ASSUME NEW pr, NEW bo, NEW P, Lab7Ok(pr, bo, P), NEW p \in Programs, NEW Q, P \subseteq Q,
         p # "server" => Q = P, NEW x, ProgramOk(x, Dgrams(Q)), Bound(p, x.ad, x.up, Q),
         NEW qr, qr = [pr EXCEPT ![p] = x]
  PROVE  Lab7Ok(qr, bo, Q)
<1>1. Segs(P) \subseteq Segs(Q) /\ Dgrams(P) \subseteq Dgrams(Q)
  BY MorePorts
<1>2. qr = [q \in Programs |-> qr[q]] /\ qr[p] = x /\ \A q \in Programs \ {p} : qr[q] = pr[q]
  BY DEF Lab7Ok
<1>3. ASSUME NEW q \in Programs
      PROVE  ProgramOk(qr[q], Dgrams(Q)) /\ Bound(q, qr[q].ad, qr[q].up, Q)
  <2>1. CASE q = p
    BY <1>2, <2>1, Zenon
  <2>2. CASE q # p
    <3> DEFINE y == pr[q]
    <3>1. qr[q] = y /\ ProgramOk(y, Dgrams(P)) /\ Bound(q, y.ad, y.up, P)
      BY <1>2, <2>2, Zenon DEF Lab7Ok
    <3> HIDE DEF y
    <3>2. ProgramOk(y, Dgrams(Q))
      BY <1>1, <3>1, ProgramWider, Zenon
    <3>3. Bound(q, y.ad, y.up, Q)
      BY <1>1, <2>2, <3>1, Zenon DEF Bound
    <3> QED BY <3>1, <3>2, <3>3, Zenon
  <2> QED BY <2>1, <2>2
<1>4. \A s \in {"x", "y"} : RecordsOk(bo.queue[s], Dgrams(Q))
  BY <1>1, RecordsJoin, Zenon DEF Lab7Ok
<1> QED BY <1>2, <1>3, <1>4, Zenon DEF Lab7Ok
(* A socket of the bouncer has other datagrams. *)
LEMMA QueueMoves ==
  ASSUME NEW pr, NEW bo, NEW P, Lab7Ok(pr, bo, P), NEW s \in {"x", "y"},
         NEW t, RecordsOk(t, Dgrams(P)), NEW peer, NEW b2,
         b2 = [peer |-> peer, queue |-> [bo.queue EXCEPT ![s] = t]]
  PROVE  Lab7Ok(pr, b2, P)
<1> DEFINE q == [bo.queue EXCEPT ![s] = t]
<1>1. /\ bo.queue = [k \in {"x", "y"} |-> bo.queue[k]]
      /\ \A k \in {"x", "y"} : RecordsOk(bo.queue[k], Dgrams(P))
  BY Zenon DEF Lab7Ok
<1>2. q = [k \in {"x", "y"} |-> q[k]] /\ \A k \in {"x", "y"} : RecordsOk(q[k], Dgrams(P))
  BY <1>1, Zenon
<1> HIDE DEF q
<1>3. b2 = [peer |-> peer, queue |-> q]
  BY DEF q
<1>4. b2.peer = peer /\ b2.queue = q
  BY <1>3
<1> QED BY <1>2, <1>3, <1>4, Zenon DEF Lab7Ok

(* The action of a program that sends: its socket gets more datagrams. *)
LEMMA QueueGrows ==
  ASSUME NEW pr, NEW bo, NEW P, Lab7Ok(pr, bo, P), NEW s \in {"x", "y"},
         NEW t, RecordsOk(t, Dgrams(P)), NEW b2, b2 = [bo EXCEPT !.queue[s] = @ \o t]
  PROVE  Lab7Ok(pr, b2, P)
<1> DEFINE u == bo.queue[s] \o t
<1>1. bo = [peer |-> bo.peer, queue |-> bo.queue] /\ RecordsOk(bo.queue[s], Dgrams(P))
  BY Zenon DEF Lab7Ok
<1>2. RecordsOk(u, Dgrams(P))
  BY <1>1, RecordsJoin, Zenon
<1>3. b2 = [peer |-> bo.peer, queue |-> [bo.queue EXCEPT ![s] = u]]
  BY <1>1, Zenon
<1> HIDE DEF u
<1> QED BY <1>2, <1>3, QueueMoves, Zenon
(* A new router, and one more route. *)
LEMMA NewRouterOk ==
  ASSUME NEW D, NEW p
  PROVE  RouterOk(NewLab7Router(p), D, Idle)
<1> DEFINE x == AsyncInterface(Mac(p, HostSide(p)), HostSide(p))
           y == AsyncInterface(Mac(p, InternetSide(p)), InternetSide(p))
           bare == NewRouter(<<x, y>>)
<1>1. \A eth, ip : AsyncOk(AsyncInterface(eth, ip), D, FALSE) /\ IsAsync(AsyncInterface(eth, ip))
  <2> TAKE eth, ip
  <2> DEFINE ni == NewInterface(eth, ip)
             q == <<>>
  <2>1. InterfaceOk(ni, D, FALSE) /\ q \in Seq(D)
    BY NewInterfaceOk, EmptySeq, Zenon
  <2>2. AsyncInterface(eth, ip) = [base |-> ni, datagrams_out |-> q]
    BY DEF AsyncInterface
  <2> HIDE DEF ni, q
  <2> QED BY <2>1, <2>2, AsyncMade, Zenon
<1>2. AsyncOk(x, D, FALSE) /\ IsAsync(x) /\ AsyncOk(y, D, FALSE) /\ IsAsync(y)
  BY <1>1, Zenon
<1> HIDE DEF x, y
<1>3. RouterOk(bare, D, Idle)
  <2> DEFINE s == <<x, y>>
             S == {x, y}
  <2>1. s \in Seq(S) /\ Len(s) = 2 /\ s[1] = x /\ s[2] = y
    OBVIOUS
  <2>2. \A i \in 1 .. 2 : IsAsync(s[i]) /\ AsyncOk(s[i], D, Idle[i])
    <3> HIDE DEF s
    <3>1. \A i \in 1 .. 2 : i = 1 \/ i = 2
      OBVIOUS
    <3>2. \A i \in 1 .. 2 : Idle[i] = FALSE
      BY DEF Idle
    <3> QED BY <1>2, <2>1, <3>1, <3>2, Zenon
  <2>3. bare = [interfaces |-> s, routing_table |-> <<>>]
    BY DEF NewRouter
  <2> HIDE DEF s, S, bare
  <2>4. bare.interfaces = s /\ bare.routing_table = <<>>
    BY <2>3
  <2>5. IsList(s)
    BY <2>1, Zenon DEF IsList
  <2>6. IsRouter(bare)
    BY <2>1, <2>2, <2>3, <2>4, <2>5, Zenon DEF IsRouter
  <2> QED BY <2>1, <2>2, <2>4, <2>6, Zenon DEF RouterOk
<1>4. ASSUME NEW r, RouterOk(r, D, Idle), NEW e PROVE RouterOk(add_route(r, e), D, Idle)
  <2> DEFINE q == add_route(r, e)
             t == Append(r.routing_table, e)
  <2>1. r = [interfaces |-> r.interfaces, routing_table |-> r.routing_table]
    BY <1>4, Zenon DEF RouterOk, IsRouter
  <2>2. q = [interfaces |-> r.interfaces, routing_table |-> t]
    BY <2>1 DEF add_route
  <2> HIDE DEF q, t
  <2>3. q.interfaces = r.interfaces /\ q.routing_table = t
    BY <2>2
  <2>4. RouterOk(q, D, Idle)
    BY <1>4, <2>2, <2>3, Zenon DEF RouterOk, IsRouter
  <2> QED BY <2>4 DEF q
<1> HIDE DEF bare
<1> QED BY <1>3, <1>4, Zenon DEF NewLab7Router, bare, x, y

(* The initial states. *)
LEMMA Lab7Starts == Lab7Init => Lab7Inv
<1> SUFFICES ASSUME Lab7Init PROVE Lab7Inv
  OBVIOUS
<1> DEFINE P == {}
           no == <<>>
<1>1. Programs \subseteq Everyone
  BY DEF Programs, Clients, Everyone
<1>2. ASSUME NEW p \in Programs
      PROVE  ProgramOk(prog[p], Dgrams(P)) /\ Bound(p, prog[p].ad, prog[p].up, P)
  <2> DEFINE D == Dgrams(P)
             g == prog[p]
             ad == NewAdapter([ip |-> HostIp(p), port |-> Port(p)],
                       IF p = "server" THEN Unset ELSE ServerAddress, p = "server")
             ni == NewInterface(Mac(p, HostIp(p)), HostIp(p))
             r == NewLab7Router(p)
             up == {}
  <2>1. g = [ad |-> ad, interface |-> ni, to_host |-> no, to_router |-> no, router |-> r,
             inbox |-> no, phase |-> "new", up |-> up]
    BY Zenon DEF Lab7Init, NewProgram
  <2>2. FramesOk(no, D) /\ InterfaceOk(ni, D, FALSE) /\ RouterOk(r, D, Idle)
    BY FramesJoin, NewInterfaceOk, NewRouterOk, Zenon
  <2>3. Bound(p, ad, up, P)
    <3>1. p \in Everyone /\ "server" \in Everyone
      BY <1>1 DEF Everyone
    <3>2. ad = [source |-> [ip |-> HostIp(p), port |-> Port(p)],
                destination |-> IF p = "server" THEN Unset ELSE ServerAddress,
                listening |-> p = "server"]
      BY DEF NewAdapter
    <3>3. ad \in AdapterSet
      <4> DEFINE dst == IF p = "server" THEN Unset ELSE ServerAddress
      <4>1. Port(p) \in Nat /\ HostIp(p) \in Nat /\ Port("server") \in Nat /\ HostIp("server") \in Nat
        BY <3>1, PortFacts, Zenon
      <4>2. dst \in [ip : Nat, port : Nat]
        BY <4>1 DEF Unset, ServerAddress
      <4> DEFINE src == [ip |-> HostIp(p), port |-> Port(p)]
                 li == p = "server"
      <4>3. src \in [ip : Nat, port : Nat]
        BY <4>1
      <4>4. li \in BOOLEAN
        BY Zenon
      <4>5. ad = [source |-> src, destination |-> dst, listening |-> li]
        BY <3>2
      <4> HIDE DEF dst, src, li, ad
      <4> QED BY ONLY <4>2, <4>3, <4>4, <4>5 DEF AdapterSet
    <3>4. ad.source.port = Port(p) /\ ad.listening = (p = "server")
          /\ (p # "server" => ad.destination.port = Port("server"))
      BY <3>2 DEF ServerAddress
    <3> HIDE DEF ad
    <3> QED BY <3>3, <3>4, Zenon DEF Bound
  <2> HIDE DEF no, ni, r, ad, up, D, g
  <2>4. /\ g.ad = ad /\ g.interface = ni /\ g.to_host = no /\ g.to_router = no
        /\ g.router = r /\ g.inbox = no /\ g.phase = "new" /\ g.up = up
    BY <2>1
  <2>5. ProgramOk(g, D)
    BY <2>1, <2>2, <2>4, Zenon DEF ProgramOk
  <2> QED BY <2>3, <2>4, <2>5 DEF g, D
<1>3. RecordsOk(no, Dgrams(P))
  <2> DEFINE S == {}
             D == Dgrams(P)
  <2>1. no \in Seq(S) /\ \A rec \in S : RecordOk(rec, D)
    OBVIOUS
  <2> HIDE DEF S, no, D
  <2>2. RecordsOk(no, D)
    BY <2>1, Zenon DEF RecordsOk
  <2> QED BY <2>2 DEF D
<1>4. /\ prog = [p \in Programs |-> prog[p]] /\ rival \in BOOLEAN
      /\ bouncer = [peer |-> bouncer.peer, queue |-> bouncer.queue]
      /\ bouncer.queue = [s \in {"x", "y"} |-> bouncer.queue[s]]
      /\ \A s \in {"x", "y"} : bouncer.queue[s] = no
  BY DEF Lab7Init
<1> HIDE DEF P, no
<1>5. Lab7Ok(prog, bouncer, P)
  BY <1>2, <1>3, <1>4, Zenon DEF Lab7Ok
<1> QED BY <1>4, <1>5, Zenon DEF Lab7Inv
(* Start *)
LEMMA StartOk ==
  ASSUME Lab7Inv, NEW p \in Programs, Start(p) PROVE Lab7Inv'
<1>1. PICK P : Lab7Ok(prog, bouncer, P)
  BY DEF Lab7Inv
<1> DEFINE D == Dgrams(P)
           g == prog[p]
           x == [g EXCEPT !.phase = "started"]
           hello == [from |-> p, payload |-> <<>>]
           hellos == <<hello, hello, hello>>
<1>2. /\ prog' = [prog EXCEPT ![p] = x] /\ rival' = rival
      /\ bouncer' = [bouncer EXCEPT !.queue[Side(p)] = @ \o hellos]
  BY DEF Start
<1>3. ProgramOk(g, D) /\ Bound(p, g.ad, g.up, P)
  BY <1>1, Zenon DEF Lab7Ok
<1>4. RecordsOk(hellos, D)
  BY FramesJoin, RecordsSent, Zenon
<1> HIDE DEF hellos, g
<1>5. x = [ad |-> g.ad, interface |-> g.interface, to_host |-> g.to_host,
           to_router |-> g.to_router, router |-> g.router, inbox |-> g.inbox,
           phase |-> "started", up |-> g.up]
  BY <1>3 DEF ProgramOk
<1> HIDE DEF x
<1>6. /\ x.ad = g.ad /\ x.interface = g.interface /\ x.to_host = g.to_host
      /\ x.to_router = g.to_router /\ x.router = g.router /\ x.inbox = g.inbox
      /\ x.phase = "started" /\ x.up = g.up
  BY ONLY <1>5
<1>7. ProgramOk(x, D) /\ Bound(p, x.ad, x.up, P)
  BY <1>3, <1>5, <1>6, Zenon DEF ProgramOk
<1>8. Lab7Ok(prog', bouncer, P)
  BY ONLY <1>1, <1>2, <1>7, p \in Programs, OneMoves, Zenon
<1>9. Side(p) \in {"x", "y"}
  BY DEF Side
<1>10. Lab7Ok(prog', bouncer', P)
  BY ONLY <1>2, <1>4, <1>8, <1>9, QueueGrows, Zenon
<1> QED BY <1>2, <1>10, Zenon DEF Lab7Inv, Lab7Ok, Programs, Clients

(* Connect and Read *)
LEMMA HostOk ==
  ASSUME Lab7Inv, NEW p \in Programs, Connect(p) \/ Read(p) PROVE Lab7Inv'
<1>1. PICK P : Lab7Ok(prog, bouncer, P)
  BY DEF Lab7Inv
<1> DEFINE D == Dgrams(P)
           g == prog[p]
<1>2. ProgramOk(g, D) /\ Bound(p, g.ad, g.up, P)
  BY <1>1, Zenon DEF Lab7Ok
<1>3. p \in Everyone /\ rival' = rival /\ bouncer' = bouncer
  BY Zenon DEF Connect, Read, Programs, Clients, Everyone
<1>4. \E Q, x : /\ P \subseteq Q /\ (p # "server" => Q = P)
                /\ ProgramOk(x, Dgrams(Q)) /\ Bound(p, x.ad, x.up, Q)
                /\ prog' = [prog EXCEPT ![p] = x]
  <2>1. CASE Connect(p)
    <3> DEFINE y == adapter_write(p, g, TRUE)
               x == [y EXCEPT !.phase = "syn"]
    <3>1. p # "server" /\ prog' = [prog EXCEPT ![p] = x]
      BY <2>1 DEF Connect
    <3>2. g.ad \in AdapterSet /\ g.ad.source.port # Port("server")
      BY <1>2, <1>3, <3>1, PortFacts, Zenon DEF Bound
    <3> DEFINE syn == TRUE
    <3>3. y = adapter_write(p, g, syn) /\ syn \in BOOLEAN
      OBVIOUS
    <3> HIDE DEF y, g, syn
    <3>4. ProgramOk(y, D) /\ y.ad = g.ad /\ y.up = g.up
      BY ONLY <1>2, <3>2, <3>3, AdapterWriteOk
    <3>5. x = [ad |-> y.ad, interface |-> y.interface, to_host |-> y.to_host,
               to_router |-> y.to_router, router |-> y.router, inbox |-> y.inbox,
               phase |-> "syn", up |-> y.up]
      BY <3>4 DEF ProgramOk
    <3> HIDE DEF x
    <3>6. /\ x.ad = y.ad /\ x.interface = y.interface /\ x.to_host = y.to_host
          /\ x.to_router = y.to_router /\ x.router = y.router /\ x.inbox = y.inbox
          /\ x.phase = "syn" /\ x.up = y.up
      BY ONLY <3>5
    <3>7. ProgramOk(x, D) /\ Bound(p, x.ad, x.up, P)
      BY <1>2, <3>4, <3>5, <3>6, Zenon DEF ProgramOk
    <3> QED BY <3>1, <3>7, Zenon
  <2>2. CASE Read(p)
    <3> DEFINE x == adapter_read(p, g)
    <3>1. g.to_host # <<>> /\ prog' = [prog EXCEPT ![p] = x] /\ x = adapter_read(p, g)
      BY <2>2 DEF Read
    <3> HIDE DEF x, g
    <3>2. \E Q : /\ P \subseteq Q /\ (p # "server" => Q = P)
                 /\ ProgramOk(x, Dgrams(Q)) /\ Bound(p, x.ad, x.up, Q)
      BY ONLY <1>2, <1>3, <3>1, AdapterReadOk
    <3> QED BY <3>1, <3>2, Zenon
  <2> QED BY <2>1, <2>2
<1>5. PICK Q, x : /\ P \subseteq Q /\ (p # "server" => Q = P)
                  /\ ProgramOk(x, Dgrams(Q)) /\ Bound(p, x.ad, x.up, Q)
                  /\ prog' = [prog EXCEPT ![p] = x]
  BY <1>4, Zenon
<1>6. Lab7Ok(prog', bouncer, Q)
  BY ONLY <1>1, <1>5, p \in Programs, OneMoves, ZenonT(60)
<1> QED BY <1>3, <1>6 DEF Lab7Inv, Lab7Ok, Programs, Clients
(* NetworkTurn *)
LEMMA TurnKeeps ==
  ASSUME Lab7Inv, NEW p \in Programs, NetworkTurn(p) PROVE Lab7Inv'
<1>1. PICK P : Lab7Ok(prog, bouncer, P)
  BY DEF Lab7Inv
<1> DEFINE D == Dgrams(P)
           g == prog[p]
           w == network_turn(g)
           x == w.g
           tx == w.tx
           t == [i \in DOMAIN tx |-> [from |-> p, payload |-> <<tx[i]>>]]
<1>2. /\ prog' = [prog EXCEPT ![p] = x] /\ rival' = rival
      /\ bouncer' = [bouncer EXCEPT !.queue[Side(p)] = @ \o t]
  BY DEF NetworkTurn
<1>3. ProgramOk(g, D) /\ Bound(p, g.ad, g.up, P)
  BY <1>1, Zenon DEF Lab7Ok
<1>4. w = network_turn(g)
  OBVIOUS
<1> HIDE DEF g, w
<1>5. ProgramOk(w.g, D) /\ w.g.ad = g.ad /\ w.g.up = g.up /\ FramesOk(w.tx, D)
  BY <1>3, <1>4, NetworkTurnOk
<1>6. RecordsOk(t, D)
  <2>1. FramesOk(tx, D)
    BY <1>5
  <2> HIDE DEF tx
  <2> QED BY <2>1, RecordsSent, Zenon
<1>7. ProgramOk(x, D) /\ Bound(p, x.ad, x.up, P)
  BY <1>3, <1>5, Zenon
<1> HIDE DEF x, t
<1>8. Lab7Ok(prog', bouncer, P)
  BY ONLY <1>1, <1>2, <1>7, p \in Programs, OneMoves, Zenon
<1>9. Side(p) \in {"x", "y"}
  BY DEF Side
<1>10. Lab7Ok(prog', bouncer', P)
  BY ONLY <1>2, <1>6, <1>8, <1>9, QueueGrows, Zenon
<1> QED BY <1>2, <1>10, Zenon DEF Lab7Inv, Lab7Ok, Programs, Clients

(* Timeout *)
LEMMA TimeoutOk ==
  ASSUME Lab7Inv, Timeout PROVE Lab7Inv'
<1>1. PICK P : Lab7Ok(prog, bouncer, P)
  BY DEF Lab7Inv
<1> DEFINE D == Dgrams(P)
           z(p) == adapter_tick(network_turn(prog[p]).g)
<1>2. rival' = rival /\ bouncer' = bouncer /\ prog' = [p \in Programs |-> z(p)]
  BY DEF Timeout
<1>3. ASSUME NEW p \in Programs PROVE ProgramOk(z(p), D) /\ Bound(p, z(p).ad, z(p).up, P)
  <2> DEFINE g == prog[p]
             w == network_turn(g)
             y == adapter_tick(w.g)
  <2>1. ProgramOk(g, D) /\ Bound(p, g.ad, g.up, P)
    BY <1>1, Zenon DEF Lab7Ok
  <2>2. w = network_turn(g)
    OBVIOUS
  <2> HIDE DEF g, w
  <2>3. ProgramOk(w.g, D) /\ w.g.ad = g.ad /\ w.g.up = g.up
    BY <2>1, <2>2, NetworkTurnOk
  <2>4. y = adapter_tick(w.g)
    OBVIOUS
  <2> HIDE DEF y
  <2>5. ProgramOk(y, D) /\ y.ad = g.ad /\ y.up = g.up
    BY <2>3, <2>4, AdapterTickOk
  <2>6. Bound(p, y.ad, y.up, P)
    BY <2>1, <2>5, Zenon
  <2> QED BY <2>5, <2>6 DEF y, w, g
<1> HIDE DEF z
<1>4. prog' = [p \in Programs |-> prog'[p]] /\ \A p \in Programs : prog'[p] = z(p)
  BY <1>2
<1>5. Lab7Ok(prog', bouncer, P)
  BY <1>1, <1>3, <1>4, Zenon DEF Lab7Ok
<1> QED BY <1>2, <1>5 DEF Lab7Inv, Lab7Ok, Programs, Clients

(* Bounce *)
LEMMA BounceOk ==
  ASSUME Lab7Inv, NEW s \in {"x", "y"}, Bounce(s) PROVE Lab7Inv'
<1>1. PICK P : Lab7Ok(prog, bouncer, P)
  BY DEF Lab7Inv
<1> DEFINE D == Dgrams(P)
           rec == Head(bouncer.queue[s])
           t == Tail(bouncer.queue[s])
           to == bouncer.peer[OtherSide(s)]
           peer == [bouncer.peer EXCEPT ![s] = rec.from]
<1>2. /\ bouncer.queue[s] # <<>> /\ rival' = rival
      /\ bouncer' = [bouncer EXCEPT !.peer[s] = rec.from, !.queue[s] = Tail(@)]
      /\ prog' = IF to = "nobody" \/ rec.payload = <<>> THEN prog
                 ELSE [prog EXCEPT ![to].inbox = Append(@, rec.payload[1])]
  BY DEF Bounce
<1>3. /\ bouncer = [peer |-> bouncer.peer, queue |-> bouncer.queue]
      /\ RecordsOk(bouncer.queue[s], D)
  BY <1>1, Zenon DEF Lab7Ok
<1>4. RecordOk(rec, D) /\ RecordsOk(t, D)
  BY <1>2, <1>3, RecordsJoin, Zenon
<1>5. bouncer' = [peer |-> peer, queue |-> [bouncer.queue EXCEPT ![s] = t]]
  <2> HIDE DEF rec
  <2> QED BY <1>2, <1>3, Zenon
<1> HIDE DEF rec, t, to, peer
<1>6. Lab7Ok(prog, bouncer', P)
  BY ONLY <1>1, <1>4, <1>5, s \in {"x", "y"}, QueueMoves
<1>7. Lab7Ok(prog', bouncer', P)
  <2>1. CASE prog' = prog
    BY <1>6, <2>1
  <2>2. CASE prog' # prog
    <3> DEFINE g == prog[to]
               ib == Append(g.inbox, rec.payload[1])
               x == [g EXCEPT !.inbox = ib]
    <3>1. rec.payload # <<>> /\ prog' = [prog EXCEPT ![to] = x]
      BY <1>2, <2>2
    <3>2. to \in Programs
      <4>1. prog = [p \in Programs |-> prog[p]]
        BY <1>1, Zenon DEF Lab7Ok
      <4> HIDE DEF x
      <4> QED BY <2>2, <3>1, <4>1
    <3>3. ProgramOk(g, D) /\ Bound(to, g.ad, g.up, P)
      BY <1>1, <3>2, Zenon DEF Lab7Ok
    <3>4. FramesOk(ib, D)
      BY <1>4, <3>1, <3>3, FramesJoin, Zenon DEF RecordOk, ProgramOk
    <3> HIDE DEF g, ib
    <3>5. x = [ad |-> g.ad, interface |-> g.interface, to_host |-> g.to_host,
               to_router |-> g.to_router, router |-> g.router, inbox |-> ib,
               phase |-> g.phase, up |-> g.up]
      BY <3>3 DEF ProgramOk
    <3> HIDE DEF x
    <3>6. /\ x.ad = g.ad /\ x.interface = g.interface /\ x.to_host = g.to_host
          /\ x.to_router = g.to_router /\ x.router = g.router /\ x.inbox = ib
          /\ x.phase = g.phase /\ x.up = g.up
      BY ONLY <3>5
    <3>7. ProgramOk(x, D) /\ Bound(to, x.ad, x.up, P)
      BY <3>3, <3>4, <3>5, <3>6, Zenon DEF ProgramOk
    <3> QED BY ONLY <1>6, <3>1, <3>2, <3>7, OneMoves, Zenon
  <2> QED BY <2>1, <2>2
<1> QED BY <1>2, <1>7, Zenon DEF Lab7Inv, Lab7Ok, Programs, Clients

(* All of it, in every state. *)
THEOREM Lab7Invariant == Lab7Spec => []Lab7Inv
<1>1. Lab7Init => Lab7Inv
  BY Lab7Starts
<1>2. Lab7Inv /\ [Lab7Next]_lvars => Lab7Inv'
  <2> SUFFICES ASSUME Lab7Inv, [Lab7Next]_lvars PROVE Lab7Inv'
    OBVIOUS
  <2>1. CASE UNCHANGED lvars
    BY <2>1 DEF lvars, Lab7Inv, Lab7Ok, Programs, Clients
  <2>2. CASE Lab7Next
    BY <2>2, StartOk, HostOk, TurnKeeps, TimeoutOk, BounceOk, Zenon DEF Lab7Next
  <2> QED BY <2>1, <2>2
<1> QED BY <1>1, <1>2, PTL DEF Lab7Spec

(* The server is bound to one client, the first whose SYN came up, and     *)
(* takes only what this client sent (tcp_over_ip.cc:55-68).                *)
THEOREM ServerHearsItsPeer == Lab7Spec => []OnlyFromPeer
<1>1. Lab7Inv => OnlyFromPeer
  <2>1. "server" \in Programs
    BY DEF Programs
  <2> QED BY <2>1, Zenon DEF Lab7Inv, Lab7Ok, Bound, OnlyFromPeer
<1> QED BY <1>1, Lab7Invariant, PTL

(* A client takes only answers that are meant for it, and only if the      *)
(* server is bound to it.                                                  *)
THEOREM ClientsTakeTheirAnswers == Lab7Spec => []AnswersAreMine
<1>1. Lab7Inv => AnswersAreMine
  <2> SUFFICES ASSUME Lab7Inv, NEW p \in Clients, NEW seg \in prog[p].up
               PROVE  seg.header.dport = Port(p)
                      /\ prog["server"].ad.destination.port = Port(p)
    BY Zenon DEF AnswersAreMine
  <2>1. PICK P : Lab7Ok(prog, bouncer, P)
    BY DEF Lab7Inv
  <2>2. "server" \in Programs /\ p \in Programs /\ p # "server"
    BY DEF Programs, Clients
  <2>3. Bound(p, prog[p].ad, prog[p].up, P)
        /\ Bound("server", prog["server"].ad, prog["server"].up, P)
    BY <2>1, <2>2, Zenon DEF Lab7Ok
  <2>4. seg.header.dport = Port(p) /\ seg.header.sport = Port("server") /\ seg \in Segs(P)
    BY <2>2, <2>3, Zenon DEF Bound
  <2>5. Port(p) \in P
    BY <2>4, Zenon DEF Segs
  <2>6. P = IF prog["server"].ad.listening THEN {} ELSE {prog["server"].ad.destination.port}
    BY <2>3, Zenon DEF Bound
  <2> QED BY <2>4, <2>5, <2>6, Zenon
<1> QED BY <1>1, Lab7Invariant, PTL
=============================================================================
