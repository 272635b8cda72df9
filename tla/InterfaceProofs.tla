--------------------------- MODULE InterfaceProofs ---------------------------
(***************************************************************************)
(* The safety of the NetworkInterfaces of InterfaceSpec, for any number of *)
(* hosts, datagrams, losses and any lifetimes.                             *)
(***************************************************************************)
EXTENDS InterfaceSpec, Integers, SequenceTheorems, FiniteSetTheorems, TLAPS

(* How many members of a sequence are in a set. *)
Hits(s, S) == {i \in 1 .. Len(s) : s[i] \in S}
Number(s, S) == Cardinality(Hits(s, S))

(* It is a number. *)
LEMMA NumberType ==
  ASSUME NEW s, Len(s) \in Nat, NEW S
  PROVE  IsFiniteSet(Hits(s, S)) /\ Number(s, S) \in Nat
<1>1. Hits(s, S) \in SUBSET (1 .. Len(s)) /\ IsFiniteSet(1 .. Len(s))
  BY FS_Interval DEF Hits
<1>2. IsFiniteSet(Hits(s, S))
  BY <1>1, FS_Subset
<1> QED BY <1>2, FS_CardinalityType DEF Number

(* Nothing is in the empty sequence. *)
LEMMA NumberEmpty ==
  ASSUME NEW S
  PROVE  Number(<<>>, S) = 0
<1>1. Hits(<<>>, S) = {}
  BY DEF Hits
<1> QED BY <1>1, FS_EmptySet DEF Number

(* Appending counts the new member, ... *)
LEMMA NumberAppend ==
  ASSUME NEW T, NEW s \in Seq(T), NEW x \in T, NEW S
  PROVE  Number(Append(s, x), S) = Number(s, S) + (IF x \in S THEN 1 ELSE 0)
<1> DEFINE a == Append(s, x)
           n == Len(s)
<1>1. /\ n \in Nat /\ Len(a) = n + 1 /\ a[n + 1] = x
      /\ \A i \in 1 .. n : a[i] = s[i]
  BY AppendProperties
<1>2. IsFiniteSet(Hits(s, S)) /\ Number(s, S) \in Nat /\ n + 1 \notin Hits(s, S)
  <2>1. n + 1 \notin Hits(s, S)
    BY <1>1 DEF Hits
  <2> QED BY <1>1, <2>1, NumberType
<1> HIDE DEF a
<1>3. CASE x \in S
  <2>1. Hits(a, S) = Hits(s, S) \cup {n + 1}
    BY <1>1, <1>3 DEF Hits
  <2>2. Cardinality(Hits(s, S) \cup {n + 1}) = Cardinality(Hits(s, S)) + 1
    BY <1>2, FS_AddElement, Zenon
  <2> QED BY <1>3, <2>1, <2>2 DEF Number, a
<1>4. CASE x \notin S
  <2>1. Hits(a, S) = Hits(s, S)
    BY <1>1, <1>4 DEF Hits
  <2> QED BY <1>2, <1>4, <2>1 DEF Number, a
<1> QED BY <1>3, <1>4

(* ... and removing the member at i uncounts it. *)
Without(s, t, i) ==
    /\ Len(s) \in Nat /\ Len(t) \in Nat /\ Len(t) = Len(s) - 1
    /\ \A j \in 1 .. Len(t) : t[j] = s[IF j < i THEN j ELSE j + 1]

(* As above. *)
LEMMA NumberWithout ==
  ASSUME NEW s, NEW t, NEW i \in 1 .. Len(s), Without(s, t, i), NEW S
  PROVE  Number(s, S) = Number(t, S) + (IF s[i] \in S THEN 1 ELSE 0)
<1> USE DEF Without
<1> DEFINE f == [j \in Hits(t, S) |-> IF j < i THEN j ELSE j + 1]
           U == Hits(s, S) \ {i}
<1>1. f \in [Hits(t, S) -> U]
  BY DEF Hits
<1>2. \A x, y \in Hits(t, S) : f[x] = f[y] => x = y
  BY DEF Hits
<1>3. \A k \in U : \E j \in Hits(t, S) : f[j] = k
  <2> SUFFICES ASSUME NEW k \in U PROVE \E j \in Hits(t, S) : f[j] = k
    OBVIOUS
  <2> DEFINE j == IF k < i THEN k ELSE k - 1
  <2>1. k \in 1 .. Len(s) /\ k # i /\ s[k] \in S
    BY DEF Hits
  <2>2. j \in 1 .. Len(t) /\ (IF j < i THEN j ELSE j + 1) = k
    BY <2>1
  <2>3. j \in Hits(t, S)
    BY <2>1, <2>2 DEF Hits
  <2> QED BY <2>2, <2>3
<1>4. f \in Bijection(Hits(t, S), U)
  BY <1>1, <1>2, <1>3 DEF Bijection, Injection, Surjection, IsInjective
<1>5. Cardinality(U) = Number(t, S) /\ Number(t, S) \in Nat
  BY <1>4, NumberType, FS_Bijection DEF ExistsBijection, Number
<1>6. IsFiniteSet(Hits(s, S)) /\ Number(s, S) \in Nat
  BY NumberType
<1>7. Cardinality(U) = IF i \in Hits(s, S) THEN Number(s, S) - 1 ELSE Number(s, S)
  BY <1>6, FS_RemoveElement, Zenon DEF Number
<1>8. i \in Hits(s, S) <=> s[i] \in S
  BY DEF Hits
<1> HIDE DEF U, f
<1> QED BY <1>5, <1>6, <1>7, <1>8

(* The cases of it the code has: the front of a queue is popped, and a     *)
(* member is erased from the middle.                                       *)
LEMMA NumberTail ==
  ASSUME NEW T, NEW s \in Seq(T), s # <<>>, NEW S
  PROVE  Number(s, S) = Number(Tail(s), S) + (IF Head(s) \in S THEN 1 ELSE 0)
<1>1. /\ Len(s) \in Nat /\ Len(s) > 0 /\ Len(Tail(s)) = Len(s) - 1 /\ Len(Tail(s)) \in Nat
      /\ Head(s) = s[1] /\ \A j \in 1 .. Len(Tail(s)) : Tail(s)[j] = s[j + 1]
  BY HeadTailProperties
<1>2. 1 \in 1 .. Len(s)
  BY <1>1
<1>3. Without(s, Tail(s), 1)
  BY <1>1 DEF Without
<1> QED BY <1>1, <1>2, <1>3, NumberWithout

Erased(s, i) == SubSeq(s, 1, i - 1) \o SubSeq(s, i + 1, Len(s))

(* As above. *)
LEMMA NumberErased ==
  ASSUME NEW T, NEW s \in Seq(T), NEW i \in 1 .. Len(s), NEW S
  PROVE  /\ Erased(s, i) \in Seq(T)
         /\ Number(s, S) = Number(Erased(s, i), S) + (IF s[i] \in S THEN 1 ELSE 0)
<1> DEFINE a == SubSeq(s, 1, i - 1)
           b == SubSeq(s, i + 1, Len(s))
           n == Len(s)
<1>1. n \in Nat /\ i \in Nat /\ i >= 1 /\ i <= n
  OBVIOUS
<1>2. /\ a \in Seq(T) /\ Len(a) = i - 1 /\ \A j \in 1 .. i - 1 : a[j] = s[j]
  <2>1. 1 \in Int /\ i - 1 \in Int /\ \A j \in 1 .. i - 1 : s[j] \in T
    BY <1>1
  <2>2. /\ a \in Seq(T) /\ Len(a) = (IF 1 <= i - 1 THEN (i - 1) - 1 + 1 ELSE 0)
        /\ \A j \in 1 .. (i - 1) - 1 + 1 : a[j] = s[1 + j - 1]
    BY <2>1, SubSeqProperties
  <2> QED BY <1>1, <2>2
<1>3. /\ b \in Seq(T) /\ Len(b) = n - i /\ \A j \in 1 .. n - i : b[j] = s[i + j]
  <2>1. i + 1 \in Int /\ n \in Int /\ \A j \in i + 1 .. n : s[j] \in T
    BY <1>1
  <2>2. /\ b \in Seq(T) /\ Len(b) = (IF i + 1 <= n THEN n - (i + 1) + 1 ELSE 0)
        /\ \A j \in 1 .. n - (i + 1) + 1 : b[j] = s[(i + 1) + j - 1]
    BY <2>1, SubSeqProperties
  <2> QED BY <1>1, <2>2
<1> HIDE DEF a, b
<1>4. /\ a \o b \in Seq(T) /\ Len(a \o b) = Len(a) + Len(b)
      /\ \A j \in 1 .. Len(a) + Len(b) :
            (a \o b)[j] = IF j <= Len(a) THEN a[j] ELSE b[j - Len(a)]
  BY <1>2, <1>3, ConcatProperties, ZenonT(60)
<1>5. Len(a \o b) = n - 1
  BY <1>1, <1>2, <1>3, <1>4
<1>6. ASSUME NEW j \in 1 .. n - 1 PROVE (a \o b)[j] = s[IF j < i THEN j ELSE j + 1]
  <2>1. (a \o b)[j] = IF j <= i - 1 THEN a[j] ELSE b[j - (i - 1)]
    BY <1>1, <1>2, <1>3, <1>4
  <2>2. CASE j < i
    BY <1>1, <1>2, <2>1, <2>2
  <2>3. CASE j >= i
    <3>1. j - (i - 1) \in 1 .. n - i /\ i + (j - (i - 1)) = j + 1
      BY <1>1, <2>3
    <3>2. b[j - (i - 1)] = s[j + 1]
      BY <1>3, <3>1
    <3> QED BY <1>1, <2>1, <2>3, <3>2
  <2>4. j < i \/ j >= i
    BY <1>1
  <2> QED BY <2>2, <2>3, <2>4, Zenon
<1>7. Erased(s, i) = a \o b
  BY DEF Erased, a, b
<1>8. n - 1 \in Nat
  BY <1>1
<1>9. Without(s, a \o b, i)
  BY <1>1, <1>5, <1>6, <1>8 DEF Without
<1> QED BY <1>4, <1>7, <1>9, NumberWithout
-----------------------------------------------------------------------------
(* The objects.  Every frame of h carries its own addresses, a datagram's  *)
(* frame goes to the host of its next hop, and a waiting datagram waits    *)
(* for that address.                                                       *)
Addresses == {eth[h] : h \in Hosts}
Dgrams == [id : Nat, src : Hosts, dst : Hosts]

DgramFrame(h, d) == [src |-> eth[h], dst |-> eth[d.dst], type |-> "IPv4", payload |-> d]
Arps(h) == [opcode : {"request", "reply"}, sender_ip : {h}, sender_eth : {eth[h]},
            target_ip : Hosts, target_eth : Addresses \cup {ETHERNET_UNSET}]
ArpFrames(h) == [src : {eth[h]}, dst : Addresses \cup {ETHERNET_BROADCAST},
                 type : {"ARP"}, payload : Arps(h)]
FramesOf(h) == ArpFrames(h) \cup {DgramFrame(h, d) : d \in Dgrams}

Waiter(d) == [dgram |-> d, next_hop |-> d.dst]
Waiters == {Waiter(d) : d \in Dgrams}

(* A cache: an entry is the address of its host or marks a request, and    *)
(* is younger than its lifetime.                                           *)
Entries(k) == [first : {ETHERNET_BROADCAST, eth[k]}, second : Nat]
IsCache(c) ==
    /\ DOMAIN c \subseteq Hosts
    /\ c = [k \in DOMAIN c |-> c[k]]
    /\ \A k \in DOMAIN c : c[k] \in Entries(k) /\ c[k].second < Lifetime(c[k])

IsInterface(h, o) ==
    /\ o \in [ethernet_address : {eth[h]}, ip_address : {h}, frames_out : Seq(FramesOf(h)),
              mapping_cache : {o.mapping_cache}, ARP_queue : Seq(Waiters)]
    /\ IsCache(o.mapping_cache)

(* The requests for k, and the copies of a datagram that an object holds.  *)
RequestFrames(h, k) ==
    {f \in ArpFrames(h) : f.payload.opcode = "request" /\ f.payload.target_ip = k}
FramesWith(h, id) == {DgramFrame(h, d) : d \in {d \in Dgrams : d.id = id}}
WaitersWith(id) == {Waiter(d) : d \in {d \in Dgrams : d.id = id}}
Holds(h, o, id) == Number(o.frames_out, FramesWith(h, id)) + Number(o.ARP_queue, WaitersWith(id))
Asks(h, o, k) == Number(o.frames_out, RequestFrames(h, k))

(* They are numbers. *)
LEMMA HoldsType ==
  ASSUME NEW h \in Hosts, NEW o, IsInterface(h, o), NEW x
  PROVE  Holds(h, o, x) \in Nat /\ Asks(h, o, x) \in Nat
<1>1. o.frames_out \in Seq(FramesOf(h)) /\ o.ARP_queue \in Seq(Waiters)
  BY DEF IsInterface
<1>2. Len(o.frames_out) \in Nat /\ Len(o.ARP_queue) \in Nat
  BY <1>1
<1>3. /\ Number(o.frames_out, FramesWith(h, x)) \in Nat /\ Number(o.ARP_queue, WaitersWith(x)) \in Nat
      /\ Number(o.frames_out, RequestFrames(h, x)) \in Nat
  BY <1>2, NumberType
<1> QED BY <1>3 DEF Holds, Asks

(* Writing an entry of the cache. *)
LEMMA MappedIsCache ==
  ASSUME NEW c, IsCache(c), NEW k \in Hosts, NEW a \in {ETHERNET_BROADCAST, eth[k]}
  PROVE  IsCache(Mapped(c, k, a))
<1> DEFINE m == Mapped(c, k, a)
<1>1. /\ DOMAIN m = DOMAIN c \cup {k} /\ m[k] = [first |-> a, second |-> 0]
      /\ \A i \in DOMAIN c : i # k => m[i] = c[i]
      /\ m = [i \in DOMAIN m |-> m[i]]
  BY DEF Mapped
<1> HIDE DEF m
<1>2. m[k] \in Entries(k) /\ m[k].second < Lifetime(m[k])
  BY <1>1, TimeAssumption DEF Entries, Lifetime
<1>3. m = [i \in DOMAIN m |-> m[i]] /\ DOMAIN m \subseteq Hosts
  BY <1>1 DEF IsCache
<1>4. \A i \in DOMAIN m : m[i] \in Entries(i) /\ m[i].second < Lifetime(m[i])
  BY <1>1, <1>2 DEF IsCache
<1> QED BY <1>3, <1>4 DEF IsCache, m

(* Pushing a frame with an ARP message: one request more if it is one. *)
ArpEffect(h, o, q, op, k) ==
    /\ IsInterface(h, q) /\ q.mapping_cache = o.mapping_cache /\ q.ARP_queue = o.ARP_queue
    /\ \A id : Holds(h, q, id) = Holds(h, o, id)
    /\ \A j : Asks(h, q, j) = Asks(h, o, j) + (IF op = "request" /\ j = k THEN 1 ELSE 0)

(* As above. *)
LEMMA ArpPushed ==
  ASSUME NEW h \in Hosts, NEW o, IsInterface(h, o), NEW op \in {"request", "reply"},
         NEW k \in Hosts, NEW te \in Addresses \cup {ETHERNET_UNSET},
         NEW to \in Addresses \cup {ETHERNET_BROADCAST},
         NEW q, q = push_arp(o, op, k, te, to)
  PROVE  ArpEffect(h, o, q, op, k)
<1> DEFINE arp == [opcode |-> op, sender_ip |-> h, sender_eth |-> eth[h],
                   target_ip |-> k, target_eth |-> te]
           f == [src |-> eth[h], dst |-> to, type |-> "ARP", payload |-> arp]
<1>1. /\ o.ethernet_address = eth[h] /\ o.ip_address = h /\ o.frames_out \in Seq(FramesOf(h))
      /\ o.ARP_queue \in Seq(Waiters) /\ IsCache(o.mapping_cache)
  BY DEF IsInterface
<1>2. q = [o EXCEPT !.frames_out = Append(o.frames_out, f)]
  BY <1>1, Zenon DEF push_arp, Frame
<1>3. arp \in Arps(h) /\ f \in ArpFrames(h) /\ f \in FramesOf(h)
  BY DEF Arps, ArpFrames, FramesOf
<1>4. f.type = "ARP" /\ f.payload.opcode = op /\ f.payload.target_ip = k
  OBVIOUS
<1> HIDE DEF f
<1>5. Append(o.frames_out, f) \in Seq(FramesOf(h))
  BY <1>1, <1>3, AppendProperties
<1>6. /\ q.frames_out = Append(o.frames_out, f) /\ q.mapping_cache = o.mapping_cache
      /\ q.ARP_queue = o.ARP_queue /\ q.ethernet_address = eth[h] /\ q.ip_address = h
      /\ IsInterface(h, q)
  BY <1>1, <1>2, <1>5, ZenonT(60) DEF IsInterface
<1>7. ASSUME NEW id PROVE Holds(h, q, id) = Holds(h, o, id)
  <2>1. f \notin FramesWith(h, id)
    BY <1>4 DEF FramesWith, DgramFrame
  <2>2. Number(q.frames_out, FramesWith(h, id)) = Number(o.frames_out, FramesWith(h, id)) + 0
    BY <1>1, <1>3, <1>6, <2>1, NumberAppend
  <2>3. Number(o.frames_out, FramesWith(h, id)) \in Nat
    BY <1>1, NumberType
  <2> QED BY <1>6, <2>2, <2>3 DEF Holds
<1>8. ASSUME NEW j PROVE Asks(h, q, j) = Asks(h, o, j) + (IF op = "request" /\ j = k THEN 1 ELSE 0)
  <2>1. f \in RequestFrames(h, j) <=> op = "request" /\ j = k
    BY <1>3, <1>4 DEF RequestFrames
  <2> QED BY <1>1, <1>3, <1>6, <2>1, NumberAppend DEF Asks
<1> QED BY <1>6, <1>7, <1>8 DEF ArpEffect

(* Pushing a frame with a datagram whose next hop is known. *)
LEMMA DgramPushed ==
  ASSUME NEW h \in Hosts, NEW o, IsInterface(h, o), NEW d \in Dgrams,
         Known(o, d.dst), NEW q, q = push_datagram(o, d, o.mapping_cache[d.dst].first)
  PROVE  /\ IsInterface(h, q) /\ q.mapping_cache = o.mapping_cache /\ q.ARP_queue = o.ARP_queue
         /\ \A id : Holds(h, q, id) = Holds(h, o, id) + (IF id = d.id THEN 1 ELSE 0)
         /\ \A j : Asks(h, q, j) = Asks(h, o, j)
<1> DEFINE f == DgramFrame(h, d)
<1>1. /\ o.ethernet_address = eth[h] /\ o.ip_address = h /\ o.frames_out \in Seq(FramesOf(h))
      /\ o.ARP_queue \in Seq(Waiters) /\ IsCache(o.mapping_cache)
  BY DEF IsInterface
<1>2. o.mapping_cache[d.dst].first = eth[d.dst]
  BY <1>1 DEF Known, Pending, Cached, IsCache, Entries
<1>3. q = [o EXCEPT !.frames_out = Append(o.frames_out, f)]
  BY <1>1, <1>2, Zenon DEF push_datagram, Frame, DgramFrame
<1>4. f \in FramesOf(h) /\ f.type = "IPv4" /\ f.payload = d
  BY DEF FramesOf, DgramFrame
<1> HIDE DEF f
<1>5. Append(o.frames_out, f) \in Seq(FramesOf(h))
  BY <1>1, <1>4, AppendProperties
<1>6. /\ q.frames_out = Append(o.frames_out, f) /\ q.mapping_cache = o.mapping_cache
      /\ q.ARP_queue = o.ARP_queue /\ IsInterface(h, q)
  BY <1>1, <1>3, <1>5, Zenon DEF IsInterface
<1>7. ASSUME NEW id PROVE Holds(h, q, id) = Holds(h, o, id) + (IF id = d.id THEN 1 ELSE 0)
  <2>1. f \in FramesWith(h, id) <=> id = d.id
    BY <1>4, Zenon DEF FramesWith, DgramFrame, f
  <2>2. Number(q.frames_out, FramesWith(h, id))
          = Number(o.frames_out, FramesWith(h, id)) + (IF id = d.id THEN 1 ELSE 0)
    BY <1>1, <1>4, <1>6, <2>1, NumberAppend
  <2>3. /\ Number(o.frames_out, FramesWith(h, id)) \in Nat
        /\ Number(o.ARP_queue, WaitersWith(id)) \in Nat
    BY <1>1, NumberType
  <2> QED BY <1>6, <2>2, <2>3 DEF Holds
<1>8. ASSUME NEW j PROVE Asks(h, q, j) = Asks(h, o, j)
  <2>1. f \notin RequestFrames(h, j)
    BY <1>4, SMTT(60) DEF RequestFrames, ArpFrames
  <2>2. Asks(h, q, j) = Asks(h, o, j) + 0
    BY <1>1, <1>4, <1>6, <2>1, NumberAppend DEF Asks
  <2> QED BY <2>2, HoldsType
<1> QED BY <1>6, <1>7, <1>8

(* send_datagram: one copy of the datagram more, or none while an answer   *)
(* is awaited; a request only if the cache had no entry, and then it has.  *)
SendEffect(h, o, q, d) ==
    /\ IsInterface(h, q)
    /\ \A id : id # d.id => Holds(h, q, id) = Holds(h, o, id)
    /\ Holds(h, q, d.id) <= Holds(h, o, d.id) + 1
    /\ \A k : k # d.dst => Asks(h, q, k) = Asks(h, o, k)
    /\ \/ /\ q.mapping_cache = o.mapping_cache
          /\ Asks(h, q, d.dst) = Asks(h, o, d.dst)
       \/ /\ ~Cached(o, d.dst)
          /\ q.mapping_cache = Mapped(o.mapping_cache, d.dst, ETHERNET_BROADCAST)

(* Lines 52-74 do that, ... *)
LEMMA AskFacts ==
  ASSUME NEW h \in Hosts, NEW o, IsInterface(h, o), NEW d \in Dgrams, ~Cached(o, d.dst),
         NEW q, q = ask(o, d, d.dst)
  PROVE  SendEffect(h, o, q, d)
<1> DEFINE p == push_arp(o, "request", d.dst, ETHERNET_UNSET, ETHERNET_BROADCAST)
           c == Mapped(o.mapping_cache, d.dst, ETHERNET_BROADCAST)
<1>1. d.dst \in Hosts /\ d.id \in Nat
  BY DEF Dgrams
<1>2. /\ IsInterface(h, p) /\ p.mapping_cache = o.mapping_cache /\ p.ARP_queue = o.ARP_queue
      /\ \A id : Holds(h, p, id) = Holds(h, o, id)
      /\ \A j : Asks(h, p, j) = Asks(h, o, j) + (IF j = d.dst THEN 1 ELSE 0)
  <2>1. /\ ETHERNET_UNSET \in Addresses \cup {ETHERNET_UNSET}
        /\ ETHERNET_BROADCAST \in Addresses \cup {ETHERNET_BROADCAST}
        /\ "request" \in {"request", "reply"}
    OBVIOUS
  <2>2. ArpEffect(h, o, p, "request", d.dst)
    BY <1>1, <2>1, ArpPushed
  <2> QED BY <2>2 DEF ArpEffect
<1> HIDE DEF p
<1>3. q = [p EXCEPT !.ARP_queue = Append(p.ARP_queue, Waiter(d)), !.mapping_cache = c]
  BY <1>2, Zenon DEF ask, Waiter, p
<1>4. IsCache(c)
  BY <1>1, MappedIsCache DEF IsInterface
<1>5. Waiter(d) \in Waiters
  BY DEF Waiters
<1>6. p.ARP_queue \in Seq(Waiters) /\ Append(p.ARP_queue, Waiter(d)) \in Seq(Waiters)
  BY <1>2, <1>5, AppendProperties DEF IsInterface
<1> HIDE DEF c
<1>7. /\ q.frames_out = p.frames_out /\ q.ARP_queue = Append(p.ARP_queue, Waiter(d))
      /\ q.mapping_cache = c /\ IsInterface(h, q)
  BY <1>2, <1>3, <1>4, <1>6, Zenon DEF IsInterface
<1>8. \A id : Waiter(d) \in WaitersWith(id) <=> id = d.id
  BY Zenon DEF WaitersWith, Waiter
<1>9. ASSUME NEW id
      PROVE  Holds(h, q, id) = Holds(h, o, id) + (IF id = d.id THEN 1 ELSE 0)
  <2>1. Number(q.ARP_queue, WaitersWith(id))
          = Number(p.ARP_queue, WaitersWith(id)) + (IF id = d.id THEN 1 ELSE 0)
    BY <1>5, <1>6, <1>7, <1>8, NumberAppend
  <2>2. Number(p.frames_out, FramesWith(h, id)) \in Nat /\ Number(p.ARP_queue, WaitersWith(id)) \in Nat
    BY <1>2, NumberType, SMTT(60) DEF IsInterface
  <2>3. Holds(h, q, id) = Holds(h, p, id) + (IF id = d.id THEN 1 ELSE 0)
    BY <1>7, <2>1, <2>2 DEF Holds
  <2> QED BY <1>2, <2>3
<1>10. \A k : Asks(h, q, k) = Asks(h, p, k)
  BY <1>7 DEF Asks
<1>11. \A x : Holds(h, o, x) \in Nat /\ Asks(h, o, x) \in Nat
  BY HoldsType
<1>12. /\ \A id : id # d.id => Holds(h, q, id) = Holds(h, o, id)
       /\ Holds(h, q, d.id) <= Holds(h, o, d.id) + 1
  BY <1>9, <1>11
<1>13. \A k : k # d.dst => Asks(h, q, k) = Asks(h, o, k)
  BY <1>2, <1>10, <1>11
<1> QED BY <1>7, <1>12, <1>13 DEF SendEffect, c

(* ... and so does the whole of send_datagram. *)
LEMMA SendFacts ==
  ASSUME NEW h \in Hosts, NEW o, IsInterface(h, o), NEW d \in Dgrams,
         NEW q, q = send_datagram(o, d, d.dst)
  PROVE  SendEffect(h, o, q, d)
<1>1. \A x : Holds(h, o, x) \in Nat /\ Asks(h, o, x) \in Nat
  BY HoldsType
<1>2. CASE Pending(o, d.dst)
  <2>1. q = o
    BY <1>2 DEF send_datagram
  <2> QED BY <1>1, <2>1 DEF SendEffect
<1>3. CASE Known(o, d.dst)
  <2>1. q = push_datagram(o, d, o.mapping_cache[d.dst].first)
    BY <1>3 DEF send_datagram, Known
  <2>2. /\ IsInterface(h, q) /\ q.mapping_cache = o.mapping_cache
        /\ \A id : Holds(h, q, id) = Holds(h, o, id) + (IF id = d.id THEN 1 ELSE 0)
        /\ \A j : Asks(h, q, j) = Asks(h, o, j)
    BY <1>3, <2>1, DgramPushed
  <2>3. /\ \A id : id # d.id => Holds(h, q, id) = Holds(h, o, id)
        /\ Holds(h, q, d.id) <= Holds(h, o, d.id) + 1
    BY <1>1, <2>2
  <2> QED BY <2>2, <2>3 DEF SendEffect
<1>4. CASE ~Cached(o, d.dst)
  <2>1. q = ask(o, d, d.dst)
    BY <1>4 DEF send_datagram, Pending
  <2> QED BY <1>4, <2>1, AskFacts
<1> QED BY <1>2, <1>3, <1>4 DEF Known

(* recv_frame on an ARP message of host s: the sender's address is learnt, *)
(* nothing is asked, and no datagram is doubled or dropped.                *)
RecvEffect(h, o, q, s) ==
    /\ IsInterface(h, q)
    /\ q.mapping_cache = Mapped(o.mapping_cache, s, eth[s])
    /\ \A id : Holds(h, q, id) = Holds(h, o, id)
    /\ \A k : Asks(h, q, k) = Asks(h, o, k)

(* Line 94 does that, ... *)
LEMMA LearnFacts ==
  ASSUME NEW h \in Hosts, NEW o, IsInterface(h, o), NEW s \in Hosts, NEW arp \in Arps(s),
         NEW q, q = learn(o, arp)
  PROVE  RecvEffect(h, o, q, s) /\ Known(q, s) /\ q.ARP_queue = o.ARP_queue
<1> DEFINE c == Mapped(o.mapping_cache, s, eth[s])
<1>1. arp.sender_ip = s /\ arp.sender_eth = eth[s]
  BY DEF Arps
<1>2. IsCache(c)
  BY MappedIsCache DEF IsInterface
<1>3. q = [o EXCEPT !.mapping_cache = c]
  BY <1>1, Zenon DEF learn
<1>4. s \in DOMAIN c /\ c[s].first = eth[s] /\ eth[s] # ETHERNET_BROADCAST
  BY HostAssumption DEF Mapped
<1> HIDE DEF c
<1>5. /\ q.frames_out = o.frames_out /\ q.ARP_queue = o.ARP_queue /\ q.mapping_cache = c
      /\ IsInterface(h, q)
  BY <1>2, <1>3 DEF IsInterface
<1>6. Known(q, s)
  BY <1>4, <1>5 DEF Known, Pending, Cached
<1> QED BY <1>5, <1>6 DEF RecvEffect, Holds, Asks, c

(* ... and so do the answer to a request ... *)
LEMMA AnswerFacts ==
  ASSUME NEW h \in Hosts, NEW o, IsInterface(h, o), NEW s \in Hosts, NEW arp \in Arps(s),
         NEW q, q = answer(learn(o, arp), arp)
  PROVE  RecvEffect(h, o, q, s)
<1> DEFINE l == learn(o, arp)
<1>1. RecvEffect(h, o, l, s)
  BY LearnFacts
<1>2. arp.sender_ip = s /\ arp.sender_eth = eth[s] /\ eth[s] \in Addresses
  BY DEF Arps, Addresses
<1> HIDE DEF l
<1>3. CASE q = l
  BY <1>1, <1>3
<1>4. CASE q = push_arp(l, "reply", s, eth[s], eth[s])
  <2>1. IsInterface(h, l)
    BY <1>1 DEF RecvEffect
  <2>2. /\ IsInterface(h, q) /\ q.mapping_cache = l.mapping_cache
        /\ \A id : Holds(h, q, id) = Holds(h, l, id)
        /\ \A j : Asks(h, q, j) = Asks(h, l, j) + 0
    <3>1. ArpEffect(h, l, q, "reply", s)
      BY <1>2, <1>4, <2>1, ArpPushed
    <3> QED BY <3>1 DEF ArpEffect
  <2>3. \A j : Asks(h, l, j) \in Nat
    BY <2>1, HoldsType
  <2>4. \A j : Asks(h, q, j) = Asks(h, l, j)
    BY <2>2, <2>3
  <2> QED BY <1>1, <2>2, <2>4 DEF RecvEffect
<1>5. q = answer(l, arp)
  BY DEF l
<1> QED BY <1>2, <1>3, <1>4, <1>5 DEF answer

(* A non-empty set of numbers has a least element. *)
LEMMA LeastExists ==
  ASSUME NEW W \in SUBSET Nat, W # {}
  PROVE  \E i \in W : \A j \in W : i <= j
<1> DEFINE R == OpToRel(<, Nat)
<1>1. IsWellFoundedOn(R, Nat)
  BY NatLessThanWellFounded, Zenon
<1>2. PICK t \in W : \A y \in W : ~(<<y, t>> \in R)
  <2> HIDE DEF R
  <2> QED BY <1>1, WFMin, Zenon
<1>3. ASSUME NEW y \in W PROVE t <= y
  <2>1. ~(y < t)
    BY <1>2, ZenonT(60) DEF OpToRel
  <2> QED BY <2>1
<1> QED BY <1>3

(* ... and the release of the first datagram that waited for a reply.  The *)
(* address was just learnt, so send_datagram sends it and asks nothing,    *)
(* and the copy in the queue is erased.                                    *)
LEMMA FlushFacts ==
  ASSUME NEW h \in Hosts, NEW o, IsInterface(h, o), NEW s \in Hosts, NEW arp \in Arps(s),
         NEW q, q = flush_first(learn(o, arp), s)
  PROVE  RecvEffect(h, o, q, s)
<1> DEFINE l == learn(o, arp)
           W == Waiting(l, s)
           i == CHOOSE i \in W : \A j \in W : i <= j
           d == l.ARP_queue[i].dgram
           p == send_datagram(l, d, s)
<1>1. RecvEffect(h, o, l, s) /\ Known(l, s) /\ IsInterface(h, l)
  BY LearnFacts DEF RecvEffect
<1> HIDE DEF l
<1>2. CASE W = {}
  <2>1. q = l
    BY <1>2 DEF flush_first, l
  <2> QED BY <1>1, <2>1
<1>3. CASE W # {}
  <2>1. W \in SUBSET Nat /\ l.ARP_queue \in Seq(Waiters)
    BY <1>1 DEF Waiting, IsInterface
  <2>2. i \in W
    <3> HIDE DEF W
    <3>1. \E x \in W : \A j \in W : x <= j
      BY <1>3, <2>1, LeastExists
    <3> QED BY <3>1
  <2>3. i \in 1 .. Len(l.ARP_queue) /\ l.ARP_queue[i].next_hop = s
    BY <2>2 DEF Waiting
  <2> HIDE DEF i, W
  <2>4. l.ARP_queue[i] \in Waiters
    BY <2>1, <2>3
  <2>5. d \in Dgrams /\ d.dst = s /\ l.ARP_queue[i] = Waiter(d)
    BY <2>3, <2>4 DEF Waiters, Waiter
  <2>6. q = [p EXCEPT !.ARP_queue = Erased(p.ARP_queue, i)]
    BY <1>3, ZenonT(60) DEF flush_first, Erased, l, i, W
  <2>7. p = push_datagram(l, d, l.mapping_cache[d.dst].first)
    BY <1>1, <2>5, SMTT(60) DEF send_datagram, Known
  <2> HIDE DEF p, d
  <2>8. /\ IsInterface(h, p) /\ p.mapping_cache = l.mapping_cache /\ p.ARP_queue = l.ARP_queue
        /\ \A id : Holds(h, p, id) = Holds(h, l, id) + (IF id = d.id THEN 1 ELSE 0)
        /\ \A j : Asks(h, p, j) = Asks(h, l, j)
    BY <1>1, <2>5, <2>7, DgramPushed, SMTT(60)
  <2>9. /\ Erased(p.ARP_queue, i) \in Seq(Waiters)
        /\ \A S : Number(p.ARP_queue, S)
                    = Number(Erased(p.ARP_queue, i), S) + (IF p.ARP_queue[i] \in S THEN 1 ELSE 0)
    BY <2>1, <2>3, <2>8, NumberErased
  <2>10. /\ q.frames_out = p.frames_out /\ q.ARP_queue = Erased(p.ARP_queue, i)
         /\ q.mapping_cache = p.mapping_cache /\ IsInterface(h, q)
    BY <2>6, <2>8, <2>9, Zenon DEF IsInterface
  <2>11. ASSUME NEW id PROVE Holds(h, q, id) = Holds(h, l, id)
    <3>1. p.ARP_queue[i] \in WaitersWith(id) <=> id = d.id
      BY <2>5, <2>8 DEF WaitersWith, Waiter
    <3>2. Number(p.ARP_queue, WaitersWith(id))
            = Number(q.ARP_queue, WaitersWith(id)) + (IF id = d.id THEN 1 ELSE 0)
      BY <2>9, <2>10, <3>1
    <3>3. /\ Number(p.frames_out, FramesWith(h, id)) \in Nat
          /\ Number(q.ARP_queue, WaitersWith(id)) \in Nat
      BY <2>8, <2>10, NumberType, SMTT(60) DEF IsInterface
    <3>4. Holds(h, p, id) = Holds(h, q, id) + (IF id = d.id THEN 1 ELSE 0)
      BY <2>10, <3>2, <3>3, SMTT(60) DEF Holds
    <3>5. Holds(h, q, id) \in Nat /\ Holds(h, l, id) \in Nat
      BY <1>1, <2>10, HoldsType
    <3> QED BY <2>8, <3>4, <3>5
  <2>12. \A j : Asks(h, q, j) = Asks(h, l, j)
    BY <2>8, <2>10 DEF Asks
  <2> QED BY <1>1, <2>8, <2>10, <2>11, <2>12 DEF RecvEffect
<1> QED BY <1>2, <1>3

(* The whole of recv_frame: a frame that is not accepted, or carries a     *)
(* datagram, leaves the object as it was.                                  *)
LEMMA RecvFacts ==
  ASSUME NEW h \in Hosts, NEW o, IsInterface(h, o), NEW s \in Hosts, NEW f \in FramesOf(s),
         NEW q, q = recv_frame(o, f)
  PROVE  IF Accepts(o, f) /\ f.type = "ARP" THEN RecvEffect(h, o, q, s) ELSE q = o
<1>1. CASE Accepts(o, f) /\ f.type = "ARP"
  <2>1. f.payload \in Arps(s)
    BY <1>1 DEF FramesOf, ArpFrames, DgramFrame
  <2>2. f.payload.sender_ip = s
    BY <2>1 DEF Arps
  <2>3. \/ q = answer(learn(o, f.payload), f.payload)
        \/ q = flush_first(learn(o, f.payload), s)
    BY <1>1, <2>2 DEF recv_frame
  <2>4. RecvEffect(h, o, q, s)
    BY <2>1, <2>3, AnswerFacts, FlushFacts, SMTT(60)
  <2> QED BY <1>1, <2>4
<1>2. CASE ~(Accepts(o, f) /\ f.type = "ARP")
  BY <1>2 DEF recv_frame
<1> QED BY <1>1, <1>2

(* tick: every entry kept is a millisecond older, and those are kept that  *)
(* do not reach their lifetime.                                            *)
TickEffect(h, o, q) ==
    /\ IsInterface(h, q)
    /\ q.frames_out = o.frames_out /\ q.ARP_queue = o.ARP_queue
    /\ \A k \in DOMAIN q.mapping_cache :
          /\ k \in DOMAIN o.mapping_cache
          /\ q.mapping_cache[k].first = o.mapping_cache[k].first
          /\ q.mapping_cache[k].second = o.mapping_cache[k].second + 1
    /\ \A k \in DOMAIN o.mapping_cache :
          o.mapping_cache[k].second + 1 < Lifetime(o.mapping_cache[k])
             => k \in DOMAIN q.mapping_cache

(* That is what tick does. *)
LEMMA TickFacts ==
  ASSUME NEW h \in Hosts, NEW o, IsInterface(h, o), NEW q, q = interface_tick(o, 1)
  PROVE  TickEffect(h, o, q)
<1> DEFINE c == o.mapping_cache
           older == [k \in DOMAIN c |-> [c[k] EXCEPT !.second = c[k].second + 1]]
           kept == {k \in DOMAIN older : older[k].second < Lifetime(older[k])}
           new == [k \in kept |-> older[k]]
<1>1. IsCache(c)
  BY DEF IsInterface
<1>2. q = [o EXCEPT !.mapping_cache = new]
  BY Zenon DEF interface_tick
<1>3. ASSUME NEW k \in DOMAIN c
      PROVE  /\ older[k] \in Entries(k) /\ older[k].first = c[k].first
             /\ older[k].second = c[k].second + 1 /\ Lifetime(older[k]) = Lifetime(c[k])
  <2>1. c[k] \in Entries(k)
    BY <1>1 DEF IsCache
  <2> QED BY <2>1 DEF Entries, Lifetime
<1>4. DOMAIN older = DOMAIN c /\ kept \subseteq DOMAIN c
  OBVIOUS
<1> HIDE DEF older
<1>5. /\ DOMAIN new = kept /\ \A k \in kept : new[k] = older[k] /\ older[k].second < Lifetime(older[k])
  OBVIOUS
<1>6. new = [k \in DOMAIN new |-> new[k]]
  BY <1>5
<1>7. \A k \in DOMAIN c : c[k].second + 1 < Lifetime(c[k]) => k \in kept
  BY <1>3, <1>4
<1> HIDE DEF kept, new
<1>8. IsCache(new)
  BY <1>1, <1>3, <1>4, <1>5, <1>6 DEF IsCache
<1> HIDE DEF c
<1>9. /\ q.mapping_cache = new /\ q.frames_out = o.frames_out /\ q.ARP_queue = o.ARP_queue
      /\ IsInterface(h, q)
  BY <1>2, <1>8 DEF IsInterface
<1>10. \A k \in DOMAIN new : k \in DOMAIN c /\ new[k].first = c[k].first
                              /\ new[k].second = c[k].second + 1
  BY <1>3, <1>4, <1>5, SMTT(60)
<1> QED BY <1>5, <1>7, <1>9, <1>10 DEF TickEffect, c
-----------------------------------------------------------------------------
(* The inductive invariant.  Every object is well formed; an address was   *)
(* heard no longer ago than its entry is old; a host that asked less than  *)
(* PENDING_TIME ago has an entry younger than the request; and of every    *)
(* datagram there is at most one copy, of one not yet sent there is none.  *)
DgramsWith(id) == {d \in Dgrams : d.id = id}
CopiesAt(h, id) == Holds(h, ni[h], id) + Number(got[h], DgramsWith(id))

TypeInv ==
    /\ sent \in Nat
    /\ ni = [h \in Hosts |-> ni[h]] /\ \A h \in Hosts : IsInterface(h, ni[h])
    /\ got = [h \in Hosts |-> got[h]]
    /\ \A h \in Hosts : got[h] \in Seq({d \in Dgrams : d.dst = h})
    /\ asked \in [Hosts -> [Hosts -> Nat]] /\ heard \in [Hosts -> [Hosts -> Nat]]

HeardInv ==
    \A h, k \in Hosts : Known(ni[h], k) => heard[h][k] <= ni[h].mapping_cache[k].second

AskedInv ==
    \A h, k \in Hosts : asked[h][k] < PENDING_TIME =>
        Cached(ni[h], k) /\ ni[h].mapping_cache[k].second <= asked[h][k]

CopyInv ==
    \A id \in Nat :
        /\ \A h \in Hosts : CopiesAt(h, id) <= 1
        /\ \A h, k \in Hosts : CopiesAt(h, id) > 0 /\ CopiesAt(k, id) > 0 => h = k
        /\ id > sent => \A h \in Hosts : CopiesAt(h, id) = 0

IInv == TypeInv /\ HeardInv /\ AskedInv /\ CopyInv

(* The copies at a host are a number. *)
LEMMA CopiesType ==
  ASSUME TypeInv, NEW h \in Hosts, NEW id
  PROVE  CopiesAt(h, id) \in Nat /\ Number(got[h], DgramsWith(id)) \in Nat
         /\ Holds(h, ni[h], id) \in Nat
<1>1. Len(got[h]) \in Nat /\ IsInterface(h, ni[h])
  BY DEF TypeInv
<1> QED BY <1>1, NumberType, HoldsType DEF CopiesAt

(* The specification counts the same requests. *)
LEMMA RequestsAreAsks ==
  ASSUME NEW h \in Hosts, NEW o, IsInterface(h, o), NEW k \in Hosts
  PROVE  Requests(o, k) = Asks(h, o, k)
<1>1. o.frames_out \in Seq(FramesOf(h))
  BY DEF IsInterface
<1>2. \A f \in FramesOf(h) :
         f \in RequestFrames(h, k) <=> /\ f.type = "ARP" /\ f.payload.opcode = "request"
                                       /\ f.payload.target_ip = k
  BY DEF FramesOf, RequestFrames, ArpFrames, DgramFrame
<1>3. {i \in 1 .. Len(o.frames_out) : /\ o.frames_out[i].type = "ARP"
                                      /\ o.frames_out[i].payload.opcode = "request"
                                      /\ o.frames_out[i].payload.target_ip = k}
        = Hits(o.frames_out, RequestFrames(h, k))
  BY <1>1, <1>2 DEF Hits
<1> QED BY <1>3, Zenon DEF Requests, Asks, Number

(* A new interface is well formed and holds nothing. *)
LEMMA InitInv == Init => IInv
<1> SUFFICES ASSUME Init PROVE IInv
  OBVIOUS
<1>1. /\ ni = [h \in Hosts |-> NewInterface(eth[h], h)] /\ got = [h \in Hosts |-> <<>>] /\ sent = 0
      /\ asked = [h \in Hosts |-> [k \in Hosts |-> Never]]
      /\ heard = [h \in Hosts |-> [k \in Hosts |-> Never]]
  BY DEF Init
<1>2. Never \in Nat /\ Never >= PENDING_TIME
  BY TimeAssumption DEF Never
<1>3. ASSUME NEW h \in Hosts
      PROVE  /\ IsInterface(h, ni[h]) /\ DOMAIN ni[h].mapping_cache = {}
             /\ ni[h].frames_out = <<>> /\ ni[h].ARP_queue = <<>>
  <2>1. ni[h] = NewInterface(eth[h], h)
    BY <1>1
  <2>2. IsCache(<<>>)
    BY DEF IsCache
  <2> QED BY <2>1, <2>2 DEF NewInterface, IsInterface
<1>4. \A h \in Hosts : got[h] = <<>> /\ got[h] \in Seq({d \in Dgrams : d.dst = h})
  BY <1>1
<1>5. TypeInv
  BY <1>1, <1>2, <1>3, <1>4, SMTT(60) DEF TypeInv
<1>6. HeardInv /\ AskedInv
  <2>1. HeardInv
    BY <1>3 DEF HeardInv, Known, Cached
  <2>2. \A h, k \in Hosts : asked[h][k] = Never
    BY <1>1
  <2>3. ~(Never < PENDING_TIME)
    BY <1>2, TimeAssumption
  <2> QED BY <2>1, <2>2, <2>3 DEF AskedInv
<1>7. ASSUME NEW h \in Hosts, NEW id PROVE CopiesAt(h, id) = 0
  <2>1. ni[h].frames_out = <<>> /\ ni[h].ARP_queue = <<>> /\ got[h] = <<>>
    BY <1>3, <1>4, Zenon
  <2>2. CopiesAt(h, id) = 0 + 0 + 0
    BY <2>1, NumberEmpty, Zenon DEF CopiesAt, Holds
  <2> QED BY <2>2
<1>8. CopyInv
  BY <1>7 DEF CopyInv
<1> QED BY <1>5, <1>6, <1>8 DEF IInv

(* send_datagram called by the owner of h keeps it, and asks only where    *)
(* the last request is old enough.                                         *)
LEMMA SendInv ==
  ASSUME IInv, NEW h \in Hosts, NEW k \in Hosts, Send(h, k)
  PROVE  /\ IInv'
         /\ \A g, j \in Hosts : Requests(ni'[g], j) > Requests(ni[g], j)
                                    => asked[g][j] >= PENDING_TIME
<1> DEFINE d == [id |-> sent + 1, src |-> h, dst |-> k]
           o == ni[h]
           q == send_datagram(o, d, k)
<1>1. /\ ni' = [ni EXCEPT ![h] = q] /\ sent' = sent + 1 /\ got' = got /\ heard' = heard
      /\ asked' = IF Requests(q, k) > Requests(o, k) THEN [asked EXCEPT ![h][k] = 0] ELSE asked
  BY DEF Send
<1>2. /\ sent \in Nat /\ ni = [g \in Hosts |-> ni[g]] /\ \A g \in Hosts : IsInterface(g, ni[g])
      /\ asked \in [Hosts -> [Hosts -> Nat]] /\ heard \in [Hosts -> [Hosts -> Nat]]
  BY DEF IInv, TypeInv
<1>3. d \in Dgrams /\ d.dst = k /\ d.id = sent + 1 /\ IsInterface(h, o)
  BY <1>2 DEF Dgrams
<1> HIDE DEF d
<1>4. SendEffect(h, o, q, d)
  BY <1>3, SendFacts
<1> HIDE DEF q
<1>5. ni' = [g \in Hosts |-> ni'[g]] /\ ni'[h] = q /\ \A g \in Hosts : g # h => ni'[g] = ni[g]
  BY <1>1, <1>2, SMTT(60)
<1>6. /\ IsInterface(h, q) /\ \A id : id # sent + 1 => Holds(h, q, id) = Holds(h, o, id)
      /\ Holds(h, q, sent + 1) <= Holds(h, o, sent + 1) + 1
      /\ \A j : j # k => Asks(h, q, j) = Asks(h, o, j)
      /\ \/ q.mapping_cache = o.mapping_cache /\ Asks(h, q, k) = Asks(h, o, k)
         \/ /\ ~Cached(o, k)
            /\ q.mapping_cache = Mapped(o.mapping_cache, k, ETHERNET_BROADCAST)
  BY <1>3, <1>4 DEF SendEffect
<1>7. \A j \in Hosts : Requests(q, j) = Asks(h, q, j) /\ Requests(o, j) = Asks(h, o, j)
                        /\ Asks(h, o, j) \in Nat
  BY <1>3, <1>6, RequestsAreAsks, HoldsType, SMTT(60)
<1> HIDE DEF o
<1>8. \A j \in Hosts : Requests(q, j) > Requests(o, j) => j = k /\ ~Cached(o, k)
  BY <1>6, <1>7
<1>9. /\ asked' \in [Hosts -> [Hosts -> Nat]]
      /\ \A g, j \in Hosts : g # h \/ j # k => asked'[g][j] = asked[g][j]
      /\ Cached(o, k) => asked' = asked
  BY <1>1, <1>2, <1>8
<1>10. TypeInv'
  <2>1. \A g \in Hosts : IsInterface(g, ni'[g])
    BY <1>2, <1>5, <1>6
  <2> QED BY <1>1, <1>2, <1>5, <1>9, <2>1, SMTT(60) DEF IInv, TypeInv
<1>11. HeardInv'
  <2> SUFFICES ASSUME NEW g \in Hosts, NEW j \in Hosts, Known(ni'[g], j)
               PROVE  heard'[g][j] <= ni'[g].mapping_cache[j].second
    BY SMTT(60) DEF HeardInv
  <2>1. Known(ni[g], j) /\ ni'[g].mapping_cache[j] = ni[g].mapping_cache[j]
    <3>1. CASE g # h
      BY <1>5, <3>1
    <3>2. CASE g = h /\ q.mapping_cache = o.mapping_cache
      BY <1>5, <3>2, SMTT(60) DEF o, Known, Pending, Cached
    <3>3. CASE g = h /\ q.mapping_cache = Mapped(o.mapping_cache, k, ETHERNET_BROADCAST)
      <4>1. Known(q, j)
        BY <1>5, <3>3, SMTT(60)
      <4> QED BY <1>5, <3>3, <4>1 DEF o, Known, Pending, Cached, Mapped
    <3> QED BY <1>6, <3>1, <3>2, <3>3
  <2> QED BY <1>1, <2>1 DEF IInv, HeardInv
<1>12. AskedInv'
  <2> SUFFICES ASSUME NEW g \in Hosts, NEW j \in Hosts, asked'[g][j] < PENDING_TIME
               PROVE  Cached(ni'[g], j) /\ ni'[g].mapping_cache[j].second <= asked'[g][j]
    BY DEF AskedInv
  <2>1. CASE g = h /\ j = k /\ q.mapping_cache = Mapped(o.mapping_cache, k, ETHERNET_BROADCAST)
    <3>1. k \in DOMAIN q.mapping_cache /\ q.mapping_cache[k].second = 0
      BY <2>1 DEF Mapped
    <3> QED BY <1>5, <1>9, <2>1, <3>1, SMTT(60) DEF Cached
  <2>2. CASE asked'[g][j] = asked[g][j]
    <3>1. Cached(ni[g], j) /\ ni[g].mapping_cache[j].second <= asked[g][j]
      BY <2>2 DEF IInv, AskedInv
    <3>2. Cached(ni'[g], j) /\ ni'[g].mapping_cache[j] = ni[g].mapping_cache[j]
      <4>1. CASE g # h
        BY <1>5, <3>1, <4>1, SMTT(60)
      <4>2. CASE g = h
        BY <1>5, <1>6, <3>1, <4>2 DEF Cached, Mapped, o
      <4> QED BY <4>1, <4>2
    <3> QED BY <2>2, <3>1, <3>2
  <2>3. asked'[g][j] = asked[g][j] \/ (g = h /\ j = k /\ ~Cached(o, k))
    BY <1>9
  <2>4. Cached(o, k) \/ q.mapping_cache = Mapped(o.mapping_cache, k, ETHERNET_BROADCAST)
        \/ asked'[g][j] = asked[g][j]
    BY <1>1, <1>6, <1>7
  <2> QED BY <2>1, <2>2, <2>3, <2>4, SMTT(60)
<1>13. CopyInv'
  <2>0. PICK new \in Nat : new = sent + 1
    BY <1>2
  <2>1. ASSUME NEW id \in Nat, NEW g \in Hosts, id # new \/ g # h
        PROVE  CopiesAt(g, id)' = CopiesAt(g, id)
    BY <1>1, <1>5, <1>6, <2>0, <2>1, SMTT(60) DEF CopiesAt, o
  <2>2. CopiesAt(h, new)' <= 1
    <3>1. CopiesAt(h, new) = 0 /\ Holds(h, ni[h], new) \in Nat
          /\ Number(got[h], DgramsWith(new)) \in Nat
      <4>1. new > sent
        BY <1>2, <2>0
      <4>2. CopiesAt(h, new) = 0
        BY <4>1 DEF IInv, CopyInv
      <4> QED BY <4>2, CopiesType DEF IInv
    <3>2. Holds(h, q, new) \in Nat
      BY <1>6, HoldsType
    <3>3. CopiesAt(h, new)' = Holds(h, q, new) + Number(got[h], DgramsWith(new))
      BY <1>1, <1>5 DEF CopiesAt
    <3>4. CopiesAt(h, new) = Holds(h, o, new) + Number(got[h], DgramsWith(new))
      BY DEF CopiesAt, o
    <3>5. Holds(h, q, new) <= Holds(h, o, new) + 1
      BY <1>6, <2>0
    <3> QED BY <3>1, <3>2, <3>3, <3>4, <3>5 DEF o
  <2>3. ASSUME NEW id \in Nat, id # new
        PROVE  /\ \A g \in Hosts : CopiesAt(g, id)' <= 1
               /\ \A g, j \in Hosts : CopiesAt(g, id)' > 0 /\ CopiesAt(j, id)' > 0 => g = j
               /\ id > sent' => \A g \in Hosts : CopiesAt(g, id)' = 0
    <3>1. \A g \in Hosts : CopiesAt(g, id)' = CopiesAt(g, id)
      BY <2>1, <2>3
    <3>2. id > sent' => id > sent
      BY <1>1, <1>2
    <3> QED BY <3>1, <3>2 DEF IInv, CopyInv
  <2>4. /\ \A g \in Hosts : CopiesAt(g, new)' <= 1
        /\ \A g, j \in Hosts : CopiesAt(g, new)' > 0 /\ CopiesAt(j, new)' > 0 => g = j
    <3>1. \A g \in Hosts : g # h => CopiesAt(g, new)' = 0
      BY <1>2, <2>0, <2>1 DEF IInv, CopyInv
    <3> QED BY <2>2, <3>1
  <2>5. ~(new > sent')
    BY <1>1, <1>2, <2>0
  <2> SUFFICES ASSUME NEW id \in Nat
               PROVE  /\ \A g \in Hosts : CopiesAt(g, id)' <= 1
                      /\ \A g, j \in Hosts : CopiesAt(g, id)' > 0 /\ CopiesAt(j, id)' > 0 => g = j
                      /\ id > sent' => \A g \in Hosts : CopiesAt(g, id)' = 0
    BY DEF CopyInv
  <2>6. CASE id = new
    BY <2>4, <2>5, <2>6, SMTT(60)
  <2> QED BY <2>3, <2>6
<1>14. \A g, j \in Hosts : Requests(ni'[g], j) > Requests(ni[g], j) => asked[g][j] >= PENDING_TIME
  <2> SUFFICES ASSUME NEW g \in Hosts, NEW j \in Hosts, Requests(ni'[g], j) > Requests(ni[g], j)
               PROVE  asked[g][j] >= PENDING_TIME
    OBVIOUS
  <2>1. Requests(ni[g], j) \in Nat
    BY <1>2, RequestsAreAsks, HoldsType
  <2>2. g = h
    BY <1>5, <2>1
  <2>3. j = k /\ ~Cached(ni[g], j)
    BY <1>5, <1>8, <2>2 DEF o
  <2>4. asked[g][j] \in Nat
    BY <1>2
  <2> QED BY <2>3, <2>4, TimeAssumption DEF IInv, AskedInv
<1> QED BY <1>10, <1>11, <1>12, <1>13, <1>14 DEF IInv

(* A datagram's frame is accepted by the interface of its next hop only.   *)
LEMMA OnlyNextHop ==
  ASSUME NEW h \in Hosts, NEW j \in Hosts, NEW o, IsInterface(j, o), NEW f \in FramesOf(h)
  PROVE  \/ f.type = "ARP" /\ received(o, f) = <<>> /\ \A id : f \notin FramesWith(h, id)
         \/ /\ f.type = "IPv4" /\ f.payload \in Dgrams /\ f = DgramFrame(h, f.payload)
            /\ received(o, f) = IF j = f.payload.dst THEN <<f.payload>> ELSE <<>>
            /\ \A id : f \in FramesWith(h, id) <=> id = f.payload.id
<1>1. CASE f \in ArpFrames(h)
  <2>1. f.type = "ARP"
    BY <1>1 DEF ArpFrames
  <2> QED BY <2>1 DEF received, FramesWith, DgramFrame
<1>2. CASE f \notin ArpFrames(h)
  <2>1. PICK d \in Dgrams : f = DgramFrame(h, d)
    BY <1>2 DEF FramesOf
  <2>2. f.type = "IPv4" /\ f.payload = d /\ f.dst = eth[d.dst] /\ d.dst \in Hosts
    BY <2>1 DEF DgramFrame, Dgrams
  <2>3. Accepts(o, f) <=> j = d.dst
    BY <2>2, HostAssumption DEF Accepts, IsInterface
  <2>4. \A id : f \in FramesWith(h, id) <=> id = d.id
    BY <2>1, <2>2, Zenon DEF FramesWith, DgramFrame
  <2> QED BY <2>1, <2>2, <2>3, <2>4 DEF received
<1> QED BY <1>1, <1>2

(* What the transmission of a frame of h to the hosts in R does to host j: *)
(* h pops the frame, those who accept an ARP message learn from it, the    *)
(* next hop of a datagram passes it up.                                    *)
Reached(h, R, j, f) == j \in R /\ f.type = "ARP" /\ Accepts(ni[j], f)

TransmitEffect(h, R, j, f) ==
    /\ IsInterface(j, ni'[j])
    /\ got'[j] \in Seq({d \in Dgrams : d.dst = j})
    /\ ni'[j].mapping_cache = IF Reached(h, R, j, f) THEN Mapped(ni[j].mapping_cache, h, eth[h])
                                                     ELSE ni[j].mapping_cache
    /\ heard'[j] = IF Reached(h, R, j, f) THEN [heard[j] EXCEPT ![h] = 0] ELSE heard[j]
    /\ \A k : Asks(j, ni'[j], k) <= Asks(j, ni[j], k)
    /\ \A id \in Nat :
          IF f \notin FramesWith(h, id) THEN CopiesAt(j, id)' = CopiesAt(j, id)
          ELSE IF j = h THEN CopiesAt(j, id)' = CopiesAt(j, id) - 1
          ELSE CopiesAt(j, id)' <= CopiesAt(j, id) + (IF j = f.payload.dst THEN 1 ELSE 0)

(* The sender's side: std::queue::pop. *)
LEMMA PopFacts ==
  ASSUME IInv, NEW h \in Hosts, NEW R \in SUBSET (Hosts \ {h}), Transmit(h, R)
  PROVE  /\ Head(ni[h].frames_out) \in FramesOf(h)
         /\ TransmitEffect(h, R, h, Head(ni[h].frames_out))
<1> DEFINE o == ni[h]
           f == Head(o.frames_out)
           q == [o EXCEPT !.frames_out = Tail(o.frames_out)]
<1>1. IsInterface(h, o) /\ got[h] \in Seq({d \in Dgrams : d.dst = h}) /\ h \notin R
  BY DEF IInv, TypeInv
<1>2. ni'[h] = q /\ got'[h] = got[h] /\ heard'[h] = heard[h] /\ o.frames_out # <<>>
  BY <1>1 DEF Transmit
<1>3. o.frames_out \in Seq(FramesOf(h))
  BY <1>1 DEF IsInterface
<1>4. f \in FramesOf(h) /\ Tail(o.frames_out) \in Seq(FramesOf(h))
  BY <1>2, <1>3, HeadTailProperties
<1> HIDE DEF o, f
<1>5. /\ q.frames_out = Tail(o.frames_out) /\ q.mapping_cache = o.mapping_cache
      /\ q.ARP_queue = o.ARP_queue /\ IsInterface(h, q)
  BY <1>1, <1>4, Zenon DEF IsInterface
<1> HIDE DEF q
<1>6. ASSUME NEW S
      PROVE  /\ Number(o.frames_out, S) = Number(q.frames_out, S) + (IF f \in S THEN 1 ELSE 0)
             /\ Number(q.frames_out, S) \in Nat
  <2>1. Number(o.frames_out, S)
          = Number(Tail(o.frames_out), S) + (IF Head(o.frames_out) \in S THEN 1 ELSE 0)
    BY <1>2, <1>3, NumberTail
  <2>2. Number(Tail(o.frames_out), S) \in Nat
    <3>1. Len(Tail(o.frames_out)) \in Nat
      BY <1>4, LenProperties
    <3> QED BY <3>1, NumberType, Zenon
  <2> QED BY <1>5, <2>1, <2>2 DEF f
<1>7. \A k : Asks(h, q, k) <= Asks(h, o, k)
  BY <1>6 DEF Asks
<1>8. ASSUME NEW id \in Nat
      PROVE  CopiesAt(h, id) = CopiesAt(h, id)' + (IF f \in FramesWith(h, id) THEN 1 ELSE 0)
             /\ CopiesAt(h, id)' \in Nat
  <2> DEFINE a == Number(q.frames_out, FramesWith(h, id))
             b == Number(o.ARP_queue, WaitersWith(id))
             c == Number(got[h], DgramsWith(id))
             e == IF f \in FramesWith(h, id) THEN 1 ELSE 0
  <2>1. a \in Nat /\ b \in Nat /\ c \in Nat /\ e \in Nat
    BY <1>1, <1>6, NumberType, SMTT(60) DEF IsInterface
  <2>2. CopiesAt(h, id) = (a + e) + b + c
    BY <1>6, Zenon DEF CopiesAt, Holds, o
  <2>3. CopiesAt(h, id)' = a + b + c
    BY <1>2, <1>5, Zenon DEF CopiesAt, Holds
  <2> HIDE DEF a, b, c, e
  <2>4. CopiesAt(h, id) = CopiesAt(h, id)' + e /\ CopiesAt(h, id)' \in Nat
    BY <2>1, <2>2, <2>3
  <2> QED BY <2>4 DEF e
<1>9. ~Reached(h, R, h, f)
  BY <1>1 DEF Reached
<1>10. \A id \in Nat :
          IF f \notin FramesWith(h, id) THEN CopiesAt(h, id)' = CopiesAt(h, id)
          ELSE CopiesAt(h, id)' = CopiesAt(h, id) - 1
  BY <1>8, SMTT(60)
<1>11. TransmitEffect(h, R, h, f)
  BY <1>1, <1>2, <1>5, <1>7, <1>9, <1>10, SMTT(60) DEF TransmitEffect, o
<1> QED BY <1>4, <1>11 DEF f, o

(* Everybody else: recv_frame at those in R, nothing at the others. *)
LEMMA ReachFacts ==
  ASSUME IInv, NEW h \in Hosts, NEW R \in SUBSET (Hosts \ {h}), Transmit(h, R),
         NEW j \in Hosts, j # h
  PROVE  TransmitEffect(h, R, j, Head(ni[h].frames_out))
<1> DEFINE o == ni[j]
           f == Head(ni[h].frames_out)
           got1 == got[j] \o received(o, f)
<1>1. IsInterface(j, o) /\ got[j] \in Seq({d \in Dgrams : d.dst = j})
  BY DEF IInv, TypeInv
<1>2. f \in FramesOf(h)
  BY PopFacts
<1>3. /\ ni'[j] = IF j \in R THEN recv_frame(o, f) ELSE o
      /\ got'[j] = IF j \in R THEN got1 ELSE got[j]
      /\ heard'[j] = IF Reached(h, R, j, f) THEN [heard[j] EXCEPT ![h] = 0] ELSE heard[j]
  BY DEF Transmit, Reached
<1>4. \A id : CopiesAt(j, id) \in Nat /\ Number(got[j], DgramsWith(id)) \in Nat
              /\ Holds(j, o, id) \in Nat /\ Asks(j, o, id) \in Nat
  BY <1>1, CopiesType, HoldsType, SMTT(60) DEF IInv
<1> HIDE DEF o, f
<1>5. /\ IsInterface(j, ni'[j])
      /\ ni'[j].mapping_cache = IF Reached(h, R, j, f) THEN Mapped(o.mapping_cache, h, eth[h])
                                                       ELSE o.mapping_cache
      /\ \A id : Holds(j, ni'[j], id) = Holds(j, o, id)
      /\ \A k : Asks(j, ni'[j], k) = Asks(j, o, k)
  <2>1. CASE Reached(h, R, j, f)
    <3>1. j \in R /\ Accepts(o, f) /\ f.type = "ARP"
      BY <2>1, SMTT(60) DEF Reached, o
    <3>2. RecvEffect(j, o, ni'[j], h)
      BY <1>1, <1>2, <1>3, <3>1, RecvFacts, SMTT(60)
    <3> QED BY <2>1, <3>2 DEF RecvEffect
  <2>2. CASE ~Reached(h, R, j, f)
    <3>1. ni'[j] = o
      <4>1. CASE j \in R
        <5>1. ~(Accepts(o, f) /\ f.type = "ARP")
          BY <2>2, <4>1, SMTT(60) DEF Reached, o
        <5> QED BY <1>1, <1>2, <1>3, <4>1, <5>1, RecvFacts, SMTT(60)
      <4> QED BY <1>3, <4>1, SMTT(60)
    <3> QED BY <1>1, <2>2, <3>1, SMTT(60)
  <2> QED BY <2>1, <2>2, Zenon
<1> DEFINE D == {d \in Dgrams : d.dst = j}
<1>6. /\ got'[j] \in Seq(D)
      /\ \A id : Number(got'[j], DgramsWith(id)) <= Number(got[j], DgramsWith(id))
                     + (IF f \in FramesWith(h, id) /\ j = f.payload.dst THEN 1 ELSE 0)
      /\ \A id : Number(got'[j], DgramsWith(id)) \in Nat
      /\ \A id : f \notin FramesWith(h, id)
                   => Number(got'[j], DgramsWith(id)) = Number(got[j], DgramsWith(id))
  <2>1. CASE got'[j] = got[j]
    BY <1>1, <1>4, <2>1, SMTT(60)
  <2>2. CASE got'[j] # got[j]
    <3>1. j \in R /\ received(o, f) # <<>>
      <4>1. got[j] \o <<>> = got[j]
        BY <1>1, ConcatEmptySeq
      <4> QED BY <1>3, <2>2, <4>1, Zenon
    <3>2. /\ f.payload \in Dgrams /\ j = f.payload.dst /\ received(o, f) = <<f.payload>>
          /\ \A id : f \in FramesWith(h, id) <=> id = f.payload.id
      BY <1>1, <1>2, <3>1, OnlyNextHop, SMTT(60)
    <3>3. f.payload \in D
      BY <3>2, SMTT(60)
    <3>4. got'[j] = Append(got[j], f.payload)
      <4>1. got'[j] = got[j] \o <<f.payload>>
        BY <1>3, <3>1, <3>2, Zenon
      <4>2. Append(got[j], f.payload) = got[j] \o <<f.payload>>
        BY <1>1, <3>3, AppendIsConcat, ZenonT(30)
      <4> QED BY <4>1, <4>2, Zenon
    <3>5. got'[j] \in Seq(D)
      BY <1>1, <3>3, <3>4, AppendProperties, SMTT(60)
    <3>6. ASSUME NEW id
          PROVE  Number(got'[j], DgramsWith(id))
                   = Number(got[j], DgramsWith(id)) + (IF f \in FramesWith(h, id) THEN 1 ELSE 0)
      <4>1. f.payload \in DgramsWith(id) <=> f \in FramesWith(h, id)
        BY <3>2, SMTT(60) DEF DgramsWith
      <4> QED BY <1>1, <3>3, <3>4, <4>1, NumberAppend, SMTT(60)
    <3> QED BY <1>4, <3>2, <3>5, <3>6, SMTT(60)
  <2> QED BY <2>1, <2>2, SMTT(60)
<1>7. ASSUME NEW id \in Nat
      PROVE  /\ CopiesAt(j, id)' = Holds(j, o, id) + Number(got'[j], DgramsWith(id))
             /\ CopiesAt(j, id) = Holds(j, o, id) + Number(got[j], DgramsWith(id))
  BY <1>5 DEF CopiesAt, o
<1>8. ASSUME NEW id \in Nat
      PROVE  IF f \notin FramesWith(h, id) THEN CopiesAt(j, id)' = CopiesAt(j, id)
             ELSE CopiesAt(j, id)' <= CopiesAt(j, id) + (IF j = f.payload.dst THEN 1 ELSE 0)
  <2>1. CASE f \notin FramesWith(h, id)
    BY <1>6, <1>7, <2>1
  <2>2. CASE f \in FramesWith(h, id)
    <3> DEFINE a == Holds(j, o, id)
               b == Number(got[j], DgramsWith(id))
               b1 == Number(got'[j], DgramsWith(id))
               e == IF j = f.payload.dst THEN 1 ELSE 0
    <3>1. a \in Nat /\ b \in Nat /\ b1 \in Nat /\ e \in Nat
      BY <1>4, <1>6, SMTT(60)
    <3>2. b1 <= b + e
      BY <1>6, <2>2, SMTT(60)
    <3>3. CopiesAt(j, id)' = a + b1 /\ CopiesAt(j, id) = a + b
      BY <1>7
    <3> HIDE DEF a, b, b1, e
    <3>4. CopiesAt(j, id)' <= CopiesAt(j, id) + e
      BY <3>1, <3>2, <3>3, SMTT(60)
    <3> QED BY <2>2, <3>4, SMTT(60) DEF e
  <2> QED BY <2>1, <2>2, SMTT(60)
<1>9. \A k : Asks(j, ni'[j], k) <= Asks(j, o, k)
  BY <1>4, <1>5
<1> QED BY <1>3, <1>5, <1>6, <1>8, <1>9 DEF TransmitEffect, o, f

(* The transmission of a frame keeps the invariant and asks nothing new. *)
LEMMA TransmitInv ==
  ASSUME IInv, NEW h \in Hosts, NEW R \in SUBSET (Hosts \ {h}), Transmit(h, R)
  PROVE  /\ IInv'
         /\ \A g, k \in Hosts : ~(Requests(ni'[g], k) > Requests(ni[g], k))
<1> DEFINE f == Head(ni[h].frames_out)
<1>1. f \in FramesOf(h) /\ \A j \in Hosts : TransmitEffect(h, R, j, f)
  BY PopFacts, ReachFacts
<1>2. /\ ni' = [j \in Hosts |-> ni'[j]] /\ got' = [j \in Hosts |-> got'[j]]
      /\ heard' = [j \in Hosts |-> heard'[j]] /\ sent' = sent /\ asked' = asked
  BY DEF Transmit
<1>3. /\ sent \in Nat /\ \A j \in Hosts : IsInterface(j, ni[j])
      /\ asked \in [Hosts -> [Hosts -> Nat]] /\ heard \in [Hosts -> [Hosts -> Nat]]
  BY SMTT(60) DEF IInv, TypeInv
<1> HIDE DEF f
<1>4. ASSUME NEW j \in Hosts
      PROVE  IsInterface(j, ni'[j]) /\ got'[j] \in Seq({d \in Dgrams : d.dst = j})
  BY <1>1, Zenon DEF TransmitEffect
<1>4a. ASSUME NEW j \in Hosts, Reached(h, R, j, f)
       PROVE  /\ heard'[j] \in [Hosts -> Nat] /\ heard'[j][h] = 0
              /\ \A k \in Hosts : k # h => heard'[j][k] = heard[j][k]
              /\ DOMAIN ni'[j].mapping_cache = DOMAIN ni[j].mapping_cache \cup {h}
              /\ ni'[j].mapping_cache[h].second = 0
              /\ \A k \in Hosts : k \in DOMAIN ni[j].mapping_cache /\ k # h
                    => ni'[j].mapping_cache[k] = ni[j].mapping_cache[k]
  <2>1. /\ heard'[j] = [heard[j] EXCEPT ![h] = 0]
        /\ ni'[j].mapping_cache = Mapped(ni[j].mapping_cache, h, eth[h])
    BY <1>1, <1>4a, Zenon DEF TransmitEffect
  <2>2. heard[j] \in [Hosts -> Nat]
    BY <1>3
  <2>3. /\ heard'[j] \in [Hosts -> Nat] /\ heard'[j][h] = 0
        /\ \A k \in Hosts : k # h => heard'[j][k] = heard[j][k]
    BY <2>1, <2>2
  <2> QED BY <2>1, <2>3 DEF Mapped
<1>4b. ASSUME NEW j \in Hosts, ~Reached(h, R, j, f)
       PROVE  heard'[j] = heard[j] /\ ni'[j].mapping_cache = ni[j].mapping_cache
  BY <1>1, <1>4b, Zenon DEF TransmitEffect
<1>4c. ASSUME NEW j \in Hosts, NEW k PROVE Asks(j, ni'[j], k) <= Asks(j, ni[j], k)
  BY <1>1, Zenon DEF TransmitEffect
<1>5. TypeInv'
  <2>1. ASSUME NEW j \in Hosts PROVE heard'[j] \in [Hosts -> Nat]
    <3>1. CASE Reached(h, R, j, f)
      BY <1>4a, <3>1
    <3>2. CASE ~Reached(h, R, j, f)
      BY <1>3, <1>4b, <3>2, SMTT(60)
    <3> QED BY <3>1, <3>2
  <2> QED BY <1>2, <1>3, <1>4, <2>1, ZenonT(60) DEF TypeInv
<1>6. HeardInv'
  <2> SUFFICES ASSUME NEW j \in Hosts, NEW k \in Hosts, Known(ni'[j], k)
               PROVE  heard'[j][k] <= ni'[j].mapping_cache[k].second
    BY DEF HeardInv
  <2>1. CASE Reached(h, R, j, f) /\ k = h
    <3>1. heard'[j][k] = 0 /\ ni'[j].mapping_cache[k].second = 0
      BY <1>4a, <2>1, SMTT(60)
    <3> QED BY <3>1, SMTT(60)
  <2>2. CASE ~(Reached(h, R, j, f) /\ k = h)
    <3>1. heard'[j][k] = heard[j][k] /\ Known(ni[j], k)
          /\ ni'[j].mapping_cache[k] = ni[j].mapping_cache[k]
      <4>1. CASE Reached(h, R, j, f)
        BY <1>4a, <2>2, <4>1, SMTT(60) DEF Known, Pending, Cached
      <4>2. CASE ~Reached(h, R, j, f)
        BY <1>4b, <4>2, SMTT(60) DEF Known, Pending, Cached
      <4> QED BY <4>1, <4>2, SMTT(60)
    <3> QED BY <3>1, SMTT(60) DEF IInv, HeardInv
  <2> QED BY <2>1, <2>2
<1>7. AskedInv'
  <2> SUFFICES ASSUME NEW j \in Hosts, NEW k \in Hosts, asked[j][k] < PENDING_TIME
               PROVE  Cached(ni'[j], k) /\ ni'[j].mapping_cache[k].second <= asked[j][k]
    BY <1>2, SMTT(60) DEF AskedInv
  <2>1. Cached(ni[j], k) /\ ni[j].mapping_cache[k].second <= asked[j][k] /\ asked[j][k] \in Nat
    BY <1>3, SMTT(60) DEF IInv, AskedInv
  <2>2. Cached(ni'[j], k)
        /\ (ni'[j].mapping_cache[k] = ni[j].mapping_cache[k] \/ ni'[j].mapping_cache[k].second = 0)
    <3>1. CASE Reached(h, R, j, f)
      BY <1>4a, <2>1, <3>1, SMTT(60) DEF Cached
    <3>2. CASE ~Reached(h, R, j, f)
      BY <1>4b, <2>1, <3>2, SMTT(60) DEF Cached
    <3> QED BY <3>1, <3>2, SMTT(60)
  <2> QED BY <2>1, <2>2
<1>8. CopyInv'
  <2> SUFFICES ASSUME NEW id \in Nat
               PROVE  /\ \A j \in Hosts : CopiesAt(j, id)' <= 1
                      /\ \A j, k \in Hosts : CopiesAt(j, id)' > 0 /\ CopiesAt(k, id)' > 0 => j = k
                      /\ id > sent => \A j \in Hosts : CopiesAt(j, id)' = 0
    BY <1>2 DEF CopyInv
  <2>1. /\ \A j \in Hosts : CopiesAt(j, id) <= 1
        /\ \A j, k \in Hosts : CopiesAt(j, id) > 0 /\ CopiesAt(k, id) > 0 => j = k
        /\ id > sent => \A j \in Hosts : CopiesAt(j, id) = 0
    BY DEF IInv, CopyInv
  <2>2. \A j \in Hosts : CopiesAt(j, id) \in Nat /\ CopiesAt(j, id)' \in Nat
    <3>1. \A j \in Hosts : CopiesAt(j, id) \in Nat
      BY CopiesType DEF IInv
    <3>2. ASSUME NEW j \in Hosts PROVE CopiesAt(j, id)' \in Nat
      <4>1. Holds(j, ni'[j], id) \in Nat
        BY <1>4, HoldsType, Zenon
      <4>2. Len(got'[j]) \in Nat
        BY <1>4, LenProperties
      <4>3. Number(got'[j], DgramsWith(id)) \in Nat
        BY <4>2, NumberType
      <4> QED BY <4>1, <4>3 DEF CopiesAt
    <3> QED BY <3>1, <3>2
  <2>3. CASE f \notin FramesWith(h, id)
    <3>1. \A j \in Hosts : CopiesAt(j, id)' = CopiesAt(j, id)
      BY <1>1, <2>3, Zenon DEF TransmitEffect
    <3> QED BY <2>1, <3>1
  <2>4. CASE f \in FramesWith(h, id)
    <3>1. CopiesAt(h, id)' = CopiesAt(h, id) - 1
      BY <1>1, <2>4, Zenon DEF TransmitEffect
    <3>2. CopiesAt(h, id) = 1 /\ CopiesAt(h, id)' = 0
      BY <2>1, <2>2, <3>1
    <3>3. \A j \in Hosts : j # h => CopiesAt(j, id) = 0
      BY <2>1, <2>2, <3>2
    <3>4. ASSUME NEW j \in Hosts, j # h
          PROVE  CopiesAt(j, id)' <= 0 + (IF j = f.payload.dst THEN 1 ELSE 0)
      BY <1>1, <2>4, <3>3, <3>4, Zenon DEF TransmitEffect
    <3>5. \A j \in Hosts : CopiesAt(j, id)' <= 1 /\ (CopiesAt(j, id)' > 0 => j = f.payload.dst)
      BY <2>2, <3>2, <3>4
    <3> QED BY <2>1, <3>2, <3>5
  <2> QED BY <2>3, <2>4
<1>9. ASSUME NEW g \in Hosts, NEW k \in Hosts PROVE ~(Requests(ni'[g], k) > Requests(ni[g], k))
  <2>1. /\ Requests(ni'[g], k) = Asks(g, ni'[g], k) /\ Requests(ni[g], k) = Asks(g, ni[g], k)
        /\ Asks(g, ni[g], k) \in Nat /\ Asks(g, ni'[g], k) \in Nat
    BY <1>3, <1>4, RequestsAreAsks, HoldsType, Zenon
  <2>2. Asks(g, ni'[g], k) <= Asks(g, ni[g], k)
    BY <1>4c
  <2> QED BY <2>1, <2>2
<1> QED BY <1>5, <1>6, <1>7, <1>8, <1>9 DEF IInv

(* tick keeps the invariant: an entry ages as fast as the time since the   *)
(* host was heard or asked for, and a request that is still awaited is not *)
(* forgotten, nor is an address learnt after it, PENDING_TIME being no     *)
(* longer than MAPPING_TIME.                                               *)
LEMMA TickInv ==
  ASSUME IInv, NEW h \in Hosts, Tick(h)
  PROVE  /\ IInv'
         /\ \A g, k \in Hosts : ~(Requests(ni'[g], k) > Requests(ni[g], k))
<1> DEFINE o == ni[h]
           q == interface_tick(o, 1)
<1>1. /\ ni' = [ni EXCEPT ![h] = q] /\ asked' = [asked EXCEPT ![h] = Aged(asked[h])]
      /\ heard' = [heard EXCEPT ![h] = Aged(heard[h])] /\ got' = got /\ sent' = sent
  BY DEF Tick
<1>2. /\ ni = [g \in Hosts |-> ni[g]] /\ \A g \in Hosts : IsInterface(g, ni[g])
      /\ asked \in [Hosts -> [Hosts -> Nat]] /\ heard \in [Hosts -> [Hosts -> Nat]]
  BY DEF IInv, TypeInv
<1>3. TickEffect(h, o, q)
  BY <1>2, TickFacts, SMTT(60)
<1> HIDE DEF q
<1>4. /\ IsInterface(h, q) /\ q.frames_out = o.frames_out /\ q.ARP_queue = o.ARP_queue
      /\ \A k \in DOMAIN q.mapping_cache :
            /\ k \in DOMAIN o.mapping_cache
            /\ q.mapping_cache[k].first = o.mapping_cache[k].first
            /\ q.mapping_cache[k].second = o.mapping_cache[k].second + 1
      /\ \A k \in DOMAIN o.mapping_cache :
            o.mapping_cache[k].second + 1 < Lifetime(o.mapping_cache[k])
               => k \in DOMAIN q.mapping_cache
  BY <1>3 DEF TickEffect
<1>5. ni' = [g \in Hosts |-> ni'[g]] /\ ni'[h] = q /\ \A g \in Hosts : g # h => ni'[g] = ni[g]
  BY <1>1, <1>2
<1>6. Never \in Nat /\ Never >= PENDING_TIME /\ Never >= MAPPING_TIME
  BY TimeAssumption DEF Never
<1>7. ASSUME NEW t \in [Hosts -> Nat]
      PROVE  /\ Aged(t) \in [Hosts -> Nat]
             /\ \A k \in Hosts : Aged(t)[k] = (IF t[k] < Never THEN t[k] + 1 ELSE Never)
  BY <1>6 DEF Aged
<1>8. /\ asked' \in [Hosts -> [Hosts -> Nat]] /\ heard' \in [Hosts -> [Hosts -> Nat]]
      /\ \A g \in Hosts : g # h => asked'[g] = asked[g] /\ heard'[g] = heard[g]
      /\ \A k \in Hosts : asked'[h][k] = (IF asked[h][k] < Never THEN asked[h][k] + 1 ELSE Never)
      /\ \A k \in Hosts : heard'[h][k] = (IF heard[h][k] < Never THEN heard[h][k] + 1 ELSE Never)
  BY <1>1, <1>2, <1>7, SMTT(60)
<1>9. TypeInv'
  <2>1. \A g \in Hosts : IsInterface(g, ni'[g])
    BY <1>2, <1>4, <1>5, SMTT(60)
  <2> QED BY <1>1, <1>5, <1>8, <2>1, SMTT(60) DEF IInv, TypeInv
<1>10. ASSUME NEW k \in DOMAIN o.mapping_cache
       PROVE  o.mapping_cache[k].second \in Nat /\ Lifetime(o.mapping_cache[k]) >= PENDING_TIME
              /\ Lifetime(o.mapping_cache[k]) <= Never /\ Lifetime(o.mapping_cache[k]) \in Nat
              /\ o.mapping_cache[k].second < Lifetime(o.mapping_cache[k])
  <2>1. o.mapping_cache[k] \in Entries(k) /\ o.mapping_cache[k].second < Lifetime(o.mapping_cache[k])
    BY <1>2, Zenon DEF IsInterface, IsCache
  <2>2. Lifetime(o.mapping_cache[k]) \in {PENDING_TIME, MAPPING_TIME}
    BY DEF Lifetime
  <2> QED BY <1>6, <2>1, <2>2, TimeAssumption DEF Entries
<1> HIDE DEF o
<1>11. HeardInv'
  <2> SUFFICES ASSUME NEW g \in Hosts, NEW k \in Hosts, Known(ni'[g], k)
               PROVE  heard'[g][k] <= ni'[g].mapping_cache[k].second
    BY DEF HeardInv
  <2>1. CASE g # h
    BY <1>5, <1>8, <2>1 DEF IInv, HeardInv
  <2>2. CASE g = h
    <3>1. /\ k \in DOMAIN o.mapping_cache /\ Known(o, k)
          /\ q.mapping_cache[k].second = o.mapping_cache[k].second + 1
      BY <1>4, <1>5, <2>2, SMTT(60) DEF Known, Pending, Cached
    <3>2. heard[h][k] <= o.mapping_cache[k].second /\ heard[h][k] \in Nat
      BY <1>2, <3>1, SMTT(60) DEF IInv, HeardInv, o
    <3>3. heard[h][k] < Never
      BY <1>6, <1>10, <3>1, <3>2, SMTT(60)
    <3>4. heard'[h][k] = heard[h][k] + 1
      BY <1>8, <3>3
    <3>5. heard'[h][k] <= q.mapping_cache[k].second
      BY <1>10, <3>1, <3>2, <3>4, SMTT(60)
    <3> QED BY <1>5, <2>2, <3>5, SMTT(60)
  <2> QED BY <2>1, <2>2
<1>12. AskedInv'
  <2> SUFFICES ASSUME NEW g \in Hosts, NEW k \in Hosts, asked'[g][k] < PENDING_TIME
               PROVE  Cached(ni'[g], k) /\ ni'[g].mapping_cache[k].second <= asked'[g][k]
    BY DEF AskedInv
  <2>1. CASE g # h
    BY <1>5, <1>8, <2>1 DEF IInv, AskedInv
  <2>2. CASE g = h
    <3>1. asked[h][k] \in Nat /\ asked'[h][k] = asked[h][k] + 1 /\ asked[h][k] + 1 < PENDING_TIME
      BY <1>2, <1>6, <1>8, <2>2, TimeAssumption, SMTT(60)
    <3>2. k \in DOMAIN o.mapping_cache /\ o.mapping_cache[k].second <= asked[h][k]
      <4>1. asked[h][k] < PENDING_TIME
        BY <3>1, TimeAssumption
      <4> QED BY <4>1 DEF IInv, AskedInv, Cached, o
    <3>3. o.mapping_cache[k].second + 1 < Lifetime(o.mapping_cache[k])
      BY <1>10, <3>1, <3>2, TimeAssumption, SMTT(60)
    <3>4. k \in DOMAIN q.mapping_cache /\ q.mapping_cache[k].second = o.mapping_cache[k].second + 1
      BY <1>4, <3>2, <3>3, SMTT(60)
    <3>5. q.mapping_cache[k].second <= asked'[h][k]
      BY <1>10, <3>1, <3>2, <3>4, SMTT(60)
    <3> QED BY <1>5, <2>2, <3>4, <3>5, SMTT(60) DEF Cached
  <2> QED BY <2>1, <2>2
<1>13. CopyInv'
  <2>1. \A g \in Hosts : \A id : Holds(g, ni'[g], id) = Holds(g, ni[g], id)
    BY <1>4, <1>5 DEF Holds, o
  <2>2. \A id \in Nat : \A g \in Hosts : CopiesAt(g, id)' = CopiesAt(g, id)
    BY <1>1, <2>1, SMTT(60) DEF CopiesAt
  <2> QED BY <1>1, <2>2, SMTT(60) DEF IInv, CopyInv
<1>14. \A g, k \in Hosts : Requests(ni'[g], k) = Requests(ni[g], k)
  BY <1>4, <1>5, ZenonT(60) DEF Requests, o
<1>15. \A g, k \in Hosts : Requests(ni[g], k) \in Nat
  BY <1>2, RequestsAreAsks, HoldsType
<1>16. \A g, k \in Hosts : ~(Requests(ni'[g], k) > Requests(ni[g], k))
  BY <1>14, <1>15
<1> QED BY <1>9, <1>11, <1>12, <1>13, <1>16 DEF IInv

(* Every step keeps the invariant, and asks only for an address that was   *)
(* not asked for within PENDING_TIME.                                      *)
LEMMA NextInv ==
  ASSUME IInv, [Next]_vars
  PROVE  /\ IInv'
         /\ \A h, k \in Hosts : Requests(ni'[h], k) > Requests(ni[h], k)
                                   => asked[h][k] >= PENDING_TIME
<1>1. CASE \E h \in Active : \E k \in Hosts \ {h} : Send(h, k)
  <2>1. PICK h \in Hosts, k \in Hosts : Send(h, k)
    BY <1>1, HostAssumption
  <2> QED BY <2>1, SendInv
<1>2. CASE \E h \in Hosts : \E R \in SUBSET (Hosts \ {h}) : Transmit(h, R)
  <2>1. PICK h \in Hosts : \E R \in SUBSET (Hosts \ {h}) : Transmit(h, R)
    BY <1>2
  <2>2. PICK R \in SUBSET (Hosts \ {h}) : Transmit(h, R)
    BY <2>1
  <2> QED BY <2>2, TransmitInv
<1>3. CASE \E h \in Active : Tick(h)
  <2>1. PICK h \in Hosts : Tick(h)
    BY <1>3, HostAssumption
  <2> QED BY <2>1, TickInv
<1>4. CASE UNCHANGED vars
  <2>1. ni' = ni /\ got' = got /\ sent' = sent /\ asked' = asked /\ heard' = heard
    BY <1>4 DEF vars
  <2>2. \A h \in Hosts : IsInterface(h, ni[h])
    BY DEF IInv, TypeInv
  <2>3. ASSUME NEW h \in Hosts, NEW k \in Hosts PROVE ~(Requests(ni[h], k) > Requests(ni[h], k))
    <3>1. Requests(ni[h], k) \in Nat
      BY <2>2, RequestsAreAsks, HoldsType, SMTT(60)
    <3> QED BY <3>1
  <2>4. IInv'
    BY <2>1 DEF IInv, TypeInv, HeardInv, AskedInv, CopyInv, CopiesAt
  <2> QED BY <2>1, <2>3, <2>4
<1> QED BY <1>1, <1>2, <1>3, <1>4 DEF Next

(* The invariant holds in every reachable state: what the interfaces hold  *)
(* is well formed, an entry of the cache is no younger than the last ARP   *)
(* message of its host, a request that is awaited has its entry, and a     *)
(* datagram is in one place at most.                                       *)
THEOREM InterfaceInvariant == Spec => []IInv
<1>1. IInv /\ [Next]_vars => IInv'
  BY NextInv
<1> QED BY InitInv, <1>1, PTL DEF Spec

(* An address in the cache is the one of the host and was confirmed by the *)
(* host within MAPPING_TIME, for any number of hosts, datagrams and        *)
(* losses.                                                                 *)
THEOREM InterfaceCache == Spec => []CacheIsTrue
<1>1. ASSUME IInv PROVE CacheIsTrue
  <2> SUFFICES ASSUME NEW h \in Hosts, NEW k \in Hosts, Known(ni[h], k)
               PROVE  ni[h].mapping_cache[k].first = eth[k] /\ heard[h][k] < MAPPING_TIME
    BY DEF CacheIsTrue
  <2> DEFINE e == ni[h].mapping_cache[k]
  <2>1. IsCache(ni[h].mapping_cache) /\ heard[h][k] \in Nat /\ heard[h][k] <= e.second
    BY <1>1 DEF IInv, TypeInv, IsInterface, HeardInv
  <2>2. k \in DOMAIN ni[h].mapping_cache /\ e.first # ETHERNET_BROADCAST
    BY SMTT(60) DEF Known, Pending, Cached
  <2>3. e \in Entries(k) /\ e.second < Lifetime(e)
    BY <2>1, <2>2 DEF IsCache
  <2> HIDE DEF e
  <2>4. e.first = eth[k] /\ e.second \in Nat /\ Lifetime(e) = MAPPING_TIME
    BY <2>2, <2>3, SMTT(60) DEF Entries, Lifetime
  <2>5. heard[h][k] < MAPPING_TIME
    BY <2>1, <2>3, <2>4, TimeAssumption
  <2> QED BY <2>4, <2>5, SMTT(60) DEF e
<1> QED BY <1>1, InterfaceInvariant, PTL

(* Two requests of a host for the same address are PENDING_TIME apart,     *)
(* however replies, expiries and datagrams interleave.                     *)
THEOREM InterfaceSpacesRequests == Spec => RequestsAreSpaced
<1>1. IInv /\ [Next]_vars
        => [\A h, k \in Hosts : Requests(ni'[h], k) > Requests(ni[h], k)
                                    => asked[h][k] >= PENDING_TIME]_vars
  BY NextInv, SMTT(60)
<1> QED BY <1>1, InterfaceInvariant, PTL DEF Spec, RequestsAreSpaced

(* The copies of a datagram in frames_out, in ARP_queue and passed up, as  *)
(* the property counts them, are those of the invariant.                   *)
LEMMA CopiesCounted ==
  ASSUME TypeInv, NEW id \in Nat
  PROVE  Copies(id) = {c \in Hosts \X {1, 2} : c[2] <= CopiesAt(c[1], id)}
<1>1. ASSUME NEW h \in Hosts
      PROVE  /\ {i \in 1 .. Len(ni[h].frames_out) :
                    ni[h].frames_out[i].type = "IPv4" /\ ni[h].frames_out[i].payload.id = id}
                  = Hits(ni[h].frames_out, FramesWith(h, id))
             /\ {i \in 1 .. Len(ni[h].ARP_queue) : ni[h].ARP_queue[i].dgram.id = id}
                  = Hits(ni[h].ARP_queue, WaitersWith(id))
             /\ {i \in 1 .. Len(got[h]) : got[h][i].id = id} = Hits(got[h], DgramsWith(id))
  <2>1. /\ ni[h].frames_out \in Seq(FramesOf(h)) /\ ni[h].ARP_queue \in Seq(Waiters)
        /\ got[h] \in Seq({d \in Dgrams : d.dst = h})
    BY DEF TypeInv, IsInterface
  <2>2. \A f \in FramesOf(h) : f \in FramesWith(h, id) <=> f.type = "IPv4" /\ f.payload.id = id
    BY DEF FramesOf, FramesWith, ArpFrames, DgramFrame
  <2>3. \A w \in Waiters : w \in WaitersWith(id) <=> w.dgram.id = id
    BY DEF Waiters, WaitersWith, Waiter
  <2>4. \A d \in Dgrams : d \in DgramsWith(id) <=> d.id = id
    BY DEF DgramsWith
  <2>5. /\ \A i \in 1 .. Len(ni[h].frames_out) : ni[h].frames_out[i] \in FramesOf(h)
        /\ \A i \in 1 .. Len(ni[h].ARP_queue) : ni[h].ARP_queue[i] \in Waiters
        /\ \A i \in 1 .. Len(got[h]) : got[h][i] \in Dgrams
    BY <2>1
  <2> QED BY <2>2, <2>3, <2>4, <2>5, SMTT(60) DEF Hits
<1>2. Copies(id) = {c \in Hosts \X {1, 2} :
         c[2] <= Cardinality({i \in 1 .. Len(ni[c[1]].frames_out) :
                    ni[c[1]].frames_out[i].type = "IPv4" /\ ni[c[1]].frames_out[i].payload.id = id})
                 + Cardinality({i \in 1 .. Len(ni[c[1]].ARP_queue) : ni[c[1]].ARP_queue[i].dgram.id = id})
                 + Cardinality({i \in 1 .. Len(got[c[1]]) : got[c[1]][i].id = id})}
  BY Zenon DEF Copies, Count
<1>3. \A c \in Hosts \X {1, 2} : c[1] \in Hosts
  OBVIOUS
<1> QED BY <1>1, <1>2, <1>3, ZenonT(60) DEF CopiesAt, Holds, Number

(* A datagram is never doubled, neither on its way nor in what is passed   *)
(* up, and only the interface of its next hop passes it up.                *)
THEOREM InterfaceNeverDoubles == Spec => []AtMostOnce
<1>1. ASSUME IInv PROVE AtMostOnce
  <2>1. ASSUME NEW id \in 1 .. MaxDgrams PROVE Cardinality(Copies(id)) <= 1
    <3>1. id \in Nat
      BY HostAssumption
    <3>2. Copies(id) = {c \in Hosts \X {1, 2} : c[2] <= CopiesAt(c[1], id)}
      BY <1>1, <3>1, CopiesCounted, SMTT(60) DEF IInv
    <3>3. /\ \A h \in Hosts : CopiesAt(h, id) <= 1 /\ CopiesAt(h, id) \in Nat
          /\ \A h, k \in Hosts : CopiesAt(h, id) > 0 /\ CopiesAt(k, id) > 0 => h = k
      BY <1>1, <3>1, CopiesType DEF IInv, CopyInv
    <3>4. CASE Copies(id) = {}
      BY <3>4, FS_EmptySet
    <3>5. CASE Copies(id) # {}
      <4>1. PICK c : c \in Copies(id)
        BY <3>5
      <4>2. ASSUME NEW d \in Copies(id)
            PROVE  d[1] \in Hosts /\ d[2] = 1 /\ d = <<d[1], d[2]>> /\ CopiesAt(d[1], id) > 0
        BY <3>2, <3>3
      <4>3. \A d \in Copies(id) : d = c
        BY <3>3, <4>1, <4>2
      <4>4. Copies(id) = {c}
        BY <4>1, <4>3
      <4>5. Cardinality({c}) = 1
        BY FS_Singleton
      <4> QED BY <4>4, <4>5
    <3> QED BY <3>4, <3>5
  <2>2. ASSUME NEW h \in Hosts, NEW i \in 1 .. Len(got[h]) PROVE got[h][i].dst = h
    <3>1. got[h] \in Seq({d \in Dgrams : d.dst = h})
      BY <1>1 DEF IInv, TypeInv
    <3> QED BY <3>1
  <2> QED BY <2>1, <2>2 DEF AtMostOnce
<1> QED BY <1>1, InterfaceInvariant, PTL
=============================================================================
